----------------------------- MODULE MSRPStream -----------------------------
(***************************************************************************)
(* MSRPStreamBase: initialize(), start() and end() are green threads of    *)
(* the reactor, which run in the order of the calls up to their first      *)
(* wait.  end() kills the green thread that waits; killing is a wait of    *)
(* its own, in which the victim may still be resumed by what it waited     *)
(* for.  The kinds of MSRP streams add to these steps what they do in the  *)
(* handlers of the notifications.                                          *)
(***************************************************************************)
EXTENDS StreamUser

VARIABLE msrp

MSRPInit ==
  msrp = [jobs |-> <<>>, greenlet |-> "none", initialized |-> FALSE, done |-> FALSE,
          connector |-> "none", session |-> "none", shutting |-> FALSE,
          ending |-> "no", captured |-> FALSE]

Later(job) == msrp' = [msrp EXCEPT !.jobs = Append(@, job)]
Takes(call) == msrp.jobs # <<>> /\ Head(msrp.jobs) = call
Rest == Tail(msrp.jobs)
Waits(green) == msrp.greenlet = green

\* the calls of the session
DoInitialize == CallInitialize /\ Later("initialize")
DoStart      == CallStart /\ Later("start")
DoDeactivate == CallDeactivate /\ msrp' = [msrp EXCEPT !.shutting = TRUE]
DoEnd        == CallEnd /\ Later("end")

\* initialize() up to the wait in prepare(), and what becomes of it
RunInitialize ==
  /\ Takes("initialize")
  /\ msrp' = [msrp EXCEPT !.jobs = Rest, !.greenlet = "initialize"]
  /\ Silent /\ UNCHANGED slips
Prepared(connector) ==
  msrp' = [msrp EXCEPT !.greenlet = "none", !.initialized = TRUE, !.connector = connector]
Initialized ==
  /\ Waits("initialize") /\ Prepared("prepared") /\ Tell("DidInitialize")
  /\ slips' = IF msrp.ending # "no" THEN slips \cup {"overrun"} ELSE slips
NotInitialized ==
  Waits("initialize") /\ Prepared("failed") /\ Tell("DidNotInitialize") /\ UNCHANGED slips

\* start() up to the wait in complete(), and what becomes of it
RunStart ==
  /\ Takes("start")
  /\ msrp' = [msrp EXCEPT !.jobs = Rest, !.greenlet = "start"]
  /\ Silent /\ UNCHANGED slips
\* altered: the stream does not notice that its green thread is over
StartedKeepsGreenlet ==
  /\ Waits("start") /\ Tell("DidStart")
  /\ msrp' = [msrp EXCEPT !.connector = "none", !.session = "open"]
  /\ slips' = IF msrp.ending # "no" THEN slips \cup {"overrun"} ELSE slips
Started ==
  /\ Waits("start") /\ Tell("DidStart")
  /\ msrp' = [msrp EXCEPT !.greenlet = "none", !.connector = "none", !.session = "open"]
  /\ slips' = IF msrp.ending # "no" THEN slips \cup {"overrun"} ELSE slips
NotStarted ==
  /\ Waits("start") /\ Tell("DidFail")
  /\ msrp' = [msrp EXCEPT !.greenlet = "none"] /\ UNCHANGED slips

\* end(), of what the session has initialised
Ending(how) ==
  [msrp EXCEPT !.jobs = Rest, !.done = TRUE, !.ending = how, !.captured = msrp.session = "open"]
Interrupts ==
  /\ Takes("end") /\ ~msrp.done /\ ~msrp.initialized /\ Waits("initialize")
  /\ msrp' = Ending("interrupting") /\ Silent /\ UNCHANGED slips
WillEnd ==
  /\ Takes("end") /\ ~msrp.done /\ msrp.initialized
  /\ msrp' = Ending("closing") /\ Tell("WillEnd") /\ UNCHANGED slips

\* ... also of a stream whose initialize() did not come that far
EndsUninitialized ==
  /\ Takes("end") /\ ~msrp.done /\ ~msrp.initialized /\ Waits("none")
  /\ msrp' = Ending("over") /\ Tell("DidNotInitialize") /\ UNCHANGED slips

\* the green thread that end() kills
GreenletDies ==
  /\ msrp.ending \in {"interrupting", "closing"} /\ msrp.greenlet # "none"
  /\ msrp' = [msrp EXCEPT !.greenlet = "none", !.initialized = TRUE]
  /\ Silent /\ UNCHANGED slips
Interrupted ==
  /\ msrp.ending = "interrupting" /\ Waits("none")
  /\ msrp' = [msrp EXCEPT !.ending = "over"] /\ Tell("DidNotInitialize") /\ UNCHANGED slips
\* what end() found when it began is closed, and then forgotten
Closes ==
  /\ msrp.ending = "closing" /\ Waits("none")
  /\ msrp' = [msrp EXCEPT !.ending = "forgetting", !.connector = "none",
                          !.session = IF msrp.captured THEN "closed" ELSE @]
  /\ Tell("DidEnd") /\ UNCHANGED slips
Forgets ==
  /\ msrp.ending = "forgetting"
  /\ msrp' = [msrp EXCEPT !.ending = "over"] /\ Silent /\ UNCHANGED slips

\* the connection breaks: the session is told, unless the stream is on its way out
ConnectionLost ==
  /\ msrp.session = "open"
  /\ msrp' = [msrp EXCEPT !.session = "lost"]
  /\ \/ msrp.shutting /\ Silent
     \/ Tell("DidFail")
  /\ UNCHANGED slips

\* the steps that only wait or resume, the same for every kind
Resuming == RunInitialize \/ RunStart \/ Interrupts \/ GreenletDies

MSRPGone == msrp.ending = "over" /\ msrp.session # "open" /\ msrp.connector # "prepared"
=============================================================================
