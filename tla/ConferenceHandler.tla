------------------------- MODULE ConferenceHandler --------------------------
(***************************************************************************)
(* The conference handler of a session (session.py): it keeps a            *)
(* subscription to the conference of a session whose remote end is a       *)
(* focus, until the session is over.  It works like the subscribers of an  *)
(* account, with two differences: it lets a failure be the failure of any  *)
(* subscription it has had, and what its present subscription says is told *)
(* from what others say.                                                   *)
(***************************************************************************)
EXTENDS Naturals, Sequences, FiniteSets

CONSTANTS
  MaxSubscriptions,   \* bound: subscriptions a handler makes
  MaxChanges          \* bound: network changes, and likewise of renegotiations

VARIABLES
  desk,           \* the handler: remote_focus and life (of the session), active, commands, pc and cmd (_run),
                  \* timer, handler (_subscription_handler), killed, current (_subscription), refused (gave up)
  subscriptions,  \* those made, in order: stage, want_end, and observed
  posted,         \* notifications on their way to the reactor
  data,           \* _data_channel
  spent,          \* network changes and renegotiations so far
  lost            \* ways of missing the conference that this behaviour took (see the README)

conferenceVars == <<desk, subscriptions, posted, data, spent, lost>>

ConferenceInit ==
  /\ \E focus \in BOOLEAN :
       desk = [remote_focus |-> focus, life |-> "new", active |-> FALSE, commands |-> <<>>, pc |-> "idle",
               cmd |-> "none", timer |-> FALSE, handler |-> "none", killed |-> "no", current |-> 0, refused |-> FALSE]
  /\ subscriptions = <<>> /\ posted = <<>> /\ data = <<>> /\ spent = 0 /\ lost = {}

Wants(commands) == [desk EXCEPT !.commands = @ \o commands]

-----------------------------------------------------------------------------
(* The session's notifications, and the network's.                         *)

OfTheSession == UNCHANGED <<subscriptions, posted, data, lost>>

ConferenceSessionDidStart ==
  /\ desk.life = "new"
  /\ desk' = [desk EXCEPT !.life = "on", !.active = desk.remote_focus,
                          !.commands = IF desk.remote_focus THEN Append(@, "subscribe") ELSE @]
  /\ OfTheSession /\ UNCHANGED spent
\* the remote end may have turned into a focus; it never ceases to be one
ConferenceDidRenegotiate ==
  /\ desk.life = "on" /\ spent < MaxChanges /\ spent' = spent + 1
  /\ IF desk.active THEN UNCHANGED desk
     ELSE desk' = [Wants(<<"subscribe">>) EXCEPT !.active = TRUE, !.remote_focus = TRUE]
  /\ OfTheSession
_resubscribe ==
  /\ desk.active /\ desk.life # "over" /\ spent < MaxChanges /\ spent' = spent + 1
  /\ desk' = Wants(<<"subscribe">>)
  /\ OfTheSession
\* _NH_SIPSessionDidFail, _NH_SIPSessionDidEnd
_terminate ==
  /\ desk.life # "over"
  /\ desk' = [Wants(<<"unsubscribe", "terminate">>) EXCEPT !.life = "over", !.active = FALSE]
  /\ OfTheSession /\ UNCHANGED spent

-----------------------------------------------------------------------------
(* _run.                                                                   *)

Spawned(d) == [d EXCEPT !.handler = "dns", !.pc = "idle"]
Command(d, name) == [d EXCEPT !.commands = Tail(@), !.cmd = name]
\* altered: the handler that runs is left alone
ConferenceSubscribesBesides ==
  /\ desk.pc = "idle" /\ desk.commands # <<>> /\ Head(desk.commands) = "subscribe"
  /\ desk' = Spawned([Command(desk, "subscribe") EXCEPT !.timer = FALSE])
  /\ OfTheSession /\ UNCHANGED spent
ConferenceSubscribes ==
  LET d == [Command(desk, "subscribe") EXCEPT !.timer = FALSE] IN
  /\ desk.pc = "idle" /\ desk.commands # <<>> /\ Head(desk.commands) = "subscribe"
  /\ desk' = IF desk.handler = "none" THEN Spawned(d) ELSE [d EXCEPT !.killed = "interrupt", !.pc = "kill"]
  /\ OfTheSession /\ UNCHANGED spent
ConferenceUnsubscribes ==
  LET d == [Command(desk, "unsubscribe") EXCEPT !.timer = FALSE] IN
  /\ desk.pc = "idle" /\ desk.commands # <<>> /\ Head(desk.commands) = "unsubscribe"
  /\ desk' = IF desk.handler = "none" THEN d ELSE [d EXCEPT !.killed = "terminate", !.pc = "kill"]
  /\ OfTheSession /\ UNCHANGED spent
ConferenceTerminates ==
  /\ desk.pc = "idle" /\ desk.commands # <<>> /\ Head(desk.commands) = "terminate"
  /\ desk' = [Command(desk, "terminate") EXCEPT !.pc = "off"]
  /\ OfTheSession /\ UNCHANGED spent
\* subscription_proc.wait() returns
ConferenceHandlerGone ==
  /\ desk.pc = "kill" /\ desk.handler = "none"
  /\ desk' = IF desk.cmd = "subscribe" THEN Spawned(desk) ELSE [desk EXCEPT !.pc = "idle"]
  /\ OfTheSession /\ UNCHANGED spent

-----------------------------------------------------------------------------
(* _subscription_handler.                                                  *)

\* finally
Finished(d) == [d EXCEPT !.handler = "none", !.killed = "no", !.current = 0]
Unobserved == IF desk.current = 0 THEN subscriptions ELSE [subscriptions EXCEPT ![desk.current].observed = FALSE]
\* except SubscriptionError
ConferenceRetriesLater == desk' = [Finished(desk) EXCEPT !.timer = TRUE] /\ subscriptions' = Unobserved
\* the next route, if there is one left that can be used, and if subscribe() does not fail
ConferenceNextRoute ==
  \/ /\ Len(subscriptions) < MaxSubscriptions
     /\ desk' = [desk EXCEPT !.handler = "answer", !.current = Len(subscriptions) + 1]
     /\ subscriptions' = Append(Unobserved, [stage |-> "sent", want_end |-> FALSE, observed |-> TRUE])
  \/ ConferenceRetriesLater
ConferenceRoutesReturn ==
  /\ desk.handler = "dns" /\ ConferenceNextRoute
  /\ UNCHANGED <<posted, data, spent, lost>>

OfTheHandler == UNCHANGED <<posted, spent>>
Reads(handler) == desk.handler = handler /\ data # <<>> /\ data' = Tail(data)
Own(item) == item.of = desk.current
\* the wait for SIPSubscriptionDidStart; any failure counts, whichever subscription it is of
ConferenceReadsAnswer ==
  /\ Reads("answer") /\ OfTheHandler
  /\ LET item == Head(data) IN
     CASE item.name = "DidStart" /\ Own(item) ->
            desk' = [desk EXCEPT !.handler = "subscribed"] /\ UNCHANGED <<subscriptions, lost>>
       [] item.name = "DidFail" ->
            /\ \/ ConferenceNextRoute
               \/ ConferenceRetriesLater
               \/ desk' = [Finished(desk) EXCEPT !.refused = TRUE] /\ subscriptions' = Unobserved
            /\ lost' = IF Own(item) THEN lost ELSE lost \cup {"mistaken"}
       [] OTHER -> UNCHANGED <<desk, subscriptions, lost>>
\* once it is subscribed: an end is for good, after a failure it subscribes again
ConferenceReadsNotify ==
  /\ Reads("subscribed") /\ OfTheHandler
  /\ LET item == Head(data) IN
     CASE item.name = "DidEnd" /\ Own(item) ->
            desk' = Finished(desk) /\ subscriptions' = Unobserved /\ lost' = lost \cup {"declined"}
       [] item.name = "DidFail" ->
            /\ desk' = Finished(Wants(<<"subscribe">>)) /\ subscriptions' = Unobserved
            /\ lost' = IF Own(item) THEN lost ELSE lost \cup {"mistaken"}
       [] OTHER -> UNCHANGED <<desk, subscriptions, lost>>

Leaves(s) == [s EXCEPT !.want_end = TRUE]
\* except InterruptSubscription: end() is not waited for
ConferenceInterrupted ==
  /\ desk.killed = "interrupt" /\ desk' = Finished(desk)
  /\ subscriptions' = IF desk.current = 0 THEN subscriptions
                      ELSE [Unobserved EXCEPT ![desk.current] = Leaves(@)]
  /\ UNCHANGED <<data, lost>> /\ OfTheHandler
\* except TerminateSubscription
ConferenceTerminated ==
  /\ desk.killed = "terminate" /\ desk.handler # "ending"
  /\ IF desk.current = 0 THEN desk' = Finished(desk) /\ UNCHANGED subscriptions
     ELSE /\ desk' = [desk EXCEPT !.handler = "ending"]
          /\ subscriptions' = [subscriptions EXCEPT ![desk.current] = Leaves(@)]
  /\ UNCHANGED <<data, lost>> /\ OfTheHandler
ConferenceReadsEnding ==
  /\ Reads("ending") /\ OfTheHandler /\ UNCHANGED lost
  /\ LET item == Head(data) IN
     IF item.name = "DidFail" \/ (item.name = "DidEnd" /\ Own(item))
     THEN desk' = Finished(desk) /\ subscriptions' = Unobserved
     ELSE UNCHANGED <<desk, subscriptions>>
\* handle_notification, _NH_SIPSubscription...
ConferenceHandles ==
  /\ posted # <<>> /\ posted' = Tail(posted) /\ data' = Append(data, Head(posted))
  /\ UNCHANGED <<desk, subscriptions, spent, lost>>
\* reactor.callLater(timeout, self._command_channel.send, command)
ConferenceTimerFires ==
  /\ desk.timer /\ desk' = [Wants(<<"subscribe">>) EXCEPT !.timer = FALSE]
  /\ OfTheSession /\ UNCHANGED spent

-----------------------------------------------------------------------------
(* The engine's subscriptions.                                             *)

Raise(i, name) ==
  posted' = IF subscriptions[i].observed THEN Append(posted, [name |-> name, of |-> i]) ELSE posted
OfTheEngine == UNCHANGED <<desk, data, spent>>
ConferenceAccepted(i) ==
  /\ subscriptions[i].stage = "sent" /\ Raise(i, "DidStart") /\ OfTheEngine /\ UNCHANGED lost
  /\ \E brief \in {subscriptions[i].want_end, TRUE} :
       subscriptions' = [subscriptions EXCEPT ![i] = [@ EXCEPT !.stage = "active", !.want_end = brief]]
\* a NOTIFY that comes before the answer
ConferenceNotifiedEarly(i) ==
  /\ subscriptions[i].stage = "sent" /\ lost' = lost \cup {"early"} /\ Raise(i, "GotNotify")
  /\ subscriptions' = [subscriptions EXCEPT ![i].stage = "active"] /\ OfTheEngine
ConferenceSubscriptionGone(i) ==
  /\ subscriptions[i].stage \in {"sent", "active"}
  /\ subscriptions' = [subscriptions EXCEPT ![i].stage = "gone"]
  /\ Raise(i, IF subscriptions[i].want_end THEN "DidEnd" ELSE "DidFail")
  /\ OfTheEngine /\ UNCHANGED lost

ConferenceEngine(i) == ConferenceAccepted(i) \/ ConferenceNotifiedEarly(i) \/ ConferenceSubscriptionGone(i)
ConferenceRuns ==
  \/ ConferenceSubscribes \/ ConferenceUnsubscribes \/ ConferenceTerminates \/ ConferenceHandlerGone
  \/ ConferenceRoutesReturn \/ ConferenceReadsAnswer \/ ConferenceReadsNotify
  \/ ConferenceInterrupted \/ ConferenceTerminated \/ ConferenceReadsEnding \/ ConferenceHandles
  \/ ConferenceTimerFires
ConferenceAnswered == \E i \in DOMAIN subscriptions : ConferenceAccepted(i) \/ ConferenceSubscriptionGone(i)
ConferenceNext ==
  \/ ConferenceSessionDidStart \/ ConferenceDidRenegotiate \/ _resubscribe \/ _terminate
  \/ ConferenceRuns \/ \E i \in DOMAIN subscriptions : ConferenceEngine(i)

-----------------------------------------------------------------------------
ConferenceQuiet ==
  /\ desk.pc = "idle" /\ desk.commands = <<>> /\ desk.killed = "no" /\ posted = <<>>
  /\ data = <<>> \/ desk.handler = "none"
  /\ desk.handler \in {"none", "subscribed"}
Given(i) == subscriptions[i].stage \in {"sent", "active"} /\ ~subscriptions[i].want_end

\* When everything has settled a session with a focus follows the conference, or will try again
\* unless it was refused, and no subscription but the current one is left to the server for its whole
\* time (_CH_subscribe, _CH_unsubscribe, _subscription_handler).
ConferenceAsWanted ==
  ConferenceQuiet /\ lost = {} =>
    /\ desk.active => desk.handler = "subscribed" \/ desk.timer \/ desk.refused
    /\ desk.handler = "subscribed" => desk.active /\ subscriptions[desk.current].observed
    /\ \A i \in DOMAIN subscriptions : Given(i) => i = desk.current

ConferenceGone == desk.pc = "off" /\ desk.handler = "none" /\ ~desk.timer
=============================================================================
