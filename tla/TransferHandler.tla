-------------------------- MODULE TransferHandler ---------------------------
(***************************************************************************)
(* The transfer handler of a session (session.py): the transfers the other *)
(* end asks for with a REFER, which the application accepts or rejects and *)
(* a new session carries out, and those the application asks for, with the *)
(* engine's side of both (_core.invitation.pxi).                           *)
(*                                                                         *)
(* The engine and the application post from their own threads, so what     *)
(* they post waits in queue for the reactor; what the green threads post   *)
(* is handled as they post it.                                             *)
(***************************************************************************)
EXTENDS Naturals, Sequences

CONSTANTS
  MaxTransfers,   \* bound: transfers that reach the engine
  MaxAsks         \* bound: calls of the application

VARIABLES
  mover,    \* the handler: state, direction, at (where _run is), nr (of the transfer it is at), new (new_session: a
            \* number, or 0), ends (session.end() was called)
  usage,    \* the invitation's transfer: role, stage, final (its last code), and nr
  calls,    \* what became of the sessions made for transfers
  commands, \* _command_channel
  queue,    \* for the reactor
  inbox,    \* _data_channel
  tally,    \* up (the session is), asks, begun and settled (transfers the application knows to go on, outcomes told)
  astray    \* what made this behaviour lose a transfer (see the README)

transferVars == <<mover, usage, calls, commands, queue, inbox, tally, astray>>

NoUsage == [role |-> "none", stage |-> "none", final |-> "none", nr |-> 0]
TransferHandlerInit ==
  /\ mover = [state |-> "None", direction |-> "None", at |-> "idle", nr |-> 0, new |-> 0, ends |-> FALSE]
  /\ usage = NoUsage /\ calls = <<>> /\ commands = <<>> /\ queue = <<>> /\ inbox = <<>>
  /\ tally = [up |-> TRUE, asks |-> 0, begun |-> 0, settled |-> 0] /\ astray = {}

Item(name, nr) == [name |-> name, nr |-> nr]
Queued(name, nr) == Append(queue, Item(name, nr))
Alive == mover.at # "dead"
Strays(what) == astray' = astray \cup what

-----------------------------------------------------------------------------
(* The application.  transfer() is checked in its thread and carried out   *)
(* in the reactor.                                                         *)

Asks(name, nr) ==
  /\ tally.up /\ Alive /\ tally.asks < MaxAsks
  /\ tally' = [tally EXCEPT !.asks = @ + 1] /\ queue' = Queued(name, nr)
  /\ UNCHANGED <<mover, usage, calls, commands, inbox, astray>>
CallTransfer == mover.state = "None" /\ mover.direction = "None" /\ Asks("transfer", 0)
Asked == mover.state = "starting" /\ mover.direction = "incoming"
accept_transfer == Asked /\ Asks("Accepted", mover.nr)
reject_transfer == Asked /\ Asks("Refused", mover.nr)

-----------------------------------------------------------------------------
(* The invitation.                                                         *)

OfTheUsage == UNCHANGED <<mover, calls, commands, inbox, tally, astray>>
\* process_incoming_transfer; during another transfer it is answered with 480
ReferArrives ==
  /\ tally.up /\ usage.role = "none" /\ usage.nr < MaxTransfers
  /\ usage' = [role |-> "uas", stage |-> "active", final |-> "none", nr |-> usage.nr + 1]
  /\ queue' = queue \o <<Item("NewIncoming", usage.nr + 1), Item("InvStart", usage.nr + 1)>>
  /\ OfTheUsage
\* _transfer_cb_state
UsageAccepted ==
  /\ usage.stage = "sent" /\ usage' = [usage EXCEPT !.stage = "active"] /\ queue' = Queued("InvStart", usage.nr)
  /\ OfTheUsage
\* of an outgoing one: refused, timed out, or ended by the other end's last NOTIFY; of an incoming one: lost,
\* expired, or ended by what notify_transfer_progress() said last
UsageEnds ==
  /\ usage.stage \in {"sent", "active", "closing"}
  /\ \E final \in {"2xx", "other"} :
       /\ CASE usage.stage = "closing" -> final = usage.final
            [] usage.stage = "sent" \/ usage.role = "uas" -> final = "other"
            [] OTHER -> TRUE
       /\ queue' = Queued(IF final = "2xx" THEN "InvEnd" ELSE "InvFail", usage.nr)
  /\ usage' = [NoUsage EXCEPT !.nr = usage.nr]
  /\ OfTheUsage

\* notify_transfer_progress() with a final code
Notifiable(u) == u.role = "uas"
notify_transfer_progress(u, final) ==
  IF u.role = "uas" /\ u.stage = "active" THEN [u EXCEPT !.stage = "closing", !.final = final] ELSE u

-----------------------------------------------------------------------------
(* handle_notification, for what comes from other threads.                 *)

HandlesTransfer ==
  /\ queue # <<>>
  /\ LET item == Head(queue) IN
     IF ~Alive THEN queue' = Tail(queue) /\ UNCHANGED <<usage, commands, inbox>>
     ELSE
     CASE item.name \in {"NewIncoming", "NewOutgoing"} ->
            commands' = Append(commands, item) /\ queue' = Tail(queue) /\ UNCHANGED <<usage, inbox>>
       [] item.name \in {"InvStart", "InvEnd", "InvFail"} ->
            inbox' = Append(inbox, item) /\ queue' = Tail(queue) /\ UNCHANGED <<usage, commands>>
       [] item.name \in {"Accepted", "Refused"} ->
            /\ inbox' = IF mover.state = "starting" THEN Append(inbox, item) ELSE inbox
            /\ queue' = Tail(queue) /\ UNCHANGED <<usage, commands>>
       \* Session.transfer: the REFER is sent, or it is told to have failed, which the handler hears as well
       [] item.name = "transfer" /\ usage.role = "none" /\ usage.nr < MaxTransfers ->
            /\ usage' = [role |-> "uac", stage |-> "sent", final |-> "none", nr |-> usage.nr + 1]
            /\ queue' = Append(Tail(queue), Item("NewOutgoing", usage.nr + 1)) /\ UNCHANGED <<commands, inbox>>
       [] OTHER ->
            /\ inbox' = IF mover.state = "starting" THEN Append(inbox, Item("Refused", 0)) ELSE inbox
            /\ queue' = Tail(queue) /\ UNCHANGED <<usage, commands>>
  /\ UNCHANGED <<mover, calls, tally, astray>>

-----------------------------------------------------------------------------
(* _run.                                                                   *)

\* altered: the state stays
ReturnedAsItIs(m) == [m EXCEPT !.at = "idle", !.direction = "None"]
Returned(m) == [m EXCEPT !.at = "idle", !.state = "None", !.direction = "None"]
Begins == tally' = [tally EXCEPT !.begun = @ + 1]
Settles == tally' = [tally EXCEPT !.settled = @ + 1]
RunTakesCommand ==
  /\ mover.at = "idle" /\ commands # <<>> /\ commands' = Tail(commands)
  /\ LET command == Head(commands) IN
     \/ /\ command.name = "NewIncoming"
        /\ mover' = [mover EXCEPT !.at = "wait", !.direction = "incoming", !.nr = command.nr]
        /\ UNCHANGED tally
     \/ /\ command.name = "NewOutgoing"
        /\ mover' = [mover EXCEPT !.at = "out", !.direction = "outgoing", !.state = "starting", !.nr = command.nr]
        /\ Begins
  /\ UNCHANGED <<usage, calls, queue, inbox, astray>>

ReadsItem(at, name) ==
  /\ mover.at = at /\ inbox # <<>> /\ Head(inbox).name = name /\ inbox' = Tail(inbox)
  /\ Strays({"leftover" : n \in {Head(inbox).nr} \ {mover.nr}})
  /\ UNCHANGED <<calls, commands, queue>>
\* an item that the loop it reaches passes over
Listens == [i \in {"wait", "over", "connect", "out"} |->
              CASE i = "wait" -> {"InvFail", "InvStart", "Accepted", "Refused"}
                [] i = "over" -> {"InvFail"}
                [] OTHER -> {"InvFail", "InvEnd"} \cup {"InvStart" : o \in {"out"} \cap {i}}]
PassesOver ==
  /\ mover.at \in DOMAIN Listens /\ inbox # <<>> /\ Head(inbox).name \notin Listens[mover.at]
  /\ inbox' = Tail(inbox) /\ UNCHANGED <<mover, usage, calls, commands, queue, tally, astray>>

\* _CH_incoming_transfer: the application is asked, and answers unless the usage is over
AsksTheApplication ==
  /\ ReadsItem("wait", "InvStart") /\ mover' = [mover EXCEPT !.state = "starting"]
  /\ UNCHANGED <<usage, tally>>
UsageLost ==
  /\ ReadsItem("wait", "InvFail") \/ ReadsItem("over", "InvFail")
  /\ mover' = Returned(mover) /\ UNCHANGED <<usage, tally>>
TransferAccepted ==
  /\ ReadsItem("wait", "Accepted") /\ mover' = [mover EXCEPT !.at = "dns", !.state = "started"]
  /\ Begins /\ UNCHANGED usage
\* the final code; without a usage its failure is not waited for
GivesFinalCode ==
  /\ usage' = notify_transfer_progress(usage, "other")
  /\ mover' = IF Notifiable(usage) THEN [mover EXCEPT !.at = "over", !.state = "failed"] ELSE Returned(mover)
TransferRefused ==
  /\ ReadsItem("wait", "Refused") /\ GivesFinalCode /\ UNCHANGED tally
TransferLookupFails ==
  /\ mover.at = "dns" /\ GivesFinalCode /\ Settles
  /\ UNCHANGED <<calls, commands, queue, inbox, astray>>
\* an earlier session that is still on its way is not looked for any more
TransferConnects ==
  /\ mover.at = "dns" /\ calls' = Append(calls, "connecting")
  /\ mover' = [mover EXCEPT !.at = "connect", !.new = Len(calls) + 1]
  /\ Strays({"forgotten" : n \in {mover.new} \ {0}})
  /\ UNCHANGED <<usage, commands, queue, inbox, tally>>
UsageFinished ==
  /\ ReadsItem("connect", "InvFail") \/ ReadsItem("connect", "InvEnd")
  /\ mover' = Returned(mover) /\ UNCHANGED <<usage, tally>>

\* _CH_outgoing_transfer
OutgoingStarted ==
  /\ ReadsItem("out", "InvStart") /\ mover' = [mover EXCEPT !.state = "started"] /\ UNCHANGED <<usage, tally>>
OutgoingFailed ==
  /\ ReadsItem("out", "InvFail") /\ mover' = Returned(mover) /\ Settles /\ UNCHANGED usage
OutgoingEnded ==
  /\ ReadsItem("out", "InvEnd") /\ mover' = [Returned(mover) EXCEPT !.ends = TRUE] /\ Settles /\ UNCHANGED usage

-----------------------------------------------------------------------------
(* The new session, and the session itself.                                *)

\* _NH_SIPSessionDidStart
NewSessionStarts(i) ==
  /\ calls[i] = "connecting" /\ calls' = [calls EXCEPT ![i] = "gone"]
  /\ IF i # mover.new THEN UNCHANGED <<mover, usage, tally, astray>>
     ELSE IF ~Alive THEN mover' = [mover EXCEPT !.new = 0] /\ UNCHANGED <<usage, tally, astray>>
     ELSE /\ usage' = IF mover.state = "started" THEN notify_transfer_progress(usage, "2xx") ELSE usage
          /\ mover' = [mover EXCEPT !.new = 0, !.state = "ended", !.ends = TRUE]
          /\ Settles /\ UNCHANGED astray
  /\ UNCHANGED <<commands, queue, inbox>>
\* _terminate, and the kill of _run
Dead(m) == [m EXCEPT !.at = "dead", !.new = IF m.at \in {"idle", "out"} THEN m.new ELSE 0]
\* _NH_SIPSessionDidEnd, _NH_SIPSessionDidFail: of a session it has forgotten it takes them for its own session's
NewSessionFails(i) ==
  /\ calls[i] = "connecting" /\ calls' = [calls EXCEPT ![i] = "gone"]
  /\ IF i # mover.new
     THEN /\ mover' = IF Alive THEN Dead(mover) ELSE mover
          /\ UNCHANGED <<usage, tally, astray>>
     ELSE IF ~Alive THEN mover' = [mover EXCEPT !.new = 0] /\ UNCHANGED <<usage, tally, astray>>
     ELSE /\ usage' = IF mover.state = "started" THEN notify_transfer_progress(usage, "other") ELSE usage
          /\ mover' = [mover EXCEPT !.new = 0, !.state = "failed"]
          /\ Settles /\ Strays({"late" : a \in {mover.at} \ {"connect"}})
  /\ UNCHANGED <<commands, queue, inbox>>
\* the dialog ends, and the transfer with it
TransferSessionDidEnd ==
  /\ tally.up /\ tally' = [tally EXCEPT !.up = FALSE]
  /\ usage' = [NoUsage EXCEPT !.nr = usage.nr]
  /\ queue' = IF usage.role = "none" THEN queue ELSE Queued("InvFail", usage.nr)
  /\ mover' = IF Alive THEN Dead(mover) ELSE mover
  /\ UNCHANGED <<calls, commands, inbox, astray>>

TransferRuns ==
  \/ HandlesTransfer \/ RunTakesCommand \/ PassesOver \/ AsksTheApplication \/ UsageLost
  \/ TransferAccepted \/ TransferRefused \/ TransferLookupFails \/ TransferConnects \/ UsageFinished
  \/ OutgoingStarted \/ OutgoingFailed \/ OutgoingEnded
  \/ \E i \in DOMAIN calls : NewSessionStarts(i) \/ NewSessionFails(i)
TransferHandlerNext ==
  \/ CallTransfer \/ accept_transfer \/ reject_transfer
  \/ ReferArrives \/ UsageAccepted \/ UsageEnds \/ TransferRuns \/ TransferSessionDidEnd

-----------------------------------------------------------------------------
\* Each transfer that goes on has one outcome told, and as long as the session is up and not being ended the
\* handler is ready for the next once nothing is on its way (_CH_incoming_transfer, _CH_outgoing_transfer and
\* the notifications of the new session).
TransferSettled ==
  astray = {} =>
    /\ tally.settled <= tally.begun
    /\ tally.up /\ ~mover.ends /\ mover.at = "idle" /\ commands = <<>> /\ queue = <<>> /\ usage.role = "none" /\ mover.new = 0
       => mover.state = "None" /\ tally.settled = tally.begun

TransferHandlerGone == mover.at = "dead" /\ mover.new = 0
=============================================================================
