------------------------------- MODULE Session -------------------------------
(***************************************************************************)
(* One session (sipsimple.session.Session), its Invitation and its media   *)
(* streams, from the first INVITE to the notification of its end, and the  *)
(* SessionManager that keeps it in its list.                               *)
(*                                                                         *)
(* Everything a session does runs in green threads of the reactor.  A call *)
(* of the application and a notification of the engine or of a stream are  *)
(* both queued (ready) and start a green thread of their own; a green      *)
(* thread that waits does so at a named point (self.pc) for an item of the *)
(* session's channel.  While self.greenlet is set, a notification is put   *)
(* on the channel; otherwise it is handled where it stands.  A green       *)
(* thread that ends in an exception leaves self.greenlet behind: the pc is *)
(* then "dead", and nobody reads the channel any more.                     *)
(*                                                                         *)
(* slips is a history variable: the name of the first place at which an    *)
(* exception escaped or an item was lost.                                  *)
(***************************************************************************)
EXTENDS Naturals, Sequences, FiniteSets

CONSTANTS
  Streams,      \* the media streams of the session and of its proposals
  Firsts,       \* the sets of streams the initial INVITE may offer
  Menus,        \* the sets of calls an application may make
  MaxTroubles,  \* bound: offers of the peer, failures of streams and losses of the dialog
  Bare          \* the values for "the INVITE has no SDP"

ASSUME FirstIsPart == Firsts \subseteq (SUBSET Streams) \ {{}}

VARIABLES
  self,      \* the attributes of the Session, and the wait point of its greenlet
  inv,       \* the Invitation: state, sub_state, troubles left, whether its SDP is known
  life,      \* what each stream is doing
  channel,   \* Session._channel
  ready,     \* the green threads that are about to start, in order
  may,       \* the calls the application still makes
  mgr,       \* the state of the SessionManager
  slips      \* history: the first thing that was lost

vars == <<self, inv, life, channel, ready, may, mgr, slips>>

Calls == {"connect", "accept", "reject", "accept_proposal", "reject_proposal", "add_streams",
          "remove_streams", "cancel_proposal", "hold", "unhold", "end", "stop"}

States == {"none", "connecting", "incoming", "accepting", "connected", "received_proposal",
           "received_proposal_request", "sending_proposal", "accepting_proposal",
           "rejecting_proposal", "cancelling_proposal", "terminating", "terminated"}

\* the points at which a green thread of the session waits for the channel
Points == {"init", "sdp", "media", "ice", "reject", "p.init", "p.sdp", "p.media", "rp", "s.init",
           "s.sdp", "s.media", "m.sdp", "cancel", "u.sdp", "hold", "unhold", "hold.cancel",
           "unhold.cancel", "fail", "end"}

Item(e, x) == [e |-> e, x |-> x]
Items == [e : {"sdp", "nosdp", "connected", "normal", "offer", "request", "cancelled", "gone", "ended",
               "init", "noinit", "start", "fail"},
          x : Streams \cup {"", "accepted", "rejected", "cancelled", "theirs", "add", "update", "bad"}]
Job(j) == [job |-> j, item |-> Item("", "")]
Notify(i) == [job |-> "notify", item |-> i]
NotifyAll(s) == [k \in 1..Len(s) |-> Notify(s[k])]

\* the application has one session: it calls, it is called, or the call is established
Role(m) == IF "connect" \in m THEN "outgoing" ELSE IF m \cap {"accept", "reject"} # {} THEN "incoming" ELSE "established"

Init ==
  /\ \E m \in Menus, b \in Bare, f \in Firsts :
       LET up == Role(m) = "established" IN
         /\ may = m
         /\ self = [dir |-> IF up THEN "outgoing" ELSE Role(m), state |-> IF up THEN "connected" ELSE "none",
                    pc |-> "none", wait |-> 0, got |-> {}, started |-> up,
                    streams |-> IF up THEN f ELSE {}, proposed |-> {}, leaving |-> {}, kept |-> <<>>,
                    onHold |-> FALSE, holding |-> FALSE, told |-> IF up THEN "new" ELSE "none",
                    ends |-> 0, sees |-> up]
         /\ inv = [st |-> IF up THEN "connected" ELSE "none", sub |-> IF up THEN "normal" ELSE "",
                   troubles |-> MaxTroubles, sdp |-> Role(m) = "incoming" /\ ~b]
         /\ life = [s \in Streams |-> IF up /\ s \in f THEN "on" ELSE "idle"]
  /\ channel = <<>> /\ ready = <<>> /\ mgr = "started" /\ slips = {}

-----------------------------------------------------------------------------
(* What the handlers have in common *)

\* SIPSessionDidEnd or SIPSessionDidFail is posted: the manager takes the session off its list
Ended(x) == [x EXCEPT !.state = "terminated", !.pc = "none", !.sees = FALSE, !.told = "over", !.ends = @ + 1]

Connected(x) == [x EXCEPT !.state = "connected", !.pc = "none", !.proposed = {}, !.kept = <<>>, !.wait = 0, !.got = {}]

CanReinvite == inv.st = "connected" /\ inv.sub = "normal"
CanRespond == inv.st = "connected" /\ inv.sub \in {"offer", "request"}

Sending(x, p) == [x EXCEPT !.state = "sending_proposal", !.pc = p, !.got = {}]

\* a re-INVITE for hold or unhold that cannot be sent counts as done
SendUnhold(x) ==
  IF CanReinvite THEN Sending(x, "unhold") ELSE [x EXCEPT !.onHold = x.holding, !.holding = FALSE]
SendHold(x) ==
  IF CanReinvite THEN Sending(x, "hold") ELSE [x EXCEPT !.onHold = x.holding, !.holding = FALSE]
HoldDone(x) ==
  IF x.holding THEN [Connected(x) EXCEPT !.onHold = TRUE, !.holding = FALSE]
               ELSE SendUnhold([Connected(x) EXCEPT !.onHold = TRUE])
UnholdDone(x) ==
  LET y == [Connected(x) EXCEPT !.onHold = FALSE] IN IF x.holding THEN SendHold(y) ELSE y

\* mutant: the hold that was asked for meanwhile is forgotten
SettledForgets(x) == Connected(x)

\* the end of an operation: a hold that was asked for meanwhile is sent
Settled(x) == IF x.holding THEN SendHold(Connected(x)) ELSE Connected(x)

\* the engine marks the re-INVITE that x has just sent
Resent(x) == [inv EXCEPT !.sub = IF x.pc \in {"hold", "unhold", "ice"} THEN "sent" ELSE @]

LifeAfter(f, S) == [s \in Streams |-> IF s \in S /\ life[s] # "idle" THEN f ELSE life[s]]
End(S) == life' = LifeAfter("ended", S)
Initialize(S) == life' = [s \in Streams |-> IF s \in S THEN "init" ELSE life[s]]

Slips(S) == slips' = IF slips = {} THEN S ELSE slips
Slip(n) == Slips({n})

\* what the engine tells the session, if it observes its Invitation
Tell(s) == ready' = IF self.sees THEN ready \o NotifyAll(s) ELSE ready
Later(s) == ready' = ready \o s

\* the greenlet ends in an exception: self.greenlet stays set
Escapes(n) == /\ self' = [self EXCEPT !.pc = "dead"]
              /\ Slip(n)

\* _fail: end the dialog and wait a second for it
FailOp(x) ==
  IF inv.st \in {"none", "disconnecting", "disconnected"}
  THEN self' = Ended(x) /\ UNCHANGED inv
  ELSE /\ self' = [x EXCEPT !.state = "terminating", !.pc = "fail"]
       /\ inv' = [inv EXCEPT !.st = "disconnecting", !.sub = ""]

\* only some ends of an operation look at _hold_in_progress, and hold() does nothing while it is set
Forgets == IF self.holding THEN {"hold forgotten"} ELSE {}

\* _fail_proposal: the proposed streams end, an offer of the peer is refused
FailProposal ==
  /\ End(self.proposed)
  /\ self' = Connected(self)
  /\ inv' = [inv EXCEPT !.sub = IF CanRespond /\ self.state \in {"accepting_proposal", "rejecting_proposal"}
                                THEN "refused" ELSE @]

-----------------------------------------------------------------------------
(* The Invitation and the streams: what the engine, the peer and the media do *)

Engine == UNCHANGED <<self, life, channel, may, mgr, slips>>
InvGoes(st, sub, s) == /\ inv' = [inv EXCEPT !.st = st, !.sub = sub]
                       /\ Tell(s)
                       /\ Engine

CallArrives ==
  /\ self.dir = "incoming" /\ self.state = "none" /\ mgr # "stopped"
  /\ inv' = [inv EXCEPT !.st = "incoming"]
  /\ \E S \in Firsts :
       self' = [self EXCEPT !.state = "incoming", !.proposed = IF inv.sdp THEN S ELSE {},
                            !.told = "new", !.sees = TRUE]
  /\ UNCHANGED <<life, channel, ready, may, mgr, slips>>

\* a 200 to our INVITE: a negotiation that fails ends the dialog once it is confirmed
PeerAnswers ==
  /\ inv.st = "outgoing"
  /\ \/ InvGoes("connecting", "", <<Item("sdp", "")>>)
     \/ InvGoes("connecting", "failed", <<Item("nosdp", "")>>)

DialogConfirmed ==
  /\ inv.st = "connecting"
  /\ IF inv.sub = "failed" THEN InvGoes("disconnecting", "", <<>>)
                           ELSE InvGoes("connected", "normal", <<Item("connected", "")>>)

\* a refusal, a CANCEL, a missing ACK, a BYE or an internal error
DialogLost ==
  /\ inv.st \in {"outgoing", "incoming", "connecting", "connected"} /\ inv.troubles > 0
  /\ inv' = [inv EXCEPT !.st = "disconnected", !.sub = "", !.troubles = @ - 1]
  /\ Tell(<<Item("gone", "")>>)
  /\ Engine

DialogEnds ==
  /\ inv.st = "disconnecting"
  /\ InvGoes("disconnected", "", <<Item("ended", "")>>)

PeerOffers ==
  /\ CanReinvite /\ inv.troubles > 0
  /\ \E i \in {Item("offer", k) : k \in {"add", "update", "bad"}} \cup {Item("request", "")} :
       /\ inv' = [inv EXCEPT !.sub = i.e, !.troubles = @ - 1]
       /\ Tell(<<i>>)
  /\ Engine

PeerCancelsOffer ==
  /\ CanRespond
  /\ InvGoes(inv.st, "normal",
             <<IF inv.sub = "offer" THEN Item("cancelled", "") ELSE Item("normal", "theirs")>>)

\* our answer to an offer of the peer has been sent
OfferAnswered ==
  \/ inv.sub = "refused" /\ InvGoes(inv.st, "normal", <<Item("normal", "theirs")>>)
  \/ /\ inv.sub = "answered"
     /\ \E r \in {"sdp", "nosdp"} :
          InvGoes(inv.st, "normal", <<Item(r, ""), Item("normal", "theirs")>>)

\* the final answer to our re-INVITE
PeerAnswersReinvite ==
  /\ inv.sub \in {"sent", "cancelling"}
  /\ \/ \E r \in {"sdp", "nosdp"} : InvGoes(inv.st, "normal", <<Item(r, ""), Item("normal", "accepted")>>)
     \/ InvGoes(inv.st, "normal", <<Item("normal", "rejected")>>)
     \/ inv.sub = "cancelling" /\ InvGoes(inv.st, "normal", <<Item("normal", "cancelled")>>)

\* a stream reports; the session observes it from initialize() until it ends it
Report(from, to, e) ==
  \E s \in Streams : /\ life[s] \in from
                     /\ life' = [life EXCEPT ![s] = to]
                     /\ Later(<<Notify(Item(e, s))>>)
                     /\ UNCHANGED <<self, channel, may, mgr, slips>>
StreamInitialized == Report({"init"}, "ready", "init") /\ UNCHANGED inv
StreamStarts == Report({"starting"}, "on", "start") /\ UNCHANGED inv
StreamFails ==
  /\ inv.troubles > 0 /\ inv' = [inv EXCEPT !.troubles = @ - 1]
  /\ Report({"init"}, "failed", "noinit") \/ Report({"starting", "on"}, "failed", "fail")

-----------------------------------------------------------------------------
(* The calls of the application: check or change the state at once, the rest
   in a green thread of its own *)

\* transition_state: from the state in which the call is legal to the one it sets
Moves == [connect |-> <<"none", "connecting">>, accept |-> <<"incoming", "accepting">>,
          reject |-> <<"incoming", "terminating">>,
          accept_proposal |-> <<"received_proposal", "accepting_proposal">>,
          reject_proposal |-> <<"received_proposal", "rejecting_proposal">>,
          add_streams |-> <<"connected", "sending_proposal">>,
          remove_streams |-> <<"connected", "sending_proposal">>,
          cancel_proposal |-> <<"sending_proposal", "cancelling_proposal">>]
Transition(c, x) ==
  /\ c \in may /\ self.state = Moves[c][1]
  /\ may' = may \ {c}
  /\ self' = [self EXCEPT !.state = Moves[c][2]]
  /\ Later(<<[job |-> c, item |-> Item("", x)]>>)
  /\ UNCHANGED <<inv, life, channel, mgr, slips>>

Call(c) ==
  /\ c \in may
  /\ may' = may \ {c}
  /\ Later(<<Job(c)>>)
  /\ UNCHANGED <<self, inv, life, channel, mgr, slips>>

connect == Transition("connect", "")
accept == Transition("accept", "")
reject == Transition("reject", "")
accept_proposal == Transition("accept_proposal", "")
reject_proposal == Transition("reject_proposal", "")
add_streams == Transition("add_streams", "")
remove_streams == \E s \in Streams : Transition("remove_streams", s)
cancel_proposal == self.pc # "ice" /\ Transition("cancel_proposal", "")
hold == Call("hold")
unhold == Call("unhold")
end == self.state # "none" /\ Call("end")

\* SessionManager.stop: end the sessions of the list, and wait until it is empty
stop ==
  /\ "stop" \in may /\ mgr = "started"
  /\ may' = may \ {"stop"} /\ mgr' = "stopping"
  /\ Later(IF self.told = "new" THEN <<Job("end")>> ELSE <<>>)
  /\ UNCHANGED <<self, inv, life, channel, slips>>

Stopped ==
  /\ mgr = "stopping" /\ self.told # "new"
  /\ mgr' = "stopped"
  /\ UNCHANGED <<self, inv, life, channel, ready, may, slips>>

-----------------------------------------------------------------------------
(* Green threads that start *)

Begins(j) == ready # <<>> /\ Head(ready).job = j
Arg == Head(ready).item.x
Goes(later) == ready' = Tail(ready) \o later
Outside == UNCHANGED <<channel, may, mgr>>

\* the session has left the state to which transition_state took it for the call, or another
\* green thread of it waits for the same channel
Outrun ==
  IF self.state # Moves[Head(ready).job][2] THEN {"call overtaken"}
  ELSE IF self.pc # "none" /\ Head(ready).job # "cancel_proposal" THEN {"two at the channel"} ELSE {}

ConnectBody ==
  /\ Begins("connect") /\ Goes(<<>>)
  /\ \E S \in Firsts :
       /\ self' = [self EXCEPT !.pc = "init", !.wait = Cardinality(S), !.proposed = S,
                               !.told = "new", !.sees = TRUE]
       /\ Initialize(S)
  /\ UNCHANGED <<inv, slips>> /\ Outside

AcceptBody ==
  /\ Begins("accept") /\ Goes(<<>>)
  /\ \E S \in (SUBSET (IF inv.sdp THEN self.proposed ELSE UNION Firsts)) \ {{}} :
       /\ self' = [self EXCEPT !.pc = "init", !.wait = Cardinality(S), !.proposed = S]
       /\ Initialize(S)
  /\ UNCHANGED inv /\ Slips(Outrun) /\ Outside

RejectBody ==
  /\ Begins("reject") /\ Goes(<<>>)
  /\ IF inv.st = "incoming"
     THEN self' = [self EXCEPT !.pc = "reject"] /\ inv' = [inv EXCEPT !.st = "disconnecting"]
     ELSE self' = Ended(self) /\ UNCHANGED inv      \* SIPCoreInvalidStateError: it was cancelled
  /\ UNCHANGED life /\ Slips(Outrun) /\ Outside

\* the peer's cancel has set proposed_streams to None meanwhile: a TypeError
ProposalGone == /\ self.proposed = {}
                /\ Escapes("proposal cancelled") /\ UNCHANGED <<inv, life>> /\ Goes(<<>>)

AcceptProposalBody ==
  /\ Begins("accept_proposal")
  /\ \/ ProposalGone
     \/ /\ self.proposed # {} /\ Goes(<<>>)
        /\ self' = [self EXCEPT !.pc = "p.init", !.wait = Cardinality(self.proposed), !.got = {}]
        /\ Initialize(self.proposed)
        /\ UNCHANGED inv /\ Slips(Outrun)
  /\ Outside

RejectProposalBody ==
  /\ Begins("reject_proposal")
  /\ \/ /\ CanRespond /\ Goes(<<>>)
        /\ self' = [self EXCEPT !.pc = "rp"] /\ inv' = [inv EXCEPT !.sub = "refused"]
        /\ UNCHANGED life /\ Slips(Outrun)
     \/ /\ ~CanRespond /\ self.proposed # {}
        /\ FailProposal /\ Goes(<<>>) /\ Slips(Outrun \cup Forgets)
     \/ ~CanRespond /\ ProposalGone
  /\ Outside

AddBody ==
  /\ Begins("add_streams") /\ Goes(<<>>)
  /\ LET new == Streams \ self.streams IN
       \/ /\ new = {}
             /\ self' = [self EXCEPT !.state = "connected"] /\ UNCHANGED life
             /\ Slips(Outrun \cup Forgets)
       \/ \E s \in new :
            /\ self' = [self EXCEPT !.pc = "s.init", !.wait = 1, !.proposed = {s}, !.got = {}]
            /\ Initialize({s}) /\ Slips(Outrun)
  /\ UNCHANGED inv /\ Outside

RemoveBody ==
  /\ Begins("remove_streams")
  /\ \/ /\ Arg \notin self.streams /\ Goes(<<>>)
        /\ self' = [self EXCEPT !.state = "connected"]
        /\ UNCHANGED <<inv, life>> /\ Slips(Outrun \cup Forgets)
     \/ /\ Arg \in self.streams /\ CanReinvite /\ Goes(<<>>)
        /\ self' = [self EXCEPT !.pc = "m.sdp", !.got = {}, !.streams = @ \ {Arg}, !.leaving = {Arg}]
        /\ inv' = [inv EXCEPT !.sub = "sent"]
        /\ UNCHANGED life /\ Slips(Outrun)
     \/ /\ Arg \in self.streams /\ ~CanReinvite /\ Goes(<<Job("end")>>)
        /\ self' = [self EXCEPT !.pc = "dead", !.streams = @ \ {Arg}]
        /\ End({Arg}) /\ UNCHANGED inv /\ Slips(Outrun)
  /\ Outside

HoldBody ==
  /\ Begins("hold") /\ Goes(<<>>)
  /\ LET x == [self EXCEPT !.holding = TRUE] IN
       self' = IF self.onHold \/ self.holding THEN self
               ELSE IF self.state = "connected" /\ self.streams # {} THEN SendHold(x) ELSE x
  /\ inv' = Resent(self')
  /\ UNCHANGED <<life, slips>> /\ Outside

UnholdBody ==
  /\ Begins("unhold") /\ Goes(<<>>)
  /\ LET x == [self EXCEPT !.holding = FALSE] IN
       self' = IF ~self.onHold /\ ~self.holding THEN self
               ELSE IF self.state = "connected" /\ self.streams # {} THEN SendUnhold(x) ELSE x
  /\ inv' = Resent(self')
  /\ UNCHANGED <<life, slips>> /\ Outside

\* api.kill of self.greenlet: the finally clause of _reinvite_after_ice runs, and
\* the streams that remove_streams has taken off the list are not ended
Killed == [self EXCEPT !.pc = "none", !.state = IF self.pc = "ice" THEN "connected" ELSE @]
Left == IF \E s \in self.proposed : life[s] \notin {"idle", "ended", "failed"} THEN {"proposed streams left"} ELSE {}
Holds(kinds) == \E k \in DOMAIN channel : channel[k].e \in kinds
KillSlips == (IF self.pc = "m.sdp" THEN {"removal killed"} ELSE {})
             \cup (IF Holds({"offer", "request"}) THEN {"offer dropped"} ELSE {})
             \cup (IF Holds({"gone", "ended"}) THEN {"BYE killed"} ELSE {})

CancelBody ==
  /\ Begins("cancel_proposal") /\ Goes(<<>>)
  /\ \/ /\ inv.sub \in {"sent", "cancelling"}
        /\ self' = [Killed EXCEPT !.pc = "cancel"] /\ inv' = [inv EXCEPT !.sub = "cancelling"]
        /\ Slips(KillSlips \cup Outrun) /\ UNCHANGED life
     \/ /\ inv.sub \notin {"sent", "cancelling"}        \* SIPCoreError: there is nothing left to cancel
        /\ End(self.proposed)
        /\ self' = Settled(Killed) /\ inv' = Resent(self')
        /\ Slips(KillSlips \cup Outrun)
  /\ Outside

EndBody ==
  /\ Begins("end") /\ Goes(<<>>)
  /\ LET mine == self.streams \cup self.proposed IN
       \/ /\ self.state \in {"none", "terminating", "terminated"}
          /\ UNCHANGED <<self, inv, life, slips>>
       \/ /\ self.state \notin {"none", "terminating", "terminated"}
          /\ \/ /\ inv.st = "none"
                /\ self' = Ended(self) /\ End(mine)
                /\ UNCHANGED <<inv, slips>>
             \/ /\ inv.st \in {"disconnecting", "disconnected"}
                /\ self' = Killed
                /\ Slips(KillSlips \cup Left)
                /\ UNCHANGED <<inv, life>>
             \/ /\ inv.st = "incoming"    \* SIPCoreError: an INVITE is refused by reject() only
                /\ self' = Ended(self) /\ End(mine) /\ Slip("INVITE not answered")
                /\ UNCHANGED inv
             \/ /\ inv.st \in {"outgoing", "connecting", "connected"}
                /\ self' = [Killed EXCEPT !.state = "terminating", !.pc = "end"]
                /\ inv' = [inv EXCEPT !.st = "disconnecting", !.sub = ""]
                /\ Slips(KillSlips)
                /\ UNCHANGED life
  /\ Outside

-----------------------------------------------------------------------------
(* handle_notification *)

Told == Head(ready).item
Media == {"init", "noinit", "start", "fail", "sdp", "nosdp"}
Errors == {"noinit", "fail"}

\* mutant: a session that is ending does not hear of the dialog either
NotifyWaiterNotEnding ==
  /\ Begins("notify") /\ Goes(<<>>)
  /\ self.pc # "none"
  /\ channel' = IF self.state \in {"terminating", "terminated"} THEN channel ELSE Append(channel, Told)
  /\ UNCHANGED <<self, inv, life, may, mgr, slips>>

\* a green thread of the session waits, or is thought to: the channel takes it
NotifyWaiter ==
  /\ Begins("notify") /\ Goes(<<>>)
  /\ self.pc # "none"
  /\ channel' = IF \/ Told.e \notin Media /\ self.state = "terminated"
                   \/ Told.e \in Errors /\ self.state \in {"terminating", "terminated"}
                THEN channel ELSE Append(channel, Told)
  /\ UNCHANGED <<self, inv, life, may, mgr, slips>>

IdleWith(kinds) == Begins("notify") /\ Told.e \in kinds /\ self.pc = "none"
\* mutant: handle_notification does not look whether the session is over
IdleEver(kinds) == IdleWith(kinds)

Idle(kinds) == IdleWith(kinds) /\ self.state # "terminated"

\* what nobody waits for is forgotten
NotifyNobody ==
  /\ \/ IdleWith((Media \ {"fail"}) \cup {"connected", "normal"})
     \/ IdleWith({"offer", "request", "cancelled", "gone", "ended"}) /\ self.state = "terminated"
  /\ Goes(<<>>)
  /\ UNCHANGED <<self, inv, life, slips>> /\ Outside

\* the last stream has failed: the session ends; else the stream is removed, if it can be
StreamFailed ==
  /\ IdleWith({"fail"})
  /\ IF self.streams # {Arg} /\ self.state = "connected"
     THEN /\ self' = [self EXCEPT !.state = "sending_proposal"]
          /\ Goes(<<[job |-> "remove_streams", item |-> Item("", Arg)]>>)
     ELSE /\ UNCHANGED self
          /\ Goes(<<Job("end")>>)
  /\ UNCHANGED <<inv, life, slips>> /\ Outside

DialogGone ==
  /\ Idle({"gone", "ended"}) /\ Goes(<<>>)
  /\ \/ self.state = "incoming" /\ self' = Ended(self) /\ UNCHANGED <<life, slips>>
     \/ self.state # "incoming" /\ self.started /\ self' = Ended(self) /\ End(self.streams) /\ UNCHANGED slips
     \/ \* self.streams is still None, a TypeError: only a call that has yet to begin will find out
        /\ self.state # "incoming" /\ ~self.started /\ UNCHANGED <<self, life>>
        /\ Slips(IF \E k \in DOMAIN ready : ready[k].job \in {"accept", "reject"} THEN {} ELSE {"end not announced"})
  /\ UNCHANGED inv /\ Outside

\* The offer of the peer cannot be answered any more: SIPCoreError
OfferWithdrawn ==
  /\ Idle({"offer", "request"}) /\ ~CanRespond
  /\ IF Told.e = "offer"
     THEN Goes(<<Job("end")>>) /\ UNCHANGED slips
     ELSE Goes(<<>>) /\ Slip("request cancelled")
  /\ self' = [self EXCEPT !.state = IF Told.e = "offer" THEN "received_proposal" ELSE "received_proposal_request"]
  /\ UNCHANGED <<inv, life>> /\ Outside

Free == {s \in Streams \ self.streams : life[s] \in {"idle", "ended", "failed"}}

\* streams deleted, added and removed at once, or of a kind we do not know (bound: or
\* more than Streams)
OfferRefused ==
  /\ Idle({"offer"}) /\ CanRespond /\ (Arg = "bad" \/ (Arg = "add" /\ Free = {})) /\ Goes(<<>>)
  /\ self' = [self EXCEPT !.state = "connected"]
  /\ inv' = [inv EXCEPT !.sub = "refused"]
  /\ UNCHANGED life /\ Slips(Forgets) /\ Outside

\* SIPSessionNewProposal: the application answers
StreamsOffered ==
  /\ Idle({"offer"}) /\ CanRespond /\ Arg = "add" /\ Goes(<<>>)
  /\ \E s \in Free :
       /\ self' = [self EXCEPT !.state = "received_proposal", !.proposed = {s}]
       /\ life' = [life EXCEPT ![s] = "idle"]
  /\ UNCHANGED <<inv, slips>> /\ Outside

\* hold, removed streams, or nothing new: answered at once
UpdateOffered ==
  /\ Idle({"offer"}) /\ CanRespond /\ Arg = "update"
  /\ \E gone \in SUBSET self.streams :
       LET x == [self EXCEPT !.state = "received_proposal", !.streams = @ \ gone] IN
         /\ End(gone)
         /\ \/ /\ self' = [x EXCEPT !.pc = "u.sdp", !.got = {}]
               /\ inv' = [inv EXCEPT !.sub = "answered"] /\ Goes(<<>>) /\ UNCHANGED slips
            \/ \* PJSIPError: without removed streams the offer is refused
               IF gone = {} THEN /\ self' = [x EXCEPT !.state = "connected"]
                                 /\ inv' = [inv EXCEPT !.sub = "refused"] /\ Goes(<<>>) /\ Slips(Forgets)
                            ELSE self' = x /\ UNCHANGED <<inv, slips>> /\ Goes(<<Job("end")>>)
  /\ Outside

OfferRequested ==
  /\ Idle({"request"}) /\ CanRespond /\ Goes(<<>>)
  /\ self' = [self EXCEPT !.state = "received_proposal_request", !.pc = "u.sdp", !.got = {}]
  /\ inv' = [inv EXCEPT !.sub = "answered"]
  /\ UNCHANGED <<life, slips>> /\ Outside

OfferCancelled ==
  /\ Idle({"cancelled"}) /\ Goes(<<>>)
  /\ self' = IF self.proposed = {} THEN [self EXCEPT !.state = "connected"] ELSE Settled(self)
  /\ inv' = Resent(self')
  /\ UNCHANGED <<life, slips>> /\ Outside

-----------------------------------------------------------------------------
(* Green threads that go on with the next item of the channel *)

At(p) == self.pc = p /\ channel # <<>> /\ channel' = Tail(channel)
Got == Head(channel)
More == Tail(channel)
Takes(kinds) == Got.e \in kinds
Apart == UNCHANGED <<may, mgr>>
\* mutant: the end of the dialog is not handled after the operation it has interrupted
NotAgain == <<>>

Again == <<Notify(Got)>>

\* an item that the loop has no case for: an offer of the peer is lost with it
Ignored ==
  /\ IF Takes({"offer", "request"}) THEN Slip("offer dropped") ELSE UNCHANGED slips
  /\ UNCHANGED <<self, inv, life, ready>>

\* received_sdp_update, received_invitation_state
Noted == [self EXCEPT !.got = @ \cup (IF Takes({"sdp", "nosdp"}) THEN {"sdp"} ELSE {"state"})]
Both(x) == x.got = {"sdp", "state"}
Note == self' = Noted /\ UNCHANGED <<inv, life, ready, slips>>

\* mutant: the streams of a session that cannot be set up are not ended
SetupFailsOnly == FailOp(self) /\ UNCHANGED <<life, ready, slips>>

\* a session is set up: connect and accept, whose loops differ only in their time limits
SetupFails == End(self.proposed) /\ FailOp(self) /\ UNCHANGED <<ready, slips>>
SetupEnds == End(self.proposed) /\ self' = Ended(self) /\ UNCHANGED <<inv, ready, slips>>

SetupInit ==
  /\ At("init") /\ Apart
  /\ \/ /\ Takes({"init"}) /\ self.wait > 1
        /\ self' = [self EXCEPT !.wait = @ - 1]
        /\ UNCHANGED <<inv, life, ready, slips>>
     \/ /\ Takes({"init"}) /\ self.wait = 1 /\ self.dir = "outgoing"
        /\ self' = [self EXCEPT !.pc = "sdp", !.got = {}] /\ inv' = [inv EXCEPT !.st = "outgoing"]
        /\ UNCHANGED <<life, ready, slips>>
     \/ \* accept() looks for the address of the remote SDP, with or without one
        /\ Takes({"init"}) /\ self.wait = 1 /\ self.dir = "incoming" /\ ~inv.sdp
        /\ Escapes("accept without SDP") /\ UNCHANGED <<inv, life, ready>>
     \/ /\ Takes({"init"}) /\ self.wait = 1 /\ self.dir = "incoming" /\ inv.sdp /\ inv.st = "incoming"
        /\ \E r \in {"sdp", "nosdp"} :
             /\ inv' = [inv EXCEPT !.st = "connecting", !.sub = IF r = "sdp" THEN "" ELSE "failed"]
             /\ Tell(<<Item(r, "")>>)
        /\ self' = [self EXCEPT !.pc = "sdp", !.got = {}]
        /\ UNCHANGED <<life, slips>>
     \/ \* SIPCoreInvalidStateError: the INVITE was cancelled
        /\ Takes({"init"}) /\ self.wait = 1 /\ self.dir = "incoming" /\ inv.sdp /\ inv.st # "incoming"
        /\ SetupEnds
     \/ \* a stream, the contact, the address of this host or the engine fails
        /\ \/ Takes({"noinit", "fail"})
           \/ Takes({"init"}) /\ self.wait = 1
        /\ SetupFails
     \/ Takes({"gone"}) /\ SetupEnds
     \/ ~Takes({"init", "noinit", "fail", "gone"}) /\ Ignored

\* the operation has given the session its new streams: what it kept is handled now
Added(x) == [Connected(x) EXCEPT !.streams = x.streams \cup x.proposed, !.started = TRUE]
Complete(x) == /\ self' = Settled(Added(x))
               /\ inv' = Resent(self')
               /\ Later(NotifyAll(x.kept))
               /\ UNCHANGED slips

\* _reinvite_after_ice: without a try, so that a busy dialog ends the greenlet
AfterICE(x) ==
  \/ /\ CanReinvite
     /\ self' = [Sending(Added(x), "ice") EXCEPT !.kept = x.kept]
     /\ inv' = Resent(self') /\ UNCHANGED <<ready, slips>>
  \/ /\ ~CanReinvite
     /\ self' = Sending(Added(x), "dead") /\ Slip("re-INVITE after ICE not possible")
     /\ UNCHANGED <<inv, ready>>

\* streams whose port is 0 in the answer are ended, the others started
StartStreams(S) == life' = [s \in Streams |-> IF s \notin self.proposed THEN life[s]
                                              ELSE IF s \notin S THEN "ended"
                                              ELSE IF life[s] = "ready" THEN "starting" ELSE life[s]]

\* every stream runs, the dialog is connected, and nothing is left on the channel
SetupGoesOn(x) ==
  IF x.wait = 0 /\ "state" \in x.got /\ More = <<>>
  THEN Complete(x) \/ (self.dir = "outgoing" /\ AfterICE(x))
  ELSE self' = x /\ UNCHANGED <<inv, ready, slips>>

SetupSDP ==
  /\ At("sdp") /\ Apart
  /\ \/ /\ Takes({"sdp"})
        /\ \E S \in SUBSET self.proposed :
             /\ StartStreams(S)
             /\ SetupGoesOn([self EXCEPT !.pc = "media", !.wait = Cardinality(S), !.proposed = S])
     \/ Takes({"connected"}) /\ Note
     \/ Takes({"nosdp", "noinit", "fail"}) /\ SetupFails
     \/ Takes({"gone"}) /\ SetupEnds
     \/ ~Takes({"sdp", "connected", "nosdp", "noinit", "fail", "gone"}) /\ Ignored

SetupMedia ==
  /\ At("media") /\ Apart
  /\ \/ Takes({"start"}) /\ SetupGoesOn([self EXCEPT !.wait = @ - 1]) /\ UNCHANGED life
     \/ Takes({"connected"}) /\ SetupGoesOn(Noted) /\ UNCHANGED life
     \/ Takes({"offer", "request"}) /\ SetupGoesOn([self EXCEPT !.kept = Append(@, Got)]) /\ UNCHANGED life
     \/ Takes({"noinit", "fail"}) /\ SetupFails
     \/ Takes({"gone"}) /\ SetupEnds
     \/ Takes({"normal", "cancelled", "init", "sdp", "nosdp", "ended"}) /\ SetupGoesOn(self) /\ UNCHANGED life

\* mutant: the session that nobody answers is not ended
SetupTimeoutOnly ==
  /\ \/ /\ self.pc = "sdp" /\ self.dir = "outgoing" /\ channel = <<>>
        /\ self' = [self EXCEPT !.pc = "dead"] /\ UNCHANGED <<inv, life, ready, slips>>
     \/ /\ self.pc = "media" /\ channel = <<>>
        /\ self.dir = "outgoing" => self.wait > 0
        /\ SetupFails
  /\ UNCHANGED channel /\ Apart

\* invite_timeout: the session ends itself; media_stream_timeout: it fails
SetupTimeout ==
  /\ \/ /\ self.pc = "sdp" /\ self.dir = "outgoing" /\ channel = <<>>
        /\ self' = [self EXCEPT !.pc = "dead"] /\ Later(<<Job("end")>>)
        /\ UNCHANGED <<inv, life, slips>>
     \/ /\ self.pc = "media" /\ channel = <<>>
        /\ self.dir = "outgoing" => self.wait > 0
        /\ SetupFails
  /\ UNCHANGED channel /\ Apart

FailWaits ==
  /\ At("fail") /\ Apart
  /\ \/ Takes({"ended"}) /\ self' = Ended(self) /\ UNCHANGED <<inv, life, ready, slips>>
     \/ Takes({"gone", "noinit", "fail"}) /\ Escapes("second failure") /\ UNCHANGED <<inv, life, ready>>
     \/ ~Takes({"ended", "gone", "noinit", "fail"}) /\ Ignored

RejectWaits ==
  /\ At("reject") /\ Apart
  /\ \/ Takes({"ended"}) /\ self' = Ended(self) /\ UNCHANGED <<inv, life, ready, slips>>
     \/ ~Takes({"ended"}) /\ Ignored

\* a second has passed without the end of the dialog
EndTimeout ==
  /\ self.pc \in {"fail", "reject"} /\ channel = <<>>
  /\ self' = Ended(self)
  /\ UNCHANGED <<inv, life, channel, ready, slips>> /\ Apart

EndWaits ==
  /\ At("end") /\ Apart
  /\ \/ /\ Takes({"ended", "gone"})
        /\ self' = Ended(self) /\ End(self.streams \cup self.proposed)
        /\ UNCHANGED <<inv, ready, slips>>
     \/ \* only MediaStreamDidFailError is expected: the end is never announced
        /\ Takes({"noinit"}) /\ Slip("end not announced")
        /\ self' = [self EXCEPT !.state = "terminated", !.pc = "none", !.sees = FALSE]
        /\ End(self.streams \cup self.proposed)
        /\ UNCHANGED <<inv, ready>>
     \/ ~Takes({"ended", "gone", "noinit"}) /\ Ignored

ICEWaits ==
  /\ At("ice") /\ Apart
  /\ LET back == [self EXCEPT !.got = {}] IN
     \/ Takes({"sdp", "normal"}) /\ ~Both(Noted) /\ Note /\ UNCHANGED slips
     \/ /\ \/ Takes({"sdp", "normal"}) /\ Both(Noted)
           \/ Takes({"nosdp", "fail", "noinit"})
        /\ Complete(back) /\ UNCHANGED life
     \/ \* the finally clause declares the session connected
        /\ Takes({"gone"}) /\ Slip("BYE during ICE")
        /\ self' = Settled(Added(back)) /\ inv' = Resent(self') /\ Later(NotifyAll(self.kept))
        /\ UNCHANGED life
     \/ ~Takes({"sdp", "normal", "nosdp", "fail", "noinit", "gone"}) /\ Ignored

ICETimeout ==
  /\ self.pc = "ice" /\ channel = <<>>
  /\ Complete([self EXCEPT !.got = {}])
  /\ UNCHANGED <<life, channel>> /\ Apart

-----------------------------------------------------------------------------
(* Proposals of either side *)

\* the dialog is lost under a proposal: it fails, and the end is handled after it
ProposalFails(later) == FailProposal /\ Later(later) /\ Slips(Forgets)

\* the peer has refused our proposal
Rejected == /\ End(self.proposed) /\ self' = Connected(self) /\ UNCHANGED inv

AcceptProposalWaits ==
  \/ /\ At("p.init") /\ Apart
     /\ \/ /\ Takes({"init"}) /\ CanRespond      \* a proposal adds one stream
           /\ self' = [self EXCEPT !.pc = "p.sdp"] /\ inv' = [inv EXCEPT !.sub = "answered"]
           /\ UNCHANGED <<life, ready, slips>>
        \/ /\ \/ Takes({"init"}) /\ ~CanRespond
              \/ Takes({"noinit", "fail"})
           /\ ProposalFails(<<>>)
        \/ Takes({"gone"}) /\ ProposalFails(Again)
        \/ ~Takes({"init", "noinit", "fail", "gone"}) /\ Ignored
  \/ /\ At("p.sdp") /\ Apart
     /\ \/ /\ Takes({"sdp", "normal"})
           /\ IF Both(Noted) THEN /\ self' = [self EXCEPT !.pc = "p.media"]
                                  /\ StartStreams(self.proposed)
                             ELSE self' = Noted /\ UNCHANGED life
           /\ UNCHANGED <<inv, ready, slips>>
        \/ Takes({"nosdp", "fail"}) /\ ProposalFails(<<>>)
        \/ Takes({"gone"}) /\ ProposalFails(Again)
        \/ ~Takes({"sdp", "normal", "nosdp", "fail", "gone"}) /\ Ignored
  \/ /\ At("p.media") /\ Apart
     /\ LET x == [self EXCEPT !.wait = IF Takes({"start"}) THEN @ - 1 ELSE @,
                              !.kept = IF Takes({"start"}) THEN @ ELSE Append(@, Got)] IN
        \/ /\ ~Takes({"fail", "gone"})
           /\ IF x.wait = 0 /\ More = <<>> THEN Complete(x)
                                           ELSE self' = x /\ UNCHANGED <<inv, ready, slips>>
           /\ UNCHANGED life
        \/ Takes({"fail"}) /\ ProposalFails(<<>>)
        \/ Takes({"gone"}) /\ ProposalFails(Again)

RejectProposalWaits ==
  /\ At("rp") /\ Apart
  /\ \/ Takes({"normal"}) /\ self' = Settled(self) /\ inv' = Resent(self') /\ UNCHANGED <<life, ready, slips>>
     \/ Takes({"gone", "fail"}) /\ Escapes("reject_proposal interrupted") /\ UNCHANGED <<inv, life, ready>>
     \/ ~Takes({"normal", "gone", "fail"}) /\ Ignored

AddWaits ==
  \/ /\ At("s.init") /\ Apart
     /\ \/ /\ Takes({"init"}) /\ CanReinvite
           /\ self' = [self EXCEPT !.pc = "s.sdp"] /\ inv' = [inv EXCEPT !.sub = "sent"]
           /\ UNCHANGED <<life, ready, slips>>
        \/ /\ \/ Takes({"init"}) /\ ~CanReinvite
              \/ Takes({"noinit", "fail"})
           /\ ProposalFails(<<>>)
        \/ Takes({"offer", "gone"}) /\ ProposalFails(Again)
        \/ ~Takes({"init", "noinit", "fail", "offer", "gone"}) /\ Ignored
  \/ /\ At("s.sdp") /\ Apart
     /\ \/ /\ Takes({"sdp", "normal"}) /\ Got.x # "rejected" /\ ~Both(Noted) /\ Note
        \/ /\ Takes({"sdp", "normal"}) /\ Got.x # "rejected" /\ Both(Noted)
           /\ \E S \in {self.proposed, {}} :
                LET x == [self EXCEPT !.proposed = S] IN
                  /\ StartStreams(S)
                  /\ IF S = {} THEN Complete(x)
                               ELSE self' = [x EXCEPT !.pc = "s.media"] /\ UNCHANGED <<inv, ready, slips>>
        \/ /\ Takes({"normal"}) /\ Got.x = "rejected"
           /\ Rejected /\ Slips(Forgets) /\ UNCHANGED ready
        \/ Takes({"nosdp", "fail"}) /\ ProposalFails(<<>>)
        \/ Takes({"gone"}) /\ ProposalFails(Again)
        \/ ~Takes({"sdp", "normal", "nosdp", "fail", "gone"}) /\ Ignored
  \/ /\ At("s.media") /\ Apart
     /\ \/ Takes({"start"}) /\ (Complete(self) \/ AfterICE(self)) /\ UNCHANGED life
        \/ Takes({"fail"}) /\ ProposalFails(<<>>)
        \/ Takes({"gone"}) /\ ProposalFails(Again)
        \/ ~Takes({"start", "fail", "gone"}) /\ Ignored

\* invite_timeout cancels the proposal; media_stream_timeout fails it
ProposalTimeout ==
  /\ channel = <<>>
  /\ \/ /\ self.pc = "s.sdp"
        /\ self' = [self EXCEPT !.state = "cancelling_proposal", !.pc = "dead"]
        /\ Later(<<Job("cancel_proposal")>>)
        /\ UNCHANGED <<inv, life, slips>>
     \/ self.pc \in {"s.media", "p.media"} /\ ProposalFails(<<>>)
     \/ /\ self.pc = "rp"
        /\ self' = Settled(self) /\ inv' = Resent(self')
        /\ UNCHANGED <<life, ready, slips>>
  /\ UNCHANGED channel /\ Apart

\* the streams leave; the session goes on whatever the answer is
RemoveWaits ==
  /\ At("m.sdp") /\ Apart
  /\ LET x == [self EXCEPT !.leaving = {}] IN
     \/ /\ Takes({"sdp", "nosdp", "normal"}) /\ ~Both(Noted) /\ Got.x # "rejected"
        /\ Note
     \/ /\ Takes({"sdp", "nosdp", "normal"}) /\ (Both(Noted) \/ Got.x = "rejected")
        /\ End(self.leaving) /\ self' = Settled(x) /\ inv' = Resent(self')
        /\ UNCHANGED <<ready, slips>>
     \/ /\ Takes({"gone"}) /\ End(self.leaving)
        /\ self' = [x EXCEPT !.pc = "none"] /\ Later(Again)
        /\ UNCHANGED <<inv, slips>>
     \/ /\ Takes({"fail"}) /\ End(self.leaving)
        /\ self' = [x EXCEPT !.pc = "dead"] /\ Later(<<Job("end")>>)
        /\ UNCHANGED <<inv, slips>>
     \/ ~Takes({"sdp", "nosdp", "normal", "gone", "fail"}) /\ Ignored

CancelWaits ==
  /\ At("cancel") /\ Apart
  /\ \/ /\ Takes({"normal"}) /\ Got.x = "cancelled"
        /\ End(self.proposed) /\ self' = Settled(self) /\ inv' = Resent(self')
        /\ UNCHANGED <<ready, slips>>
     \/ /\ Takes({"normal"}) /\ Got.x # "cancelled"
        /\ self' = Settled(self) /\ inv' = Resent(self')
        /\ Later(IF Got.x = "accepted" THEN <<Job("end")>> ELSE <<>>)
        /\ Slips(Left) /\ UNCHANGED life
     \/ /\ Takes({"gone"})
        /\ self' = LET x == [self EXCEPT !.pc = "none", !.proposed = {}] IN
                     IF x.holding THEN SendHold(x) ELSE x
        /\ Later(Again) /\ Slips(Left)
        /\ UNCHANGED <<inv, life>>
     \/ Takes({"noinit"}) /\ Escapes("cancel_proposal interrupted") /\ UNCHANGED <<inv, life, ready>>
     \/ ~Takes({"normal", "gone", "noinit"}) /\ Ignored

UpdateWaits ==
  /\ At("u.sdp") /\ Apart
  /\ \/ /\ Takes({"sdp", "nosdp", "normal", "offer", "request", "cancelled", "init", "start"})
        /\ LET x == IF Takes({"sdp", "nosdp", "normal"}) THEN Noted ELSE [self EXCEPT !.kept = Append(@, Got)] IN
             IF Both(x) /\ More = <<>>
             THEN self' = Connected(x) /\ Later(NotifyAll(x.kept)) /\ Slips(Forgets)
             ELSE self' = x /\ UNCHANGED <<ready, slips>>
        /\ UNCHANGED <<inv, life>>
     \/ /\ Takes({"gone"})
        /\ self' = Connected(self) /\ Later(Again \o NotifyAll(self.kept))
        /\ UNCHANGED <<inv, life, slips>>
     \/ \* MediaStreamDidFailError: the state stays received_proposal
        /\ Takes({"fail"}) /\ Slip("update interrupted")
        /\ self' = [self EXCEPT !.pc = "none", !.kept = <<>>] /\ Later(NotifyAll(self.kept))
        /\ UNCHANGED <<inv, life>>

-----------------------------------------------------------------------------
(* hold and unhold *)

Held(x) == /\ self' = IF self.pc \in {"hold", "hold.cancel"} THEN HoldDone(x) ELSE UnholdDone(x)
           /\ inv' = Resent(self')

HoldWaits ==
  \/ \E p \in {"hold", "unhold"} :
     /\ At(p) /\ Apart
     /\ \/ /\ Takes({"sdp", "nosdp", "normal"})
           /\ IF Both(Noted) THEN Held(Noted) ELSE self' = Noted /\ UNCHANGED inv
           /\ UNCHANGED <<life, ready, slips>>
        \/ /\ Takes({"gone"})
           /\ self' = [self EXCEPT !.pc = "none"] /\ Later(Again)
           /\ UNCHANGED <<inv, life, slips>>
        \/ Takes({"fail"}) /\ Escapes("stream failed during hold") /\ UNCHANGED <<inv, life, ready>>
        \/ ~Takes({"sdp", "nosdp", "normal", "gone", "fail"}) /\ Ignored
  \/ \E p \in {"hold.cancel", "unhold.cancel"} :
     /\ At(p) /\ Apart
     /\ \/ /\ Takes({"normal"}) /\ Got.x # "accepted"
           /\ Held(self) /\ UNCHANGED <<life, ready, slips>>
        \/ /\ Takes({"normal"}) /\ Got.x = "accepted"
           /\ self' = [self EXCEPT !.pc = "dead"] /\ Later(<<Job("end")>>)
           /\ UNCHANGED <<inv, life, slips>>
        \/ /\ Takes({"gone"})
           /\ self' = [self EXCEPT !.pc = "none"] /\ Later(Again)
           /\ UNCHANGED <<inv, life, slips>>
        \/ ~Takes({"normal", "gone"}) /\ Ignored

\* short_reinvite_timeout: the re-INVITE is cancelled, if it still can be
HoldTimeout ==
  /\ self.pc \in {"hold", "unhold", "m.sdp"} /\ channel = <<>>
  /\ \/ /\ self.pc = "m.sdp" /\ End(self.leaving)
        /\ self' = [self EXCEPT !.pc = "dead", !.leaving = {}] /\ Later(<<Job("end")>>)
        /\ UNCHANGED inv
     \/ /\ self.pc # "m.sdp" /\ inv.sub = "sent"
        /\ self' = [self EXCEPT !.pc = IF @ = "hold" THEN "hold.cancel" ELSE "unhold.cancel"]
        /\ inv' = [inv EXCEPT !.sub = "cancelling"]
        /\ UNCHANGED <<life, ready>>
     \/ self.pc # "m.sdp" /\ inv.sub # "sent" /\ Held(self) /\ UNCHANGED <<life, ready>>
  /\ UNCHANGED <<channel, slips>> /\ Apart

-----------------------------------------------------------------------------
Environment ==
  \/ CallArrives \/ PeerAnswers \/ DialogConfirmed \/ DialogLost \/ DialogEnds
  \/ PeerOffers \/ PeerCancelsOffer \/ OfferAnswered \/ PeerAnswersReinvite
  \/ StreamInitialized \/ StreamStarts \/ StreamFails

Application ==
  \/ connect \/ accept \/ reject \/ accept_proposal \/ reject_proposal \/ add_streams
  \/ remove_streams \/ cancel_proposal \/ hold \/ unhold \/ end \/ stop

Starts ==
  \/ ConnectBody \/ AcceptBody \/ RejectBody \/ AcceptProposalBody \/ RejectProposalBody
  \/ AddBody \/ RemoveBody \/ HoldBody \/ UnholdBody \/ CancelBody \/ EndBody
  \/ NotifyWaiter \/ NotifyNobody \/ StreamFailed \/ DialogGone \/ OfferWithdrawn \/ OfferRefused
  \/ StreamsOffered \/ UpdateOffered \/ OfferRequested \/ OfferCancelled

GoesOn ==
  \/ SetupInit \/ SetupSDP \/ SetupMedia \/ FailWaits \/ RejectWaits \/ EndWaits \/ ICEWaits
  \/ AcceptProposalWaits \/ RejectProposalWaits \/ AddWaits \/ RemoveWaits \/ CancelWaits
  \/ UpdateWaits \/ HoldWaits

Timeout == SetupTimeout \/ EndTimeout \/ ICETimeout \/ ProposalTimeout \/ HoldTimeout

Next == Environment \/ Application \/ Starts \/ GoesOn \/ Timeout \/ Stopped

\* The reactor runs what is ready and wakes who waits; timers fire; the engine
\* ends a dialog and its transactions by itself.  Neither peer nor application must act.
Fairness ==
  /\ WF_vars(Starts) /\ WF_vars(GoesOn) /\ WF_vars(Timeout) /\ WF_vars(Stopped)
  /\ WF_vars(DialogEnds) /\ WF_vars(DialogConfirmed) /\ WF_vars(OfferAnswered)
  /\ WF_vars(PeerAnswersReinvite) /\ WF_vars(StreamInitialized) /\ WF_vars(StreamStarts)

Spec == Init /\ [][Next]_vars /\ Fairness

-----------------------------------------------------------------------------
TypeOK ==
  /\ self \in [dir : {"outgoing", "incoming"}, state : States, pc : Points \cup {"none", "dead"},
               wait : 0..Cardinality(Streams), got : SUBSET {"sdp", "state"}, started : BOOLEAN,
               streams : SUBSET Streams, proposed : SUBSET Streams, leaving : SUBSET Streams,
               kept : Seq(Items), onHold : BOOLEAN, holding : BOOLEAN,
               told : {"none", "new", "over"}, ends : Nat, sees : BOOLEAN]
  /\ inv \in [st : {"none", "incoming", "outgoing", "connecting", "connected", "disconnecting", "disconnected"},
              sub : {"", "failed", "normal", "sent", "cancelling", "offer", "request", "answered", "refused"},
              troubles : 0..MaxTroubles, sdp : BOOLEAN]
  /\ life \in [Streams -> {"idle", "init", "ready", "starting", "on", "failed", "ended"}]
  /\ channel \in Seq(Items)
  /\ ready \in Seq([job : Calls \cup {"notify"}, item : Items \cup [e : {""}, x : Streams \cup {""}]])
  /\ may \subseteq Calls /\ mgr \in {"started", "stopping", "stopped"}

(* What a session promises its application, and what can be lost *)

\* an operation has ended without reading everything the channel held
Unread == self.pc = "none" /\ Holds({"offer", "request", "cancelled", "gone", "ended"})
Rests(st) == self.pc = "none" /\ self.state = st /\ ready = <<>> /\ slips = {} /\ ~Unread

\* The end is told once, of a session that was announced, and then its state is final.
ToldOnce == /\ self.ends <= 1 \/ slips # {}
            /\ self.told = "over" => self.state = "terminated" \/ slips # {}

\* nobody reads the channel any more, and no call that would kill the dead greenlet is coming
Deaf == self.pc = "dead" /\ \A k \in DOMAIN ready : ready[k].job \notin {"end", "cancel_proposal"}

\* A green thread of the session that dies has left a successor: end() or cancel_proposal().
NeverDeaf == Deaf => slips # {}

\* When nothing is under way, only the streams of the session's list run: none of a session
\* that is over, and none of a connected one that was proposed, refused or removed.
Runs == {s \in Streams : life[s] \notin {"idle", "ended", "failed"}}
NoStreamLeft ==
  /\ Rests("terminated") => Runs = {}
  /\ Rests("connected") => Runs \subseteq self.streams

\* A connected session that is idle owes nothing: no offer of the peer unanswered, and no
\* hold still to be sent.
NothingPending ==
  Rests("connected") =>
    /\ inv.sub \notin {"offer", "request"}
    /\ self.holding => self.streams = {}

\* When the dialog is over, the session that was announced ends.
EndsWithTheDialog == (self.told = "new" /\ inv.st = "disconnected") ~> (self.told = "over" \/ slips # {} \/ Unread)

\* A session that SessionManager.stop asks to end does end, so that stop returns; a session
\* that starts meanwhile is admitted, and stop waits for it as long as it lasts.
StopCompletes ==
  (mgr = "stopping" /\ self.told = "new" /\ \E k \in DOMAIN ready : ready[k].job = "end")
    ~> (mgr = "stopped" \/ slips # {} \/ Unread)

=============================================================================
