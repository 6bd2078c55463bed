---------------------------- MODULE SessionProofs ----------------------------
(***************************************************************************)
(* Three promises of a session, whatever its streams, the offers, the      *)
(* calls and the number of troubles are, unless something was lost before  *)
(* (slips): its end is told once and its state is final after that, a      *)
(* green thread of the session that dies has left a successor, and only    *)
(* the streams of its list run in a session at rest.                       *)
(*                                                                         *)
(* Up to the start of connect() nothing has happened (EarlyOK): no other   *)
(* call can come first (ConnectFirst), for it is what announces the        *)
(* session.  Afterwards every step either keeps what was told (Keeps) or   *)
(* ends the session (Closes), and a session that is over only hears calls  *)
(* that find it terminated (ToldOK).                                       *)
(*                                                                         *)
(* For the second one, a session that is ending waits for nothing but its  *)
(* end (Fits): a green thread that dies while the session goes on has      *)
(* called end() or cancel_proposal(), and only that call takes its place   *)
(* (Alive).                                                                *)
(*                                                                         *)
(* For the third one, the wait point says which streams may run besides    *)
(* the list's (Owned): those that an operation has proposed until its end, *)
(* and those that remove_streams() has taken off the list.  A session that *)
(* is set up has no list, and one that is connected waits for nothing      *)
(* (Placed).                                                               *)
(***************************************************************************)
EXTENDS Session, SequenceFacts

Fields == {"dir", "state", "pc", "wait", "got", "started", "streams", "proposed", "leaving",
           "kept", "onHold", "holding", "told", "ends", "sees"}

Shape == /\ DOMAIN self = Fields /\ IsSeq(self.kept) /\ self.ends \in Nat
         /\ "st" \in DOMAIN inv
         /\ IsSeq(ready)

NoConnect(s) == IsSeq(s) /\ \A k \in 1..Len(s) : s[k].job # "connect"
OnlyHolds(s) == \A k \in 1..Len(s) : s[k].job \in {"hold", "unhold"}

\* nothing has been announced yet
Early == self.state = "none" \/ ~NoConnect(ready)
EarlyOK == Early => /\ self.told = "none" /\ self.pc = "none" /\ ~self.sees
                    /\ inv.st = "none"
                    /\ \A s \in Streams : life[s] = "idle"

\* no call comes before connect(), and it comes from a session that does nothing else
Waiting(st, s) ==
  /\ IsSeq(s)
  /\ st = "none" => OnlyHolds(s)
  /\ \A k \in 1..Len(s) : s[k].job = "connect" =>
       /\ st = "connecting"
       /\ \A i \in 1..Len(s) : i < k => s[i].job \in {"hold", "unhold"}
ConnectFirst == Waiting(self.state, ready)

\* what was told is final, unless something was lost
ToldOK ==
  slips = {} =>
    /\ self.told = "over" => self.state = "terminated" /\ self.pc = "none" /\ self.ends = 1
    /\ self.told # "over" => self.ends = 0

SInv == Shape /\ EarlyOK /\ ConnectFirst /\ ToldOK

\* x is the session with the same told, or the session that has just ended
Keeps(x) == /\ DOMAIN x = Fields /\ IsSeq(x.kept)
            /\ x.state # "none" /\ x.told = self.told /\ x.ends = self.ends
Closes(x) == /\ DOMAIN x = Fields /\ IsSeq(x.kept)
             /\ x.state = "terminated" /\ x.pc = "none"
             /\ x.told = "over" /\ x.ends = self.ends + 1

\* the state of a session that was announced: only what it does not hear leaves it idle
Sound == Shape /\ self.state # "none" /\ NoConnect(ready)
Busy == self.pc # "none" \/ self.state # "terminated"
Still == self'.pc = self.pc /\ self'.state = self.state /\ self'.told = self.told /\ self'.ends = self.ends

\* what every step of a session that was announced does
Acts ==
  /\ Keeps(self') \/ Closes(self')
  /\ NoConnect(ready')
  /\ "st" \in DOMAIN inv'
  /\ slips' = {} => slips = {} /\ (Busy \/ Still)

-----------------------------------------------------------------------------
(* The helpers of the handlers keep what was told *)

\* An operation that ends leaves a connected session.
LEMMA ConnectedKeeps ==
  ASSUME NEW x, Keeps(x)
  PROVE  Keeps(Connected(x)) /\ Connected(x).holding = x.holding /\ Connected(x).state = "connected"
BY Empty DEF Keeps, Connected, Fields

\* A re-INVITE for hold or unhold tells nothing.
LEMMA SendsKeep ==
  ASSUME NEW x, Keeps(x)
  PROVE  /\ Keeps(SendHold(x)) /\ Keeps(SendUnhold(x))
         /\ \A p : Keeps(Sending(x, p))
BY DEF Keeps, SendHold, SendUnhold, Sending, Fields

\* Nor does the hold that was asked for meanwhile.
LEMMA SettledKeeps ==
  ASSUME NEW x, Keeps(x)
  PROVE  Keeps(Settled(x))
BY ConnectedKeeps, SendsKeep DEF Settled

\* Nor what comes after a hold or an unhold.
LEMMA HoldsKeep ==
  ASSUME NEW x, Keeps(x)
  PROVE  Keeps(HoldDone(x)) /\ Keeps(UnholdDone(x))
<1> DEFINE c == Connected(x)
<1>1. Keeps(c) BY ConnectedKeeps
<1>2. Keeps([c EXCEPT !.onHold = TRUE, !.holding = FALSE]) /\ Keeps([c EXCEPT !.onHold = TRUE])
      /\ Keeps([c EXCEPT !.onHold = FALSE])
  <2> HIDE DEF c
  <2> QED BY <1>1 DEF Keeps, Fields
<1>3. Keeps(SendUnhold([c EXCEPT !.onHold = TRUE])) BY <1>2, SendsKeep
<1>4. Keeps(SendHold([c EXCEPT !.onHold = FALSE])) BY <1>2, SendsKeep
<1> QED BY <1>2, <1>3, <1>4 DEF HoldDone, UnholdDone

\* The session that an operation has given its new streams.
LEMMA AddedKeeps ==
  ASSUME NEW x, Keeps(x)
  PROVE  Keeps(Added(x))
<1> DEFINE c == Connected(x)
<1>1. Keeps(c) BY ConnectedKeeps
<1>2. Keeps([c EXCEPT !.streams = x.streams \cup x.proposed, !.started = TRUE])
  <2> HIDE DEF c
  <2> QED BY <1>1 DEF Keeps, Fields
<1> QED BY <1>2 DEF Added

\* SIPSessionDidEnd and SIPSessionDidFail close the session.
LEMMA EndedCloses ==
  ASSUME Shape, NEW x, Keeps(x)
  PROVE  Closes(Ended(x))
BY DEF Shape, Keeps, Closes, Ended, Fields

\* A session that is killed keeps what was told.
LEMMA SelfKeeps ==
  ASSUME Sound
  PROVE  Keeps(self) /\ Keeps(Killed)
BY DEF Sound, Shape, Keeps, Killed, Fields

-----------------------------------------------------------------------------
(* The queue of green threads *)

\* Queues without connect(), one after the other.
LEMMA NoConnectJoined ==
  ASSUME NEW s, NEW t, NoConnect(s), NoConnect(t)
  PROVE  NoConnect(s \o t)
<1>1. IsSeq(s \o t) /\ Len(s) \in Nat /\ Len(t) \in Nat /\ Len(s \o t) = Len(s) + Len(t)
      /\ \A i \in 1..(Len(s) + Len(t)) : (s \o t)[i] = IF i <= Len(s) THEN s[i] ELSE t[i - Len(s)]
  BY Joined, Zenon DEF NoConnect
<1>2. ASSUME NEW k \in 1..Len(s \o t) PROVE (s \o t)[k].job # "connect"
  <2>1. CASE k <= Len(s) BY <1>1, <1>2, <2>1 DEF NoConnect
  <2>2. CASE ~(k <= Len(s))
    <3>1. k - Len(s) \in 1..Len(t) BY <1>1, <1>2, <2>2
    <3>2. (s \o t)[k] = t[k - Len(s)] BY <1>1, <1>2, <2>2
    <3> QED BY <3>1, <3>2 DEF NoConnect
  <2> QED BY <2>1, <2>2
<1> QED BY <1>1, <1>2 DEF NoConnect

\* A queue without connect() has none at its head.
LEMMA NoConnectTail ==
  ASSUME NEW s, NoConnect(s), s # <<>>
  PROVE  NoConnect(Tail(s)) /\ Head(s).job # "connect"
<1>1. IsSeq(Tail(s)) /\ Len(s) \in Nat \ {0} /\ Len(Tail(s)) = Len(s) - 1 /\ Head(s) = s[1]
      /\ \A i \in 1..(Len(s) - 1) : Tail(s)[i] = s[i + 1]
  BY WithoutFirst, Zenon DEF NoConnect
<1> QED BY <1>1 DEF NoConnect

\* The empty queue, and a queue of one call.
LEMMA NoConnectShort ==
  NoConnect(<<>>) /\ \A e : e.job # "connect" => NoConnect(<<e>>)
BY One, Empty DEF NoConnect

\* What the engine tells is no call.
LEMMA Heard ==
  ASSUME NEW s, IsSeq(s)
  PROVE  NoConnect(NotifyAll(s)) /\ \A i : NoConnect(<<Notify(i)>>)
<1> DEFINE t == [k \in 1..Len(s) |-> Notify(s[k])]
<1>1. PICK S : s \in Seq(S) BY DEF IsSeq
<1>2. Len(s) \in Nat BY <1>1
<1>3. t \in Seq({Notify(s[k]) : k \in 1..Len(s)}) BY <1>2
<1>4. IsSeq(t) BY <1>3 DEF IsSeq
<1>5. Len(t) = Len(s) /\ \A k \in 1..Len(t) : t[k].job # "connect" BY <1>2 DEF Notify
<1>6. ASSUME NEW i PROVE NoConnect(<<Notify(i)>>) BY NoConnectShort DEF Notify
<1> QED BY <1>4, <1>5, <1>6 DEF NoConnect, NotifyAll

\* A call that is not connect().
LEMMA CallsQueued ==
  ASSUME NEW j, j # "connect"
  PROVE  NoConnect(<<Job(j)>>) /\ \A i : NoConnect(<<[job |-> j, item |-> i]>>)
BY NoConnectShort DEF Job

\* a handler that puts more behind what is ready, or behind the rest of it
LEMMA LaterQueues ==
  ASSUME Sound, NEW s, NoConnect(s), Later(s)
  PROVE  NoConnect(ready')
BY NoConnectJoined DEF Sound, Later

\* A green thread that starts leaves the rest of the queue and what it puts behind it.
LEMMA GoesQueues ==
  ASSUME Sound, NEW j, Begins(j), NEW s, NoConnect(s), Goes(s)
  PROVE  NoConnect(ready') /\ Head(ready).job = j
BY NoConnectTail, NoConnectJoined DEF Sound, Begins, Goes

\* The engine puts notifications behind what is ready.
LEMMA TellQueues ==
  ASSUME Sound, NEW s, IsSeq(s), Tell(s)
  PROVE  NoConnect(ready')
BY Heard, NoConnectJoined DEF Sound, Tell

\* Nothing lost after a step: nothing lost before, and nothing in it.
LEMMA SlipKept ==
  ASSUME NEW S, Slips(S)
  PROVE  slips' = {} => slips = {} /\ S = {}
BY DEF Slips

\* A slip is recorded, this one or an earlier one.
LEMMA SlipNamed ==
  ASSUME NEW n, Slip(n)
  PROVE  slips' # {}
BY DEF Slip, Slips

\* A call that finds the session terminated was overtaken.
LEMMA OutrunSlips ==
  ASSUME Head(ready).job \in {"accept", "reject", "accept_proposal", "reject_proposal",
                              "add_streams", "remove_streams", "cancel_proposal"},
         ~Busy
  PROVE  Outrun # {}
<1>1. Moves[Head(ready).job][2] # "terminated" BY DEF Moves
<1> QED BY <1>1 DEF Outrun, Busy

\* The Invitation keeps its attributes.
LEMMA EndKeepsInv ==
  ASSUME Shape, NEW x
  PROVE  "st" \in DOMAIN Resent(x)
BY DEF Shape, Resent

-----------------------------------------------------------------------------
(* Steps of a session that was announced *)

\* whatever the engine and the streams do leaves the session as it is
LEMMA Stays ==
  ASSUME Sound, self' = self, slips' = slips, NoConnect(ready'), "st" \in DOMAIN inv'
  PROVE  Acts
BY SelfKeeps DEF Acts, Keeps, Still

\* A change of the Invitation leaves the session as it is.
LEMMA EngineActs ==
  ASSUME Sound, NEW st, NEW sub, NEW s, IsSeq(s), InvGoes(st, sub, s)
  PROVE  Acts
BY Stays, TellQueues DEF InvGoes, Engine, Sound, Shape

\* Sequences of one and two items.
LEMMA Short == \A i, j : IsSeq(<<i>>) /\ IsSeq(<<i, j>>)
<1>1. ASSUME NEW i, NEW j PROVE IsSeq(<<i, j>>)
  <2>1. <<i, j>> \in Seq({i, j}) OBVIOUS
  <2> QED BY <2>1 DEF IsSeq
<1> QED BY <1>1, One

\* No step of the peer, the engine or a stream tells the application.
LEMMA EnvironmentActs ==
  ASSUME Sound, Environment
  PROVE  Acts
<1> USE DEF Sound, Shape
<1>1. ~CallArrives BY DEF CallArrives
<1>2. CASE PeerAnswers BY <1>2, EngineActs, Short DEF PeerAnswers
<1>3. CASE DialogConfirmed BY <1>3, EngineActs, Short, Empty DEF DialogConfirmed
<1>4. CASE DialogLost
  <2>1. NoConnect(ready') BY <1>4, TellQueues, Short DEF DialogLost
  <2> QED BY <1>4, <2>1, Stays DEF DialogLost, Engine
<1>5. CASE DialogEnds BY <1>5, EngineActs, Short DEF DialogEnds
<1>6. CASE PeerOffers
  <2>1. NoConnect(ready') BY <1>6, TellQueues, Short DEF PeerOffers
  <2> QED BY <1>6, <2>1, Stays DEF PeerOffers, Engine
<1>7. CASE PeerCancelsOffer BY <1>7, EngineActs, Short DEF PeerCancelsOffer
<1>8. CASE OfferAnswered BY <1>8, EngineActs, Short DEF OfferAnswered
<1>9. CASE PeerAnswersReinvite BY <1>9, EngineActs, Short DEF PeerAnswersReinvite
<1>10. ASSUME NEW from, NEW to, NEW e, Report(from, to, e), "st" \in DOMAIN inv' PROVE Acts
  <2>1. NoConnect(ready') BY <1>10, LaterQueues, Heard, Empty DEF Report
  <2> QED BY <1>10, <2>1, Stays DEF Report
<1>11. CASE StreamInitialized BY <1>11, <1>10 DEF StreamInitialized
<1>12. CASE StreamStarts BY <1>12, <1>10 DEF StreamStarts
<1>13. CASE StreamFails BY <1>13, <1>10 DEF StreamFails
<1> QED BY <1>1, <1>2, <1>3, <1>4, <1>5, <1>6, <1>7, <1>8, <1>9, <1>11, <1>12, <1>13 DEF Environment

\* the calls of the application
LEMMA ApplicationActs ==
  ASSUME Sound, Application \/ Stopped
  PROVE  Acts
<1>1. ASSUME NEW c \in {"accept", "reject", "accept_proposal", "reject_proposal", "add_streams",
                        "remove_streams", "cancel_proposal"},
             NEW x, Transition(c, x)
      PROVE Acts
  <2>1. Moves[c][1] # "terminated" /\ Moves[c][2] # "none" BY <1>1 DEF Moves
  <2>2. NoConnect(<<[job |-> c, item |-> Item("", x)]>>) BY <1>1, CallsQueued
  <2>3. NoConnect(ready') BY <1>1, <2>2, LaterQueues DEF Transition
  <2>4. Keeps(self') BY <1>1, <2>1 DEF Transition, Keeps, Sound, Shape, Fields
  <2>5. Busy /\ slips' = slips /\ "st" \in DOMAIN inv' BY <1>1, <2>1 DEF Transition, Busy, Sound, Shape
  <2> QED BY <2>3, <2>4, <2>5 DEF Acts
<1>2. ASSUME NEW c \in {"hold", "unhold", "end"}, Call(c) PROVE Acts
  <2>1. NoConnect(ready') BY <1>2, CallsQueued, LaterQueues DEF Call
  <2> QED BY <1>2, <2>1, Stays DEF Call, Sound, Shape
<1>3. CASE stop
  <2>1. NoConnect(ready') BY <1>3, CallsQueued, NoConnectShort, LaterQueues DEF stop
  <2> QED BY <1>3, <2>1, Stays DEF stop, Sound, Shape
<1>4. CASE Stopped BY <1>4, Stays DEF Stopped, Sound, Shape
<1>5. ~connect BY DEF connect, Transition, Moves, Sound
<1>6. CASE Application
  BY <1>1, <1>2, <1>3, <1>5, <1>6
     DEF Application, accept, reject, accept_proposal, reject_proposal, add_streams, remove_streams,
         cancel_proposal, hold, unhold, end
<1> QED BY <1>4, <1>6

\* What the handlers put behind the rest of the queue.
LEMMA QueueAfter ==
  ASSUME Sound
  PROVE  /\ \A j : Begins(j) /\ Goes(<<>>) => NoConnect(ready') /\ Head(ready).job = j
         /\ \A j : Begins(j) /\ Goes(<<Job("end")>>) => NoConnect(ready') /\ Head(ready).job = j
         /\ Later(<<>>) \/ Later(<<Job("end")>>) \/ Later(<<Job("cancel_proposal")>>) => NoConnect(ready')
BY GoesQueues, LaterQueues, NoConnectShort, CallsQueued

\* a call that is legal in another state than the one it finds
LEMMA Legal ==
  ASSUME NEW S, Slips(Outrun) \/ Slips(Outrun \cup S),
         Head(ready).job \in {"accept", "reject", "accept_proposal", "reject_proposal",
                              "add_streams", "remove_streams", "cancel_proposal"}
  PROVE  slips' = {} => slips = {} /\ Busy
BY OutrunSlips, SlipKept

\* accept() and reject() end the session at most once.
LEMMA AcceptActs ==
  ASSUME Sound, AcceptBody \/ RejectBody
  PROVE  Acts
<1> USE DEF Sound, Shape
<1>1. CASE AcceptBody
  <2>1. Keeps(self') BY <1>1 DEF AcceptBody, Keeps, Fields
  <2>2. NoConnect(ready') /\ Head(ready).job = "accept" BY <1>1, QueueAfter DEF AcceptBody
  <2>3. slips' = {} => slips = {} /\ Busy BY <1>1, <2>2, Legal DEF AcceptBody
  <2> QED BY <1>1, <2>1, <2>2, <2>3 DEF Acts, AcceptBody
<1>2. CASE RejectBody
  <2>1. NoConnect(ready') /\ Head(ready).job = "reject" BY <1>2, QueueAfter DEF RejectBody
  <2>2. slips' = {} => slips = {} /\ Busy BY <1>2, <2>1, Legal DEF RejectBody
  <2>3. CASE inv.st = "incoming"
    <3>1. Keeps(self') /\ "st" \in DOMAIN inv' BY <1>2, <2>3 DEF RejectBody, Keeps, Fields
    <3> QED BY <2>1, <2>2, <3>1 DEF Acts
  <2>4. CASE inv.st # "incoming"
    <3>1. Closes(self') /\ inv' = inv BY <1>2, <2>4, EndedCloses, SelfKeeps DEF RejectBody
    <3> QED BY <2>1, <2>2, <3>1 DEF Acts
  <2> QED BY <2>3, <2>4
<1> QED BY <1>1, <1>2

\* accept_proposal() and reject_proposal() keep what was told.
LEMMA ProposalBodiesAct ==
  ASSUME Sound, AcceptProposalBody \/ RejectProposalBody
  PROVE  Acts
<1> USE DEF Sound, Shape
<1>1. ASSUME NEW j, Begins(j), ProposalGone PROVE Acts
  <2>1. Keeps(self') BY <1>1 DEF ProposalGone, Escapes, Keeps, Fields
  <2>2. slips' # {} /\ inv' = inv BY <1>1, SlipNamed DEF ProposalGone, Escapes
  <2>3. NoConnect(ready') BY <1>1, QueueAfter DEF ProposalGone
  <2> QED BY <2>1, <2>2, <2>3 DEF Acts
<1>2. CASE AcceptProposalBody /\ ~ProposalGone
  <2>1. Keeps(self') BY <1>2 DEF AcceptProposalBody, Keeps, Fields
  <2>2. NoConnect(ready') /\ Head(ready).job = "accept_proposal" BY <1>2, QueueAfter DEF AcceptProposalBody
  <2>3. slips' = {} => slips = {} /\ Busy BY <1>2, <2>2, Legal DEF AcceptProposalBody
  <2> QED BY <1>2, <2>1, <2>2, <2>3 DEF Acts, AcceptProposalBody
<1>3. CASE RejectProposalBody /\ ~ProposalGone
  <2>1. NoConnect(ready') /\ Head(ready).job = "reject_proposal" BY <1>3, QueueAfter DEF RejectProposalBody
  <2>2. slips' = {} => slips = {} /\ Busy BY <1>3, <2>1, Legal DEF RejectProposalBody
  <2>3. CASE CanRespond
    <3>1. Keeps(self') /\ "st" \in DOMAIN inv' BY <1>3, <2>3 DEF RejectProposalBody, Keeps, Fields
    <3> QED BY <2>1, <2>2, <3>1 DEF Acts
  <2>4. CASE ~CanRespond
    <3>1. FailProposal BY <1>3, <2>4 DEF RejectProposalBody
    <3>2. Keeps(self') /\ "st" \in DOMAIN inv' BY <3>1, ConnectedKeeps, SelfKeeps DEF FailProposal
    <3> QED BY <2>1, <2>2, <3>2 DEF Acts
  <2> QED BY <2>3, <2>4
<1> QED BY <1>1, <1>2, <1>3 DEF AcceptProposalBody, RejectProposalBody

\* So do add_streams() and remove_streams().
LEMMA StreamBodiesAct ==
  ASSUME Sound, AddBody \/ RemoveBody
  PROVE  Acts
<1> USE DEF Sound, Shape
<1>1. CASE AddBody
  <2>1. Keeps(self') BY <1>1 DEF AddBody, Keeps, Fields
  <2>2. NoConnect(ready') /\ Head(ready).job = "add_streams" BY <1>1, QueueAfter DEF AddBody
  <2>3. slips' = {} => slips = {} /\ Busy BY <1>1, <2>2, Legal DEF AddBody
  <2> QED BY <1>1, <2>1, <2>2, <2>3 DEF Acts, AddBody
<1>2. CASE RemoveBody
  <2>1. Keeps(self') BY <1>2 DEF RemoveBody, Keeps, Fields
  <2>2. NoConnect(ready') /\ Head(ready).job = "remove_streams" BY <1>2, QueueAfter DEF RemoveBody
  <2>3. slips' = {} => slips = {} /\ Busy BY <1>2, <2>2, Legal DEF RemoveBody
  <2>4. "st" \in DOMAIN inv' BY <1>2 DEF RemoveBody
  <2> QED BY <2>1, <2>2, <2>3, <2>4 DEF Acts
<1> QED BY <1>1, <1>2

\* hold() and unhold() of a session that is over change nothing that was told.
LEMMA HoldBodiesAct ==
  ASSUME Sound, HoldBody \/ UnholdBody
  PROVE  Acts
<1> DEFINE h == [self EXCEPT !.holding = TRUE]
           u == [self EXCEPT !.holding = FALSE]
<1>1. NoConnect(ready') BY QueueAfter DEF HoldBody, UnholdBody
<1>2. "st" \in DOMAIN inv' BY EndKeepsInv DEF HoldBody, UnholdBody, Sound
<1>3. Keeps(h) /\ Keeps(u) /\ Keeps(self) BY SelfKeeps DEF Sound, Shape, Keeps, Fields
<1>4. Keeps(SendHold(h)) /\ Keeps(SendUnhold(u))
  <2> HIDE DEF h, u
  <2> QED BY <1>3, SendsKeep
<1>5. Keeps(self') BY <1>3, <1>4 DEF HoldBody, UnholdBody
<1>6. slips' = slips BY DEF HoldBody, UnholdBody
<1>7. CASE self.state = "connected" BY <1>1, <1>2, <1>5, <1>6, <1>7 DEF Acts, Busy
<1>8. CASE self.state # "connected"
  <2>1. self' \in {self, h, u} BY <1>8 DEF HoldBody, UnholdBody
  <2>2. Still BY <2>1 DEF Still, Sound, Shape, Fields
  <2> QED BY <1>1, <1>2, <1>5, <1>6, <2>2 DEF Acts
<1> QED BY <1>7, <1>8

\* cancel_proposal() keeps what was told.
LEMMA CancelBodyActs ==
  ASSUME Sound, CancelBody
  PROVE  Acts
<1>1. NoConnect(ready') /\ Head(ready).job = "cancel_proposal" BY QueueAfter DEF CancelBody
<1>2. slips' = {} => slips = {} /\ Busy
  <2>1. Slips(KillSlips \cup Outrun) BY DEF CancelBody
  <2> QED BY <1>1, <2>1, SlipKept, OutrunSlips
<1>3. "st" \in DOMAIN inv' BY EndKeepsInv DEF CancelBody, Sound, Shape
<1>4. Keeps([Killed EXCEPT !.pc = "cancel"]) BY SelfKeeps DEF Keeps, Fields
<1>5. Keeps(self') BY <1>4, SelfKeeps, SettledKeeps DEF CancelBody
<1> QED BY <1>1, <1>2, <1>3, <1>5 DEF Acts

\* end() does nothing to a session that has ended.
LEMMA EndBodyActs ==
  ASSUME Sound, EndBody
  PROVE  Acts
<1>1. NoConnect(ready') BY QueueAfter DEF EndBody
<1>2. CASE self.state \in {"none", "terminating", "terminated"}
  BY <1>1, <1>2, Stays DEF EndBody, Sound, Shape
<1>3. CASE self.state \notin {"none", "terminating", "terminated"}
  <2>1. Busy BY <1>3 DEF Busy
  <2>2. "st" \in DOMAIN inv' BY <1>3 DEF EndBody, Sound, Shape
  <2>3. slips' = {} => slips = {} BY <1>3, SlipKept, SlipNamed DEF EndBody
  <2>4. Keeps([Killed EXCEPT !.state = "terminating", !.pc = "end"]) BY SelfKeeps DEF Keeps, Fields
  <2>5. Keeps(self') \/ Closes(self') BY <1>3, <2>4, SelfKeeps, EndedCloses DEF EndBody, Sound
  <2> QED BY <1>1, <2>1, <2>2, <2>3, <2>5 DEF Acts
<1> QED BY <1>2, <1>3

-----------------------------------------------------------------------------
(* What the engine and the streams tell a session with no green thread *)

\* Items that are queued or forgotten, and a stream that fails.
LEMMA NothingHeard ==
  ASSUME Sound, NotifyWaiter \/ NotifyNobody \/ StreamFailed
  PROVE  Acts
<1> USE DEF Sound, Shape
<1>1. CASE NotifyWaiter \/ NotifyNobody
  <2>1. NoConnect(ready') BY <1>1, QueueAfter DEF NotifyWaiter, NotifyNobody, IdleWith
  <2> QED BY <1>1, <2>1, Stays DEF NotifyWaiter, NotifyNobody
<1>2. CASE StreamFailed
  <2>1. NoConnect(<<[job |-> "remove_streams", item |-> Item("", Arg)]>>) BY CallsQueued
  <2>2. NoConnect(ready') BY <1>2, <2>1, GoesQueues, QueueAfter DEF StreamFailed, IdleWith
  <2>3. CASE self.streams # {Arg} /\ self.state = "connected"
    <3>1. Keeps(self') BY <1>2, <2>3 DEF StreamFailed, Keeps, Fields
    <3> QED BY <1>2, <2>2, <2>3, <3>1 DEF Acts, Busy, StreamFailed
  <2>4. CASE ~(self.streams # {Arg} /\ self.state = "connected")
    <3>1. self' = self BY <1>2, <2>4 DEF StreamFailed
    <3> QED BY <1>2, <2>2, <3>1, Stays DEF StreamFailed
  <2> QED BY <2>3, <2>4
<1> QED BY <1>1, <1>2

\* The end of the dialog is told to a session that has not ended.
LEMMA DialogGoneActs ==
  ASSUME Sound, DialogGone
  PROVE  Acts
<1>1. NoConnect(ready') BY QueueAfter DEF DialogGone, Idle, IdleWith
<1>2. Busy BY DEF DialogGone, Idle, Busy
<1>3. slips' = {} => slips = {} BY SlipKept DEF DialogGone
<1>4. Keeps(self') \/ Closes(self') BY SelfKeeps, EndedCloses DEF DialogGone, Sound
<1> QED BY <1>1, <1>2, <1>3, <1>4 DEF Acts, DialogGone, Sound, Shape

\* An offer of the peer is looked at while the session lasts.
LEMMA OffersAct ==
  ASSUME Sound, OfferWithdrawn \/ OfferRefused \/ StreamsOffered \/ OfferRequested
  PROVE  Acts
<1> USE DEF Sound, Shape
<1>1. Busy BY DEF OfferWithdrawn, OfferRefused, StreamsOffered, OfferRequested, Idle, Busy
<1>2. NoConnect(ready')
  BY QueueAfter DEF OfferWithdrawn, OfferRefused, StreamsOffered, OfferRequested, Idle, IdleWith
<1>3. slips' = {} => slips = {}
  BY SlipKept, SlipNamed DEF OfferWithdrawn, OfferRefused, StreamsOffered, OfferRequested
<1>4. Keeps(self')
  BY DEF OfferWithdrawn, OfferRefused, StreamsOffered, OfferRequested, Keeps, Fields
<1>5. "st" \in DOMAIN inv' BY DEF OfferWithdrawn, OfferRefused, StreamsOffered, OfferRequested
<1> QED BY <1>1, <1>2, <1>3, <1>4, <1>5 DEF Acts

\* So is an update, and the end of an offer.
LEMMA UpdatesAct ==
  ASSUME Sound, UpdateOffered \/ OfferCancelled
  PROVE  Acts
<1> USE DEF Sound, Shape
<1>1. Busy BY DEF UpdateOffered, OfferCancelled, Idle, Busy
<1>2. NoConnect(ready') BY QueueAfter DEF UpdateOffered, OfferCancelled, Idle, IdleWith
<1>3. CASE UpdateOffered
  <2>1. slips' = {} => slips = {} BY <1>3, SlipKept DEF UpdateOffered
  <2>2. Keeps(self') BY <1>3 DEF UpdateOffered, Keeps, Fields
  <2>3. "st" \in DOMAIN inv' BY <1>3 DEF UpdateOffered
  <2> QED BY <1>1, <1>2, <2>1, <2>2, <2>3 DEF Acts
<1>4. CASE OfferCancelled
  <2>1. Keeps([self EXCEPT !.state = "connected"]) BY DEF Keeps, Fields
  <2>2. Keeps(self') BY <1>4, <2>1, SelfKeeps, SettledKeeps DEF OfferCancelled
  <2>3. "st" \in DOMAIN inv' BY <1>4, EndKeepsInv DEF OfferCancelled
  <2> QED BY <1>1, <1>2, <1>4, <2>2, <2>3 DEF Acts, OfferCancelled
<1> QED BY <1>3, <1>4

\* Whatever green thread starts.
LEMMA StartsAct ==
  ASSUME Sound, Starts
  PROVE  Acts
<1>1. ~ConnectBody BY NoConnectTail DEF ConnectBody, Begins, Sound
<1> QED
  BY <1>1, AcceptActs, ProposalBodiesAct, StreamBodiesAct, HoldBodiesAct, CancelBodyActs, EndBodyActs,
     NothingHeard, DialogGoneActs, OffersAct, UpdatesAct DEF Starts

-----------------------------------------------------------------------------
(* Green threads that go on: whoever waits has not been told the end *)

\* An item without a case.
LEMMA IgnoredActs ==
  ASSUME Sound, Busy, Ignored
  PROVE  Acts
<1>1. slips' = {} => slips = {} BY SlipNamed DEF Ignored
<1> QED BY <1>1, SelfKeeps DEF Ignored, Acts, Sound, Shape

\* What arrives in two parts is noted.
LEMMA NotedKeeps ==
  ASSUME Sound
  PROVE  Keeps(Noted)
BY DEF Noted, Keeps, Sound, Shape, Fields

\* The wait goes on.
LEMMA NoteActs ==
  ASSUME Sound, Busy, Note
  PROVE  Acts
BY NotedKeeps DEF Note, Acts, Sound, Shape

\* An exception tells nothing.
LEMMA EscapesActs ==
  ASSUME Sound, Busy, NEW n, Escapes(n), inv' = inv, ready' = ready
  PROVE  Acts
<1>1. Keeps(self') BY DEF Escapes, Keeps, Sound, Shape, Fields
<1> QED BY <1>1, SlipNamed DEF Escapes, Acts, Sound, Shape

\* A set-up that fails ends the session now or after the BYE.
LEMMA SetupFailsActs ==
  ASSUME Sound, Busy, SetupFails \/ SetupEnds
  PROVE  Acts
<1>1. CASE self' = Ended(self) /\ inv' = inv
  BY <1>1, SelfKeeps, EndedCloses DEF SetupFails, SetupEnds, Acts, Sound, Shape
<1>2. CASE ~(self' = Ended(self) /\ inv' = inv)
  <2>1. self' = [self EXCEPT !.state = "terminating", !.pc = "fail"]
        /\ inv' = [inv EXCEPT !.st = "disconnecting", !.sub = ""]
    BY <1>2 DEF SetupFails, SetupEnds, FailOp
  <2>2. Keeps(self') /\ "st" \in DOMAIN inv' BY <2>1 DEF Keeps, Sound, Shape, Fields
  <2> QED BY <2>2 DEF SetupFails, SetupEnds, Acts, Sound
<1> QED BY <1>1, <1>2

\* A proposal that fails leaves a connected session.
LEMMA ProposalFailsActs ==
  ASSUME Sound, Busy, NEW s, NoConnect(s), ProposalFails(s)
  PROVE  Acts
<1>1. NoConnect(ready') BY LaterQueues DEF ProposalFails
<1>2. Keeps(self') BY SelfKeeps, ConnectedKeeps DEF ProposalFails, FailProposal
<1>3. "st" \in DOMAIN inv' BY DEF ProposalFails, FailProposal, Sound, Shape
<1>4. slips' = {} => slips = {} BY SlipKept DEF ProposalFails
<1> QED BY <1>1, <1>2, <1>3, <1>4 DEF Acts

\* So does an operation that succeeds, with or without a re-INVITE after ICE.
LEMMA CompleteActs ==
  ASSUME Sound, Busy, NEW x, Keeps(x), Complete(x) \/ AfterICE(x)
  PROVE  Acts
<1>1. CASE Complete(x)
  <2>1. Keeps(self') BY <1>1, AddedKeeps, SettledKeeps DEF Complete
  <2>2. NoConnect(ready') BY <1>1, Heard, LaterQueues DEF Complete, Keeps
  <2> QED BY <1>1, <2>1, <2>2, EndKeepsInv DEF Complete, Acts, Sound
<1>2. CASE AfterICE(x)
  <2> DEFINE y == Sending(Added(x), "ice")
  <2>1. Keeps(y) /\ Keeps(Sending(Added(x), "dead")) BY AddedKeeps, SendsKeep
  <2>2. Keeps([y EXCEPT !.kept = x.kept])
    <3> HIDE DEF y
    <3> QED BY <2>1 DEF Keeps, Fields
  <2>3. Keeps(self') /\ "st" \in DOMAIN inv' /\ ready' = ready
    BY <1>2, <2>1, <2>2, EndKeepsInv DEF AfterICE, Sound, Shape
  <2>4. slips' = {} => slips = {} BY <1>2, SlipNamed DEF AfterICE
  <2> QED BY <2>3, <2>4 DEF Acts, Sound
<1> QED BY <1>1, <1>2

\* The set-up goes on, or is complete.
LEMMA SetupGoesOnActs ==
  ASSUME Sound, Busy, NEW x, Keeps(x), SetupGoesOn(x)
  PROVE  Acts
<1>1. CASE Complete(x) \/ AfterICE(x) BY <1>1, CompleteActs
<1>2. CASE ~(Complete(x) \/ AfterICE(x)) BY <1>2 DEF SetupGoesOn, Acts, Sound, Shape
<1> QED BY <1>1, <1>2

\* a change of attributes that are neither told nor kept
LEMMA Changes ==
  ASSUME Sound, Busy, Keeps(self') \/ Closes(self'), NoConnect(ready'),
         inv' = inv \/ "st" \in DOMAIN inv', slips' = {} => slips = {}
  PROVE  Acts
BY DEF Acts, Sound, Shape

\* connect() and accept() at each of their waits.
LEMMA SetupsAct ==
  ASSUME Sound, SetupInit \/ SetupSDP \/ SetupMedia \/ SetupTimeout
  PROVE  Acts
<1> USE DEF Sound, Shape
<1>1. Busy BY DEF SetupInit, SetupSDP, SetupMedia, SetupTimeout, At, Busy
<1>2. CASE SetupInit
  <2>1. CASE Ignored \/ SetupFails \/ SetupEnds BY <1>1, <2>1, IgnoredActs, SetupFailsActs
  <2>2. CASE Escapes("accept without SDP") /\ inv' = inv /\ ready' = ready BY <1>1, <2>2, EscapesActs
  <2>3. CASE ~(Ignored \/ SetupFails \/ SetupEnds)
             /\ ~(Escapes("accept without SDP") /\ inv' = inv /\ ready' = ready)
    <3>1. Keeps(self') BY <1>2, <2>3 DEF SetupInit, Keeps, Fields
    <3>2. \/ ready' = ready
          \/ \E i : Tell(<<i>>)
      BY <1>2, <2>3 DEF SetupInit
    <3>3. NoConnect(ready') BY <3>2, TellQueues, Short
    <3>4. slips' = slips /\ "st" \in DOMAIN inv' BY <1>2, <2>3 DEF SetupInit
    <3> QED BY <1>1, <3>1, <3>3, <3>4, Changes
  <2> QED BY <2>1, <2>2, <2>3
<1>3. CASE SetupSDP
  <2>1. CASE Note \/ Ignored \/ SetupFails \/ SetupEnds
    BY <1>1, <2>1, NoteActs, IgnoredActs, SetupFailsActs
  <2>2. ASSUME NEW S, SetupGoesOn([self EXCEPT !.pc = "media", !.wait = Cardinality(S), !.proposed = S])
        PROVE Acts
    <3>1. Keeps([self EXCEPT !.pc = "media", !.wait = Cardinality(S), !.proposed = S]) BY DEF Keeps, Fields
    <3> QED BY <1>1, <2>2, <3>1, SetupGoesOnActs
  <2> QED BY <1>3, <2>1, <2>2 DEF SetupSDP
<1>4. CASE SetupMedia
  <2>1. CASE SetupFails \/ SetupEnds BY <1>1, <2>1, SetupFailsActs
  <2>2. Keeps(self) /\ Keeps(Noted) /\ Keeps([self EXCEPT !.wait = @ - 1])
        /\ Keeps([self EXCEPT !.kept = Append(@, Got)])
    BY NotedKeeps, SelfKeeps, OneMore DEF Keeps, Fields
  <2> QED BY <1>1, <1>4, <2>1, <2>2, SetupGoesOnActs DEF SetupMedia
<1>5. CASE SetupTimeout
  <2>1. CASE SetupFails BY <1>1, <2>1, SetupFailsActs
  <2>2. CASE ~SetupFails
    <3>1. Keeps(self') BY <1>5, <2>2 DEF SetupTimeout, Keeps, Fields
    <3>2. NoConnect(ready') BY <1>5, <2>2, QueueAfter DEF SetupTimeout
    <3> QED BY <1>1, <1>5, <2>2, <3>1, <3>2, Changes DEF SetupTimeout
  <2> QED BY <2>1, <2>2
<1> QED BY <1>2, <1>3, <1>4, <1>5

\* The waits for the end of the dialog close the session once.
LEMMA EndsAct ==
  ASSUME Sound, FailWaits \/ RejectWaits \/ EndWaits \/ EndTimeout
  PROVE  Acts
<1> USE DEF Sound, Shape
<1>1. Busy BY DEF FailWaits, RejectWaits, EndWaits, EndTimeout, At, Busy
<1>2. Closes(Ended(self)) BY EndedCloses, SelfKeeps
<1>3. CASE Ignored BY <1>1, <1>3, IgnoredActs
<1>4. CASE Escapes("second failure") /\ inv' = inv /\ ready' = ready BY <1>1, <1>4, EscapesActs
<1>5. CASE FailWaits \/ RejectWaits \/ EndTimeout
  BY <1>1, <1>2, <1>3, <1>4, <1>5, Changes DEF FailWaits, RejectWaits, EndTimeout
<1>6. CASE EndWaits /\ ~Ignored
  <2>1. Keeps([self EXCEPT !.state = "terminated", !.pc = "none", !.sees = FALSE]) BY DEF Keeps, Fields
  <2>2. Keeps(self') \/ Closes(self') BY <1>2, <1>6, <2>1 DEF EndWaits
  <2>3. ready' = ready /\ inv' = inv BY <1>6 DEF EndWaits
  <2>4. slips' = {} => slips = {} BY <1>6, SlipNamed DEF EndWaits
  <2> QED BY <1>1, <2>2, <2>3, <2>4, Changes
<1> QED BY <1>3, <1>5, <1>6

\* The re-INVITE after ICE.
LEMMA ICEActs ==
  ASSUME Sound, ICEWaits \/ ICETimeout
  PROVE  Acts
<1> DEFINE back == [self EXCEPT !.got = {}]
<1>1. Busy BY DEF ICEWaits, ICETimeout, At, Busy
<1>2. Keeps(back) BY DEF Keeps, Fields, Sound, Shape
<1>3. Keeps(Settled(Added(back)))
  <2> HIDE DEF back
  <2> QED BY <1>2, AddedKeeps, SettledKeeps
<1>4. CASE Note \/ Ignored BY <1>1, <1>4, NoteActs, IgnoredActs
<1>5. CASE Complete(back)
  <2> HIDE DEF back
  <2> QED BY <1>1, <1>2, <1>5, CompleteActs
<1>6. CASE ~(Note \/ Ignored) /\ ~Complete(back)
  <2>1. /\ Slip("BYE during ICE") /\ self' = Settled(Added(back)) /\ inv' = Resent(self')
        /\ Later(NotifyAll(self.kept))
    BY <1>6 DEF ICEWaits, ICETimeout
  <2>2. NoConnect(ready') BY <2>1, Heard, LaterQueues DEF Sound, Shape
  <2>3. Keeps(self') /\ "st" \in DOMAIN inv' /\ slips' # {}
    BY <1>3, <2>1, SlipNamed, EndKeepsInv DEF Sound
  <2> QED BY <1>1, <2>2, <2>3, Changes
<1> QED BY <1>4, <1>5, <1>6

\* A proposal fails, and the end of the dialog is handled after it.
LEMMA FailedProposals ==
  ASSUME Sound, Busy, ProposalFails(<<>>) \/ ProposalFails(Again)
  PROVE  Acts
<1>1. NoConnect(<<>>) /\ NoConnect(Again) BY NoConnectShort, Heard, Empty DEF Again
<1> QED BY <1>1, ProposalFailsActs

\* A proposal of the peer, accepted or rejected.
LEMMA AcceptProposalsAct ==
  ASSUME Sound, AcceptProposalWaits \/ RejectProposalWaits
  PROVE  Acts
<1> USE DEF Sound, Shape
<1>1. Busy BY DEF AcceptProposalWaits, RejectProposalWaits, At, Busy
<1>2. CASE Ignored \/ ProposalFails(<<>>) \/ ProposalFails(Again)
  BY <1>1, <1>2, IgnoredActs, FailedProposals
<1>3. CASE RejectProposalWaits /\ ~Ignored
  <2>1. CASE Escapes("reject_proposal interrupted") /\ inv' = inv /\ ready' = ready
    BY <1>1, <2>1, EscapesActs
  <2>2. CASE ~(Escapes("reject_proposal interrupted") /\ inv' = inv /\ ready' = ready)
    <3>1. self' = Settled(self) /\ inv' = Resent(self') /\ ready' = ready /\ slips' = slips
      BY <1>3, <2>2 DEF RejectProposalWaits
    <3> QED BY <1>1, <3>1, SelfKeeps, SettledKeeps, EndKeepsInv, Changes
  <2> QED BY <2>1, <2>2
<1>4. CASE AcceptProposalWaits /\ ~(Ignored \/ ProposalFails(<<>>) \/ ProposalFails(Again))
  <2>1. Keeps([self EXCEPT !.pc = "p.sdp"]) /\ Keeps([self EXCEPT !.pc = "p.media"]) /\ Keeps(Noted)
    BY NotedKeeps DEF Keeps, Fields
  <2>2. CASE self.pc # "p.media"
    <3>1. Keeps(self') /\ ready' = ready /\ slips' = slips /\ "st" \in DOMAIN inv'
      BY <1>4, <2>1, <2>2 DEF AcceptProposalWaits, At
    <3> QED BY <1>1, <3>1, Changes
  <2>3. CASE self.pc = "p.media"
    <3> DEFINE x == [self EXCEPT !.wait = IF Takes({"start"}) THEN @ - 1 ELSE @,
                                 !.kept = IF Takes({"start"}) THEN @ ELSE Append(@, Got)]
    <3>1. Keeps(x) BY OneMore DEF Keeps, Fields
    <3>2. IF x.wait = 0 /\ More = <<>> THEN Complete(x) ELSE self' = x /\ UNCHANGED <<inv, ready, slips>>
      BY <1>4, <2>3, Zenon DEF AcceptProposalWaits, At
    <3> HIDE DEF x
    <3> QED BY <1>1, <3>1, <3>2, CompleteActs, Changes
  <2> QED BY <2>2, <2>3
<1> QED BY <1>2, <1>3, <1>4

\* add_streams() at each of its waits.
LEMMA AddActs ==
  ASSUME Sound, AddWaits
  PROVE  Acts
<1> USE DEF Sound, Shape
<1>1. Busy BY DEF AddWaits, At, Busy
<1>2. CASE Ignored \/ Note \/ ProposalFails(<<>>) \/ ProposalFails(Again)
  BY <1>1, <1>2, IgnoredActs, NoteActs, FailedProposals
<1>3. ASSUME NEW S, Complete([self EXCEPT !.proposed = S]) PROVE Acts
  <2>1. Keeps([self EXCEPT !.proposed = S]) BY DEF Keeps, Fields
  <2> QED BY <1>1, <1>3, <2>1, CompleteActs
<1>4. CASE Complete(self) \/ AfterICE(self) BY <1>1, <1>4, SelfKeeps, CompleteActs
<1>5. CASE Rejected /\ Slips(Forgets) /\ ready' = ready
  BY <1>1, <1>5, SelfKeeps, ConnectedKeeps, SlipKept, Changes DEF Rejected
<1>6. CASE ready' = ready /\ slips' = slips
           /\ \/ self' = [self EXCEPT !.pc = "s.sdp"] /\ inv' = [inv EXCEPT !.sub = "sent"]
              \/ \E S : self' = [[self EXCEPT !.proposed = S] EXCEPT !.pc = "s.media"] /\ inv' = inv
  <2>1. Keeps(self') /\ "st" \in DOMAIN inv' BY <1>6 DEF Keeps, Fields
  <2> QED BY <1>1, <1>6, <2>1, Changes
<1> QED BY <1>2, <1>3, <1>4, <1>5, <1>6 DEF AddWaits

\* The time limits of a proposal.
LEMMA TimeoutsAct ==
  ASSUME Sound, ProposalTimeout
  PROVE  Acts
<1> USE DEF Sound, Shape
<1>1. Busy BY DEF ProposalTimeout, Busy
<1>2. CASE ProposalFails(<<>>) BY <1>1, <1>2, FailedProposals
<1>3. CASE self' = Settled(self) /\ inv' = Resent(self') /\ ready' = ready /\ slips' = slips
  BY <1>1, <1>3, SelfKeeps, SettledKeeps, EndKeepsInv, Changes
<1>4. CASE /\ self' = [self EXCEPT !.state = "cancelling_proposal", !.pc = "dead"]
           /\ Later(<<Job("cancel_proposal")>>) /\ inv' = inv /\ slips' = slips
  <2>1. Keeps(self') BY <1>4 DEF Keeps, Fields
  <2>2. NoConnect(ready') BY <1>4, QueueAfter
  <2> QED BY <1>1, <1>4, <2>1, <2>2, Changes
<1> QED BY <1>2, <1>3, <1>4 DEF ProposalTimeout

\* remove_streams() waiting for the answer.
LEMMA RemoveActs ==
  ASSUME Sound, RemoveWaits
  PROVE  Acts
<1> USE DEF Sound, Shape
<1> DEFINE x == [self EXCEPT !.leaving = {}]
<1>1. Busy BY DEF RemoveWaits, At, Busy
<1>2. CASE Ignored \/ Note BY <1>1, <1>2, IgnoredActs, NoteActs
<1>3. Keeps(x) /\ Keeps([x EXCEPT !.pc = "none"]) /\ Keeps([x EXCEPT !.pc = "dead"]) BY DEF Keeps, Fields
<1>4. Keeps(Settled(x))
  <2> HIDE DEF x
  <2> QED BY <1>3, SettledKeeps
<1>5. NoConnect(Again) BY Heard, Empty DEF Again
<1>6. CASE ~(Ignored \/ Note)
  <2>1. Keeps(self') BY <1>3, <1>4, <1>6 DEF RemoveWaits
  <2>2. ready' = ready \/ Later(Again) \/ Later(<<Job("end")>>) BY <1>6 DEF RemoveWaits
  <2>3. NoConnect(ready') BY <1>5, <2>2, LaterQueues, QueueAfter
  <2>4. "st" \in DOMAIN inv' /\ slips' = slips BY <1>6, EndKeepsInv DEF RemoveWaits
  <2> QED BY <1>1, <2>1, <2>3, <2>4, Changes
<1> QED BY <1>2, <1>6

\* cancel_proposal() waiting for the answer.
LEMMA CancelActs ==
  ASSUME Sound, CancelWaits
  PROVE  Acts
<1> USE DEF Sound, Shape
<1> DEFINE x == [self EXCEPT !.pc = "none", !.proposed = {}]
<1>1. Busy BY DEF CancelWaits, At, Busy
<1>2. CASE Ignored BY <1>1, <1>2, IgnoredActs
<1>3. CASE Escapes("cancel_proposal interrupted") /\ inv' = inv /\ ready' = ready BY <1>1, <1>3, EscapesActs
<1>4. Keeps(x) BY DEF Keeps, Fields
<1>5. Keeps(SendHold(x))
  <2> HIDE DEF x
  <2> QED BY <1>4, SendsKeep
<1>6. Keeps(Settled(self)) BY SelfKeeps, SettledKeeps
<1>7. NoConnect(Again) BY Heard, Empty DEF Again
<1>8. CASE ~Ignored /\ ~(Escapes("cancel_proposal interrupted") /\ inv' = inv /\ ready' = ready)
  <2>1. Keeps(self') BY <1>4, <1>5, <1>6, <1>8 DEF CancelWaits
  <2>2. ready' = ready \/ Later(Again) \/ Later(<<>>) \/ Later(<<Job("end")>>) BY <1>8 DEF CancelWaits
  <2>3. NoConnect(ready') BY <1>7, <2>2, LaterQueues, QueueAfter
  <2>4. "st" \in DOMAIN inv' BY <1>8, EndKeepsInv DEF CancelWaits
  <2>5. slips' = {} => slips = {} BY <1>8, SlipKept DEF CancelWaits
  <2> QED BY <1>1, <2>1, <2>3, <2>4, <2>5, Changes
<1> QED BY <1>2, <1>3, <1>8

\* An update of the peer being answered.
LEMMA UpdateActs ==
  ASSUME Sound, UpdateWaits
  PROVE  Acts
<1> USE DEF Sound, Shape
<1> DEFINE x == IF Takes({"sdp", "nosdp", "normal"}) THEN Noted ELSE [self EXCEPT !.kept = Append(@, Got)]
<1>1. Busy BY DEF UpdateWaits, At, Busy
<1>2. Keeps(x) BY NotedKeeps, OneMore DEF Keeps, Fields
<1>3. IsSeq(x.kept) /\ NoConnect(NotifyAll(x.kept)) /\ NoConnect(NotifyAll(self.kept)) /\ NoConnect(Again)
  BY <1>2, Heard, Empty DEF Keeps, Again
<1>4. Keeps(Connected(x)) /\ Keeps(Connected(self))
  <2> HIDE DEF x
  <2> QED BY <1>2, SelfKeeps, ConnectedKeeps
<1>5. CASE \/ self' = Connected(x) /\ Later(NotifyAll(x.kept)) /\ Slips(Forgets) /\ inv' = inv
           \/ self' = x /\ ready' = ready /\ slips' = slips /\ inv' = inv
  <2> HIDE DEF x
  <2> QED BY <1>1, <1>2, <1>3, <1>4, <1>5, LaterQueues, SlipKept, Changes
<1>6. CASE self' = Connected(self) /\ Later(Again \o NotifyAll(self.kept)) /\ inv' = inv /\ slips' = slips
  BY <1>1, <1>3, <1>4, <1>6, NoConnectJoined, LaterQueues, Changes
<1>7. CASE /\ self' = [self EXCEPT !.pc = "none", !.kept = <<>>] /\ Later(NotifyAll(self.kept))
           /\ Slip("update interrupted") /\ inv' = inv
  <2>1. Keeps(self') BY <1>7, Empty DEF Keeps, Fields
  <2> QED BY <1>1, <1>3, <1>7, <2>1, LaterQueues, SlipNamed, Changes
<1> QED BY <1>5, <1>6, <1>7, Zenon DEF UpdateWaits

\* A hold or an unhold that is done.
LEMMA HeldKeeps ==
  ASSUME Sound, Busy, NEW x, Keeps(x), Held(x), ready' = ready, slips' = slips
  PROVE  Acts
BY HoldsKeep, EndKeepsInv, Changes DEF Held, Sound

\* hold() and unhold() waiting for the answer.
LEMMA HoldsAct ==
  ASSUME Sound, HoldWaits \/ HoldTimeout
  PROVE  Acts
<1> USE DEF Sound, Shape
<1>1. Busy BY DEF HoldWaits, HoldTimeout, At, Busy
<1>2. CASE Ignored BY <1>1, <1>2, IgnoredActs
<1>3. CASE Escapes("stream failed during hold") /\ inv' = inv /\ ready' = ready BY <1>1, <1>3, EscapesActs
<1>4. CASE (Held(self) \/ Held(Noted)) /\ ready' = ready /\ slips' = slips
  BY <1>1, <1>4, SelfKeeps, NotedKeeps, HeldKeeps
<1>5. NoConnect(Again) BY Heard, Empty DEF Again
<1>6. ASSUME NEW p,
             \/ self' = [self EXCEPT !.pc = p]
             \/ self' = [self EXCEPT !.pc = p, !.leaving = {}]
             \/ self' = Noted,
             ready' = ready \/ Later(Again) \/ Later(<<Job("end")>>),
             inv' = inv \/ inv' = [inv EXCEPT !.sub = "cancelling"],
             slips' = slips
      PROVE Acts
  <2>1. Keeps(self') BY <1>6, NotedKeeps DEF Keeps, Fields
  <2>2. NoConnect(ready') BY <1>5, <1>6, LaterQueues, QueueAfter
  <2>3. "st" \in DOMAIN inv' BY <1>6
  <2> QED BY <1>1, <1>6, <2>1, <2>2, <2>3, Changes
<1>7. CASE HoldWaits
  <2>1. CASE \E p \in {"hold", "unhold"} : self.pc = p
    BY <1>2, <1>3, <1>4, <1>6, <1>7, <2>1 DEF HoldWaits, At
  <2>2. CASE ~\E p \in {"hold", "unhold"} : self.pc = p
    BY <1>2, <1>4, <1>6, <1>7, <2>2 DEF HoldWaits, At
  <2> QED BY <2>1, <2>2
<1>8. CASE HoldTimeout
  BY <1>4, <1>6, <1>8 DEF HoldTimeout
<1> QED BY <1>7, <1>8

\* Every step of a session that was announced.
LEMMA NextActs ==
  ASSUME Sound, [Next]_vars
  PROVE  Acts
<1>1. CASE UNCHANGED vars BY <1>1, Stays DEF vars, Sound, Shape
<1>2. CASE GoesOn
  BY <1>2, SetupsAct, EndsAct, ICEActs, AcceptProposalsAct, AddActs, RemoveActs, CancelActs, UpdateActs, HoldsAct
     DEF GoesOn
<1>3. CASE Timeout BY <1>3, SetupsAct, EndsAct, ICEActs, TimeoutsAct, HoldsAct DEF Timeout
<1> QED BY <1>1, <1>2, <1>3, EnvironmentActs, ApplicationActs, StartsAct DEF Next

\* Such a step keeps the invariant: what waits has told nothing yet.
LEMMA ActsKeepSInv ==
  ASSUME SInv, Sound, Acts
  PROVE  SInv'
<1> USE DEF SInv, Sound, Shape
<1>1. DOMAIN self' = Fields /\ IsSeq(self'.kept) /\ self'.ends \in Nat /\ self'.state # "none"
  BY DEF Acts, Keeps, Closes
<1>2. Shape' BY <1>1 DEF Acts, NoConnect
<1>3. EarlyOK' BY <1>1 DEF EarlyOK, Early, Acts
<1>4. ConnectFirst' BY <1>1 DEF ConnectFirst, Waiting, Acts, NoConnect
<1>5. ToldOK'
  <2>1. SUFFICES ASSUME slips' = {} PROVE ToldOK' BY DEF ToldOK
  <2>2. slips = {} /\ (Busy \/ Still) BY <2>1 DEF Acts
  <2>3. CASE Busy
    <3>1. self.told # "over" /\ self.ends = 0 BY <2>2, <2>3 DEF ToldOK, Busy
    <3> QED BY <3>1 DEF Acts, Keeps, Closes, ToldOK
  <2>4. CASE Still BY <2>2, <2>4 DEF Still, ToldOK
  <2> QED BY <2>2, <2>3, <2>4
<1> QED BY <1>2, <1>3, <1>4, <1>5

-----------------------------------------------------------------------------
(* Steps of a session that was not announced yet *)

\* A call behind those of a session that was not announced.
LEMMA QueueGrows ==
  ASSUME NEW st, NEW s, Waiting(st, s),
         NEW e, e.job \in {"hold", "unhold"} \/ (st # "none" /\ e.job # "connect")
  PROVE  Waiting(st, s \o <<e>>)
<1>1. IsSeq(s \o <<e>>) /\ Len(s) \in Nat /\ Len(s \o <<e>>) = Len(s) + 1
      /\ \A i \in 1..(Len(s) + 1) : (s \o <<e>>)[i] = IF i <= Len(s) THEN s[i] ELSE <<e>>[i - Len(s)]
  BY Joined, One DEF Waiting
<1>2. (s \o <<e>>)[Len(s) + 1] = e
  <2>1. Len(s) + 1 \in 1..(Len(s) + 1) /\ ~(Len(s) + 1 <= Len(s)) /\ (Len(s) + 1) - Len(s) = 1 BY <1>1
  <2>2. (s \o <<e>>)[Len(s) + 1] = <<e>>[1] BY <1>1, <2>1
  <2> QED BY <2>2, One
<1>3. \A i \in 1..Len(s) : (s \o <<e>>)[i] = s[i] BY <1>1
<1> QED BY <1>1, <1>2, <1>3 DEF Waiting, OnlyHolds

\* connect() itself.
LEMMA ConnectQueued ==
  ASSUME NEW s, Waiting("none", s), NEW e, e.job = "connect"
  PROVE  Waiting("connecting", s \o <<e>>) /\ ~NoConnect(s \o <<e>>)
<1>1. IsSeq(s \o <<e>>) /\ Len(s) \in Nat /\ Len(s \o <<e>>) = Len(s) + 1
      /\ \A i \in 1..(Len(s) + 1) : (s \o <<e>>)[i] = IF i <= Len(s) THEN s[i] ELSE <<e>>[i - Len(s)]
  BY Joined, One DEF Waiting
<1>2. (s \o <<e>>)[Len(s) + 1] = e
  <2>1. Len(s) + 1 \in 1..(Len(s) + 1) /\ ~(Len(s) + 1 <= Len(s)) /\ (Len(s) + 1) - Len(s) = 1 BY <1>1
  <2>2. (s \o <<e>>)[Len(s) + 1] = <<e>>[1] BY <1>1, <2>1
  <2> QED BY <2>2, One
<1>3. \A i \in 1..Len(s) : (s \o <<e>>)[i] = s[i] BY <1>1
<1>4. Len(s) + 1 \in 1..Len(s \o <<e>>) BY <1>1
<1> QED BY <1>1, <1>2, <1>3, <1>4 DEF Waiting, OnlyHolds, NoConnect

\* The head of such a queue is a hold, an unhold or the one connect().
LEMMA QueueShrinks ==
  ASSUME NEW st, NEW s, Waiting(st, s), s # <<>>
  PROVE  /\ Waiting(st, Tail(s))
         /\ Head(s).job = "connect" => NoConnect(Tail(s)) /\ st = "connecting"
         /\ st = "none" => Head(s).job \in {"hold", "unhold"}
         /\ ~NoConnect(s) => Head(s).job \in {"hold", "unhold", "connect"}
<1>1. IsSeq(Tail(s)) /\ Len(s) \in Nat \ {0} /\ Len(Tail(s)) = Len(s) - 1 /\ Head(s) = s[1]
      /\ \A i \in 1..(Len(s) - 1) : Tail(s)[i] = s[i + 1]
  BY WithoutFirst DEF Waiting
<1>2. 1 \in 1..Len(s) /\ \A i \in 1..Len(Tail(s)) : i + 1 \in 1..Len(s) /\ 1 < i + 1 /\ Tail(s)[i] = s[i + 1]
  BY <1>1
<1>3. Waiting(st, Tail(s)) BY <1>1, <1>2 DEF Waiting, OnlyHolds
<1>4. Head(s).job = "connect" => NoConnect(Tail(s)) /\ st = "connecting"
  BY <1>1, <1>2 DEF Waiting, NoConnect
<1>5. st = "none" => Head(s).job \in {"hold", "unhold"} BY <1>1, <1>2 DEF Waiting, OnlyHolds
<1>6. ~NoConnect(s) => Head(s).job \in {"hold", "unhold", "connect"}
  <2>1. SUFFICES ASSUME ~NoConnect(s) PROVE Head(s).job \in {"hold", "unhold", "connect"} OBVIOUS
  <2>2. PICK k \in 1..Len(s) : s[k].job = "connect" BY <2>1 DEF NoConnect, Waiting
  <2>3. k = 1 \/ 1 < k BY <1>1
  <2> QED BY <1>1, <1>2, <2>2, <2>3 DEF Waiting
<1> QED BY <1>3, <1>4, <1>5, <1>6

\* it still waits for nothing, or has just begun to connect
Quiet == self'.pc = "none" \/ (self'.pc = "init" /\ self'.state = "connecting")

\* Nothing happens to a session that was not announced.
LEMMA EarlyStays ==
  ASSUME SInv, Early,
         DOMAIN self' = Fields, self'.kept = self.kept, self'.state \in {self.state, "connecting"},
         self'.told = self.told, self'.ends = self.ends, self'.pc = self.pc, self'.sees = self.sees,
         "st" \in DOMAIN inv', inv'.st = inv.st, Waiting(self'.state, ready'),
         life' = life, slips' = slips
  PROVE  SInv' /\ Quiet
<1> USE DEF SInv, Shape
<1>1. Shape' BY DEF Waiting
<1>2. EarlyOK' BY DEF EarlyOK, Early
<1>3. ConnectFirst' BY DEF ConnectFirst
<1>4. ToldOK' BY DEF ToldOK, EarlyOK
<1>5. Quiet BY DEF Quiet, EarlyOK
<1> QED BY <1>1, <1>2, <1>3, <1>4, <1>5

\* Only an incoming call announces it from outside.
LEMMA EarlyEnvironment ==
  ASSUME SInv, Early, Environment
  PROVE  SInv' /\ Quiet
<1> USE DEF SInv, Shape, EarlyOK
<1>1. CASE CallArrives
  <2>1. IsSeq(ready) /\ OnlyHolds(ready) BY <1>1 DEF CallArrives, ConnectFirst, Waiting
  <2>2. NoConnect(ready) BY <2>1 DEF OnlyHolds, NoConnect
  <2>3. self'.state = "incoming" /\ DOMAIN self' = Fields /\ self'.kept = self.kept
        /\ self'.told = "new" /\ self'.ends = self.ends /\ self'.pc = "none"
    BY <1>1 DEF CallArrives, Fields
  <2>4. ready' = ready /\ slips' = slips /\ "st" \in DOMAIN inv' BY <1>1 DEF CallArrives
  <2>5. Shape' BY <2>3, <2>4
  <2>6. EarlyOK' BY <2>2, <2>3, <2>4 DEF Early
  <2>7. ConnectFirst' BY <2>1, <2>3, <2>4 DEF ConnectFirst, Waiting, OnlyHolds
  <2>8. ToldOK' BY <2>3, <2>4 DEF ToldOK
  <2> QED BY <2>3, <2>5, <2>6, <2>7, <2>8 DEF Quiet
<1>2. CASE OfferAnswered \/ PeerAnswersReinvite
  <2>1. self' = self /\ life' = life /\ slips' = slips /\ ready' = ready
        /\ "st" \in DOMAIN inv' /\ inv'.st = inv.st
    BY <1>2 DEF OfferAnswered, PeerAnswersReinvite, InvGoes, Tell, Engine
  <2> QED BY <2>1, EarlyStays DEF ConnectFirst
<1>3. ~(PeerAnswers \/ DialogConfirmed \/ DialogLost \/ DialogEnds)
  BY DEF PeerAnswers, DialogConfirmed, DialogLost, DialogEnds
<1>4. ~(PeerOffers \/ PeerCancelsOffer)
  BY DEF PeerOffers, PeerCancelsOffer, CanReinvite, CanRespond
<1>5. ~(StreamInitialized \/ StreamStarts \/ StreamFails)
  BY DEF StreamInitialized, StreamStarts, StreamFails, Report
<1> QED BY <1>1, <1>2, <1>3, <1>4, <1>5 DEF Environment

\* Only connect(), hold() and unhold() are legal.
LEMMA EarlyApplication ==
  ASSUME SInv, Early, Application \/ Stopped
  PROVE  SInv' /\ Quiet
<1> USE DEF SInv, Shape, EarlyOK
<1>1. Waiting(self.state, ready) /\ (self.state = "none" \/ self.state = "connecting")
  BY DEF ConnectFirst, Early, Waiting, NoConnect
<1>2. CASE connect
  <2> DEFINE e == [job |-> "connect", item |-> Item("", "")]
  <2>1. self.state = "none" /\ self' = [self EXCEPT !.state = "connecting"] /\ ready' = ready \o <<e>>
        /\ inv' = inv /\ life' = life /\ slips' = slips
    BY <1>2 DEF connect, Transition, Moves, Later
  <2>2. e.job = "connect" OBVIOUS
  <2>3. Waiting("connecting", ready')
    <3> HIDE DEF e
    <3> QED BY <1>1, <2>1, <2>2, ConnectQueued
  <2>4. DOMAIN self' = Fields /\ self'.kept = self.kept /\ self'.state = "connecting" /\ self'.told = self.told
        /\ self'.ends = self.ends /\ self'.pc = self.pc /\ self'.sees = self.sees
    BY <2>1 DEF Fields
  <2> QED BY <2>1, <2>3, <2>4, EarlyStays
<1>3. ASSUME NEW c \in {"hold", "unhold", "end"}, Call(c), self.state # "none" \/ c # "end" PROVE SInv' /\ Quiet
  <2>1. Job(c).job = c /\ ready' = ready \o <<Job(c)>> BY <1>3 DEF Call, Job, Later
  <2>2. Waiting(self.state, ready') BY <1>1, <1>3, <2>1, QueueGrows
  <2> QED BY <1>3, <2>2, EarlyStays DEF Call
<1>4. CASE stop \/ Stopped
  <2>1. ready' = ready
    <3>1. CASE stop
      <4>1. ready' = ready \o <<>> BY <3>1 DEF stop, Later
      <4> QED BY <4>1, Joined, Empty
    <3>2. CASE Stopped BY <3>2 DEF Stopped
    <3> QED BY <1>4, <3>1, <3>2
  <2> QED BY <1>1, <1>4, <2>1, EarlyStays DEF stop, Stopped
<1>5. ~(accept \/ reject \/ accept_proposal \/ reject_proposal \/ add_streams \/ remove_streams \/ cancel_proposal)
  BY <1>1 DEF accept, reject, accept_proposal, reject_proposal, add_streams, remove_streams,
              cancel_proposal, Transition, Moves
<1> QED BY <1>2, <1>3, <1>4, <1>5 DEF Application, hold, unhold, end

\* Only they start, and connect() announces it.
LEMMA EarlyStarts ==
  ASSUME SInv, Early, Starts
  PROVE  SInv' /\ Quiet
<1> USE DEF SInv, Shape, EarlyOK
<1>1. Waiting(self.state, ready) BY DEF ConnectFirst
<1>2. ready # <<>> /\ Head(ready).job \in {"hold", "unhold", "connect"}
  <2>1. ready # <<>>
    BY DEF Starts, Begins, ConnectBody, AcceptBody, RejectBody, AcceptProposalBody, RejectProposalBody, AddBody,
           RemoveBody, HoldBody, UnholdBody, CancelBody, EndBody, NotifyWaiter, NotifyNobody, StreamFailed,
           DialogGone, OfferWithdrawn, OfferRefused, StreamsOffered, UpdateOffered, OfferRequested,
           OfferCancelled, Idle, IdleWith
  <2> QED BY <1>1, <2>1, QueueShrinks DEF Early
<1>3. CASE ConnectBody
  <2>1. Head(ready).job = "connect" BY <1>3 DEF ConnectBody, Begins
  <2>2. NoConnect(Tail(ready)) /\ self.state = "connecting" BY <1>1, <1>2, <2>1, QueueShrinks
  <2>3. ready' = Tail(ready)
    <3>1. ready' = Tail(ready) \o <<>> BY <1>3 DEF ConnectBody, Goes
    <3> QED BY <2>2, <3>1, Joined, Empty DEF NoConnect
  <2>4. DOMAIN self' = Fields /\ self'.kept = self.kept /\ self'.state = "connecting" /\ self'.told = "new"
        /\ self'.ends = self.ends /\ self'.pc = "init"
    BY <1>3, <2>2 DEF ConnectBody, Fields
  <2>5. inv' = inv /\ slips' = slips BY <1>3 DEF ConnectBody
  <2>6. Shape' BY <2>2, <2>3, <2>4, <2>5 DEF NoConnect
  <2>7. EarlyOK' BY <2>2, <2>3, <2>4 DEF Early
  <2>8. ConnectFirst' BY <2>2, <2>3, <2>4 DEF ConnectFirst, Waiting, NoConnect
  <2>9. ToldOK' BY <2>4, <2>5 DEF ToldOK
  <2> QED BY <2>4, <2>6, <2>7, <2>8, <2>9 DEF Quiet
<1>4. CASE HoldBody \/ UnholdBody
  <2>1. self' \in {self, [self EXCEPT !.holding = TRUE], [self EXCEPT !.holding = FALSE]}
    <3>1. self.state # "connected" BY DEF Early, ConnectFirst, Waiting, NoConnect
    <3> QED BY <1>4, <3>1 DEF HoldBody, UnholdBody
  <2>2. DOMAIN self' = Fields /\ self'.kept = self.kept /\ self'.state = self.state /\ self'.told = self.told
        /\ self'.ends = self.ends /\ self'.pc = self.pc /\ self'.sees = self.sees
    BY <2>1 DEF Fields
  <2>3. inv' = Resent(self') /\ life' = life /\ slips' = slips BY <1>4 DEF HoldBody, UnholdBody
  <2>4. "st" \in DOMAIN inv' /\ inv'.st = inv.st BY <2>3 DEF Resent
  <2>5. Waiting(self.state, Tail(ready)) BY <1>1, <1>2, QueueShrinks
  <2>6. ready' = Tail(ready)
    <3>1. ready' = Tail(ready) \o <<>> BY <1>4 DEF HoldBody, UnholdBody, Goes
    <3> QED BY <2>5, <3>1, Joined, Empty DEF Waiting
  <2> QED BY <2>2, <2>3, <2>4, <2>5, <2>6, EarlyStays
<1>5. ~Starts \/ ConnectBody \/ HoldBody \/ UnholdBody
  BY <1>2 DEF Starts, Begins, AcceptBody, RejectBody, AcceptProposalBody, RejectProposalBody, AddBody,
              RemoveBody, CancelBody, EndBody, NotifyWaiter, NotifyNobody, StreamFailed,
              DialogGone, OfferWithdrawn, OfferRefused, StreamsOffered, UpdateOffered, OfferRequested,
              OfferCancelled, Idle, IdleWith
<1> QED BY <1>3, <1>4, <1>5

\* Every step of a session that was not announced.
LEMMA EarlyNext ==
  ASSUME SInv, Early, [Next]_vars
  PROVE  SInv' /\ Quiet
<1>1. ~GoesOn /\ ~Timeout
  <2>1. self.pc = "none" BY DEF SInv, EarlyOK
  <2>2. ~GoesOn
    BY <2>1 DEF GoesOn, At, SetupInit, SetupSDP, SetupMedia, FailWaits, RejectWaits, EndWaits, ICEWaits,
                AcceptProposalWaits, RejectProposalWaits, AddWaits, RemoveWaits, CancelWaits, UpdateWaits,
                HoldWaits
  <2>3. ~Timeout
    BY <2>1 DEF Timeout, SetupTimeout, EndTimeout, ICETimeout, ProposalTimeout, HoldTimeout
  <2> QED BY <2>2, <2>3
<1>2. CASE UNCHANGED vars BY <1>2, EarlyStays DEF vars, SInv, Shape, ConnectFirst
<1> QED BY <1>1, <1>2, EarlyEnvironment, EarlyApplication, EarlyStarts DEF Next

-----------------------------------------------------------------------------
\* A session that is new, and one that is established.
LEMMA InitSInv ==
  ASSUME Init
  PROVE  /\ SInv /\ self.pc = "none" /\ self.state \in {"connected", "none"}
         /\ life = [s \in Streams |-> IF s \in self.streams THEN "on" ELSE "idle"]
         /\ self.state = "none" => self.streams = {}
<1>1. PICK m \in Menus, b \in Bare, f \in Firsts :
        /\ self = [dir |-> IF Role(m) = "established" THEN "outgoing" ELSE Role(m),
                   state |-> IF Role(m) = "established" THEN "connected" ELSE "none",
                   pc |-> "none", wait |-> 0, got |-> {}, started |-> Role(m) = "established",
                   streams |-> IF Role(m) = "established" THEN f ELSE {}, proposed |-> {}, leaving |-> {},
                   kept |-> <<>>, onHold |-> FALSE, holding |-> FALSE,
                   told |-> IF Role(m) = "established" THEN "new" ELSE "none",
                   ends |-> 0, sees |-> Role(m) = "established"]
        /\ inv = [st |-> IF Role(m) = "established" THEN "connected" ELSE "none",
                  sub |-> IF Role(m) = "established" THEN "normal" ELSE "",
                  troubles |-> MaxTroubles, sdp |-> Role(m) = "incoming" /\ ~b]
        /\ life = [s \in Streams |-> IF Role(m) = "established" /\ s \in f THEN "on" ELSE "idle"]
  BY Zenon DEF Init
<1>2. DOMAIN self = Fields /\ self.kept = <<>> /\ self.ends = 0 /\ self.pc = "none" /\ "st" \in DOMAIN inv
  BY <1>1 DEF Fields
<1>3. ready = <<>> /\ NoConnect(<<>>) BY NoConnectShort DEF Init
<1>4. Shape BY <1>2, <1>3, Empty DEF Shape
<1>5. ConnectFirst BY <1>3, Empty DEF ConnectFirst, Waiting, OnlyHolds
<1>6. CASE Role(m) = "established"
  <2>1. self.state = "connected" /\ self.told = "new" BY <1>1, <1>6
  <2>2. self.streams = f /\ life = [s \in Streams |-> IF s \in f THEN "on" ELSE "idle"] BY <1>1, <1>6
  <2> QED BY <1>2, <1>3, <1>4, <1>5, <2>1, <2>2 DEF SInv, EarlyOK, Early, ToldOK
<1>7. CASE Role(m) # "established"
  <2>1. self.state = "none" /\ self.told = "none" /\ inv.st = "none" /\ \A s \in Streams : life[s] = "idle" BY <1>1, <1>7
  <2>2. ~self.sees BY <1>1, <1>7, Zenon
  <2>3. self.streams = {} /\ life = [s \in Streams |-> "idle"] BY <1>1, <1>7
  <2>4. life = [s \in Streams |-> IF s \in self.streams THEN "on" ELSE "idle"] BY <2>3
  <2> QED BY <1>2, <1>3, <1>4, <1>5, <2>1, <2>2, <2>3, <2>4 DEF SInv, EarlyOK, ToldOK
<1> QED BY <1>6, <1>7

\* The end of a session is told once, of a session that was announced, and its state is
\* final after that, unless something was lost before: end(), the end of the dialog, the
\* failure of the last stream, a timeout and SessionManager.stop may all come together.
THEOREM EndToldOnce == Spec => []ToldOnce
<1>1. SInv => ToldOnce
  BY DEF SInv, Shape, ToldOK, ToldOnce
<1>2. SInv /\ [Next]_vars => SInv'
  <2> SUFFICES ASSUME SInv, [Next]_vars PROVE SInv' OBVIOUS
  <2>1. CASE Early BY <2>1, EarlyNext
  <2>2. CASE ~Early
    <3>1. Sound BY <2>2 DEF Early, Sound, SInv
    <3> QED BY <3>1, NextActs, ActsKeepSInv
  <2> QED BY <2>1, <2>2
<1> QED BY <1>1, <1>2, InitSInv, PTL DEF Spec

-----------------------------------------------------------------------------
(* A green thread that dies has left a successor *)

\* a call that takes the place of a dead green thread
Successor(s) == \E k \in 1..Len(s) : s[k].job \in {"end", "cancel_proposal"}

Ending == {"none", "end", "fail", "reject"}

\* x waits for nothing that its state does not have
Fits(x) == /\ x.state = "incoming" => x.pc = "none"
           /\ x.state \in {"terminating", "terminated"} => x.pc \in Ending
Alive(x, s) == /\ x.pc = "dead" => Successor(s)
               /\ Fits(x)

DeafOK == slips = {} => Alive(self, ready)
DInv == SInv /\ DeafOK

Heeded == Sound /\ DeafOK
Lives == slips' = {} => Alive(self', ready')

\* A successor stays in a queue that grows, and until it is at its head.
LEMMA SuccessorStays ==
  ASSUME NEW s, NEW t, IsSeq(s), IsSeq(t)
  PROVE  /\ Successor(s) \/ Successor(t) => Successor(s \o t)
         /\ s # <<>> /\ Successor(s) /\ Head(s).job \notin {"end", "cancel_proposal"} => Successor(Tail(s))
<1>1. IsSeq(s \o t) /\ Len(s) \in Nat /\ Len(t) \in Nat /\ Len(s \o t) = Len(s) + Len(t)
      /\ \A i \in 1..(Len(s) + Len(t)) : (s \o t)[i] = IF i <= Len(s) THEN s[i] ELSE t[i - Len(s)]
  BY Joined, Zenon
<1>2. ASSUME NEW k \in 1..Len(s) PROVE k \in 1..Len(s \o t) /\ (s \o t)[k] = s[k] BY <1>1
<1>3. ASSUME NEW k \in 1..Len(t) PROVE k + Len(s) \in 1..Len(s \o t) /\ (s \o t)[k + Len(s)] = t[k]
  <2>1. k + Len(s) \in 1..Len(s \o t) /\ ~(k + Len(s) <= Len(s)) /\ (k + Len(s)) - Len(s) = k BY <1>1, <1>3
  <2>2. (s \o t)[k + Len(s)] = t[(k + Len(s)) - Len(s)] BY <1>1, <2>1
  <2> QED BY <2>1, <2>2
<1>4. Successor(s) \/ Successor(t) => Successor(s \o t) BY <1>2, <1>3 DEF Successor
<1>5. ASSUME s # <<>>, Successor(s), Head(s).job \notin {"end", "cancel_proposal"} PROVE Successor(Tail(s))
  <2>1. Len(Tail(s)) = Len(s) - 1 /\ Head(s) = s[1] /\ \A i \in 1..(Len(s) - 1) : Tail(s)[i] = s[i + 1]
    BY <1>5, WithoutFirst, Zenon
  <2>2. PICK k \in 1..Len(s) : s[k].job \in {"end", "cancel_proposal"} BY <1>5 DEF Successor
  <2>3. k # 1 BY <1>5, <2>1, <2>2
  <2>4. k - 1 \in 1..Len(Tail(s)) /\ Tail(s)[k - 1] = s[k] BY <1>1, <2>1, <2>3
  <2> QED BY <2>2, <2>4 DEF Successor
<1> QED BY <1>4, <1>5

\* end() and cancel_proposal() are successors.
LEMMA SuccessorShort ==
  /\ \A j : j \in {"end", "cancel_proposal"} => Successor(<<Job(j)>>)
  /\ IsSeq(<<>>) /\ \A e : IsSeq(<<e>>)
<1>1. ASSUME NEW j, j \in {"end", "cancel_proposal"} PROVE Successor(<<Job(j)>>)
  <2>1. Len(<<Job(j)>>) = 1 /\ <<Job(j)>>[1] = Job(j) BY One
  <2>2. Job(j).job = j BY DEF Job
  <2>3. 1 \in 1..Len(<<Job(j)>>) /\ <<Job(j)>>[1].job = j BY <2>1, <2>2
  <2> QED BY <1>1, <2>3 DEF Successor
<1>2. IsSeq(<<>>) /\ \A e : IsSeq(<<e>>) BY One, Empty
<1> QED BY <1>1, <1>2

\* what is put behind what is ready takes no successor away
LEMMA LaterLives ==
  ASSUME Sound, NEW s, IsSeq(s), Later(s)
  PROVE  Successor(ready) \/ Successor(s) => Successor(ready')
BY SuccessorStays DEF Later, Sound, NoConnect

\* A green thread that starts takes no successor away but itself.
LEMMA GoesLives ==
  ASSUME Sound, NEW j, Begins(j), NEW s, IsSeq(s), Goes(s)
  PROVE  /\ j \notin {"end", "cancel_proposal"} /\ Successor(ready) => Successor(ready')
         /\ Successor(s) => Successor(ready')
<1>1. IsSeq(ready) /\ ready # <<>> /\ Head(ready).job = j /\ ready' = Tail(ready) \o s
  BY DEF Sound, NoConnect, Begins, Goes
<1>2. IsSeq(Tail(ready)) BY <1>1, WithoutFirst
<1>3. j \notin {"end", "cancel_proposal"} /\ Successor(ready) => Successor(Tail(ready)) BY <1>1, Empty, SuccessorStays
<1> QED BY <1>1, <1>2, <1>3, SuccessorStays

\* The green thread waits where it was.
LEMMA SameLives ==
  ASSUME Heeded, slips' = {} => slips = {}, self'.pc = self.pc,
         self'.state = self.state \/ self'.state \notin {"incoming", "terminating", "terminated"},
         Successor(ready) => Successor(ready')
  PROVE  Lives
BY DEF Heeded, DeafOK, Lives, Alive, Fits

\* The green thread lives.
LEMMA FineLives ==
  ASSUME self'.pc # "dead", Fits(self')
  PROVE  Lives
BY DEF Lives, Alive

\* The peer, the engine and the streams take no successor away.
LEMMA EnvironmentLives ==
  ASSUME Heeded, Environment
  PROVE  Lives
<1> USE DEF Heeded
<1>1. ~CallArrives BY DEF CallArrives, Sound
<1>2. self' = self /\ slips' = slips
  BY <1>1 DEF Environment, PeerAnswers, DialogConfirmed, DialogLost, DialogEnds, PeerOffers, PeerCancelsOffer,
              OfferAnswered, PeerAnswersReinvite, StreamInitialized, StreamStarts, StreamFails, Report,
              InvGoes, Engine
<1>3. \/ \E s : IsSeq(s) /\ Tell(s)
      \/ \E s : IsSeq(s) /\ Later(s)
  <2>1. CASE StreamInitialized \/ StreamStarts \/ StreamFails
    <3>1. \E i : Later(<<i>>) BY <2>1 DEF StreamInitialized, StreamStarts, StreamFails, Report
    <3> QED BY <3>1, Short
  <2>2. CASE ~(StreamInitialized \/ StreamStarts \/ StreamFails)
    <3>1. \E s : IsSeq(s) /\ Tell(s)
      BY <1>1, <2>2, Short, Empty
         DEF Environment, PeerAnswers, DialogConfirmed, DialogLost, DialogEnds, PeerOffers, PeerCancelsOffer,
             OfferAnswered, PeerAnswersReinvite, InvGoes
    <3> QED BY <3>1
  <2> QED BY <2>1, <2>2
<1>4. Successor(ready) => Successor(ready')
  <2>1. ASSUME NEW s, IsSeq(s), Tell(s) PROVE Successor(ready) => Successor(ready')
    BY <2>1, Heard, SuccessorStays DEF Tell, Sound, NoConnect
  <2> QED BY <1>3, <2>1, LaterLives
<1> QED BY <1>2, <1>4, SameLives

\* Nor does a call; reject() finds no green thread.
LEMMA ApplicationLives ==
  ASSUME Heeded, Application \/ Stopped
  PROVE  Lives
<1> USE DEF Heeded
<1>1. ASSUME NEW c \in {"accept", "reject", "accept_proposal", "reject_proposal", "add_streams",
                        "remove_streams", "cancel_proposal"},
             NEW x, Transition(c, x)
      PROVE Lives
  <2>1. self'.pc = self.pc /\ self'.state = Moves[c][2] /\ self.state = Moves[c][1] /\ slips' = slips
    BY <1>1 DEF Transition, Sound, Shape, Fields
  <2>2. Successor(ready) => Successor(ready') BY <1>1, LaterLives, One DEF Transition
  <2>3. CASE c = "reject"
    <3>1. self.state = "incoming" /\ self'.state = "terminating" BY <2>1, <2>3 DEF Moves
    <3> QED BY <2>1, <3>1 DEF Lives, DeafOK, Alive, Fits, Ending
  <2>4. CASE c # "reject"
    <3>1. self'.state \notin {"incoming", "terminating", "terminated"} BY <1>1, <2>1, <2>4 DEF Moves
    <3> QED BY <2>1, <2>2, <3>1, SameLives
  <2> QED BY <2>3, <2>4
<1>2. CASE hold \/ unhold \/ end \/ stop
  <2>1. self' = self /\ slips' = slips BY <1>2 DEF hold, unhold, end, stop, Call
  <2>2. \E s : IsSeq(s) /\ Later(s) BY <1>2, Short, Empty DEF hold, unhold, end, stop, Call
  <2> QED BY <2>1, <2>2, LaterLives, SameLives
<1>3. CASE Stopped BY <1>3, SameLives DEF Stopped
<1>4. ~connect BY DEF connect, Transition, Moves, Sound
<1> QED
  BY <1>1, <1>2, <1>3, <1>4
     DEF Application, accept, reject, accept_proposal, reject_proposal, add_streams, remove_streams,
         cancel_proposal

\* the helpers leave no dead green thread behind
LEMMA HelpersFit ==
  ASSUME NEW x, Keeps(x)
  PROVE  /\ Connected(x).pc = "none" /\ Fits(Connected(x))
         /\ Settled(x).pc # "dead" /\ Fits(Settled(x))
<1> DEFINE c == Connected(x)
<1>1. DOMAIN c = Fields /\ c.pc = "none" /\ c.state = "connected" BY DEF Connected, Keeps, Fields
<1>2. /\ SendHold(c).pc \in {"none", "hold"}
      /\ SendHold(c).state \in {"connected", "sending_proposal"}
  <2> HIDE DEF c
  <2> QED BY <1>1 DEF SendHold, Sending, Fields
<1>3. Settled(x).pc \in {"none", "hold"} /\ Settled(x).state \in {"connected", "sending_proposal"}
  BY <1>1, <1>2 DEF Settled
<1> QED BY <1>1, <1>3 DEF Fits

\* Nor do the ends of hold and unhold.
LEMMA HoldsFit ==
  ASSUME NEW x, Keeps(x)
  PROVE  /\ HoldDone(x).pc # "dead" /\ Fits(HoldDone(x))
         /\ UnholdDone(x).pc # "dead" /\ Fits(UnholdDone(x))
<1> DEFINE c == Connected(x)
<1>1. DOMAIN c = Fields /\ c.pc = "none" /\ c.state = "connected" BY DEF Connected, Keeps, Fields
<1> HIDE DEF c
<1> DEFINE h == [c EXCEPT !.onHold = TRUE]
           u == [c EXCEPT !.onHold = FALSE]
           b == [c EXCEPT !.onHold = TRUE, !.holding = FALSE]
<1>2. /\ DOMAIN h = Fields /\ h.pc = "none" /\ h.state = "connected"
      /\ DOMAIN u = Fields /\ u.pc = "none" /\ u.state = "connected"
      /\ b.pc = "none" /\ b.state = "connected"
  BY <1>1 DEF Fields
<1>3. /\ SendUnhold(h).pc \in {"none", "unhold"}
      /\ SendUnhold(h).state \in {"connected", "sending_proposal"}
      /\ SendHold(u).pc \in {"none", "hold"}
      /\ SendHold(u).state \in {"connected", "sending_proposal"}
  <2> HIDE DEF h, u, b
  <2> QED BY <1>2 DEF SendUnhold, SendHold, Sending, Fields
<1>4. HoldDone(x) \in {b, SendUnhold(h)} /\ UnholdDone(x) \in {u, SendHold(u)}
  BY DEF HoldDone, UnholdDone, c
<1> HIDE DEF h, u, b
<1> QED BY <1>2, <1>3, <1>4 DEF Fits

\* A session that has ended waits for nothing.
LEMMA EndedFits ==
  ASSUME NEW x, Keeps(x)
  PROVE  Ended(x).pc # "dead" /\ Fits(Ended(x))
BY DEF Keeps, Ended, Fits, Ending, Fields

\* Nor does one whose green thread was killed.
LEMMA KilledFits ==
  ASSUME Heeded, slips = {}
  PROVE  Killed.pc = "none" /\ Fits(Killed)
<1>1. "pc" \in DOMAIN self /\ "state" \in DOMAIN self BY DEF Heeded, Sound, Shape, Fields
<1>2. Killed.pc = "none" /\ Killed.state \in {"connected", self.state} BY <1>1 DEF Killed
<1> QED BY <1>2 DEF Fits, Ending

\* a call that starts in the state that it was made for
LEMMA InTime ==
  ASSUME Slips(Outrun) \/ \E S : Slips(Outrun \cup S) \/ Slips(S \cup Outrun), slips' = {}
  PROVE  /\ slips = {}
         /\ Head(ready).job = "accept" => self.state = "accepting"
         /\ Head(ready).job = "reject" => self.state = "terminating"
         /\ Head(ready).job = "accept_proposal" => self.state = "accepting_proposal"
         /\ Head(ready).job = "reject_proposal" => self.state = "rejecting_proposal"
         /\ Head(ready).job \in {"add_streams", "remove_streams"} => self.state = "sending_proposal"
         /\ Head(ready).job = "cancel_proposal" => self.state = "cancelling_proposal"
<1>1. slips = {} /\ Outrun = {} BY SlipKept
<1>2. self.state = Moves[Head(ready).job][2] BY <1>1 DEF Outrun
<1> QED BY <1>1, <1>2 DEF Moves

\* accept() and reject() start where they were called.
LEMMA AcceptLives ==
  ASSUME Heeded, AcceptBody \/ RejectBody
  PROVE  Lives
<1> SUFFICES ASSUME slips' = {} PROVE Lives BY DEF Lives
<1> USE DEF Heeded, Sound, Shape
<1>1. CASE AcceptBody
  <2>1. self.state = "accepting" BY <1>1, InTime DEF AcceptBody, Begins
  <2>2. self'.pc = "init" /\ self'.state = "accepting" BY <1>1, <2>1 DEF AcceptBody, Fields
  <2> QED BY <2>2, FineLives DEF Fits
<1>2. CASE RejectBody
  <2>1. self.state = "terminating" BY <1>2, InTime DEF RejectBody, Begins
  <2>2. \/ self'.pc = "reject" /\ self'.state = "terminating"
        \/ self' = Ended(self)
    BY <1>2, <2>1 DEF RejectBody, Fields
  <2> QED BY <2>2, EndedFits, SelfKeeps, FineLives DEF Fits, Ending
<1> QED BY <1>1, <1>2

\* So do the answers to a proposal.
LEMMA ProposalBodiesLive ==
  ASSUME Heeded, AcceptProposalBody \/ RejectProposalBody
  PROVE  Lives
<1> SUFFICES ASSUME slips' = {} PROVE Lives BY DEF Lives
<1> USE DEF Heeded, Sound, Shape
<1>1. ~ProposalGone BY SlipNamed DEF ProposalGone, Escapes
<1>2. CASE AcceptProposalBody
  <2>1. self.state = "accepting_proposal" BY <1>1, <1>2, InTime DEF AcceptProposalBody, Begins
  <2>2. self'.pc = "p.init" /\ self'.state = "accepting_proposal"
    BY <1>1, <1>2, <2>1 DEF AcceptProposalBody, Fields
  <2> QED BY <2>2, FineLives DEF Fits
<1>3. CASE RejectProposalBody
  <2>1. self.state = "rejecting_proposal" BY <1>1, <1>3, InTime DEF RejectProposalBody, Begins
  <2>2. \/ self'.pc = "rp" /\ self'.state = "rejecting_proposal"
        \/ self' = Connected(self)
    BY <1>1, <1>3, <2>1 DEF RejectProposalBody, FailProposal, Fields
  <2> QED BY <2>2, HelpersFit, SelfKeeps, FineLives DEF Fits
<1> QED BY <1>2, <1>3

\* remove_streams() that cannot be sent calls end() before it dies.
LEMMA StreamBodiesLive ==
  ASSUME Heeded, AddBody \/ RemoveBody
  PROVE  Lives
<1> SUFFICES ASSUME slips' = {} PROVE Lives BY DEF Lives
<1> USE DEF Heeded, Sound, Shape
<1>1. CASE AddBody
  <2>1. slips = {} /\ self.state = "sending_proposal" BY <1>1, InTime DEF AddBody, Begins
  <2>2. Successor(ready) => Successor(ready') BY <1>1, GoesLives, SuccessorShort DEF AddBody
  <2>3. \/ self'.pc = self.pc /\ self'.state = "connected"
        \/ self'.pc = "s.init" /\ self'.state = "sending_proposal"
    BY <1>1, <2>1 DEF AddBody, Fields
  <2> QED BY <2>1, <2>2, <2>3, SameLives, FineLives DEF Fits
<1>2. CASE RemoveBody
  <2>1. slips = {} /\ self.state = "sending_proposal" BY <1>2, InTime DEF RemoveBody, Begins
  <2>2. \/ self'.pc = self.pc /\ self'.state = "connected" /\ Goes(<<>>)
        \/ self'.pc = "m.sdp" /\ self'.state = "sending_proposal"
        \/ self'.pc = "dead" /\ self'.state = "sending_proposal" /\ Goes(<<Job("end")>>)
    BY <1>2, <2>1 DEF RemoveBody, Fields
  <2>3. Goes(<<>>) => (Successor(ready) => Successor(ready'))
    BY <1>2, GoesLives, SuccessorShort DEF RemoveBody
  <2>4. Goes(<<Job("end")>>) => Successor(ready')
    BY <1>2, GoesLives, SuccessorShort DEF RemoveBody
  <2> QED BY <2>1, <2>2, <2>3, <2>4, SameLives, FineLives DEF Fits, Lives, Alive
<1> QED BY <1>1, <1>2

\* hold() and unhold() wait for nobody's green thread.
LEMMA HoldBodiesLive ==
  ASSUME Heeded, HoldBody \/ UnholdBody
  PROVE  Lives
<1> USE DEF Heeded, Sound, Shape
<1> DEFINE h == [self EXCEPT !.holding = TRUE]
           u == [self EXCEPT !.holding = FALSE]
<1>1. slips' = slips BY DEF HoldBody, UnholdBody
<1>2. Successor(ready) => Successor(ready') BY GoesLives, SuccessorShort DEF HoldBody, UnholdBody
<1>3. /\ DOMAIN h = Fields /\ h.pc = self.pc /\ h.state = self.state
      /\ DOMAIN u = Fields /\ u.pc = self.pc /\ u.state = self.state
  BY DEF Fields
<1>4. \/ self' \in {self, h, u}
      \/ self.state = "connected" /\ self' \in {SendHold(h), SendUnhold(u)}
  BY DEF HoldBody, UnholdBody
<1> HIDE DEF h, u
<1>5. ASSUME NEW x \in {SendHold(h), SendUnhold(u)}
      PROVE  \/ x.pc = self.pc /\ x.state = self.state
             \/ x.pc \in {"hold", "unhold"} /\ x.state = "sending_proposal"
  <2>1. CASE CanReinvite
    <3>1. x \in {Sending(h, "hold"), Sending(u, "unhold")} BY <1>5, <2>1 DEF SendHold, SendUnhold
    <3> QED BY <1>3, <3>1 DEF Sending, Fields
  <2>2. CASE ~CanReinvite
    <3>1. x \in {[h EXCEPT !.onHold = h.holding, !.holding = FALSE], [u EXCEPT !.onHold = u.holding, !.holding = FALSE]}
      BY <1>5, <2>2 DEF SendHold, SendUnhold
    <3> QED BY <1>3, <3>1 DEF Fields
  <2> QED BY <2>1, <2>2
<1>6. \/ self'.pc = self.pc /\ self'.state = self.state
      \/ self'.pc \in {"hold", "unhold"} /\ self'.state = "sending_proposal"
  BY <1>3, <1>4, <1>5
<1> QED BY <1>1, <1>2, <1>6, SameLives, FineLives DEF Fits

\* cancel_proposal() and end() take the place of the green thread.
LEMMA EndBodiesLive ==
  ASSUME Heeded, CancelBody \/ EndBody
  PROVE  Lives
<1> SUFFICES ASSUME slips' = {} PROVE Lives BY DEF Lives
<1> USE DEF Heeded
<1>1. CASE CancelBody
  <2>1. slips = {} /\ self.state = "cancelling_proposal"
    <3>1. Slips(KillSlips \cup Outrun) /\ Head(ready).job = "cancel_proposal" BY <1>1 DEF CancelBody, Begins
    <3> QED BY <3>1, InTime
  <2>2. /\ [Killed EXCEPT !.pc = "cancel"].pc = "cancel"
        /\ [Killed EXCEPT !.pc = "cancel"].state \in {"connected", "cancelling_proposal"}
    BY <2>1 DEF Killed, Sound, Shape, Fields
  <2>3. \/ self'.pc = "cancel" /\ self'.state \in {"connected", "cancelling_proposal"}
        \/ self' = Settled(Killed)
    BY <1>1, <2>2 DEF CancelBody
  <2> QED BY <2>3, HelpersFit, SelfKeeps, FineLives DEF Fits
<1>2. CASE EndBody
  <2>1. slips = {} BY <1>2, SlipKept, SlipNamed DEF EndBody
  <2>2. CASE self.state \in {"none", "terminating", "terminated"}
    <3>1. self' = self BY <1>2, <2>2 DEF EndBody
    <3> QED BY <2>1, <2>2, <3>1, FineLives DEF DeafOK, Alive, Fits, Sound, Ending
  <2>3. CASE self.state \notin {"none", "terminating", "terminated"}
    <3>1. [Killed EXCEPT !.state = "terminating", !.pc = "end"].pc = "end"
          /\ [Killed EXCEPT !.state = "terminating", !.pc = "end"].state = "terminating"
      BY DEF Killed, Sound, Shape, Fields
    <3>2. \/ self' \in {Ended(self), Killed}
          \/ self'.pc = "end" /\ self'.state = "terminating"
      BY <1>2, <2>3, <3>1 DEF EndBody
    <3> QED BY <2>1, <3>2, EndedFits, KilledFits, SelfKeeps, FineLives DEF Fits, Ending
  <2> QED BY <2>2, <2>3
<1> QED BY <1>1, <1>2

\* A notification is handled where no green thread waits.
LEMMA NotifiedLives ==
  ASSUME Heeded,
         \/ NotifyWaiter \/ NotifyNobody \/ StreamFailed \/ DialogGone \/ OfferWithdrawn \/ OfferRefused
         \/ StreamsOffered \/ UpdateOffered \/ OfferRequested \/ OfferCancelled
  PROVE  Lives
<1> SUFFICES ASSUME slips' = {} PROVE Lives BY DEF Lives
<1> USE DEF Heeded, Sound, Shape
<1>1. CASE NotifyWaiter
  <2>1. Successor(ready) => Successor(ready') BY <1>1, GoesLives, SuccessorShort DEF NotifyWaiter
  <2> QED BY <1>1, <2>1, SameLives DEF NotifyWaiter
<1>2. CASE ~NotifyWaiter
  <2>1. self.pc = "none"
    BY <1>2 DEF NotifyNobody, StreamFailed, DialogGone, OfferWithdrawn, OfferRefused, StreamsOffered,
                UpdateOffered, OfferRequested, OfferCancelled, Idle, IdleWith
  <2>2. CASE NotifyNobody \/ StreamFailed \/ DialogGone
    <3>1. self' = self \/ self' = [self EXCEPT !.state = "sending_proposal"] \/ self' = Ended(self)
      BY <2>2 DEF NotifyNobody, StreamFailed, DialogGone
    <3>2. self'.pc = "none"
      BY <2>1, <3>1 DEF Ended, Fields
    <3> QED BY <3>2, FineLives DEF Fits, Ending
  <2>3. CASE OfferWithdrawn \/ OfferRefused \/ StreamsOffered \/ UpdateOffered \/ OfferRequested
    <3>1. self'.pc \in {"none", "u.sdp"}
          /\ self'.state \in {"received_proposal", "received_proposal_request", "connected"}
      BY <2>1, <2>3 DEF OfferWithdrawn, OfferRefused, StreamsOffered, UpdateOffered, OfferRequested, Fields
    <3> QED BY <3>1, FineLives DEF Fits
  <2>4. CASE OfferCancelled
    <3>1. self' = Settled(self) \/ self' = [self EXCEPT !.state = "connected"] BY <2>4 DEF OfferCancelled
    <3>2. self'.pc # "dead" /\ Fits(self')
      BY <2>1, <3>1, HelpersFit, SelfKeeps DEF Fits, Fields
    <3> QED BY <3>2, FineLives
  <2> QED BY <1>2, <2>2, <2>3, <2>4
<1> QED BY <1>1, <1>2

\* Whatever green thread starts.
LEMMA StartsLive ==
  ASSUME Heeded, Starts
  PROVE  Lives
<1>1. ~ConnectBody BY NoConnectTail DEF ConnectBody, Begins, Heeded, Sound
<1> QED
  BY <1>1, AcceptLives, ProposalBodiesLive, StreamBodiesLive, HoldBodiesLive, EndBodiesLive, NotifiedLives
     DEF Starts

\* who waits for the channel in the middle of an operation is in the state of that operation
LEMMA Awake ==
  ASSUME Heeded, slips = {}, self.pc \notin Ending, self.pc # "dead"
  PROVE  self.state \notin {"incoming", "terminating", "terminated"}
BY DEF Heeded, DeafOK, Alive, Fits, Ending

\* the ways in which many of them end
Common ==
  \/ Ignored \/ Note \/ SetupFails \/ SetupEnds
  \/ ProposalFails(<<>>) \/ ProposalFails(Again)
  \/ \E x : Keeps(x) /\ (Complete(x) \/ AfterICE(x))
  \/ self' = Connected(self)
  \/ \E x : Keeps(x) /\ self' \in {Settled(x), HoldDone(x), UnholdDone(x), Connected(x), Ended(x)}
  \/ \E n : Slip(n)

\* None of these ends leaves a dead green thread without a slip.
LEMMA CommonLives ==
  ASSUME Heeded, slips' = {} => slips = {}, self.pc # "dead", Common
  PROVE  Lives
<1> SUFFICES ASSUME slips' = {} PROVE Lives BY DEF Lives
<1> USE DEF Heeded
<1>1. slips = {} /\ Fits(self) BY DEF DeafOK, Alive
<1>2. Keeps(self) BY SelfKeeps
<1>3. CASE Ignored \/ Note
  <2>1. self' = self \/ self' = Noted BY <1>3 DEF Ignored, Note
  <2>2. self'.pc = self.pc /\ self'.state = self.state BY <2>1 DEF Noted, Sound, Shape, Fields
  <2> QED BY <1>1, <2>2, FineLives DEF Fits
<1>4. CASE SetupFails \/ SetupEnds
  <2>1. self' = Ended(self) \/ self' = [self EXCEPT !.state = "terminating", !.pc = "fail"]
    BY <1>4 DEF SetupFails, SetupEnds, FailOp
  <2>2. CASE self' = Ended(self) BY <1>2, <2>2, EndedFits, FineLives
  <2>3. CASE self' = [self EXCEPT !.state = "terminating", !.pc = "fail"]
    <3>1. self'.state = "terminating" /\ self'.pc = "fail" BY <2>3 DEF Sound, Shape, Fields
    <3> QED BY <3>1, FineLives DEF Fits, Ending
  <2> QED BY <2>1, <2>2, <2>3
<1>5. CASE ProposalFails(<<>>) \/ ProposalFails(Again) \/ self' = Connected(self)
  <2>1. self' = Connected(self) BY <1>5 DEF ProposalFails, FailProposal
  <2> QED BY <1>2, <2>1, HelpersFit, FineLives
<1>6. ASSUME NEW x, Keeps(x), Complete(x) \/ AfterICE(x) PROVE Lives
  <2> DEFINE y == Added(x)
  <2>1. Keeps(y) BY <1>6, AddedKeeps
  <2>2. CASE Complete(x) BY <2>1, <2>2, HelpersFit, FineLives DEF Complete
  <2>3. CASE AfterICE(x)
    <3>1. self' = [Sending(y, "ice") EXCEPT !.kept = x.kept] BY <2>3, SlipNamed DEF AfterICE
    <3> HIDE DEF y
    <3>2. self'.pc = "ice" /\ self'.state = "sending_proposal" BY <2>1, <3>1 DEF Sending, Keeps, Fields
    <3> QED BY <3>2, FineLives DEF Fits
  <2> QED BY <1>6, <2>2, <2>3
<1>7. ASSUME NEW x, Keeps(x), self' \in {Settled(x), HoldDone(x), UnholdDone(x), Connected(x), Ended(x)}
      PROVE  Lives
  BY <1>7, HelpersFit, HoldsFit, EndedFits, FineLives
<1>8. ASSUME NEW n, Slip(n) PROVE Lives BY <1>8, SlipNamed
<1> QED BY <1>3, <1>4, <1>5, <1>6, <1>7, <1>8 DEF Common

\* a step from one wait of an operation to the next
LEMMA StepLives ==
  ASSUME Heeded, slips' = {} => slips = {}, self.pc \notin Ending, self.pc # "dead", self'.pc # "dead",
         self'.state \in {self.state, "connected"}
  PROVE  Lives
<1> SUFFICES ASSUME slips' = {} PROVE Lives BY DEF Lives
<1>1. self'.state \notin {"incoming", "terminating", "terminated"} BY Awake
<1> QED BY <1>1, FineLives DEF Fits

\* a green thread that dies after it has called end() or cancel_proposal()
LEMMA DiesLives ==
  ASSUME Heeded, slips' = {} => slips = {}, self.pc \notin Ending, self.pc # "dead",
         self'.state \in {self.state, "cancelling_proposal"},
         Later(<<Job("end")>>) \/ Later(<<Job("cancel_proposal")>>)
  PROVE  Lives
<1> SUFFICES ASSUME slips' = {} PROVE Lives BY DEF Lives
<1>1. self'.state \notin {"incoming", "terminating", "terminated"} BY Awake
<1>2. Successor(ready') BY LaterLives, SuccessorShort DEF Heeded
<1> QED BY <1>1, <1>2 DEF Lives, Alive, Fits

\* connect() and accept() at each of their waits.
LEMMA SetupLives ==
  ASSUME Heeded, SetupInit \/ SetupSDP \/ SetupMedia \/ SetupTimeout
  PROVE  Lives
<1> USE DEF Heeded, Sound, Shape
<1>1. self.pc \in {"init", "sdp", "media"} BY DEF SetupInit, SetupSDP, SetupMedia, SetupTimeout, At
<1>2. self.pc \notin Ending /\ self.pc # "dead" BY <1>1 DEF Ending
<1>3. slips' = {} => slips = {}
  <2>1. Acts BY SetupsAct
  <2> QED BY <2>1 DEF Acts
<1>4. CASE Common BY <1>2, <1>3, <1>4, CommonLives
<1>5. ASSUME NEW x, Keeps(x), x.pc # "dead", x.state = self.state, SetupGoesOn(x) PROVE Lives
  <2>1. CASE Complete(x) \/ AfterICE(x) BY <1>2, <1>3, <1>5, <2>1, CommonLives DEF Common
  <2>2. CASE ~(Complete(x) \/ AfterICE(x))
    <3>1. self' = x BY <1>5, <2>2 DEF SetupGoesOn
    <3> QED BY <1>2, <1>3, <1>5, <3>1, StepLives
  <2> QED BY <2>1, <2>2
<1>6. CASE SetupInit /\ ~Common
  <2>1. self'.pc \in {"init", "sdp"} /\ self'.state = self.state
    BY <1>1, <1>6 DEF SetupInit, Common, Escapes, At, Fields
  <2> QED BY <1>2, <1>3, <2>1, StepLives
<1>7. CASE SetupSDP /\ ~Common
  <2>1. PICK S : SetupGoesOn([self EXCEPT !.pc = "media", !.wait = Cardinality(S), !.proposed = S])
    BY <1>7 DEF SetupSDP, Common
  <2> DEFINE x == [self EXCEPT !.pc = "media", !.wait = Cardinality(S), !.proposed = S]
  <2>2. Keeps(x) /\ x.pc = "media" /\ x.state = self.state BY DEF Keeps, Fields
  <2>3. SetupGoesOn(x) BY <2>1
  <2> HIDE DEF x
  <2> QED BY <1>5, <2>2, <2>3
<1>8. CASE SetupMedia /\ ~Common
  <2>1. self.pc = "media" BY <1>8 DEF SetupMedia, At
  <2>2. /\ Keeps(self) /\ Keeps(Noted) /\ Noted.pc = self.pc /\ Noted.state = self.state
        /\ LET x == [self EXCEPT !.wait = @ - 1] IN Keeps(x) /\ x.pc = self.pc /\ x.state = self.state
        /\ LET x == [self EXCEPT !.kept = Append(@, Got)] IN Keeps(x) /\ x.pc = self.pc /\ x.state = self.state
    BY SelfKeeps, OneMore DEF Noted, Keeps, Fields
  <2>3. \/ SetupGoesOn(self) \/ SetupGoesOn(Noted) \/ SetupGoesOn([self EXCEPT !.wait = @ - 1])
        \/ SetupGoesOn([self EXCEPT !.kept = Append(@, Got)])
    BY <1>8 DEF SetupMedia, Common
  <2> QED BY <1>5, <2>1, <2>2, <2>3
<1>9. CASE SetupTimeout /\ ~Common
  <2>1. self' = [self EXCEPT !.pc = "dead"] /\ Later(<<Job("end")>>) BY <1>9 DEF SetupTimeout, Common
  <2>2. self'.state = self.state BY <2>1 DEF Fields
  <2> QED BY <1>2, <1>3, <2>1, <2>2, DiesLives
<1> QED BY <1>4, <1>6, <1>7, <1>8, <1>9

\* The waits for the end of the dialog and for ICE.
LEMMA EndsLive ==
  ASSUME Heeded, FailWaits \/ RejectWaits \/ EndWaits \/ EndTimeout \/ ICEWaits \/ ICETimeout
  PROVE  Lives
<1> USE DEF Heeded
<1>1. self.pc \in {"fail", "reject", "end", "ice"}
  BY DEF FailWaits, RejectWaits, EndWaits, EndTimeout, ICEWaits, ICETimeout, At
<1>2. slips' = {} => slips = {}
  <2>1. Acts BY EndsAct, ICEActs
  <2> QED BY <2>1 DEF Acts
<1>3. Keeps(self) BY SelfKeeps
<1>4. Keeps([self EXCEPT !.got = {}]) BY DEF Keeps, Sound, Shape, Fields
<1>5. Common
  <2>1. CASE FailWaits \/ RejectWaits \/ EndWaits \/ EndTimeout
    BY <1>3, <2>1 DEF FailWaits, RejectWaits, EndWaits, EndTimeout, Common, Escapes
  <2>2. CASE ICEWaits \/ ICETimeout
    BY <1>4, <2>2 DEF ICEWaits, ICETimeout, Common
  <2> QED BY <2>1, <2>2
<1> QED BY <1>1, <1>2, <1>5, CommonLives

\* Proposals of either side at each of their waits.
LEMMA ProposalsLive ==
  ASSUME Heeded, AcceptProposalWaits \/ RejectProposalWaits \/ AddWaits \/ ProposalTimeout
  PROVE  Lives
<1> USE DEF Heeded, Sound, Shape
<1>1. self.pc \in {"p.init", "p.sdp", "p.media", "rp", "s.init", "s.sdp", "s.media"}
  BY DEF AcceptProposalWaits, RejectProposalWaits, AddWaits, ProposalTimeout, At
<1>2. self.pc \notin Ending /\ self.pc # "dead" BY <1>1 DEF Ending
<1>3. slips' = {} => slips = {}
  <2>1. Acts BY AcceptProposalsAct, AddActs, TimeoutsAct
  <2> QED BY <2>1 DEF Acts
<1>4. Keeps(self) BY SelfKeeps
<1>5. CASE Common BY <1>2, <1>3, <1>5, CommonLives
<1>6. CASE RejectProposalWaits /\ ~Common BY <1>4, <1>6 DEF RejectProposalWaits, Common, Escapes
<1>7. CASE AcceptProposalWaits /\ ~Common
  <2> DEFINE x == [self EXCEPT !.wait = IF Takes({"start"}) THEN @ - 1 ELSE @,
                               !.kept = IF Takes({"start"}) THEN @ ELSE Append(@, Got)]
  <2>1. Keeps(x) /\ x.pc = self.pc /\ x.state = self.state BY OneMore DEF Keeps, Fields
  <2>2. \/ self' = [self EXCEPT !.pc = "p.sdp"]
        \/ self' = [self EXCEPT !.pc = "p.media"]
        \/ self' = Noted
        \/ self' = x
        \/ Complete(x)
    BY <1>7, Zenon DEF AcceptProposalWaits, Common
  <2>3. ~Complete(x) BY <1>7, <2>1, Zenon DEF Common
  <2>4. CASE self' = x BY <1>2, <1>3, <2>1, <2>4, StepLives
  <2>5. CASE self' # x
    <3>1. self'.pc \in {"p.sdp", "p.media", self.pc} /\ self'.state = self.state
      BY <2>2, <2>3, <2>5 DEF Noted, Fields
    <3> QED BY <1>2, <1>3, <3>1, StepLives
  <2> QED BY <2>4, <2>5
<1>8. CASE AddWaits /\ ~Common
  <2>1. ASSUME NEW S PROVE Keeps([self EXCEPT !.proposed = S]) BY DEF Keeps, Fields
  <2>2. \/ self' = [self EXCEPT !.pc = "s.sdp"]
        \/ \E S : self' = [[self EXCEPT !.proposed = S] EXCEPT !.pc = "s.media"]
    BY <1>4, <1>8, <2>1 DEF AddWaits, Common, Rejected
  <2>3. self'.pc \in {"s.sdp", "s.media"} /\ self'.state = self.state BY <2>2 DEF Fields
  <2> QED BY <1>2, <1>3, <2>3, StepLives
<1>9. CASE ProposalTimeout /\ ~Common
  <2>1. self' = [self EXCEPT !.state = "cancelling_proposal", !.pc = "dead"] /\ Later(<<Job("cancel_proposal")>>)
    BY <1>4, <1>9 DEF ProposalTimeout, Common
  <2>2. self'.state = "cancelling_proposal" BY <2>1 DEF Fields
  <2> QED BY <1>2, <1>3, <2>1, <2>2, DiesLives
<1> QED BY <1>5, <1>6, <1>7, <1>8, <1>9

\* A removal, a cancellation and an update.
LEMMA ChangesLive ==
  ASSUME Heeded, RemoveWaits \/ CancelWaits \/ UpdateWaits
  PROVE  Lives
<1> USE DEF Heeded, Sound, Shape
<1>1. self.pc \in {"m.sdp", "cancel", "u.sdp"} BY DEF RemoveWaits, CancelWaits, UpdateWaits, At
<1>2. self.pc \notin Ending /\ self.pc # "dead" BY <1>1 DEF Ending
<1>3. slips' = {} => slips = {}
  <2>1. Acts BY RemoveActs, CancelActs, UpdateActs
  <2> QED BY <2>1 DEF Acts
<1>4. Keeps(self) BY SelfKeeps
<1>5. CASE Common BY <1>2, <1>3, <1>5, CommonLives
<1>6. CASE RemoveWaits /\ ~Common
  <2> DEFINE x == [self EXCEPT !.leaving = {}]
  <2>1. Keeps(x) BY DEF Keeps, Fields
  <2>2. \/ self' = [x EXCEPT !.pc = "none"]
        \/ self' = [x EXCEPT !.pc = "dead"] /\ Later(<<Job("end")>>)
    BY <1>6, <2>1, Zenon DEF RemoveWaits, Common
  <2>3. self'.state = self.state BY <2>2 DEF Fields
  <2>4. CASE self' = [x EXCEPT !.pc = "none"]
    <3>1. self'.pc = "none" BY <2>4 DEF Fields
    <3> QED BY <1>2, <1>3, <2>3, <3>1, StepLives
  <2>5. CASE Later(<<Job("end")>>) BY <1>2, <1>3, <2>3, <2>5, DiesLives
  <2> QED BY <2>2, <2>4, <2>5
<1>7. CASE CancelWaits /\ ~Common
  <2> DEFINE x == [self EXCEPT !.pc = "none", !.proposed = {}]
  <2>1. self' \in {x, SendHold(x)} BY <1>4, <1>7 DEF CancelWaits, Common, Escapes
  <2>2. DOMAIN x = Fields /\ x.pc = "none" /\ x.state = self.state BY DEF Fields
  <2> HIDE DEF x
  <2>3. \/ self'.pc = "none" /\ self'.state = self.state
        \/ self'.pc = "hold" /\ self'.state = "sending_proposal"
    <3>1. CASE self' = x BY <2>2, <3>1
    <3>2. CASE self' = SendHold(x)
      <4>1. CASE CanReinvite
        <5>1. self' = Sending(x, "hold") BY <3>2, <4>1 DEF SendHold
        <5> QED BY <2>2, <5>1 DEF Sending, Fields
      <4>2. CASE ~CanReinvite
        <5>1. self' = [x EXCEPT !.onHold = x.holding, !.holding = FALSE] BY <3>2, <4>2 DEF SendHold
        <5> QED BY <2>2, <5>1 DEF Fields
      <4> QED BY <4>1, <4>2
    <3> QED BY <2>1, <3>1, <3>2
  <2>4. CASE self'.pc = "none" /\ self'.state = self.state BY <1>2, <1>3, <2>4, StepLives
  <2>5. CASE self'.pc = "hold" /\ self'.state = "sending_proposal" BY <2>5, FineLives DEF Fits
  <2> QED BY <2>3, <2>4, <2>5
<1>8. CASE UpdateWaits /\ ~Common
  <2> DEFINE y == [self EXCEPT !.kept = Append(@, Got)]
  <2>1. Keeps(Noted) /\ Noted.pc = self.pc /\ Noted.state = self.state
        /\ Keeps(y) /\ y.pc = self.pc /\ y.state = self.state
    BY OneMore DEF Noted, Keeps, Fields
  <2>2. self' \in {Noted, y}
    <3>1. \E x \in {Noted, y} : self' = Connected(x) \/ self' = x
      BY <1>8, Zenon DEF UpdateWaits, Common
    <3>2. PICK x \in {Noted, y} : self' = Connected(x) \/ self' = x BY <3>1
    <3>3. Keeps(x) BY <2>1, <3>2
    <3>4. self' # Connected(x) BY <1>8, <3>3 DEF Common
    <3> QED BY <3>2, <3>4
  <2> QED BY <1>2, <1>3, <2>1, <2>2, StepLives
<1> QED BY <1>5, <1>6, <1>7, <1>8

\* hold() and unhold() waiting for the answer.
LEMMA HoldsLive ==
  ASSUME Heeded, HoldWaits \/ HoldTimeout
  PROVE  Lives
<1> USE DEF Heeded, Sound, Shape
<1>1. self.pc \in {"hold", "unhold", "hold.cancel", "unhold.cancel", "m.sdp"} BY DEF HoldWaits, HoldTimeout, At
<1>2. self.pc \notin Ending /\ self.pc # "dead" BY <1>1 DEF Ending
<1>3. slips' = {} => slips = {}
  <2>1. Acts BY HoldsAct
  <2> QED BY <2>1 DEF Acts
<1>4. Keeps(self) /\ Keeps(Noted) BY SelfKeeps, NotedKeeps
<1>5. CASE Common BY <1>2, <1>3, <1>5, CommonLives
<1>6. CASE ~Common
  <2>1. ~Held(self) /\ ~Held(Noted) BY <1>4, <1>6 DEF Held, Common
  <2>2. \/ self' = Noted
        \/ \E p \in {"none", "hold.cancel", "unhold.cancel"} : self' = [self EXCEPT !.pc = p]
        \/ self' \in {[self EXCEPT !.pc = "dead"], [self EXCEPT !.pc = "dead", !.leaving = {}]}
           /\ Later(<<Job("end")>>)
    BY <1>6, <2>1 DEF HoldWaits, HoldTimeout, Common, Escapes
  <2>3. self'.state = self.state BY <2>2 DEF Noted, Fields
  <2>4. CASE Later(<<Job("end")>>) BY <1>2, <1>3, <2>3, <2>4, DiesLives
  <2>5. CASE ~Later(<<Job("end")>>)
    <3>1. self'.pc \in {self.pc, "none", "hold.cancel", "unhold.cancel"} BY <2>2, <2>5 DEF Noted, Fields
    <3> QED BY <1>2, <1>3, <2>3, <3>1, StepLives
  <2> QED BY <2>4, <2>5
<1> QED BY <1>5, <1>6

\* Every step of a session that was announced.
LEMMA NextLives ==
  ASSUME Heeded, [Next]_vars
  PROVE  Lives
<1>1. CASE UNCHANGED vars BY <1>1, SameLives DEF vars
<1>2. CASE GoesOn
  BY <1>2, SetupLives, EndsLive, ProposalsLive, ChangesLive, HoldsLive DEF GoesOn
<1>3. CASE Timeout BY <1>3, SetupLives, EndsLive, ProposalsLive, HoldsLive DEF Timeout
<1> QED BY <1>1, <1>2, <1>3, EnvironmentLives, ApplicationLives, StartsLive DEF Next

\* A green thread that dies has left a successor, from the start and after every step.
LEMMA InitDInv ==
  ASSUME Init
  PROVE  DInv
<1>1. SInv /\ self.pc = "none" /\ self.state \in {"connected", "none"} BY InitSInv
<1> QED BY <1>1 DEF DInv, DeafOK, Alive, Fits

LEMMA DInvStays ==
  ASSUME DInv, [Next]_vars
  PROVE  DInv'
<1>1. CASE Early
  <2>1. SInv' /\ Quiet BY <1>1, EarlyNext DEF DInv
  <2> QED BY <2>1 DEF DInv, DeafOK, Quiet, Alive, Fits, Ending
<1>2. CASE ~Early
  <2>1. Heeded BY <1>2 DEF Early, Heeded, Sound, DInv, SInv
  <2>2. SInv' BY <2>1, NextActs, ActsKeepSInv DEF Heeded, DInv
  <2>3. Lives BY <2>1, NextLives
  <2> QED BY <2>2, <2>3 DEF DInv, DeafOK, Lives
<1> QED BY <1>1, <1>2

\* A green thread of the session that dies has left a successor: only end() and
\* cancel_proposal() are called before the exception, and nothing else takes their place.
THEOREM NeverLeftDeaf == Spec => []NeverDeaf
<1>1. DInv => NeverDeaf
  <2> SUFFICES ASSUME DInv, Deaf, slips = {} PROVE FALSE BY DEF NeverDeaf
  <2>1. Successor(ready) BY DEF DInv, DeafOK, Alive, Deaf
  <2>2. PICK k \in 1..Len(ready) : ready[k].job \in {"end", "cancel_proposal"} BY <2>1 DEF Successor
  <2>3. k \in DOMAIN ready BY DEF DInv, SInv, Shape, IsSeq
  <2> QED BY <2>2, <2>3 DEF Deaf
<1> QED BY <1>1, InitDInv, DInvStays, PTL DEF Spec

-----------------------------------------------------------------------------
(* Only the streams of its list run in a session at rest *)

Adding == {"init", "sdp", "media", "p.init", "p.sdp", "p.media", "s.init", "s.sdp", "s.media",
           "cancel", "end", "dead"}
\* the streams that may run: an operation has those it adds or takes away besides the list's
Owned(x) ==
  IF x.state = "terminated" \/ x.pc \in {"fail", "reject"} THEN {}
  ELSE IF x.pc \in Adding THEN x.streams \cup x.proposed
  ELSE IF x.pc = "m.sdp" THEN x.streams \cup x.leaving ELSE x.streams

\* a session that is set up or refused has no list yet; one that is connected is idle
Placed(x, i) ==
  /\ \/ x.pc \in {"init", "sdp", "media"}
     \/ x.state \in {"none", "incoming", "accepting", "connecting"}
     \/ x.state = "terminating" /\ x.pc = "none"
     => x.streams = {}
  /\ x.state = "connected" => x.pc = "none"
  /\ x.pc = "ice" => x.state = "sending_proposal"
  /\ x.pc = "m.sdp" => i.st # "none"

IsLife == life = [s \in Streams |-> life[s]]
RunsOK == slips = {} => Runs \subseteq Owned(self) /\ Placed(self, inv)
StreamsOK == IsLife /\ RunsOK

\* what a handler needs to know, and what it leaves
Kept == SInv /\ DeafOK /\ StreamsOK
Keeping == IsLife' /\ (slips' = {} => Runs' \subseteq Owned(self') /\ Placed(self', inv'))

\* The helpers that end, initialize and start streams.
LEMMA LivesOfStreams ==
  ASSUME IsLife, NEW S
  PROVE  /\ End(S) => IsLife' /\ Runs' \subseteq Runs \ S
         /\ Initialize(S) => IsLife' /\ Runs' \subseteq Runs \cup S
         /\ StartStreams(S) => IsLife' /\ Runs' \subseteq (Runs \ self.proposed) \cup S
<1>1. End(S) => IsLife' /\ Runs' \subseteq Runs \ S BY DEF IsLife, Runs, End, LifeAfter
<1>2. Initialize(S) => IsLife' /\ Runs' \subseteq Runs \cup S BY DEF IsLife, Runs, Initialize
<1>3. StartStreams(S) => IsLife' /\ Runs' \subseteq (Runs \ self.proposed) \cup S
  BY DEF IsLife, Runs, StartStreams
<1> QED BY <1>1, <1>2, <1>3

\* Nothing happens to the streams.
LEMMA SameLife ==
  ASSUME IsLife, life' = life
  PROVE  IsLife' /\ Runs' = Runs
BY DEF IsLife, Runs

\* an operation is over, or is followed by a re-INVITE of its own
Over(y, S) == /\ y.streams = S
              /\ \/ y.pc = "none" /\ y.state = "connected"
                 \/ y.pc \in {"hold", "unhold", "ice"} /\ y.state = "sending_proposal"
LEMMA OverIsPlaced ==
  ASSUME NEW y, NEW S, NEW i, Over(y, S)
  PROVE  Owned(y) = S /\ Placed(y, i)
BY DEF Over, Owned, Placed, Adding

\* A re-INVITE for hold, or none if it cannot be sent.
LEMMA SendsAreOver ==
  ASSUME NEW y, DOMAIN y = Fields, y.pc = "none", y.state = "connected"
  PROVE  Over(y, y.streams) /\ Over(SendHold(y), y.streams) /\ Over(SendUnhold(y), y.streams)
<1>1. CASE CanReinvite BY <1>1 DEF SendHold, SendUnhold, Sending, Over, Fields
<1>2. CASE ~CanReinvite BY <1>2 DEF SendHold, SendUnhold, Over, Fields
<1> QED BY <1>1, <1>2

\* the ends of the operations
LEMMA EndsAreOver ==
  ASSUME NEW x, DOMAIN x = Fields
  PROVE  /\ Over(Connected(x), x.streams) /\ Over(Settled(x), x.streams)
         /\ Over(HoldDone(x), x.streams) /\ Over(UnholdDone(x), x.streams)
<1> DEFINE c == Connected(x)
<1>1. DOMAIN c = Fields /\ c.pc = "none" /\ c.state = "connected" /\ c.streams = x.streams
  BY DEF Connected, Fields
<1> HIDE DEF c
<1>2. ASSUME NEW y, DOMAIN y = Fields, y.pc = "none", y.state = "connected", y.streams = x.streams
      PROVE  Over(y, x.streams) /\ Over(SendHold(y), x.streams) /\ Over(SendUnhold(y), x.streams)
  BY <1>2, SendsAreOver
<1> DEFINE h == [c EXCEPT !.onHold = TRUE]
           u == [c EXCEPT !.onHold = FALSE]
           b == [c EXCEPT !.onHold = TRUE, !.holding = FALSE]
<1>3. \A y \in {h, u, b} : DOMAIN y = Fields /\ y.pc = "none" /\ y.state = "connected" /\ y.streams = x.streams
  BY <1>1 DEF Fields
<1>4. HoldDone(x) \in {b, SendUnhold(h)} /\ UnholdDone(x) \in {u, SendHold(u)}
      /\ Settled(x) \in {c, SendHold(c)} /\ Connected(x) = c
  BY DEF HoldDone, UnholdDone, Settled, c
<1> HIDE DEF h, u, b
<1>5. /\ Over(c, x.streams) /\ Over(SendHold(c), x.streams)
      /\ Over(b, x.streams) /\ Over(SendUnhold(h), x.streams)
      /\ Over(u, x.streams) /\ Over(SendHold(u), x.streams)
  BY <1>1, <1>2, <1>3
<1> QED BY <1>4, <1>5

\* An operation that has given the session its new streams.
LEMMA AddedIsOver ==
  ASSUME NEW x, DOMAIN x = Fields
  PROVE  /\ Over(Settled(Added(x)), x.streams \cup x.proposed)
         /\ Over([Sending(Added(x), "ice") EXCEPT !.kept = x.kept], x.streams \cup x.proposed)
<1> DEFINE c == Connected(x)
           a == [c EXCEPT !.streams = x.streams \cup x.proposed, !.started = TRUE]
<1>1. DOMAIN c = Fields BY DEF Connected, Fields
<1> HIDE DEF c
<1>2. DOMAIN a = Fields /\ a.streams = x.streams \cup x.proposed BY <1>1 DEF Fields
<1>3. Added(x) = a BY DEF Added, c
<1> HIDE DEF a
<1>4. Over(Settled(a), x.streams \cup x.proposed) BY <1>2, EndsAreOver
<1>5. Over([Sending(a, "ice") EXCEPT !.kept = x.kept], x.streams \cup x.proposed)
  BY <1>2 DEF Sending, Over, Fields
<1> QED BY <1>3, <1>4, <1>5

\* A session that has ended.
LEMMA EndedIsPlaced ==
  ASSUME NEW x, DOMAIN x = Fields, NEW i
  PROVE  Owned(Ended(x)) = {} /\ Placed(Ended(x), i)
BY DEF Ended, Owned, Placed, Fields

\* The session waits where it was, for the same streams.
LEMMA Unmoved ==
  ASSUME Kept, IsLife', Runs' \subseteq Runs, slips' = {} => slips = {},
         self'.pc = self.pc, self'.state = self.state, self'.streams = self.streams,
         self'.proposed = self.proposed, self'.leaving = self.leaving,
         inv'.st = inv.st \/ inv'.st # "none"
  PROVE  Keeping
BY DEF Kept, StreamsOK, RunsOK, Keeping, Owned, Placed

\* The operation is over, and what it does not leave in the list has ended.
LEMMA OverKeeps ==
  ASSUME NEW S, IsLife', Over(self', S), slips' = {} => Runs' \subseteq S
  PROVE  Keeping
BY OverIsPlaced DEF Keeping

\* The session is over, and so are its streams.
LEMMA EndedKeeps ==
  ASSUME DOMAIN self = Fields, self' = Ended(self), IsLife', slips' = {} => Runs' = {}
  PROVE  Keeping
BY EndedIsPlaced DEF Keeping

\* The engine, the peer and the streams start no stream.
LEMMA EnvironmentOwns ==
  ASSUME Kept, Environment
  PROVE  Keeping
<1> USE DEF Kept, SInv, Shape, StreamsOK
<1>1. CASE CallArrives
  <2>1. /\ self.pc = "none" /\ self.state = "none" /\ life' = life /\ slips' = slips
        /\ self'.pc = "none" /\ self'.state = "incoming" /\ self'.streams = self.streams
    BY <1>1 DEF CallArrives, SInv, EarlyOK, Early, Fields
  <2>2. IsLife' /\ Runs' = Runs BY <2>1, SameLife
  <2> QED BY <2>1, <2>2 DEF RunsOK, Keeping, Owned, Placed, Adding
<1>2. CASE StreamInitialized \/ StreamStarts \/ StreamFails
  <2>1. \E from, to, e : Report(from, to, e) /\ from \subseteq {"init", "starting", "on"}
    BY <1>2 DEF StreamInitialized, StreamStarts, StreamFails
  <2>2. PICK from, to, e : Report(from, to, e) /\ from \subseteq {"init", "starting", "on"} BY <2>1
  <2>3. IsLife' /\ Runs' \subseteq Runs BY <2>2 DEF Report, IsLife, Runs
  <2>4. self' = self /\ slips' = slips BY <2>2 DEF Report
  <2>5. inv'.st = inv.st BY <1>2 DEF StreamInitialized, StreamStarts, StreamFails
  <2> QED BY <2>3, <2>4, <2>5, Unmoved
<1>3. CASE ~(CallArrives \/ StreamInitialized \/ StreamStarts \/ StreamFails)
  <2>1. CASE DialogLost \/ PeerOffers
    <3>1. UNCHANGED <<self, life, slips>> BY <2>1, Zenon DEF DialogLost, PeerOffers, Engine
    <3>2. \/ \E n : inv' = [inv EXCEPT !.st = "disconnected", !.sub = "", !.troubles = n]
          \/ \E n, e : inv' = [inv EXCEPT !.sub = e, !.troubles = n]
      BY <2>1, Zenon DEF DialogLost, PeerOffers
    <3>3. ASSUME NEW n, inv' = [inv EXCEPT !.st = "disconnected", !.sub = "", !.troubles = n] PROVE inv'.st # "none"
      BY <3>3
    <3>4. ASSUME NEW n, NEW e, inv' = [inv EXCEPT !.sub = e, !.troubles = n] PROVE inv'.st = inv.st
      BY <3>4
    <3>5. inv'.st = inv.st \/ inv'.st # "none" BY <3>2, <3>3, <3>4
    <3> QED BY <3>1, <3>5, SameLife, Unmoved
  <2>2. CASE ~(DialogLost \/ PeerOffers)
    <3>1. ASSUME NEW st, NEW sub, NEW s, InvGoes(st, sub, s), st = inv.st \/ st # "none" PROVE Keeping
      <4>1. inv'.st = st /\ UNCHANGED <<self, life, slips>> BY <3>1 DEF InvGoes, Engine
      <4> QED BY <3>1, <4>1, SameLife, Unmoved
    <3>2. CASE PeerAnswers BY <3>1, <3>2 DEF PeerAnswers
    <3>3. CASE DialogConfirmed BY <3>1, <3>3 DEF DialogConfirmed
    <3>4. CASE DialogEnds BY <3>1, <3>4 DEF DialogEnds
    <3>5. CASE PeerCancelsOffer BY <3>1, <3>5 DEF PeerCancelsOffer
    <3>6. CASE OfferAnswered BY <3>1, <3>6 DEF OfferAnswered
    <3>7. CASE PeerAnswersReinvite BY <3>1, <3>7 DEF PeerAnswersReinvite
    <3> QED BY <1>3, <2>2, <3>2, <3>3, <3>4, <3>5, <3>6, <3>7 DEF Environment
  <2> QED BY <2>1, <2>2
<1> QED BY <1>1, <1>2, <1>3

\* A call finds the session in the state in which it is legal, and starts nothing yet.
LEMMA ApplicationOwns ==
  ASSUME Kept, Application \/ Stopped
  PROVE  Keeping
<1> USE DEF Kept, SInv, Shape, StreamsOK
<1>1. ASSUME NEW c \in {"connect", "accept", "reject", "accept_proposal", "reject_proposal", "add_streams",
                        "remove_streams", "cancel_proposal"},
             NEW x, Transition(c, x), self.pc = "ice" => c # "cancel_proposal"
      PROVE Keeping
  <2>1. /\ self'.pc = self.pc /\ self'.streams = self.streams /\ self'.proposed = self.proposed
        /\ self'.leaving = self.leaving
        /\ self'.state = Moves[c][2] /\ self.state = Moves[c][1]
        /\ slips' = slips /\ life' = life /\ inv' = inv
        /\ self.pc = "ice" => c # "cancel_proposal"
    <3>1. /\ self.state = Moves[c][1] /\ self' = [self EXCEPT !.state = Moves[c][2]]
          /\ slips' = slips /\ life' = life /\ inv' = inv
      BY <1>1, Zenon DEF Transition
    <3> QED BY <1>1, <3>1 DEF Fields
  <2>2. /\ self.state = "sending_proposal" => c = "cancel_proposal"
        /\ self.state # "terminated" /\ self'.state \notin {"none", "incoming", "terminated", "connected"}
        /\ self'.state \in {"accepting", "connecting", "terminating"} => self.state \in {"none", "incoming"}
    BY <2>1 DEF Moves
  <2>3. IsLife' /\ Runs' = Runs BY <2>1, SameLife
  <2> QED BY <2>1, <2>2, <2>3 DEF RunsOK, Keeping, Owned, Placed
<1>2. CASE hold \/ unhold \/ end \/ stop \/ Stopped
  <2>1. UNCHANGED <<self, inv, life, slips>> BY <1>2 DEF hold, unhold, end, stop, Call, Stopped
  <2> QED BY <2>1, SameLife, Unmoved
<1> QED
  BY <1>1, <1>2, Zenon
     DEF Application, connect, accept, reject, accept_proposal, reject_proposal, add_streams, remove_streams,
         cancel_proposal

-----------------------------------------------------------------------------
(* Green threads that start *)

\* A call that is not overtaken starts alone.
LEMMA Alone ==
  ASSUME Slips(Outrun) \/ \E S : Slips(Outrun \cup S) \/ Slips(S \cup Outrun), slips' = {},
         Head(ready).job # "cancel_proposal"
  PROVE  self.pc = "none"
<1>1. slips = {} /\ Outrun = {} BY SlipKept
<1>2. {"call overtaken"} # {} /\ {"two at the channel"} # {} OBVIOUS
<1> QED BY <1>1, <1>2, Zenon DEF Outrun

\* connect() comes first.
LEMMA ConnectOwns ==
  ASSUME Kept, ConnectBody
  PROVE  Keeping
<1> USE DEF Kept, SInv, Shape, StreamsOK
<1>1. /\ IsSeq(ready) /\ ready # <<>> /\ Head(ready).job = "connect"
      /\ Waiting(self.state, ready)
  BY DEF ConnectBody, Begins, SInv, ConnectFirst
<1>2. Len(ready) \in Nat \ {0} /\ Head(ready) = ready[1] BY <1>1, WithoutFirst
<1>3. 1 \in 1..Len(ready) /\ ready[1].job = "connect" BY <1>1, <1>2
<1>4. self.state = "connecting" /\ self.pc = "none" /\ ~NoConnect(ready)
  BY <1>1, <1>3 DEF Waiting, NoConnect, SInv, EarlyOK, Early
<1>5. PICK S \in Firsts : /\ self' = [self EXCEPT !.pc = "init", !.wait = Cardinality(S), !.proposed = S,
                                                 !.told = "new", !.sees = TRUE]
                          /\ Initialize(S)
  BY Zenon DEF ConnectBody
<1>6. self'.pc = "init" /\ self'.state = "connecting" /\ self'.streams = self.streams /\ self'.proposed = S
  BY <1>4, <1>5 DEF Fields
<1>7. IsLife' /\ Runs' \subseteq Runs \cup S /\ slips' = slips BY <1>5, LivesOfStreams DEF ConnectBody
<1> QED BY <1>4, <1>6, <1>7 DEF RunsOK, Keeping, Owned, Placed, Adding

\* accept() gives the session the streams that it proposes; reject() finds none.
LEMMA AcceptOwns ==
  ASSUME Kept, AcceptBody \/ RejectBody
  PROVE  Keeping
<1> USE DEF Kept, SInv, Shape, StreamsOK
<1>0. IsLife'
  <2>1. (\E S : Initialize(S)) \/ life' = life BY Zenon DEF AcceptBody, RejectBody
  <2> QED BY <2>1, LivesOfStreams, SameLife
<1> SUFFICES ASSUME slips' = {} PROVE Runs' \subseteq Owned(self') /\ Placed(self', inv') BY <1>0 DEF Keeping
<1>1. CASE AcceptBody
  <2>1. slips = {} /\ self.state = "accepting" /\ self.pc = "none" 
    <3>1. Slips(Outrun) /\ Head(ready).job = "accept" BY <1>1, Zenon DEF AcceptBody, Begins
    <3> QED BY <3>1, Alone, InTime
  <2>2. PICK S : self' = [self EXCEPT !.pc = "init", !.wait = Cardinality(S), !.proposed = S] /\ Initialize(S)
    BY <1>1, Zenon DEF AcceptBody
  <2>3. self'.pc = "init" /\ self'.state = "accepting" /\ self'.streams = self.streams /\ self'.proposed = S
    BY <2>1, <2>2 DEF Fields
  <2>4. Runs' \subseteq Runs \cup S BY <2>2, LivesOfStreams
  <2>5. self.streams = {} /\ Runs = {} BY <2>1 DEF RunsOK, Owned, Placed, Adding
  <2>6. Placed(self', inv') BY <2>3, <2>5 DEF Placed
  <2> QED BY <2>3, <2>4, <2>5, <2>6 DEF Owned, Adding
<1>2. CASE RejectBody
  <2>1. slips = {} /\ self.state = "terminating" /\ self.pc = "none" 
    <3>1. Slips(Outrun) /\ Head(ready).job = "reject" BY <1>2, Zenon DEF RejectBody, Begins
    <3> QED BY <3>1, Alone, InTime
  <2>2. Runs' = {} BY <1>2, <2>1, SameLife DEF RejectBody, RunsOK, Owned, Placed, Adding
  <2>3. CASE self' = Ended(self) BY <2>2, <2>3, EndedIsPlaced
  <2>4. CASE self' = [self EXCEPT !.pc = "reject"]
    <3>1. self'.pc = "reject" /\ self'.state = "terminating" BY <2>1, <2>4 DEF Fields
    <3> QED BY <2>2, <3>1 DEF Placed
  <2> QED BY <1>2, <2>3, <2>4 DEF RejectBody
<1> QED BY <1>1, <1>2

\* An idle session runs what is in its list.
LEMMA Listed ==
  ASSUME Kept, slips = {}, self.pc = "none" \/ self.pc \notin Adding \cup {"m.sdp"}
  PROVE  Runs \subseteq self.streams
BY DEF Kept, StreamsOK, RunsOK, Owned, Adding

\* accept_proposal() starts the streams of the peer, reject_proposal() none.
LEMMA ProposalBodiesOwn ==
  ASSUME Kept, AcceptProposalBody \/ RejectProposalBody
  PROVE  Keeping
<1> USE DEF Kept, SInv, Shape, StreamsOK
<1>1. CASE ProposalGone
  <2>1. slips' # {} /\ life' = life BY <1>1, SlipNamed, Zenon DEF ProposalGone, Escapes
  <2> QED BY <2>1, SameLife DEF Keeping
<1>2. CASE AcceptProposalBody /\ ~ProposalGone
  <2>1. /\ self' = [self EXCEPT !.pc = "p.init", !.wait = Cardinality(self.proposed), !.got = {}]
        /\ Initialize(self.proposed) /\ Slips(Outrun) /\ Head(ready).job = "accept_proposal"
    BY <1>2, Zenon DEF AcceptProposalBody, Begins
  <2>2. IsLife' /\ Runs' \subseteq Runs \cup self.proposed BY <2>1, LivesOfStreams
  <2>3. ASSUME slips' = {} PROVE Runs' \subseteq Owned(self') /\ Placed(self', inv')
    <3>1. slips = {} /\ self.state = "accepting_proposal" /\ self.pc = "none" BY <2>1, <2>3, Alone, InTime
    <3>2. Runs \subseteq self.streams BY <3>1, Listed
    <3>3. /\ self'.pc = "p.init" /\ self'.state = "accepting_proposal"
          /\ self'.streams = self.streams /\ self'.proposed = self.proposed
      BY <2>1, <3>1 DEF Fields
    <3>4. Placed(self', inv') BY <3>3 DEF Placed
    <3>5. Owned(self') = self.streams \cup self.proposed BY <3>3 DEF Owned, Adding
    <3> QED BY <2>2, <3>2, <3>4, <3>5
  <2> QED BY <2>2, <2>3 DEF Keeping
<1>3. CASE RejectProposalBody /\ ~ProposalGone
  <2>1. /\ Slips(Outrun) \/ Slips(Outrun \cup Forgets)
        /\ Head(ready).job = "reject_proposal"
        /\ \/ self' = [self EXCEPT !.pc = "rp"] /\ life' = life
           \/ self' = Connected(self) /\ End(self.proposed)
    BY <1>3, Zenon DEF RejectProposalBody, FailProposal, Begins
  <2>2. IsLife' /\ Runs' \subseteq Runs BY <2>1, SameLife, LivesOfStreams
  <2>3. ASSUME slips' = {}
        PROVE  slips = {} /\ self.state = "rejecting_proposal" /\ self.pc = "none" /\ Runs \subseteq self.streams
    <3>1. slips = {} /\ self.state = "rejecting_proposal" /\ self.pc = "none" BY <2>1, <2>3, Alone, InTime
    <3> QED BY <3>1, Listed
  <2>4. CASE self' = Connected(self) BY <2>2, <2>3, <2>4, EndsAreOver, OverKeeps
  <2>5. CASE self' = [self EXCEPT !.pc = "rp"]
    <3>1. self'.pc = "rp" /\ self'.streams = self.streams /\ self'.state = self.state BY <2>5 DEF Fields
    <3>2. ASSUME slips' = {} PROVE Runs' \subseteq Owned(self') /\ Placed(self', inv')
      BY <2>2, <2>3, <3>1, <3>2 DEF Owned, Placed, Adding
    <3> QED BY <2>2, <3>2 DEF Keeping
  <2> QED BY <2>1, <2>4, <2>5
<1> QED BY <1>1, <1>2, <1>3

\* add_streams() and remove_streams() leave what they do not touch in the list.
LEMMA AddOwns ==
  ASSUME Kept, AddBody
  PROVE  Keeping
<1> USE DEF Kept, SInv, Shape, StreamsOK
<1>1. /\ Slips(Outrun) \/ Slips(Outrun \cup Forgets)
      /\ Head(ready).job = "add_streams"
      /\ \/ self' = [self EXCEPT !.state = "connected"] /\ life' = life
         \/ \E s : /\ self' = [self EXCEPT !.pc = "s.init", !.wait = 1, !.proposed = {s}, !.got = {}]
                   /\ Initialize({s})
  BY Zenon DEF AddBody, Begins
<1>2. ASSUME slips' = {}
      PROVE  slips = {} /\ self.state = "sending_proposal" /\ self.pc = "none" /\ Runs \subseteq self.streams
  <2>1. slips = {} /\ self.state = "sending_proposal" /\ self.pc = "none" BY <1>1, <1>2, Alone, InTime
  <2> QED BY <2>1, Listed
<1>3. CASE self' = [self EXCEPT !.state = "connected"] /\ life' = life
  <2>1. IsLife' /\ Runs' = Runs BY <1>3, SameLife
  <2>2. self'.pc = self.pc /\ self'.state = "connected" /\ self'.streams = self.streams BY <1>3 DEF Fields
  <2>3. ASSUME slips' = {} PROVE Runs' \subseteq Owned(self') /\ Placed(self', inv')
    BY <1>2, <2>1, <2>2, <2>3 DEF Owned, Placed, Adding
  <2> QED BY <2>1, <2>3 DEF Keeping
<1>4. ASSUME NEW s, self' = [self EXCEPT !.pc = "s.init", !.wait = 1, !.proposed = {s}, !.got = {}], Initialize({s})
      PROVE  Keeping
  <2>1. IsLife' /\ Runs' \subseteq Runs \cup {s} BY <1>4, LivesOfStreams
  <2>2. self'.pc = "s.init" /\ self'.state = self.state /\ self'.streams = self.streams /\ self'.proposed = {s}
    BY <1>4 DEF Fields
  <2>3. ASSUME slips' = {} PROVE Runs' \subseteq Owned(self') /\ Placed(self', inv')
    <3>1. Placed(self', inv') BY <1>2, <2>2, <2>3 DEF Placed
    <3>2. Owned(self') = self.streams \cup {s} BY <1>2, <2>2, <2>3 DEF Owned, Adding
    <3> QED BY <1>2, <2>1, <2>3, <3>1, <3>2
  <2> QED BY <2>1, <2>3 DEF Keeping
<1> QED BY <1>1, <1>3, <1>4

LEMMA RemoveOwns ==
  ASSUME Kept, RemoveBody
  PROVE  Keeping
<1> USE DEF Kept, SInv, Shape, StreamsOK
<1>1. /\ Slips(Outrun) \/ Slips(Outrun \cup Forgets)
      /\ Head(ready).job = "remove_streams"
      /\ \/ self' = [self EXCEPT !.state = "connected"] /\ life' = life
         \/ /\ CanReinvite /\ inv' = [inv EXCEPT !.sub = "sent"] /\ life' = life
            /\ self' = [self EXCEPT !.pc = "m.sdp", !.got = {}, !.streams = @ \ {Arg}, !.leaving = {Arg}]
         \/ self' = [self EXCEPT !.pc = "dead", !.streams = @ \ {Arg}] /\ End({Arg})
  BY Zenon DEF RemoveBody, Begins
<1>2. ASSUME slips' = {}
      PROVE  slips = {} /\ self.state = "sending_proposal" /\ self.pc = "none" /\ Runs \subseteq self.streams
  <2>1. slips = {} /\ self.state = "sending_proposal" /\ self.pc = "none" BY <1>1, <1>2, Alone, InTime
  <2> QED BY <2>1, Listed
<1>3. CASE self' = [self EXCEPT !.state = "connected"] /\ life' = life
  <2>1. IsLife' /\ Runs' = Runs BY <1>3, SameLife
  <2>2. self'.pc = self.pc /\ self'.state = "connected" /\ self'.streams = self.streams BY <1>3 DEF Fields
  <2>3. ASSUME slips' = {} PROVE Runs' \subseteq Owned(self') /\ Placed(self', inv')
    BY <1>2, <2>1, <2>2, <2>3 DEF Owned, Placed, Adding
  <2> QED BY <2>1, <2>3 DEF Keeping
<1>4. CASE /\ CanReinvite /\ inv' = [inv EXCEPT !.sub = "sent"] /\ life' = life
           /\ self' = [self EXCEPT !.pc = "m.sdp", !.got = {}, !.streams = @ \ {Arg}, !.leaving = {Arg}]
  <2>1. IsLife' /\ Runs' = Runs BY <1>4, SameLife
  <2>2. /\ self'.pc = "m.sdp" /\ self'.state = self.state /\ self'.streams = self.streams \ {Arg}
        /\ self'.leaving = {Arg} /\ inv'.st # "none"
    BY <1>4 DEF Fields, CanReinvite
  <2>3. ASSUME slips' = {} PROVE Runs' \subseteq Owned(self') /\ Placed(self', inv')
    <3>1. Placed(self', inv') BY <1>2, <2>2, <2>3 DEF Placed
    <3>2. Owned(self') = (self.streams \ {Arg}) \cup {Arg} BY <1>2, <2>2, <2>3 DEF Owned, Adding
    <3> QED BY <1>2, <2>1, <2>3, <3>1, <3>2
  <2> QED BY <2>1, <2>3 DEF Keeping
<1>5. CASE self' = [self EXCEPT !.pc = "dead", !.streams = @ \ {Arg}] /\ End({Arg})
  <2>1. IsLife' /\ Runs' \subseteq Runs \ {Arg} BY <1>5, LivesOfStreams
  <2>2. /\ self'.pc = "dead" /\ self'.state = self.state /\ self'.streams = self.streams \ {Arg}
    BY <1>5 DEF Fields
  <2>3. ASSUME slips' = {} PROVE Runs' \subseteq Owned(self') /\ Placed(self', inv')
    <3>1. Placed(self', inv') BY <1>2, <2>2, <2>3 DEF Placed
    <3>2. self.streams \ {Arg} \subseteq Owned(self') BY <1>2, <2>2, <2>3 DEF Owned, Adding
    <3> QED BY <1>2, <2>1, <2>3, <3>1, <3>2
  <2> QED BY <2>1, <2>3 DEF Keeping
<1> QED BY <1>1, <1>3, <1>4, <1>5

\* hold() and unhold() send their re-INVITE from an idle session.
LEMMA HoldBodiesOwn ==
  ASSUME Kept, HoldBody \/ UnholdBody
  PROVE  Keeping
<1> USE DEF Kept, SInv, Shape, StreamsOK
<1> DEFINE h == [self EXCEPT !.holding = TRUE]
           u == [self EXCEPT !.holding = FALSE]
<1>1. slips' = slips /\ life' = life /\ inv' = Resent(self') BY Zenon DEF HoldBody, UnholdBody
<1>2. IsLife' /\ Runs' = Runs BY <1>1, SameLife
<1>3. \A x \in {h, u} : /\ DOMAIN x = Fields /\ x.pc = self.pc /\ x.state = self.state /\ x.streams = self.streams
                        /\ x.proposed = self.proposed /\ x.leaving = self.leaving
  BY DEF Fields
<1>4. \/ self' \in {self, h, u}
      \/ self.state = "connected" /\ self' \in {SendHold(h), SendUnhold(u)}
  BY DEF HoldBody, UnholdBody
<1> HIDE DEF h, u
<1>5. CASE self' \in {self, h, u}
  <2>1. inv'.st = inv.st BY <1>1 DEF Resent
  <2> QED BY <1>1, <1>2, <1>3, <1>5, <2>1, Unmoved
<1>6. CASE self.state = "connected" /\ self' \in {SendHold(h), SendUnhold(u)}
  <2>1. ASSUME slips' = {} PROVE Over(self', self.streams) /\ Runs' \subseteq self.streams
    <3>1. slips = {} /\ self.pc = "none" BY <1>1, <1>6, <2>1 DEF RunsOK, Placed
    <3>2. Runs \subseteq self.streams BY <3>1, Listed
    <3> QED BY <1>2, <1>3, <1>6, <3>1, <3>2, SendsAreOver
  <2>2. ASSUME slips' = {} PROVE Runs' \subseteq Owned(self') /\ Placed(self', inv')
    BY <2>1, <2>2, OverIsPlaced
  <2> QED BY <1>2, <2>2 DEF Keeping
<1> QED BY <1>4, <1>5, <1>6

\* Nobody but remove_streams() has streams that are on no list.
LEMMA Proposed ==
  ASSUME Kept, slips = {}, self.pc # "m.sdp"
  PROVE  Runs \subseteq self.streams \cup self.proposed
BY DEF Kept, StreamsOK, RunsOK, Owned, Adding

\* What is lost with the green thread that is killed.
LEMMA KilledSlips ==
  ASSUME NEW S, Slips(KillSlips) \/ Slips(KillSlips \cup S), slips' = {}
  PROVE  slips = {} /\ self.pc # "m.sdp"
<1>1. slips = {} /\ KillSlips = {} BY SlipKept
<1>2. {"removal killed"} # {} OBVIOUS
<1> QED BY <1>1, <1>2 DEF KillSlips

\* cancel_proposal() takes the place of a green thread that adds streams.
LEMMA CancelBodyOwns ==
  ASSUME Kept, CancelBody
  PROVE  Keeping
<1> USE DEF Kept, SInv, Shape, StreamsOK
<1>1. /\ Slips(KillSlips \cup Outrun) /\ Head(ready).job = "cancel_proposal"
      /\ \/ self' = [Killed EXCEPT !.pc = "cancel"] /\ life' = life
         \/ self' = Settled(Killed) /\ End(self.proposed)
  BY Zenon DEF CancelBody, Begins
<1>2. IsLife' /\ Runs' \subseteq Runs BY <1>1, SameLife, LivesOfStreams
<1>3. /\ DOMAIN Killed = Fields /\ Killed.streams = self.streams /\ Killed.proposed = self.proposed
      /\ self.pc # "ice" => Killed.state = self.state
  BY DEF Killed, Fields
<1>4. ASSUME slips' = {} PROVE Runs' \subseteq Owned(self') /\ Placed(self', inv')
  <2>1. slips = {} /\ self.pc # "m.sdp" BY <1>1, <1>4, KilledSlips
  <2>2. self.state = "cancelling_proposal" BY <1>1, <1>4, InTime
  <2>3. self.pc # "ice" BY <2>1, <2>2 DEF RunsOK, Placed
  <2>4. Runs \subseteq self.streams \cup self.proposed BY <2>1, Proposed
  <2>5. CASE self' = [Killed EXCEPT !.pc = "cancel"]
    <3>1. /\ self'.pc = "cancel" /\ self'.state = "cancelling_proposal"
          /\ self'.streams = self.streams /\ self'.proposed = self.proposed
      BY <1>3, <2>2, <2>3, <2>5 DEF Fields
    <3>2. Placed(self', inv') BY <3>1 DEF Placed
    <3>3. Owned(self') = self.streams \cup self.proposed BY <3>1 DEF Owned, Adding
    <3> QED BY <1>2, <2>4, <3>2, <3>3
  <2>6. CASE self' = Settled(Killed) /\ End(self.proposed)
    <3>1. Over(self', self.streams) BY <1>3, <2>6, EndsAreOver
    <3>2. Runs' \subseteq Runs \ self.proposed BY <2>6, LivesOfStreams
    <3> QED BY <2>4, <3>1, <3>2, OverIsPlaced
  <2> QED BY <1>1, <2>5, <2>6
<1> QED BY <1>2, <1>4 DEF Keeping

\* end() ends what the session has, at once or when the dialog is over.
LEMMA EndBodyOwns ==
  ASSUME Kept, EndBody
  PROVE  Keeping
<1> USE DEF Kept, SInv, Shape, StreamsOK
<1> DEFINE mine == self.streams \cup self.proposed
           e == [Killed EXCEPT !.state = "terminating", !.pc = "end"]
<1>1. /\ DOMAIN Killed = Fields /\ Killed.streams = self.streams /\ Killed.pc = "none"
      /\ Killed.state \in {self.state, "connected"}
      /\ e.pc = "end" /\ e.state = "terminating" /\ e.streams = self.streams /\ e.proposed = self.proposed
  BY DEF Killed, Fields
<1>2. \/ UNCHANGED <<self, inv, life, slips>>
      \/ /\ self.state \notin {"none", "terminating", "terminated"}
         /\ \/ inv.st = "none" /\ self' = Ended(self) /\ End(mine) /\ UNCHANGED <<inv, slips>>
            \/ self' = Killed /\ Slips(KillSlips \cup Left) /\ life' = life
            \/ Slip("INVITE not answered") /\ End(mine)
            \/ self' = e /\ Slips(KillSlips) /\ life' = life
  BY Zenon DEF EndBody
<1> HIDE DEF e
<1>3. CASE UNCHANGED <<self, inv, life, slips>> BY <1>3, SameLife, Unmoved
<1>4. CASE inv.st = "none" /\ self' = Ended(self) /\ End(mine) /\ UNCHANGED <<inv, slips>>
  <2>1. IsLife' /\ Runs' \subseteq Runs \ mine BY <1>4, LivesOfStreams
  <2>2. ASSUME slips' = {} PROVE Runs' = {}
    <3>1. slips = {} /\ self.pc # "m.sdp" BY <1>4, <2>2 DEF RunsOK, Placed
    <3> QED BY <2>1, <3>1, Proposed
  <2> QED BY <1>4, <2>1, <2>2, EndedKeeps
<1>5. CASE /\ self.state \notin {"none", "terminating", "terminated"}
           /\ self' = Killed /\ Slips(KillSlips \cup Left) /\ life' = life
  <2>1. IsLife' /\ Runs' = Runs BY <1>5, SameLife
  <2>2. ASSUME slips' = {} PROVE Runs' \subseteq Owned(self') /\ Placed(self', inv')
    <3>1. slips = {} /\ self.pc # "m.sdp" BY <1>5, <2>2, KilledSlips
    <3>2. Left = {} BY <1>5, <2>2, SlipKept
    <3>3. {"proposed streams left"} # {} OBVIOUS
    <3>4. \A s \in self.proposed : life[s] \in {"idle", "ended", "failed"} BY <3>2, <3>3 DEF Left
    <3>5. Runs \subseteq self.streams BY <3>1, <3>4, Proposed DEF Runs
    <3>6. self'.state # "terminated" /\ self'.pc = "none" /\ self'.streams = self.streams BY <1>1, <1>5
    <3>7. Owned(self') = self.streams BY <3>6 DEF Owned, Adding
    <3>8. Placed(self', inv') BY <1>1, <1>5, <3>1 DEF RunsOK, Placed
    <3> QED BY <2>1, <3>5, <3>7, <3>8
  <2> QED BY <2>1, <2>2 DEF Keeping
<1>6. CASE Slip("INVITE not answered") /\ End(mine)
  BY <1>6, LivesOfStreams, SlipNamed DEF Keeping
<1>7. CASE self' = e /\ Slips(KillSlips) /\ life' = life
  <2>1. IsLife' /\ Runs' = Runs BY <1>7, SameLife
  <2>2. ASSUME slips' = {} PROVE Runs' \subseteq Owned(self') /\ Placed(self', inv')
    <3>1. slips = {} /\ self.pc # "m.sdp" BY <1>7, <2>2, KilledSlips
    <3>2. Runs \subseteq mine BY <3>1, Proposed
    <3>3. Owned(self') = mine BY <1>1, <1>7 DEF Owned, Adding
    <3>4. Placed(self', inv') BY <1>1, <1>7 DEF Placed
    <3> QED BY <2>1, <3>2, <3>3, <3>4
  <2> QED BY <2>1, <2>2 DEF Keeping
<1> QED BY <1>2, <1>3, <1>4, <1>5, <1>6, <1>7

\* A session that nobody waits in ends, or takes an offer of the peer.
LEMMA NotifiedOwns ==
  ASSUME Kept,
         \/ NotifyWaiter \/ NotifyNobody \/ StreamFailed \/ DialogGone \/ OfferWithdrawn \/ OfferRefused
         \/ StreamsOffered \/ UpdateOffered \/ OfferRequested \/ OfferCancelled
  PROVE  Keeping
<1> USE DEF Kept, SInv, Shape, StreamsOK
<1>1. CASE NotifyWaiter \/ NotifyNobody
  <2>1. UNCHANGED <<self, inv, life, slips>> BY <1>1 DEF NotifyWaiter, NotifyNobody
  <2> QED BY <2>1, SameLife, Unmoved
<1>2. CASE StreamFailed
  <2>1. /\ self.pc = "none" /\ UNCHANGED <<inv, life, slips>>
        /\ \/ self' = self
           \/ self.state = "connected" /\ self' = [self EXCEPT !.state = "sending_proposal"]
    BY <1>2, Zenon DEF StreamFailed, IdleWith
  <2>2. IsLife' /\ Runs' = Runs BY <2>1, SameLife
  <2>3. CASE self' = self BY <2>1, <2>2, <2>3, Unmoved
  <2>4. CASE self.state = "connected" /\ self' = [self EXCEPT !.state = "sending_proposal"]
    <3>1. self'.pc = "none" /\ self'.state = "sending_proposal" /\ self'.streams = self.streams
      BY <2>1, <2>4 DEF Fields
    <3>2. ASSUME slips' = {} PROVE Runs' \subseteq Owned(self') /\ Placed(self', inv')
      BY <2>1, <2>2, <3>1, <3>2, Listed DEF Owned, Placed, Adding
    <3> QED BY <2>2, <3>2 DEF Keeping
  <2> QED BY <2>1, <2>3, <2>4
<1>3. CASE DialogGone
  <2>1. /\ self.pc = "none" /\ self.state # "terminated" /\ inv' = inv
        /\ \/ self.state = "incoming" /\ self' = Ended(self) /\ life' = life /\ slips' = slips
           \/ self' = Ended(self) /\ End(self.streams) /\ slips' = slips
           \/ self' = self /\ life' = life /\ \E S : Slips(S)
    BY <1>3, Zenon DEF DialogGone, Idle, IdleWith
  <2>2. CASE self.state = "incoming" /\ self' = Ended(self) /\ life' = life /\ slips' = slips
    <3>1. IsLife' /\ Runs' = Runs BY <2>2, SameLife
    <3>2. ASSUME slips' = {} PROVE Runs' = {}
      <4>1. Runs \subseteq self.streams /\ self.streams = {} BY <2>1, <2>2, <3>2, Listed DEF RunsOK, Placed
      <4> QED BY <3>1, <4>1
    <3> QED BY <2>2, <3>1, <3>2, EndedKeeps
  <2>3. CASE self' = Ended(self) /\ End(self.streams) /\ slips' = slips
    <3>1. IsLife' /\ Runs' \subseteq Runs \ self.streams BY <2>3, LivesOfStreams
    <3>2. ASSUME slips' = {} PROVE Runs' = {} BY <2>1, <2>3, <3>1, <3>2, Listed
    <3> QED BY <2>3, <3>1, <3>2, EndedKeeps
  <2>4. CASE self' = self /\ life' = life /\ \E S : Slips(S)
    <3>1. slips' = {} => slips = {} BY <2>4, SlipKept
    <3> QED BY <2>1, <2>4, <3>1, SameLife, Unmoved
  <2> QED BY <2>1, <2>2, <2>3, <2>4
<1>4. CASE OfferWithdrawn \/ OfferRefused \/ OfferRequested
  <2>1. self.pc = "none" /\ life' = life BY <1>4 DEF OfferWithdrawn, OfferRefused, OfferRequested, Idle, IdleWith
  <2>2. slips' = {} => slips = {} BY <1>4, SlipKept DEF OfferWithdrawn, OfferRefused, OfferRequested, Slip
  <2>3. /\ self'.streams = self.streams
        /\ \/ self'.pc = "none" /\ self'.state \in {"received_proposal", "received_proposal_request", "connected"}
           \/ self'.pc = "u.sdp" /\ self'.state = "received_proposal_request"
    BY <1>4, <2>1 DEF OfferWithdrawn, OfferRefused, OfferRequested, Fields
  <2>4. IsLife' /\ Runs' = Runs BY <2>1, SameLife
  <2>5. ASSUME slips' = {} PROVE Runs' \subseteq Owned(self') /\ Placed(self', inv')
    BY <2>1, <2>2, <2>3, <2>4, <2>5, Listed DEF Owned, Placed, Adding
  <2> QED BY <2>4, <2>5 DEF Keeping
<1>5. CASE StreamsOffered
  <2>1. /\ self.pc = "none" /\ slips' = slips
        /\ \E s : /\ self' = [self EXCEPT !.state = "received_proposal", !.proposed = {s}]
                  /\ life' = [life EXCEPT ![s] = "idle"]
    BY <1>5, Zenon DEF StreamsOffered, Idle, IdleWith
  <2>2. PICK s : /\ self' = [self EXCEPT !.state = "received_proposal", !.proposed = {s}]
                 /\ life' = [life EXCEPT ![s] = "idle"]
    BY <2>1
  <2>3. IsLife' /\ Runs' \subseteq Runs BY <2>2 DEF IsLife, Runs
  <2>4. self'.pc = "none" /\ self'.state = "received_proposal" /\ self'.streams = self.streams
    BY <2>1, <2>2 DEF Fields
  <2>5. ASSUME slips' = {} PROVE Runs' \subseteq Owned(self') /\ Placed(self', inv')
    BY <2>1, <2>3, <2>4, <2>5, Listed DEF Owned, Placed, Adding
  <2> QED BY <2>3, <2>5 DEF Keeping
<1>6. CASE UpdateOffered
  <2>1. /\ self.pc = "none"
        /\ \E gone : /\ End(gone)
                     /\ self'.streams = self.streams \ gone
                     /\ \/ self'.pc = "none" /\ self'.state \in {"received_proposal", "connected"}
                        \/ self'.pc = "u.sdp" /\ self'.state = "received_proposal"
                     /\ slips' = slips \/ Slips(Forgets)
    <3>1. self.pc = "none" BY <1>6, Zenon DEF UpdateOffered, Idle, IdleWith
    <3>2. PICK gone \in SUBSET self.streams :
            LET x == [self EXCEPT !.state = "received_proposal", !.streams = @ \ gone] IN
              /\ End(gone)
              /\ \/ self' = [x EXCEPT !.pc = "u.sdp", !.got = {}] /\ slips' = slips
                 \/ self' = [x EXCEPT !.state = "connected"] /\ Slips(Forgets)
                 \/ self' = x /\ slips' = slips
      BY <1>6, Zenon DEF UpdateOffered
    <3> DEFINE x == [self EXCEPT !.state = "received_proposal", !.streams = @ \ gone]
    <3>3. /\ DOMAIN x = Fields /\ x.pc = "none" /\ x.state = "received_proposal"
          /\ x.streams = self.streams \ gone
      BY <3>1 DEF Fields
    <3>4. /\ End(gone)
          /\ \/ self' = [x EXCEPT !.pc = "u.sdp", !.got = {}] /\ slips' = slips
             \/ self' = [x EXCEPT !.state = "connected"] /\ Slips(Forgets)
             \/ self' = x /\ slips' = slips
      BY <3>2
    <3> HIDE DEF x
    <3>5. /\ self'.streams = self.streams \ gone
          /\ \/ self'.pc = "none" /\ self'.state \in {"received_proposal", "connected"}
             \/ self'.pc = "u.sdp" /\ self'.state = "received_proposal"
      BY <3>3, <3>4 DEF Fields
    <3> QED BY <3>1, <3>4, <3>5
  <2>2. PICK gone : /\ End(gone)
                    /\ self'.streams = self.streams \ gone
                    /\ \/ self'.pc = "none" /\ self'.state \in {"received_proposal", "connected"}
                       \/ self'.pc = "u.sdp" /\ self'.state = "received_proposal"
                    /\ slips' = slips \/ Slips(Forgets)
    BY <2>1
  <2>3. IsLife' /\ Runs' \subseteq Runs \ gone BY <2>2, LivesOfStreams
  <2>4. slips' = {} => slips = {} BY <2>2, SlipKept
  <2>5. Placed(self', inv') BY <2>2 DEF Placed
  <2>6. Owned(self') = self.streams \ gone BY <2>2 DEF Owned, Adding
  <2> QED BY <2>1, <2>3, <2>4, <2>5, <2>6, Listed DEF Keeping
<1>7. CASE OfferCancelled
  <2>1. /\ self.pc = "none" /\ UNCHANGED <<life, slips>>
        /\ self' = Settled(self) \/ self' = [self EXCEPT !.state = "connected"]
    BY <1>7, Zenon DEF OfferCancelled, Idle, IdleWith
  <2>2. IsLife' /\ Runs' = Runs BY <2>1, SameLife
  <2>3. Over(self', self.streams)
    <3>1. CASE self' = Settled(self) BY <3>1, EndsAreOver
    <3>2. CASE self' = [self EXCEPT !.state = "connected"] BY <2>1, <3>2 DEF Over, Fields
    <3> QED BY <2>1, <3>1, <3>2
  <2> QED BY <2>1, <2>2, <2>3, Listed, OverKeeps
<1> QED BY <1>1, <1>2, <1>3, <1>4, <1>5, <1>6, <1>7

\* Whatever green thread starts.
LEMMA StartsOwn ==
  ASSUME Kept, Starts
  PROVE  Keeping
BY ConnectOwns, AcceptOwns, ProposalBodiesOwn, AddOwns, RemoveOwns, HoldBodiesOwn, CancelBodyOwns, EndBodyOwns,
   NotifiedOwns DEF Starts

-----------------------------------------------------------------------------
(* Green threads that go on *)

\* A wait for something else, among those of an operation that adds streams.
LEMMA NextWait ==
  ASSUME Heeded, Kept, IsLife', slips' = {} => slips = {},
         self.pc \in Adding, self.pc \notin {"end", "dead"}, self'.pc \in Adding,
         self'.pc \in {"init", "sdp", "media"} => self.pc \in {"init", "sdp", "media"},
         self'.state = self.state \/ self'.state = "cancelling_proposal", self'.streams = self.streams,
         slips' = {} => Runs' \subseteq self'.streams \cup self'.proposed
  PROVE  Keeping
<1> SUFFICES ASSUME slips' = {} PROVE Runs' \subseteq Owned(self') /\ Placed(self', inv') BY DEF Keeping
<1>1. self.pc \notin Ending /\ self.pc # "none" BY DEF Adding, Ending
<1>2. self.state \notin {"incoming", "terminating", "terminated"} BY <1>1, Awake
<1>3. Owned(self') = self'.streams \cup self'.proposed BY <1>2 DEF Owned, Adding
<1>4. Placed(self, inv) BY DEF Kept, StreamsOK, RunsOK
<1>5. Placed(self', inv') BY <1>1, <1>2, <1>4 DEF Placed, Adding
<1> QED BY <1>3, <1>5

\* A green thread that ends in the middle of its operation, by itself or in an exception.
LEMMA Released ==
  ASSUME Heeded, Kept, IsLife', slips' = {} => slips = {}, self.pc \notin Ending, self.pc # "dead",
         self'.pc \in {"none", "dead", "hold.cancel", "unhold.cancel"},
         self'.state = self.state, self'.streams = self.streams, slips' = {} => Runs' \subseteq self.streams
  PROVE  Keeping
<1> SUFFICES ASSUME slips' = {} PROVE Runs' \subseteq Owned(self') /\ Placed(self', inv') BY DEF Keeping
<1>1. self.state \notin {"incoming", "terminating", "terminated"} BY Awake
<1>2. self.streams \subseteq Owned(self') BY <1>1 DEF Owned, Adding
<1>3. Placed(self, inv) BY DEF Kept, StreamsOK, RunsOK
<1>4. Placed(self', inv') BY <1>1, <1>3 DEF Placed, Ending
<1> QED BY <1>2, <1>4

\* An item that is ignored or noted changes no stream.
LEMMA IgnoredOwns ==
  ASSUME Heeded, Kept, Ignored \/ Note
  PROVE  Keeping
<1> USE DEF Kept, StreamsOK, Heeded, Sound, Shape
<1>1. self' \in {self, Noted} /\ UNCHANGED <<inv, life>> BY DEF Ignored, Note
<1>2. slips' = {} => slips = {} BY SlipNamed DEF Ignored, Note
<1>3. /\ self'.pc = self.pc /\ self'.state = self.state /\ self'.streams = self.streams
      /\ self'.proposed = self.proposed /\ self'.leaving = self.leaving
  BY <1>1 DEF Noted, Fields
<1> QED BY <1>1, <1>2, <1>3, SameLife, Unmoved

\* The session has no list before it is set up.
LEMMA SetupFailsOwns ==
  ASSUME Heeded, Kept, self.pc \in {"init", "sdp", "media"}, SetupFails \/ SetupEnds
  PROVE  Keeping
<1> USE DEF Kept, StreamsOK, Heeded, Sound, Shape
<1>1. /\ End(self.proposed) /\ slips' = slips
      /\ self' \in {Ended(self), [self EXCEPT !.state = "terminating", !.pc = "fail"]}
  BY Zenon DEF SetupFails, SetupEnds, FailOp
<1>2. IsLife' /\ Runs' \subseteq Runs \ self.proposed BY <1>1, LivesOfStreams
<1>3. ASSUME slips' = {} PROVE Runs' = {}
  <2>1. slips = {} /\ self.streams = {} BY <1>1, <1>3 DEF RunsOK, Placed
  <2>2. Runs \subseteq self.streams \cup self.proposed BY <2>1, Proposed
  <2> QED BY <1>2, <2>1, <2>2
<1>4. CASE self' = Ended(self) BY <1>2, <1>3, <1>4, EndedKeeps
<1>5. CASE self' = [self EXCEPT !.state = "terminating", !.pc = "fail"]
  <2>1. self'.pc = "fail" /\ self'.state = "terminating" BY <1>5 DEF Fields
  <2>2. Placed(self', inv') BY <2>1 DEF Placed
  <2> QED BY <1>2, <1>3, <2>2 DEF Keeping
<1> QED BY <1>1, <1>4, <1>5

\* The list takes over what an operation has started.
LEMMA CompleteOwns ==
  ASSUME IsLife', NEW x, DOMAIN x = Fields, Complete(x) \/ AfterICE(x),
         slips' = {} => Runs' \subseteq x.streams \cup x.proposed
  PROVE  Keeping
<1>1. CASE slips' # {} BY <1>1 DEF Keeping
<1>2. CASE slips' = {}
  <2>1. self' \in {Settled(Added(x)), [Sending(Added(x), "ice") EXCEPT !.kept = x.kept]}
    BY <1>2, SlipNamed DEF Complete, AfterICE
  <2>2. Over(self', x.streams \cup x.proposed) BY <2>1, AddedIsOver
  <2> QED BY <2>2, OverKeeps
<1> QED BY <1>1, <1>2

LEMMA SetupGoesOnOwns ==
  ASSUME Heeded, Kept, self.pc \in {"sdp", "media"}, slips' = {} => slips = {}, IsLife',
         NEW x, DOMAIN x = Fields, x.pc = "media", x.state = self.state, x.streams = self.streams,
         SetupGoesOn(x), slips' = {} => Runs' \subseteq x.streams \cup x.proposed
  PROVE  Keeping
<1>1. CASE Complete(x) \/ AfterICE(x) BY <1>1, CompleteOwns
<1>2. CASE ~(Complete(x) \/ AfterICE(x))
  <2>1. self' = x BY <1>2 DEF SetupGoesOn
  <2>2. self.pc \in Adding /\ self.pc \notin {"end", "dead"} /\ x.pc \in Adding BY DEF Adding
  <2> QED BY <2>1, <2>2, NextWait
<1> QED BY <1>1, <1>2

\* connect() and accept() at each of their waits.
LEMMA SetupsOwn ==
  ASSUME Heeded, Kept, SetupInit \/ SetupSDP \/ SetupMedia \/ SetupTimeout
  PROVE  Keeping
<1> USE DEF Kept, StreamsOK, Heeded, Sound, Shape
<1>1. self.pc \in {"init", "sdp", "media"} BY DEF SetupInit, SetupSDP, SetupMedia, SetupTimeout, At
<1>2. slips' = {} => slips = {}
  <2>1. Acts BY SetupsAct
  <2> QED BY <2>1 DEF Acts
<1>3. slips = {} => Runs \subseteq self.proposed /\ self.streams = {}
  BY <1>1, Proposed DEF RunsOK, Placed
<1>4. CASE SetupFails \/ SetupEnds BY <1>1, <1>4, SetupFailsOwns
<1>5. CASE Ignored \/ Note BY <1>5, IgnoredOwns
<1>6. CASE SetupInit /\ ~(SetupFails \/ SetupEnds \/ Ignored)
  <2>1. /\ life' = life
        /\ \/ slips' # {}
           \/ \E n : self' = [self EXCEPT !.wait = n]
           \/ self' = [self EXCEPT !.pc = "sdp", !.got = {}]
    BY <1>6, SlipNamed, Zenon DEF SetupInit, Escapes
  <2>2. IsLife' /\ Runs' = Runs BY <2>1, SameLife
  <2>3. CASE slips' # {} BY <2>2, <2>3 DEF Keeping
  <2>4. CASE slips' = {}
    <3>1. ASSUME NEW n, self' = [self EXCEPT !.wait = n]
          PROVE  self'.pc = self.pc /\ self'.state = self.state
                 /\ self'.streams = self.streams /\ self'.proposed = self.proposed
      BY <3>1 DEF Fields
    <3>2. ASSUME self' = [self EXCEPT !.pc = "sdp", !.got = {}]
          PROVE  self'.pc = "sdp" /\ self'.state = self.state
                 /\ self'.streams = self.streams /\ self'.proposed = self.proposed
      BY <3>2 DEF Fields
    <3>3. self'.pc \in {"sdp", self.pc} /\ self'.state = self.state
          /\ self'.streams = self.streams /\ self'.proposed = self.proposed
      BY <2>1, <2>4, <3>1, <3>2, Zenon
    <3>4. self.pc \in Adding /\ self.pc \notin {"end", "dead"} /\ self'.pc \in Adding BY <1>1, <3>3 DEF Adding
    <3> QED BY <1>1, <1>2, <1>3, <2>2, <3>3, <3>4, NextWait
  <2> QED BY <2>3, <2>4
<1>7. CASE SetupSDP /\ ~(SetupFails \/ SetupEnds \/ Ignored \/ Note)
  <2>1. PICK S : /\ StartStreams(S)
                 /\ SetupGoesOn([self EXCEPT !.pc = "media", !.wait = Cardinality(S), !.proposed = S])
    BY <1>7, Zenon DEF SetupSDP
  <2> DEFINE x == [self EXCEPT !.pc = "media", !.wait = Cardinality(S), !.proposed = S]
  <2>2. /\ DOMAIN x = Fields /\ x.pc = "media" /\ x.state = self.state /\ x.streams = self.streams
        /\ x.proposed = S
    BY DEF Fields
  <2>3. SetupGoesOn(x) BY <2>1
  <2> HIDE DEF x
  <2>4. IsLife' /\ Runs' \subseteq (Runs \ self.proposed) \cup S BY <2>1, LivesOfStreams
  <2>5. slips' = {} => Runs' \subseteq x.streams \cup x.proposed BY <1>2, <1>3, <2>2, <2>4
  <2>6. self.pc = "sdp" BY <1>7 DEF SetupSDP, At
  <2> QED BY <1>2, <2>2, <2>3, <2>4, <2>5, <2>6, SetupGoesOnOwns
<1>8. CASE SetupMedia /\ ~(SetupFails \/ SetupEnds)
  <2>1. /\ self.pc = "media" /\ life' = life
        /\ \/ SetupGoesOn(self) \/ SetupGoesOn(Noted)
           \/ \E n : SetupGoesOn([self EXCEPT !.wait = n])
           \/ \E k : SetupGoesOn([self EXCEPT !.kept = k])
    BY <1>8, Zenon DEF SetupMedia, At
  <2>2. IsLife' /\ Runs' = Runs BY <2>1, SameLife
  <2>3. ASSUME NEW x, DOMAIN x = Fields, x.pc = self.pc, x.state = self.state, x.streams = self.streams,
               x.proposed = self.proposed, SetupGoesOn(x)
        PROVE  Keeping
    <3>1. slips' = {} => Runs' \subseteq x.streams \cup x.proposed BY <1>2, <1>3, <2>2, <2>3
    <3> QED BY <1>2, <2>1, <2>2, <2>3, <3>1, SetupGoesOnOwns
  <2>4. CASE SetupGoesOn(self) BY <2>3, <2>4
  <2>5. CASE SetupGoesOn(Noted)
    <3>1. DOMAIN Noted = Fields /\ Noted.pc = self.pc /\ Noted.state = self.state
          /\ Noted.streams = self.streams /\ Noted.proposed = self.proposed
      BY DEF Noted, Fields
    <3> QED BY <2>3, <2>5, <3>1
  <2>6. ASSUME NEW n, SetupGoesOn([self EXCEPT !.wait = n]) PROVE Keeping
    <3> DEFINE x == [self EXCEPT !.wait = n]
    <3>1. DOMAIN x = Fields /\ x.pc = self.pc /\ x.state = self.state /\ x.streams = self.streams
          /\ x.proposed = self.proposed
      BY DEF Fields
    <3>2. SetupGoesOn(x) BY <2>6
    <3> HIDE DEF x
    <3> QED BY <2>3, <3>1, <3>2
  <2>7. ASSUME NEW k, SetupGoesOn([self EXCEPT !.kept = k]) PROVE Keeping
    <3> DEFINE x == [self EXCEPT !.kept = k]
    <3>1. DOMAIN x = Fields /\ x.pc = self.pc /\ x.state = self.state /\ x.streams = self.streams
          /\ x.proposed = self.proposed
      BY DEF Fields
    <3>2. SetupGoesOn(x) BY <2>7
    <3> HIDE DEF x
    <3> QED BY <2>3, <3>1, <3>2
  <2> QED BY <2>1, <2>4, <2>5, <2>6, <2>7
<1>9. CASE SetupTimeout /\ ~SetupFails
  <2>1. self' = [self EXCEPT !.pc = "dead"] /\ life' = life BY <1>9 DEF SetupTimeout
  <2>2. self'.pc = "dead" /\ self'.state = self.state /\ self'.streams = self.streams /\ self'.proposed = self.proposed
    BY <2>1 DEF Fields
  <2>3. IsLife' /\ Runs' = Runs BY <2>1, SameLife
  <2>4. self.pc \in Adding /\ self.pc \notin {"end", "dead"} /\ self'.pc \in Adding BY <1>1, <2>2 DEF Adding
  <2> QED BY <1>2, <1>3, <2>2, <2>3, <2>4, NextWait
<1> QED BY <1>4, <1>5, <1>6, <1>7, <1>8, <1>9

\* A session that ends, or waits for the end of its dialog.
LEMMA EndsOwn ==
  ASSUME Heeded, Kept, FailWaits \/ RejectWaits \/ EndWaits \/ EndTimeout
  PROVE  Keeping
<1> USE DEF Kept, StreamsOK, Heeded, Sound, Shape
<1>1. CASE Ignored BY <1>1, IgnoredOwns
<1>2. CASE \E n : Slip(n)
  <2>1. slips' # {} BY <1>2, SlipNamed
  <2>2. IsLife'
    <3>1. (\E S : End(S)) \/ life' = life
      BY <1>1, Zenon DEF FailWaits, RejectWaits, EndWaits, EndTimeout, Ignored
    <3> QED BY <3>1, LivesOfStreams, SameLife
  <2> QED BY <2>1, <2>2 DEF Keeping
<1>3. CASE (FailWaits \/ RejectWaits \/ EndTimeout) /\ ~(Ignored \/ \E n : Slip(n))
  <2>1. /\ self.pc \in {"fail", "reject"}
        /\ self' = Ended(self) /\ UNCHANGED <<life, slips>>
    BY <1>3, Zenon DEF FailWaits, RejectWaits, EndTimeout, At, Escapes
  <2>2. IsLife' /\ Runs' = Runs BY <2>1, SameLife
  <2>3. ASSUME slips' = {} PROVE Runs' = {} BY <2>1, <2>2, <2>3 DEF RunsOK, Owned
  <2> QED BY <2>1, <2>2, <2>3, EndedKeeps
<1>4. CASE EndWaits /\ ~(Ignored \/ \E n : Slip(n))
  <2>1. /\ self.pc = "end" /\ self' = Ended(self) /\ slips' = slips
        /\ End(self.streams \cup self.proposed)
    BY <1>4, Zenon DEF EndWaits, At
  <2>2. IsLife' /\ Runs' \subseteq Runs \ (self.streams \cup self.proposed) BY <2>1, LivesOfStreams
  <2>3. ASSUME slips' = {} PROVE Runs' = {} BY <2>1, <2>2, <2>3, Proposed
  <2> QED BY <2>1, <2>2, <2>3, EndedKeeps
<1> QED BY <1>1, <1>2, <1>3, <1>4

\* The re-INVITE after ICE, whose outcome is ignored.
LEMMA ICEOwns ==
  ASSUME Heeded, Kept, ICEWaits \/ ICETimeout
  PROVE  Keeping
<1> USE DEF Kept, StreamsOK, Heeded, Sound, Shape
<1> DEFINE back == [self EXCEPT !.got = {}]
<1>1. DOMAIN back = Fields /\ back.streams = self.streams BY DEF Fields
<1>2. \/ Ignored \/ Note
      \/ life' = life /\ (Complete(back) \/ Slip("BYE during ICE"))
  BY Zenon DEF ICEWaits, ICETimeout
<1>3. self.pc = "ice" BY DEF ICEWaits, ICETimeout, At
<1> HIDE DEF back
<1>4. CASE life' = life /\ Complete(back)
  <2>1. IsLife' /\ Runs' = Runs BY <1>4, SameLife
  <2>2. slips' = slips BY <1>4 DEF Complete
  <2>3. slips' = {} => Runs' \subseteq back.streams \cup back.proposed
    BY <1>1, <1>3, <2>1, <2>2, Listed DEF Adding
  <2> QED BY <1>1, <1>4, <2>1, <2>3, CompleteOwns
<1>5. CASE life' = life /\ Slip("BYE during ICE") BY <1>5, SlipNamed, SameLife DEF Keeping
<1>6. CASE Ignored \/ Note BY <1>6, IgnoredOwns
<1> QED BY <1>2, <1>4, <1>5, <1>6

\* A proposal that fails ends what it has started.
LEMMA ProposalFailsOwns ==
  ASSUME Heeded, Kept, slips' = {} => slips = {}, self.pc # "m.sdp",
         End(self.proposed), self' \in {Connected(self), Settled(self)}
  PROVE  Keeping
<1> USE DEF Kept, StreamsOK, Heeded, Sound, Shape
<1>1. IsLife' /\ Runs' \subseteq Runs \ self.proposed BY LivesOfStreams
<1>2. slips' = {} => Runs' \subseteq self.streams BY <1>1, Proposed
<1>3. Over(self', self.streams) BY EndsAreOver
<1> QED BY <1>1, <1>2, <1>3, OverKeeps

\* accept_proposal() and reject_proposal() at each of their waits.
LEMMA AcceptProposalOwns ==
  ASSUME Heeded, Kept, AcceptProposalWaits \/ RejectProposalWaits
  PROVE  Keeping
<1> USE DEF Kept, StreamsOK, Heeded, Sound, Shape
<1>1. self.pc \in {"p.init", "p.sdp", "p.media", "rp"} BY DEF AcceptProposalWaits, RejectProposalWaits, At
<1>2. slips' = {} => slips = {}
  <2>1. Acts BY AcceptProposalsAct
  <2> QED BY <2>1 DEF Acts
<1>3. CASE Ignored BY <1>3, IgnoredOwns
<1>4. CASE ProposalFails(<<>>) \/ ProposalFails(Again)
  BY <1>1, <1>2, <1>4, ProposalFailsOwns DEF ProposalFails, FailProposal
<1>5. CASE RejectProposalWaits /\ ~Ignored
  <2>1. /\ self.pc = "rp" /\ life' = life
        /\ self' = Settled(self) \/ Slip("reject_proposal interrupted")
    BY <1>5, Zenon DEF RejectProposalWaits, At, Escapes
  <2>2. IsLife' /\ Runs' = Runs BY <2>1, SameLife
  <2>3. CASE Slip("reject_proposal interrupted") BY <2>2, <2>3, SlipNamed DEF Keeping
  <2>4. CASE self' = Settled(self)
    <3>1. Over(self', self.streams) BY <2>4, EndsAreOver
    <3>2. slips' = {} => Runs' \subseteq self.streams BY <1>2, <2>1, <2>2, Listed DEF Adding
    <3> QED BY <2>2, <3>1, <3>2, OverKeeps
  <2> QED BY <2>1, <2>3, <2>4
<1>6. CASE AcceptProposalWaits /\ ~(Ignored \/ ProposalFails(<<>>) \/ ProposalFails(Again))
  <2> DEFINE x == [self EXCEPT !.wait = IF Takes({"start"}) THEN @ - 1 ELSE @,
                               !.kept = IF Takes({"start"}) THEN @ ELSE Append(@, Got)]
  <2>1. DOMAIN x = Fields /\ x.pc = self.pc /\ x.state = self.state /\ x.streams = self.streams
        /\ x.proposed = self.proposed
    BY DEF Fields
  <2>2. /\ self.pc \in {"p.init", "p.sdp", "p.media"}
        /\ StartStreams(self.proposed) \/ life' = life
        /\ \/ self' = [self EXCEPT !.pc = "p.sdp"]
           \/ self' = [self EXCEPT !.pc = "p.media"]
           \/ self' = Noted
           \/ self' = x
           \/ Complete(x)
    BY <1>6, Zenon DEF AcceptProposalWaits, At
  <2> HIDE DEF x
  <2>3. IsLife' /\ Runs' \subseteq Runs \cup self.proposed BY <2>2, LivesOfStreams, SameLife
  <2>4. slips' = {} => Runs' \subseteq self.streams \cup self.proposed BY <1>2, <2>2, <2>3, Proposed
  <2>5. CASE Complete(x) BY <2>1, <2>3, <2>4, <2>5, CompleteOwns
  <2>6. CASE ~Complete(x)
    <3>1. CASE self' = x BY <1>2, <2>1, <2>2, <2>3, <2>4, <3>1, NextWait DEF Adding
    <3>2. CASE self' # x
      <4>1. /\ self'.pc \in {"p.sdp", "p.media", self.pc} /\ self'.state = self.state
            /\ self'.streams = self.streams /\ self'.proposed = self.proposed
        BY <2>2, <2>6, <3>2 DEF Noted, Fields
      <4> QED BY <1>2, <2>2, <2>3, <2>4, <4>1, NextWait DEF Adding
    <3> QED BY <3>1, <3>2
  <2> QED BY <2>5, <2>6
<1> QED BY <1>3, <1>4, <1>5, <1>6

\* add_streams() at each of its waits, and the limits of all proposals.
LEMMA AddWaitsOwn ==
  ASSUME Heeded, Kept, AddWaits \/ ProposalTimeout
  PROVE  Keeping
<1> USE DEF Kept, StreamsOK, Heeded, Sound, Shape
<1>1. self.pc \in {"s.init", "s.sdp", "s.media", "p.media", "rp"} BY DEF AddWaits, ProposalTimeout, At
<1>2. slips' = {} => slips = {}
  <2>1. Acts BY AddActs, TimeoutsAct
  <2> QED BY <2>1 DEF Acts
<1>3. CASE Ignored \/ Note BY <1>3, IgnoredOwns
<1>4. CASE ProposalFails(<<>>) \/ ProposalFails(Again) \/ Rejected
  BY <1>1, <1>2, <1>4, ProposalFailsOwns DEF ProposalFails, FailProposal, Rejected
<1>5. CASE AddWaits /\ ~(Ignored \/ Note \/ ProposalFails(<<>>) \/ ProposalFails(Again) \/ Rejected)
  <2>1. \/ /\ self.pc = "s.init" /\ self' = [self EXCEPT !.pc = "s.sdp"] /\ life' = life
        \/ /\ self.pc = "s.sdp"
           /\ \E S : LET x == [self EXCEPT !.proposed = S] IN
                       /\ StartStreams(S)
                       /\ Complete(x) \/ self' = [x EXCEPT !.pc = "s.media"]
        \/ /\ self.pc = "s.media" /\ life' = life /\ (Complete(self) \/ AfterICE(self))
    BY <1>5, Zenon DEF AddWaits, At
  <2>2. slips = {} => Runs \subseteq self.streams \cup self.proposed BY <1>1, Proposed
  <2>3. CASE self.pc = "s.init" /\ self' = [self EXCEPT !.pc = "s.sdp"] /\ life' = life
    <3>1. /\ self'.pc = "s.sdp" /\ self'.state = self.state /\ self'.streams = self.streams
          /\ self'.proposed = self.proposed
      BY <2>3 DEF Fields
    <3>2. IsLife' /\ Runs' = Runs BY <2>3, SameLife
    <3> QED BY <1>2, <2>2, <2>3, <3>1, <3>2, NextWait DEF Adding
  <2>4. ASSUME NEW S, self.pc = "s.sdp", StartStreams(S),
               LET x == [self EXCEPT !.proposed = S] IN Complete(x) \/ self' = [x EXCEPT !.pc = "s.media"]
        PROVE  Keeping
    <3> DEFINE x == [self EXCEPT !.proposed = S]
    <3>1. DOMAIN x = Fields /\ x.state = self.state /\ x.streams = self.streams /\ x.proposed = S
      BY DEF Fields
    <3>2. Complete(x) \/ self' = [x EXCEPT !.pc = "s.media"] BY <2>4
    <3> HIDE DEF x
    <3>3. IsLife' /\ Runs' \subseteq (Runs \ self.proposed) \cup S BY <2>4, LivesOfStreams
    <3>4. slips' = {} => Runs' \subseteq self.streams \cup S BY <1>2, <2>2, <3>3
    <3>5. CASE Complete(x) BY <3>1, <3>3, <3>4, <3>5, CompleteOwns
    <3>6. CASE self' = [x EXCEPT !.pc = "s.media"]
      <4>1. /\ self'.pc = "s.media" /\ self'.state = self.state /\ self'.streams = self.streams
            /\ self'.proposed = S
        BY <3>1, <3>6 DEF Fields
      <4> QED BY <1>2, <2>4, <3>3, <3>4, <4>1, NextWait DEF Adding
    <3> QED BY <3>2, <3>5, <3>6
  <2>5. CASE self.pc = "s.media" /\ life' = life /\ (Complete(self) \/ AfterICE(self))
    <3>1. IsLife' /\ Runs' = Runs BY <2>5, SameLife
    <3> QED BY <1>2, <2>2, <2>5, <3>1, CompleteOwns
  <2> QED BY <2>1, <2>3, <2>4, <2>5
<1>6. CASE ProposalTimeout /\ ~(ProposalFails(<<>>))
  <2>1. /\ life' = life
        /\ \/ self.pc = "s.sdp" /\ self' = [self EXCEPT !.state = "cancelling_proposal", !.pc = "dead"]
           \/ self.pc = "rp" /\ self' = Settled(self)
    BY <1>6, Zenon DEF ProposalTimeout
  <2>2. IsLife' /\ Runs' = Runs BY <2>1, SameLife
  <2>3. CASE self.pc = "s.sdp" /\ self' = [self EXCEPT !.state = "cancelling_proposal", !.pc = "dead"]
    <3>1. /\ self'.pc = "dead" /\ self'.state = "cancelling_proposal" /\ self'.streams = self.streams
          /\ self'.proposed = self.proposed
      BY <2>3 DEF Fields
    <3>2. slips' = {} => Runs' \subseteq self.streams \cup self.proposed BY <1>1, <1>2, <2>2, Proposed
    <3> QED BY <1>2, <2>2, <2>3, <3>1, <3>2, NextWait DEF Adding
  <2>4. CASE self.pc = "rp" /\ self' = Settled(self)
    <3>1. Over(self', self.streams) BY <2>4, EndsAreOver
    <3>2. slips' = {} => Runs' \subseteq self.streams BY <1>2, <2>2, <2>4, Listed DEF Adding
    <3> QED BY <2>2, <3>1, <3>2, OverKeeps
  <2> QED BY <2>1, <2>3, <2>4
<1> QED BY <1>3, <1>4, <1>5, <1>6

\* The streams that remove_streams() has taken off the list end with it.
LEMMA RemoveWaitsOwn ==
  ASSUME Heeded, Kept, RemoveWaits \/ (HoldTimeout /\ self.pc = "m.sdp")
  PROVE  Keeping
<1> USE DEF Kept, StreamsOK, Heeded, Sound, Shape
<1> DEFINE x == [self EXCEPT !.leaving = {}]
<1>1. self.pc = "m.sdp" /\ self.pc \notin Ending BY DEF RemoveWaits, At, Ending
<1>2. slips' = {} => slips = {}
  <2>1. Acts BY RemoveActs, HoldsAct
  <2> QED BY <2>1 DEF Acts
<1>3. /\ DOMAIN x = Fields /\ x.streams = self.streams /\ x.state = self.state
  BY DEF Fields
<1>4. \/ Ignored \/ Note
      \/ /\ End(self.leaving)
         /\ \/ self' = Settled(x)
            \/ \E p \in {"none", "dead"} : self' = [x EXCEPT !.pc = p]
            \/ self' = [self EXCEPT !.pc = "dead", !.leaving = {}]
  BY <1>1, Zenon DEF RemoveWaits, HoldTimeout
<1> HIDE DEF x
<1>5. CASE Ignored \/ Note BY <1>5, IgnoredOwns
<1>6. CASE End(self.leaving)
  <2>1. IsLife' /\ Runs' \subseteq Runs \ self.leaving BY <1>6, LivesOfStreams
  <2>2. slips' = {} => Runs' \subseteq self.streams
    BY <1>1, <1>2, <2>1, Awake DEF RunsOK, Owned, Adding
  <2>3. CASE self' = Settled(x)
    <3>1. Over(self', self.streams) BY <1>3, <2>3, EndsAreOver
    <3> QED BY <2>1, <2>2, <3>1, OverKeeps
  <2>4. ASSUME NEW p \in {"none", "dead"}, self' = [x EXCEPT !.pc = p] PROVE Keeping
    <3>1. self'.pc = p /\ self'.state = self.state /\ self'.streams = self.streams BY <1>3, <2>4 DEF Fields
    <3> QED BY <1>1, <1>2, <2>1, <2>2, <2>4, <3>1, Released
  <2>5. CASE self' = [self EXCEPT !.pc = "dead", !.leaving = {}]
    <3>1. self'.pc = "dead" /\ self'.state = self.state /\ self'.streams = self.streams BY <2>5 DEF Fields
    <3> QED BY <1>1, <1>2, <2>1, <2>2, <3>1, Released
  <2>6. CASE Ignored \/ Note BY <2>6, IgnoredOwns
  <2> QED BY <1>4, <2>3, <2>4, <2>5, <2>6
<1> QED BY <1>4, <1>5, <1>6

\* cancel_proposal() when the answer is there: what was proposed has ended or is lost.
LEMMA CancelWaitsOwn ==
  ASSUME Heeded, Kept, CancelWaits
  PROVE  Keeping
<1> USE DEF Kept, StreamsOK, Heeded, Sound, Shape
<1> DEFINE x == [self EXCEPT !.pc = "none", !.proposed = {}]
<1>1. self.pc = "cancel" /\ self.pc \notin Ending BY DEF CancelWaits, At, Ending
<1>2. slips' = {} => slips = {}
  <2>1. Acts BY CancelActs
  <2> QED BY <2>1 DEF Acts
<1>3. /\ DOMAIN x = Fields /\ x.streams = self.streams /\ x.state = self.state /\ x.pc = "none"
  BY DEF Fields
<1>4. \/ Ignored
      \/ End(self.proposed) /\ self' = Settled(self)
      \/ Slips(Left) /\ life' = life /\ self' \in {Settled(self), x, SendHold(x)}
      \/ Slip("cancel_proposal interrupted") /\ life' = life
  BY Zenon DEF CancelWaits, Escapes
<1> HIDE DEF x
<1>5. CASE Ignored BY <1>5, IgnoredOwns
<1>6. CASE End(self.proposed) /\ self' = Settled(self) BY <1>1, <1>2, <1>6, ProposalFailsOwns
<1>7. CASE Slips(Left) /\ life' = life /\ self' \in {Settled(self), x, SendHold(x)}
  <2>1. IsLife' /\ Runs' = Runs BY <1>7, SameLife
  <2>2. slips' = {} => Runs' \subseteq self.streams
    <3> SUFFICES ASSUME slips' = {} PROVE Runs \subseteq self.streams BY <2>1
    <3>1. Left = {} /\ slips = {} BY <1>7, SlipKept
    <3>2. {"proposed streams left"} # {} OBVIOUS
    <3>3. \A s \in self.proposed : life[s] \in {"idle", "ended", "failed"} BY <3>1, <3>2 DEF Left
    <3> QED BY <1>1, <3>1, <3>3, Proposed DEF Runs
  <2>3. CASE self' = Settled(self)
    <3>1. Over(self', self.streams) BY <2>3, EndsAreOver
    <3> QED BY <2>1, <2>2, <3>1, OverKeeps
  <2>4. ASSUME self'.pc = "none", self'.state = self.state, self'.streams = self.streams PROVE Keeping
    BY <1>1, <1>2, <2>1, <2>2, <2>4, Released
  <2>5. CASE self' \in {x, SendHold(x)}
    <3>1. CASE CanReinvite /\ self' = SendHold(x)
      <4>1. self' = Sending(x, "hold") BY <3>1 DEF SendHold
      <4>2. Over(self', self.streams) BY <1>3, <4>1 DEF Sending, Over, Fields
      <4> QED BY <2>1, <2>2, <4>2, OverKeeps
    <3>2. CASE ~CanReinvite \/ self' = x
      <4>1. self' = x \/ self' = [x EXCEPT !.onHold = x.holding, !.holding = FALSE] BY <2>5, <3>2 DEF SendHold
      <4>2. self'.pc = "none" /\ self'.state = self.state /\ self'.streams = self.streams
        BY <1>3, <4>1 DEF Fields
      <4> QED BY <2>4, <4>2
    <3> QED BY <2>5, <3>1, <3>2
  <2> QED BY <1>7, <2>3, <2>5
<1>8. CASE Slip("cancel_proposal interrupted") /\ life' = life BY <1>8, SlipNamed, SameLife DEF Keeping
<1> QED BY <1>4, <1>5, <1>6, <1>7, <1>8

\* An update of the peer that has been answered.
LEMMA UpdateWaitsOwn ==
  ASSUME Heeded, Kept, UpdateWaits
  PROVE  Keeping
<1> USE DEF Kept, StreamsOK, Heeded, Sound, Shape
<1> DEFINE y == [self EXCEPT !.kept = Append(@, Got)]
<1>1. self.pc = "u.sdp" BY DEF UpdateWaits, At
<1>2. slips' = {} => slips = {}
  <2>1. Acts BY UpdateActs
  <2> QED BY <2>1 DEF Acts
<1>3. \A x \in {self, Noted, y} :
        /\ DOMAIN x = Fields /\ x.streams = self.streams /\ x.proposed = self.proposed /\ x.pc = self.pc
        /\ x.state = self.state /\ x.leaving = self.leaving
  BY DEF Noted, Fields
<1>4. /\ life' = life /\ inv' = inv
      /\ \/ \E x \in {self, Noted, y} : self' = Connected(x) \/ self' = x
         \/ Slip("update interrupted")
  BY ZenonT(30) DEF UpdateWaits
<1>5. IsLife' /\ Runs' = Runs BY <1>4, SameLife
<1> HIDE DEF y
<1>6. CASE Slip("update interrupted") BY <1>5, <1>6, SlipNamed DEF Keeping
<1>7. ASSUME NEW x \in {self, Noted, y}, self' = Connected(x) PROVE Keeping
  <2>1. Over(self', self.streams) BY <1>3, <1>7, EndsAreOver
  <2>2. slips' = {} => Runs' \subseteq self.streams BY <1>1, <1>2, <1>5, Listed DEF Adding
  <2> QED BY <1>5, <2>1, <2>2, OverKeeps
<1>8. ASSUME NEW x \in {self, Noted, y}, self' = x PROVE Keeping
  BY <1>2, <1>3, <1>4, <1>5, <1>8, Unmoved
<1> QED BY <1>4, <1>6, <1>7, <1>8

\* hold() and unhold() waiting for the answer.
LEMMA HoldWaitsOwn ==
  ASSUME Heeded, Kept, HoldWaits \/ HoldTimeout
  PROVE  Keeping
<1> USE DEF Kept, StreamsOK, Heeded, Sound, Shape
<1>0. CASE HoldTimeout /\ self.pc = "m.sdp" BY <1>0, RemoveWaitsOwn
<1>1. CASE ~(HoldTimeout /\ self.pc = "m.sdp")
  <2>1. self.pc \in {"hold", "unhold", "hold.cancel", "unhold.cancel"} BY <1>1 DEF HoldWaits, HoldTimeout, At
  <2>2. slips' = {} => slips = {}
    <3>1. Acts BY HoldsAct
    <3> QED BY <3>1 DEF Acts
  <2>3. \A x \in {self, Noted} :
          /\ DOMAIN x = Fields /\ x.streams = self.streams /\ x.proposed = self.proposed /\ x.pc = self.pc
          /\ x.state = self.state /\ x.leaving = self.leaving
    BY DEF Noted, Fields
  <2>4. \/ Ignored
        \/ /\ life' = life
           /\ \/ self' = Noted /\ inv' = inv
              \/ Held(self) \/ Held(Noted)
              \/ \E p \in {"none", "dead", "hold.cancel", "unhold.cancel"} : self' = [self EXCEPT !.pc = p]
    <3>1. CASE HoldWaits BY <3>1, ZenonT(30) DEF HoldWaits, Escapes
    <3>2. CASE HoldTimeout BY <1>1, <3>2 DEF HoldTimeout
    <3> QED BY <3>1, <3>2
  <2>5. CASE Ignored BY <2>5, IgnoredOwns
  <2>6. CASE life' = life /\ ~Ignored
    <3>1. IsLife' /\ Runs' = Runs BY <2>6, SameLife
    <3>2. slips' = {} => Runs' \subseteq self.streams BY <2>1, <2>2, <3>1, Listed DEF Adding
    <3>3. ASSUME NEW x \in {self, Noted}, Held(x) PROVE Keeping
      <4>1. Over(self', self.streams) BY <2>3, <3>3, EndsAreOver DEF Held
      <4> QED BY <3>1, <3>2, <4>1, OverKeeps
    <3>4. CASE self' = Noted /\ inv' = inv BY <2>2, <2>3, <3>1, <3>4, Unmoved
    <3>5. ASSUME NEW p \in {"none", "dead", "hold.cancel", "unhold.cancel"}, self' = [self EXCEPT !.pc = p]
          PROVE  Keeping
      <4>1. self'.pc = p /\ self'.state = self.state /\ self'.streams = self.streams BY <3>5 DEF Fields
      <4>2. self.pc \notin Ending /\ self.pc # "dead" BY <2>1 DEF Ending
      <4> QED BY <2>2, <3>1, <3>2, <3>5, <4>1, <4>2, Released
    <3> QED BY <2>4, <2>6, <3>3, <3>4, <3>5
  <2> QED BY <2>4, <2>5, <2>6
<1> QED BY <1>0, <1>1

\* Every step from a state where nothing was lost.
LEMMA NextOwns ==
  ASSUME Kept, [Next]_vars
  PROVE  Keeping
<1>1. CASE UNCHANGED vars
  <2>1. UNCHANGED <<self, inv, life, slips>> BY <1>1 DEF vars
  <2> QED BY <2>1, SameLife, Unmoved DEF Kept, StreamsOK
<1>2. CASE GoesOn \/ Timeout
  <2>1. self.pc # "none"
    BY <1>2
       DEF GoesOn, Timeout, SetupInit, SetupSDP, SetupMedia, FailWaits, RejectWaits, EndWaits, ICEWaits,
           AcceptProposalWaits, RejectProposalWaits, AddWaits, RemoveWaits, CancelWaits, UpdateWaits, HoldWaits,
           SetupTimeout, EndTimeout, ICETimeout, ProposalTimeout, HoldTimeout, At
  <2>2. Heeded BY <2>1 DEF Kept, SInv, EarlyOK, Early, Heeded, Sound
  <2> QED
    BY <1>2, <2>2, SetupsOwn, EndsOwn, ICEOwns, AcceptProposalOwns, AddWaitsOwn, RemoveWaitsOwn, CancelWaitsOwn,
       UpdateWaitsOwn, HoldWaitsOwn
    DEF GoesOn, Timeout
<1> QED BY <1>1, <1>2, EnvironmentOwns, ApplicationOwns, StartsOwn DEF Next

\* When nothing is under way, only the streams of the session's list run: what an operation
\* starts or takes off the list is the list's or has ended when the operation is over.
THEOREM OnlyListedStreamsRun == Spec => []NoStreamLeft
<1>1. DInv /\ StreamsOK => NoStreamLeft
  <2> SUFFICES ASSUME DInv, StreamsOK PROVE NoStreamLeft OBVIOUS
  <2>1. ASSUME NEW st, Rests(st), st \in {"terminated", "connected"}
        PROVE  Runs \subseteq Owned(self) /\ self.state = st /\ self.pc = "none"
    BY <2>1 DEF StreamsOK, RunsOK, Rests
  <2>2. Rests("terminated") => Runs = {} BY <2>1 DEF Owned
  <2>3. Rests("connected") => Runs \subseteq self.streams BY <2>1 DEF Owned, Adding
  <2> QED BY <2>2, <2>3 DEF NoStreamLeft
<1>2. Init => DInv /\ StreamsOK
  <2> SUFFICES ASSUME Init PROVE DInv /\ StreamsOK OBVIOUS
  <2>1. DInv BY InitDInv
  <2>2. /\ self.pc = "none" /\ self.state \in {"connected", "none"}
        /\ life = [s \in Streams |-> IF s \in self.streams THEN "on" ELSE "idle"]
        /\ self.state = "none" => self.streams = {}
    BY InitSInv
  <2>3. IsLife BY <2>2 DEF IsLife
  <2>4. Runs \subseteq Owned(self) BY <2>2 DEF Runs, Owned, Adding
  <2>5. Placed(self, inv) BY <2>2 DEF Placed
  <2> QED BY <2>1, <2>3, <2>4, <2>5 DEF StreamsOK, RunsOK
<1>3. DInv /\ StreamsOK /\ [Next]_vars => (DInv /\ StreamsOK)'
  <2> SUFFICES ASSUME DInv, StreamsOK, [Next]_vars PROVE DInv' /\ StreamsOK' OBVIOUS
  <2>1. DInv' BY DInvStays
  <2>2. Keeping BY NextOwns DEF Kept, DInv
  <2> QED BY <2>1, <2>2 DEF Keeping, StreamsOK, RunsOK
<1> QED BY <1>1, <1>2, <1>3, PTL DEF Spec
=============================================================================
