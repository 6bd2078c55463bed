----------------------------- MODULE RTPStream ------------------------------
(***************************************************************************)
(* AudioStream and VideoStream.  The session calls them under their lock;  *)
(* notifications of the engine come from its own thread, and some of their *)
(* handlers check the state under the lock and act on it afterwards.       *)
(* Hold: the session tells the stream, offers what the stream says, and    *)
(* the stream follows what has been negotiated, which takes a re-INVITE in *)
(* each direction; the peer sends its own.  A direction is a subset of     *)
(* {"send", "recv"}.                                                       *)
(***************************************************************************)
EXTENDS StreamUser, FiniteSets

CONSTANTS MaxServers,   \* bound: STUN servers that are tried
          MaxHolds,     \* bound: calls of hold() and unhold()
          MaxOffers     \* bound: offers of the peer

VARIABLES rtp, talk
rtpVars == <<userVars, rtp, talk>>

BothWays == {"send", "recv"}
RTPInit ==
  /\ \E media \in {"audio", "video"}, tryIce \in BOOLEAN :
       rtp = [media |-> media, state |-> "NULL", tryIce |-> tryIce, ice |-> "NULL",
              initialized |-> FALSE, done |-> FALSE, servers |-> 0, lookup |-> FALSE,
              waiting |-> FALSE, doing |-> "none", transport |-> FALSE, encryption |-> TRUE,
              direction |-> BothWays, onLocal |-> FALSE, onRemote |-> FALSE, request |-> "none",
              bridged |-> media = "video", rec |-> "none", recBridged |-> FALSE,
              timer |-> "none", recorded |-> FALSE]
  /\ talk = [connected |-> FALSE, on |-> FALSE, wanted |-> FALSE, exchange |-> "none",
             offer |-> BothWays, holds |-> 0, offers |-> 0]

TalkKept == UNCHANGED talk
Quiet == UNCHANGED <<kind, life, told, slips>>
NotesSlips(names) == slips' = slips \cup names
Audio(r) == r.media = "audio"

\* ---- getting a transport
\* _try_next_rtp_transport(): the next server, unless its transport cannot be made at once; when
\* the constructor fails the name the handler of the exception uses is not bound, and that is all
TryNext(r) ==
  \/ /\ r.servers > 0 /\ Quiet
     /\ \E left \in 0..(r.servers - 1) :
          \/ rtp' = [r EXCEPT !.servers = left, !.waiting = TRUE]
          \/ rtp' = [r EXCEPT !.servers = left]
  \/ rtp' = [r EXCEPT !.servers = 0, !.state = "ENDED", !.encryption = FALSE]
       /\ Tell("DidNotInitialize") /\ UNCHANGED slips

RTPInitialize ==
  /\ CallInitialize /\ TalkKept
  /\ \/ rtp.tryIce /\ rtp' = [rtp EXCEPT !.state = "INITIALIZING", !.lookup = TRUE]
     \/ \E servers \in IF rtp.tryIce THEN 1..(MaxServers + 1) ELSE {1} :
          rtp' = [rtp EXCEPT !.state = "INITIALIZING", !.servers = servers - 1, !.waiting = TRUE]
RTPInitializeFails ==
  /\ life = "new" /\ TalkKept /\ Tell("DidNotInitialize") /\ UNCHANGED slips
  /\ rtp' = [rtp EXCEPT !.state = "ENDED", !.encryption = FALSE]
\* the handlers of the engine's and the lookup's notifications look, and act later
LookupEnds ==
  /\ rtp.lookup /\ Quiet /\ TalkKept
  /\ rtp' = [rtp EXCEPT !.lookup = FALSE, !.doing = IF rtp.state = "ENDED" THEN @ ELSE "init"]
LookupActs ==
  /\ rtp.doing = "init" /\ TalkKept
  /\ \E servers \in 1..(MaxServers + 1) :
       TryNext([rtp EXCEPT !.doing = "none", !.servers = servers])
TransportDidFail ==
  /\ rtp.waiting /\ Quiet /\ TalkKept
  /\ rtp' = [rtp EXCEPT !.waiting = FALSE, !.doing = IF rtp.state = "ENDED" THEN @ ELSE "next"]
TransportFailureActs ==
  /\ rtp.doing = "next" /\ TalkKept /\ TryNext([rtp EXCEPT !.doing = "none"])
\* altered: a transport that comes after the end is taken
TransportTakenAnyway ==
  /\ rtp.waiting /\ TalkKept /\ Tell("DidInitialize") /\ UNCHANGED slips
  /\ rtp' = [rtp EXCEPT !.waiting = FALSE, !.initialized = TRUE, !.state = "INITIALIZED",
                        !.transport = TRUE]
TransportDidInitialize ==
  /\ rtp.waiting /\ TalkKept
  /\ IF rtp.state = "ENDED" THEN rtp' = [rtp EXCEPT !.waiting = FALSE] /\ Quiet
     ELSE /\ UNCHANGED slips
          /\ \/ /\ Tell("DidInitialize")
                /\ rtp' = [rtp EXCEPT !.waiting = FALSE, !.initialized = TRUE,
                                      !.state = "INITIALIZED", !.transport = TRUE]
             \/ /\ Tell("DidNotInitialize")
                /\ rtp' = [rtp EXCEPT !.waiting = FALSE, !.state = "ENDED", !.encryption = FALSE]

\* ---- hold
\* the direction that is offered, and the one that answers an offer
OfferDirection(r) ==
  LET held == r.request = "hold" \/ (r.request = "none" /\ r.onLocal)
      may == IF held THEN "send" ELSE "recv"
  IN IF "send" \in r.direction THEN {"send", may} ELSE {"recv"} \cap {may}
AnswerDirection(r) == IF "recv" \in r.direction THEN BothWays ELSE {"send"}

\* altered: the stream stays in its bridge
HeldStays(r) ==
  IF r.onLocal \/ r.request = "hold" THEN r ELSE [r EXCEPT !.request = "hold"]
HeldBy(r) ==
  IF r.onLocal \/ r.request = "hold" THEN r
  ELSE [r EXCEPT !.request = "hold",
                 !.bridged = IF r.state = "ESTABLISHED" /\ r.direction # {} THEN FALSE ELSE @]
UnheldBy(r) ==
  IF (~r.onLocal /\ r.request # "hold") \/ r.request = "unhold" THEN r
  ELSE [r EXCEPT !.request = IF @ = "hold" THEN "none" ELSE "unhold",
                 !.bridged = @ \/ (r.state = "ESTABLISHED" /\ r.request = "hold")]

\* _check_hold(), and _check_recording(): the stream follows the direction d
Recorded(r) == [r EXCEPT !.recBridged = r.rec = "active" /\ ~r.onLocal /\ ~r.onRemote]
CheckHold(r, d, initial) ==
  LET onLocal == IF d = {} THEN r.onLocal ELSE d = {"send"}
      onRemote == "send" \notin d
      resumes == IF Audio(r)
                 THEN /\ initial \/ r.onLocal \/ r.direction = {}
                      /\ d # {} /\ ~onLocal /\ r.request # "hold"
                 ELSE ~onLocal /\ ~onRemote /\ (r.onLocal \/ r.onRemote)
      pauses == ~Audio(r) /\ (onLocal \/ onRemote)
  IN Recorded([r EXCEPT !.direction = d, !.onLocal = onLocal, !.onRemote = onRemote,
                        !.bridged = (@ \/ resumes) /\ ~pauses,
                        !.rec = IF @ = "waiting" THEN "active" ELSE @])
\* the recorder that cannot be started, or taken out of a bridge it is not in, is an exception
\* in the caller of start() and update(), which ends there
RecorderRaises == rtp.rec = "waiting"

\* ---- the calls of the session
Keyframes(r) == IF Audio(r) THEN r ELSE [r EXCEPT !.timer = IF @ = "none" THEN "queued" ELSE @]
Starting == life' = "starting" /\ UNCHANGED <<kind, told>>
\* a direction that looks like a hold that nobody asked for, or hides whether there is one
OddWays(d) ==
  (IF d = {"send"} /\ "recv" \in talk.offer THEN {"unasked"} ELSE {})
  \cup (IF d = {} /\ (~rtp.onLocal \/ "recv" \in talk.offer) THEN {"inactive"} ELSE {})
RTPStart ==
  /\ life = "ready" /\ TalkKept
  /\ \E d \in SUBSET BothWays :
       LET r == CheckHold(rtp, d, TRUE)
       IN \/ /\ rtp.tryIce /\ rtp.ice = "NULL" /\ Starting /\ NotesSlips(OddWays(d))
             /\ rtp' = [r EXCEPT !.state = "WAIT_ICE"]
          \/ /\ ~rtp.tryIce /\ Tell("DidStart") /\ NotesSlips(OddWays(d))
             /\ rtp' = Keyframes([r EXCEPT !.state = "ESTABLISHED"])
          \/ /\ RecorderRaises /\ Starting /\ NotesSlips({"recorder"})
             /\ rtp' = [r EXCEPT !.rec = "none"]
ICEEnds ==
  /\ rtp.state = "WAIT_ICE" /\ Quiet /\ TalkKept
  /\ \E ice \in {"IN_USE", "FAILED"} :
       rtp' = Keyframes([rtp EXCEPT !.ice = ice, !.state = "ESTABLISHED", !.doing = "start"])
ICETells ==
  /\ rtp.doing = "start" /\ TalkKept /\ Tell("DidStart") /\ UNCHANGED slips
  /\ rtp' = [rtp EXCEPT !.doing = "none"]
\* the keyframe timer is made by the reactor
SendKeyframes ==
  /\ rtp.timer = "queued" /\ UNCHANGED <<kind, life, told>> /\ TalkKept
  /\ rtp' = [rtp EXCEPT !.timer = "running"]
  /\ NotesSlips(IF rtp.done THEN {"keyframes"} ELSE {})

RTPDeactivate ==
  /\ CallDeactivate /\ TalkKept
  /\ rtp' = IF Audio(rtp) THEN [rtp EXCEPT !.bridged = FALSE, !.recBridged = FALSE] ELSE rtp
RTPEnd ==
  /\ life = "leaving" /\ life' = "over" /\ UNCHANGED <<kind, slips>> /\ TalkKept
  /\ LET over == [rtp EXCEPT !.done = TRUE, !.state = "ENDED", !.transport = FALSE,
                             !.encryption = FALSE, !.rec = "none", !.recBridged = FALSE,
                             !.timer = IF @ = "running" THEN "none" ELSE @]
     IN IF rtp.state = "ENDED" \/ rtp.done THEN UNCHANGED <<rtp, told>>
        ELSE /\ rtp' = over
             /\ told' = told \cup IF rtp.initialized THEN {"WillEnd", "DidEnd"}
                                  ELSE {"DidNotInitialize"}

StartRecording ==
  /\ Audio(rtp) /\ ~rtp.recorded /\ life \in {"ready", "starting", "on"} /\ Quiet /\ TalkKept
  /\ LET r == [rtp EXCEPT !.recorded = TRUE]
     IN rtp' = IF rtp.state = "ESTABLISHED" THEN Recorded([r EXCEPT !.rec = "active"])
               ELSE [r EXCEPT !.rec = "waiting"]
StopRecording ==
  /\ rtp.rec # "none" /\ rtp.state # "ENDED" /\ Quiet /\ TalkKept
  /\ rtp' = [rtp EXCEPT !.rec = "none", !.recBridged = FALSE]

\* ---- hold, between the session, the stream and the peer
Established == life = "on" /\ rtp.state = "ESTABLISHED"
NoExchange == talk.exchange = "none"
SendsOffer(r, t, what) == rtp' = r /\ talk' = [t EXCEPT !.exchange = what, !.offer = OfferDirection(r)]
\* the re-INVITE is over, with or without an update
Done == [hold |-> "holdDone", unhold |-> "unholdDone", peer |-> "peerDone"]
IsOver(what) == talk.exchange \in {what, Done[what]}
Connects ==
  /\ Established /\ ~talk.connected /\ Quiet
  /\ LET t == [talk EXCEPT !.connected = TRUE]
     IN IF t.wanted THEN SendsOffer(rtp, t, "hold") ELSE talk' = t /\ UNCHANGED rtp
\* bridge.remove() of a stream that is not in its bridge raises, after the session took note
HoldRaises(r) == Audio(r) /\ HeldBy(r) # r /\ r.state = "ESTABLISHED" /\ r.direction # {} /\ ~r.bridged
Hold ==
  /\ life \in {"ready", "starting", "on"} /\ talk.holds < MaxHolds /\ ~talk.on /\ ~talk.wanted
  /\ UNCHANGED <<kind, life, told>>
  /\ NotesSlips((IF rtp.onLocal /\ rtp.bridged THEN {"again"} ELSE {})
                \cup (IF Audio(rtp) /\ rtp.state = "WAIT_ICE" THEN {"early"} ELSE {}))
  /\ LET t == [talk EXCEPT !.holds = @ + 1, !.wanted = TRUE]
     IN IF HoldRaises(rtp) THEN talk' = t /\ UNCHANGED rtp
        ELSE IF talk.connected /\ NoExchange THEN SendsOffer(HeldBy(rtp), t, "hold")
        ELSE rtp' = HeldBy(rtp) /\ talk' = t
Unhold ==
  /\ life \in {"ready", "starting", "on"} /\ talk.holds < MaxHolds /\ (talk.on \/ talk.wanted)
  /\ UNCHANGED <<kind, life, told>>
  /\ NotesSlips((IF rtp.state = "WAIT_ICE" /\ ~rtp.bridged THEN {"early"} ELSE {})
                \cup (IF IsOver("peer") THEN {"forgotten"} ELSE {}))
  /\ LET t == [talk EXCEPT !.holds = @ + 1, !.wanted = FALSE]
     IN IF talk.connected /\ NoExchange THEN SendsOffer(UnheldBy(rtp), t, "unhold")
        ELSE rtp' = UnheldBy(rtp) /\ talk' = t
\* the peer offers, or asks for an offer: a direction of "inactive" is reset first
PeerOffers ==
  /\ Established /\ talk.connected /\ NoExchange /\ talk.offers < MaxOffers /\ Quiet
  /\ LET t == [talk EXCEPT !.offers = @ + 1]
     IN \/ talk' = [t EXCEPT !.exchange = "peer", !.offer = AnswerDirection(rtp)] /\ UNCHANGED rtp
        \/ LET r == IF Audio(rtp) /\ rtp.direction = {} /\ ~rtp.onLocal
                    THEN CheckHold(rtp, BothWays, FALSE) ELSE rtp
           IN SendsOffer(r, t, "peer")

\* update(): what has been negotiated is a part of what was offered
Negotiated(d) ==
  LET r == CheckHold(rtp, d, FALSE)
  IN /\ rtp' = [r EXCEPT !.request = "none"]
     /\ UNCHANGED <<kind, life, told>>
     /\ NotesSlips((IF talk.exchange = "peer" /\ rtp.request # "none" THEN {"erased"} ELSE {})
              \cup OddWays(d))
SDPUpdate ==
  /\ Established /\ talk.exchange \in {"hold", "unhold", "peer"}
  /\ \/ \E d \in SUBSET talk.offer :
          Negotiated(d) /\ talk' = [talk EXCEPT !.exchange = Done[@]]
     \* the transport of a stream whose address has changed cannot be made
     \/ /\ Audio(rtp) /\ rtp.ice # "IN_USE" /\ talk' = [talk EXCEPT !.exchange = "broken"]
        /\ \/ /\ rtp.rec # "none" /\ ~rtp.recBridged /\ UNCHANGED <<rtp, kind, life, told>>
              /\ NotesSlips({"recorder"})
           \/ /\ rtp.rec = "none" \/ rtp.recBridged
              /\ rtp' = [rtp EXCEPT !.state = "ENDED", !.recBridged = FALSE]
              /\ Tell("DidFail") /\ NotesSlips({"unended"})
HoldEnds ==
  /\ Established /\ IsOver("hold") /\ UNCHANGED <<kind, life, told>>
  /\ NotesSlips(IF talk.exchange = "hold" /\ rtp.bridged THEN {"refused"} ELSE {})
  /\ IF talk.wanted
     THEN /\ talk' = [talk EXCEPT !.on = TRUE, !.wanted = FALSE, !.exchange = "none"]
          /\ UNCHANGED rtp
     ELSE SendsOffer(UnheldBy(rtp), [talk EXCEPT !.on = TRUE], "unhold")
UnholdEnds ==
  /\ Established /\ IsOver("unhold") /\ UNCHANGED <<kind, life, told>>
  /\ NotesSlips(IF talk.exchange = "unhold" THEN {"refused"} ELSE {})
  /\ IF talk.wanted /\ HoldRaises(rtp)
     THEN talk' = [talk EXCEPT !.on = FALSE, !.exchange = "broken"] /\ UNCHANGED rtp
     ELSE IF talk.wanted THEN SendsOffer(HeldBy(rtp), [talk EXCEPT !.on = FALSE], "hold")
     ELSE talk' = [talk EXCEPT !.on = FALSE, !.exchange = "none"] /\ UNCHANGED rtp
PeerEnds ==
  /\ Established /\ IsOver("peer") /\ UNCHANGED <<kind, life, told, rtp>>
  /\ NotesSlips(IF talk.wanted THEN {"forgotten"} ELSE {})
  /\ talk' = [talk EXCEPT !.exchange = "none"]

RTPNext ==
  \/ RTPInitialize \/ RTPInitializeFails \/ LookupEnds \/ LookupActs
  \/ TransportDidFail \/ TransportFailureActs \/ TransportDidInitialize
  \/ RTPStart \/ ICEEnds \/ ICETells \/ SendKeyframes \/ RTPDeactivate \/ RTPEnd
  \/ StartRecording \/ StopRecording
  \/ Connects \/ Hold \/ Unhold \/ PeerOffers \/ SDPUpdate \/ HoldEnds \/ UnholdEnds \/ PeerEnds

RTPGone ==
  /\ ~rtp.transport /\ ~rtp.encryption /\ rtp.timer # "running" /\ rtp.rec # "active"
  /\ ~rtp.waiting /\ rtp.doing = "none"

\* A stream of a session that is on hold is not in its bridge, whatever the peer offered and
\* however often hold() and unhold() were called, also while a re-INVITE was under way; the
\* stream of a session that is not on hold can be heard; and a recorder records exactly what
\* is not on hold.
HoldIsKept ==
  kind = "rtp" /\ Established /\ talk.connected /\ NoExchange /\ ~talk.wanted /\ slips = {} =>
    /\ talk.on => ~rtp.bridged
    /\ ~talk.on => rtp.bridged \/ rtp.direction = {} \/ (~Audio(rtp) /\ rtp.onRemote)
    /\ rtp.rec = "active" => (rtp.recBridged <=> ~(rtp.onLocal \/ rtp.onRemote))
=============================================================================
