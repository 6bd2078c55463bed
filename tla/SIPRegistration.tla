--------------------------- MODULE SIPRegistration ---------------------------
(***************************************************************************)
(* The Registration objects of core/_primitives.py: each keeps at most one *)
(* request under way (current) and the request that made the last          *)
(* successful registration (last), and turns request events into           *)
(* SIPRegistration* notifications.                                         *)
(*                                                                         *)
(* register() and end() are called from the reactor thread; the events are *)
(* handled on the engine thread, one at a time, in the order in which they *)
(* were queued.  Both hold the object's lock, so each is one step.         *)
(***************************************************************************)
EXTENDS SIPRequest

CONSTANTS
    Registrations,    \* identities of the Registration objects alive at once
    NoRequest,        \* None
    NoRegistration    \* None

ASSUME RegistrationAssumption ==
    /\ NoRequest \notin Requests
    /\ NoRegistration \notin Registrations

VARIABLES
    registration,  \* [Registrations -> state of the object]
    owner,         \* [Requests -> the registration that observes the request]
    observed,      \* the registrations whose notifications have an observer
    posted         \* notifications posted on the engine thread, in order

registrationVars == <<registration, owner, observed, posted>>

RegistrationRecord == [current : Requests \cup {NoRequest},
                       last : Requests \cup {NoRequest},
                       unregistering : BOOLEAN]

NotificationName ==
    {"SIPRegistrationDidSucceed", "SIPRegistrationDidFail",
     "SIPRegistrationDidEnd", "SIPRegistrationDidNotEnd",
     "SIPRegistrationWillExpire"}

Notification == [name : NotificationName, obj : Registrations,
                 code : Codes \cup {NoCode}]

RegistrationTypeOK ==
    /\ registration \in [Registrations -> RegistrationRecord]
    /\ owner \in [Requests -> Registrations \cup {NoRegistration}]
    /\ observed \subseteq Registrations
    /\ posted \in Seq(Notification)

NewRegistration == [current |-> NoRequest, last |-> NoRequest,
                    unregistering |-> FALSE]

RegistrationInit ==
    /\ registration = [g \in Registrations |-> NewRegistration]
    /\ owner = [r \in Requests |-> NoRegistration]
    /\ posted = <<>>

Note(n, g, c) == [name |-> n, obj |-> g, code |-> c]

\* A notification reaches a queue only if somebody observes its sender.
Post(g, n, c) ==
    posted' = IF g \in observed THEN Append(posted, Note(n, g, c)) ELSE posted

-----------------------------------------------------------------------------
(***************************************************************************)
(* _make_and_send_request().  A request identity is free when nothing      *)
(* refers to the object that bore it.                                      *)
(***************************************************************************)
Free(r) == /\ request[r].state \in {"INIT", "TERMINATED"}
           /\ owner[r] = NoRegistration
           /\ ~Queued(r, EventName)

FreeRequest == CHOOSE r \in Requests : Free(r)

\* The request under way, if there is one, is cancelled.
CancelCurrent(g) ==
    LET c == registration[g].current
    IN  IF c = NoRequest THEN UNCHANGED requestVars
        ELSE request' = AfterEnd(c) /\ events' = EventsAfterEnd(c)

SendRequest(g, asks) ==
    LET c == registration[g].current
        r == FreeRequest
    IN  /\ \E q \in Requests : Free(q)
        /\ request' = [(IF c = NoRequest THEN request ELSE AfterEnd(c))
                          EXCEPT ![r] = Sent(asks)]
        /\ events' = IF c = NoRequest THEN events ELSE EventsAfterEnd(c)
        /\ owner' = [owner EXCEPT ![r] = g]
        /\ registration' = [registration EXCEPT ![g].current = r,
                                                ![g].unregistering = ~asks]

(***************************************************************************)
(* The request cannot be built (nothing has happened yet), or it cannot be *)
(* sent (the one under way has been cancelled already).                    *)
(***************************************************************************)
SendError(g) ==
    /\ \/ UNCHANGED <<requestVars, registration>>
       \/ /\ CancelCurrent(g)
          /\ registration' = [registration EXCEPT ![g].current = NoRequest]
    /\ UNCHANGED owner

\* Faulty: end() without its early return.
NeverNothingToEnd(g) == FALSE

\* end() returns silently when there is no registration to end.
NothingToEnd(g) == registration[g].last = NoRequest

-----------------------------------------------------------------------------
(***************************************************************************)
(* The handlers of the request events, on the engine thread.               *)
(***************************************************************************)
Handling(name) == events # <<>> /\ Head(events).name = name

Req == Head(events).obj
Owner == owner[Req]
Obj == registration[Owner]

NH_SIPRequestDidSucceed ==
    /\ Handling("SIPRequestDidSucceed") /\ Owner # NoRegistration
    /\ Req = Obj.current
    /\ IF Obj.unregistering
       THEN /\ registration' = [registration EXCEPT ![Owner].current = NoRequest,
                                                    ![Owner].last = NoRequest]
            /\ IF Obj.last = NoRequest
               THEN request' = request /\ events' = Tail(events)
               ELSE request' = AfterEnd(Obj.last)
                    /\ events' = Tail(EventsAfterEnd(Obj.last))
            /\ Post(Owner, "SIPRegistrationDidEnd", NoCode)
       ELSE /\ registration' = [registration EXCEPT ![Owner].current = NoRequest,
                                                    ![Owner].last = Req]
            /\ request' = request /\ events' = Tail(events)
            /\ Post(Owner, "SIPRegistrationDidSucceed", NoCode)
    /\ UNCHANGED <<owner, observed>>

NH_SIPRequestDidFail ==
    /\ Handling("SIPRequestDidFail") /\ Owner # NoRegistration
    /\ Req = Obj.current
    /\ registration' = [registration EXCEPT ![Owner].current = NoRequest]
    /\ Post(Owner, IF Obj.unregistering THEN "SIPRegistrationDidNotEnd"
                                        ELSE "SIPRegistrationDidFail",
            Head(events).code)
    /\ events' = Tail(events)
    /\ UNCHANGED <<request, owner, observed>>

NH_SIPRequestWillExpire ==
    /\ Handling("SIPRequestWillExpire") /\ Owner # NoRegistration
    /\ Req = Obj.last
    /\ Post(Owner, "SIPRegistrationWillExpire", NoCode)
    /\ events' = Tail(events)
    /\ UNCHANGED <<request, registration, owner, observed>>

\* The observer goes away; if the binding itself ended, so does the request
\* that was under way.
NH_SIPRequestDidEnd ==
    /\ Handling("SIPRequestDidEnd") /\ Owner # NoRegistration
    /\ owner' = [owner EXCEPT ![Req] = NoRegistration]
    /\ IF Req # Obj.last
       THEN /\ events' = Tail(events)
            /\ UNCHANGED <<request, registration, posted>>
       ELSE /\ registration' = [registration EXCEPT ![Owner].current = NoRequest,
                                                    ![Owner].last = NoRequest]
            /\ IF Obj.current = NoRequest
               THEN request' = request /\ events' = Tail(events)
               ELSE request' = AfterEnd(Obj.current)
                    /\ events' = Tail(EventsAfterEnd(Obj.current))
            /\ Post(Owner, "SIPRegistrationDidEnd", NoCode)
    /\ UNCHANGED observed

\* An event of a request that is no longer observed, or that its handler
\* drops because the request is neither the current nor the last one.
EventDropped ==
    /\ events # <<>>
    /\ \/ Owner = NoRegistration
       \/ /\ Owner # NoRegistration
          /\ \/ Head(events).name \in AnswerEvent /\ Req # Obj.current
             \/ Head(events).name = "SIPRequestWillExpire" /\ Req # Obj.last
    /\ events' = Tail(events)
    /\ UNCHANGED <<request, registrationVars>>

\* One turn of the engine thread over its event queue.
HandleEvent == \/ NH_SIPRequestDidSucceed \/ NH_SIPRequestDidFail
               \/ NH_SIPRequestWillExpire \/ NH_SIPRequestDidEnd
               \/ EventDropped

\* pjsip's part of the engine thread.
PjsipStep == (\E r \in Requests : Pjsip(r)) /\ UNCHANGED registrationVars

-----------------------------------------------------------------------------
(***************************************************************************)
(* The object on its own, used by a client that calls register() and end() *)
(* whenever it likes.  A SIPCoreError is reported on the spot, on the      *)
(* client's own thread, and leaves nothing in posted.                      *)
(***************************************************************************)
Register(g) == SendRequest(g, TRUE) /\ UNCHANGED <<observed, posted>>

End(g) == /\ ~NothingToEnd(g)
          /\ SendRequest(g, FALSE) /\ UNCHANGED <<observed, posted>>

CallError(g) == SendError(g) /\ UNCHANGED <<observed, posted>>

Deliver == /\ posted # <<>>
           /\ posted' = Tail(posted)
           /\ UNCHANGED <<requestVars, registration, owner, observed>>

Client == \/ \E g \in Registrations : Register(g) \/ End(g) \/ CallError(g)
          \/ Deliver

ObjectInit == RequestInit /\ RegistrationInit /\ observed = Registrations

ObjectNext == Client \/ HandleEvent \/ PjsipStep

objectVars == <<requestVars, registrationVars>>

ObjectSpec == ObjectInit /\ [][ObjectNext]_objectVars

-----------------------------------------------------------------------------
(***************************************************************************)
(* Correctness.                                                            *)
(***************************************************************************)

ObjectTypeOK == RequestTypeOK /\ RegistrationTypeOK

\* The request under way has not been answered, or its answer is queued.
WillBeAnswered(g) ==
    LET r == registration[g].current
    IN  request[r].state = "IN_PROGRESS" \/ Queued(r, AnswerEvent)

\* The registration still counts down to its expiry, or its end is queued.
WillEnd(g) ==
    LET r == registration[g].last
    IN  request[r].state = "EXPIRING" \/ Queued(r, {"SIPRequestDidEnd"})

\* The call that is pending will be answered: no answer is ever lost between the
\* callbacks, the event queue and the handlers.
CurrentIsAnswered ==
    \A g \in Registrations :
        registration[g].current # NoRequest => WillBeAnswered(g)

\* A registration that reports is_registered ends: its request still counts down
\* to its expiry, or it has ended and is about to be heard of.
LastWillEnd ==
    \A g \in Registrations : registration[g].last # NoRequest => WillEnd(g)

\* Nothing the object has asked for is lost sight of: neither a call that is
\* pending nor a binding that it reports.
NothingLostSightOf == CurrentIsAnswered /\ LastWillEnd

\* An object never has a second request under way: whatever it has sent and
\* still expects an answer to is its current request.
OneRequestUnderWay ==
    \A r \in Requests :
        request[r].state = "IN_PROGRESS" =>
            /\ owner[r] # NoRegistration
            /\ registration[owner[r]].current = r

\* An object that is un-registering still has the registration it ends: the
\* expiry of that registration withdraws the un-REGISTER.
UnregisteringIsBound ==
    \A g \in Registrations :
        registration[g].current # NoRequest /\ registration[g].unregistering
            => registration[g].last # NoRequest

\* The inductive invariant behind the four.  A request that an object refers to
\* is observed by it; the event that ends a request is queued after its answer;
\* a request that was accepted expires, or its end is queued after the answer;
\* a request under way has no event in the queue.
Owned == \A g \in Registrations : \A r \in Requests :
            registration[g].current = r \/ registration[g].last = r
                => owner[r] = g

EndAfterAnswer(q, r) ==
    \A i \in 1..Len(q) : q[i].obj = r /\ q[i].name = "SIPRequestDidEnd" =>
        \E k \in 1..(i-1) : q[k].obj = r /\ q[k].name \in AnswerEvent

EndAfterSuccess(q, r) ==
    \A i \in 1..Len(q) : q[i].obj = r /\ q[i].name = "SIPRequestDidSucceed" =>
        \E k \in (i+1)..Len(q) : q[k].obj = r /\ q[k].name = "SIPRequestDidEnd"

AnswerComesFirst ==
    \A g \in Registrations : registration[g].current # NoRequest =>
        EndAfterAnswer(events, registration[g].current)

AcceptedWillEnd ==
    \A r \in Requests : \/ request[r].state = "EXPIRING"
                        \/ EndAfterSuccess(events, r)

UnderWayIsSilent ==
    \A r \in Requests :
        request[r].state = "IN_PROGRESS" => ~Queued(r, EventName)

ObjectInv == /\ CurrentIsAnswered /\ LastWillEnd /\ OneRequestUnderWay
             /\ UnregisteringIsBound /\ Owned /\ AnswerComesFirst
             /\ AcceptedWillEnd /\ UnderWayIsSilent

\* What the object promises to its user (RegistrationService).
Bound == [g \in Registrations |-> registration[g].last # NoRequest]

PendingCall ==
    [g \in Registrations |->
        IF registration[g].current = NoRequest THEN "none"
        ELSE IF registration[g].unregistering THEN "end" ELSE "register"]

Service == INSTANCE RegistrationService
              WITH bound <- Bound, pending <- PendingCall,
                   watched <- observed, outbox <- posted

ImplementsService == Service!Spec

\* Every call is answered, or replaced by another one: no interleaving of calls,
\* answers and expiries leaves an object waiting for a request for ever.
CallsAreAnswered ==
    \A g \in Registrations : \A r \in Requests :
        registration[g].current = r ~> registration[g].current # r

=============================================================================
