----------------------------- MODULE SIPRequest -----------------------------
(***************************************************************************)
(* The life of an outgoing non-dialog SIP request: the Request class of    *)
(* the core (core/_core.request.pxi), from the moment it is sent until its *)
(* last event has been queued for the engine thread                        *)
(* (core/_core.event.pxi).  REGISTER, PUBLISH and MESSAGE all go through   *)
(* it; the modules above add the objects that own the requests.            *)
(*                                                                         *)
(* The SIP transaction, its retransmissions and the network belong to the  *)
(* pjsip library: what they do to a request is a nondeterministic action.  *)
(* A request's timer is pjsip's as well; it is armed whenever the request  *)
(* is IN_PROGRESS or EXPIRING.                                             *)
(***************************************************************************)
EXTENDS Naturals, Sequences

CONSTANTS
    Requests,     \* identities of the Request objects that can be alive at once
    Credentials,  \* BOOLEAN: whether requests are made with credentials
    Codes,        \* the answers a failed request can carry
    Transport,    \* the member of Codes reported when the request got no answer
    Grants        \* subset of BOOLEAN: may a 2xx grant a positive expiry / none

ASSUME RequestAssumption ==
    /\ Credentials \in BOOLEAN
    /\ Transport \in Codes
    /\ Grants \subseteq BOOLEAN

VARIABLES
    request,      \* [Requests -> state of the object]
    events        \* the engine's event queue, filled by the pjsip callbacks

requestVars == <<request, events>>

RequestState == {"INIT", "IN_PROGRESS", "EXPIRING", "TERMINATED"}

(***************************************************************************)
(* need_auth: a 401/407 may still be answered with credentials; asks: the  *)
(* request carries a positive Expires; rest: the expiry warning is still   *)
(* to come (_expire_rest > 0).                                             *)
(***************************************************************************)
RequestRecord == [state : RequestState, need_auth : BOOLEAN,
                  asks : BOOLEAN, rest : BOOLEAN]

EventName == {"SIPRequestDidSucceed", "SIPRequestDidFail",
              "SIPRequestWillExpire", "SIPRequestDidEnd"}

NoCode == "no code"

\* Only a failure carries a code.
Event ==
    [name : EventName \ {"SIPRequestDidFail"}, obj : Requests, code : {NoCode}]
    \cup [name : {"SIPRequestDidFail"}, obj : Requests, code : Codes]

RequestTypeOK ==
    /\ request \in [Requests -> RequestRecord]
    /\ events \in Seq(Event)

\* A terminated object: none of its other fields is read again.
Terminated == [state |-> "TERMINATED", need_auth |-> FALSE,
               asks |-> FALSE, rest |-> FALSE]

Unsent == [Terminated EXCEPT !.state = "INIT"]

RequestInit ==
    /\ request = [r \in Requests |-> Unsent]
    /\ events = <<>>

-----------------------------------------------------------------------------
DidSucceed(r) == [name |-> "SIPRequestDidSucceed", obj |-> r, code |-> NoCode]
DidFail(r, c) == [name |-> "SIPRequestDidFail", obj |-> r, code |-> c]
WillExpire(r) == [name |-> "SIPRequestWillExpire", obj |-> r, code |-> NoCode]
DidEnd(r)     == [name |-> "SIPRequestDidEnd", obj |-> r, code |-> NoCode]

Add1(q, e) == Append(q, e)
Add2(q, e, f) == Append(Append(q, e), f)

\* Does queue q hold an event of r with one of these names?
Has(q, r, names) == \E i \in 1..Len(q) : q[i].obj = r /\ q[i].name \in names

Queued(r, names) == Has(events, r, names)

AnswerEvent == {"SIPRequestDidSucceed", "SIPRequestDidFail"}

\* The object that send() leaves behind.
Sent(asks) == [state |-> "IN_PROGRESS", need_auth |-> Credentials,
               asks |-> asks, rest |-> FALSE]

(***************************************************************************)
(* end() as a pair of functions of the state, since the callers of end()   *)
(* do more in the same step.  pjsip_tsx_terminate() runs the transaction   *)
(* callback before it returns, so that an IN_PROGRESS request fails and    *)
(* ends within the call.                                                   *)
(***************************************************************************)
AfterEnd(r) ==
    IF request[r].state \in {"IN_PROGRESS", "EXPIRING"}
    THEN [request EXCEPT ![r] = Terminated] ELSE request

EventsAfterEnd(r) ==
    CASE request[r].state = "IN_PROGRESS" ->
            Add2(events, DidFail(r, Transport), DidEnd(r))
      [] request[r].state = "EXPIRING" -> Add1(events, DidEnd(r))
      [] OTHER -> events

-----------------------------------------------------------------------------
(***************************************************************************)
(* What pjsip does to a request that is in progress.                       *)
(***************************************************************************)

\* A 401/407 that can be answered: the request is sent again, once.
AuthRetried(r) ==
    /\ request[r].state = "IN_PROGRESS" /\ request[r].need_auth
    /\ request' = [request EXCEPT ![r].need_auth = FALSE]
    /\ UNCHANGED events

\* A 401/407 whose authenticated copy cannot be built.
AuthNotBuilt(r) ==
    /\ request[r].state = "IN_PROGRESS" /\ request[r].need_auth
    /\ request' = [request EXCEPT ![r] = Terminated]
    /\ events' = Add2(events, DidFail(r, Transport), DidEnd(r))

(***************************************************************************)
(* A 401/407 whose authenticated copy cannot be sent.  The new transaction *)
(* already points to the object, so pjsip reports its transport error from *)
(* within pjsip_tsx_send_msg() and the failed call then reports it again.  *)
(***************************************************************************)
AuthNotSent(r) ==
    /\ request[r].state = "IN_PROGRESS" /\ request[r].need_auth
    /\ request' = [request EXCEPT ![r] = Terminated]
    /\ events' = Add2(Add2(events, DidFail(r, Transport), DidEnd(r)),
                      DidFail(r, Transport), DidEnd(r))

\* Faulty: without a positive expiry the end of the request is not reported.
AcceptedSilently(r) ==
    /\ request[r].state = "IN_PROGRESS"
    /\ request' = [request EXCEPT ![r] = Terminated]
    /\ events' = Add1(events, DidSucceed(r))

\* A 2xx.  Without a positive expiry the request is over at once.
Accepted(r) ==
    /\ request[r].state = "IN_PROGRESS"
    /\ \/ /\ request[r].asks /\ TRUE \in Grants
          /\ request' = [request EXCEPT ![r].state = "EXPIRING",
                                        ![r].need_auth = FALSE, ![r].rest = TRUE]
          /\ events' = Add1(events, DidSucceed(r))
       \/ /\ request[r].asks => FALSE \in Grants
          /\ request' = [request EXCEPT ![r] = Terminated]
          /\ events' = Add2(events, DidSucceed(r), DidEnd(r))

\* A final answer other than a 2xx, when it does not start authentication.
Refused(r) ==
    /\ request[r].state = "IN_PROGRESS"
    /\ \E c \in Codes :
        /\ request' = [request EXCEPT ![r] = Terminated]
        /\ events' = Add2(events, DidFail(r, c), DidEnd(r))

\* Faulty: a request without an answer just ends.
TransactionJustEnds(r) ==
    /\ request[r].state = "IN_PROGRESS"
    /\ request' = [request EXCEPT ![r] = Terminated]
    /\ events' = Add1(events, DidEnd(r))

\* The transaction ends without an answer: transport error or pjsip's timeout.
TransactionTerminated(r) ==
    /\ request[r].state = "IN_PROGRESS"
    /\ request' = [request EXCEPT ![r] = Terminated]
    /\ events' = Add2(events, DidFail(r, Transport), DidEnd(r))

(***************************************************************************)
(* The request's own timer: the timeout given to send(), the warning that  *)
(* the binding is about to expire, and the expiry itself.                  *)
(***************************************************************************)
RequestTimer(r) ==
    \/ TransactionTerminated(r)
    \/ /\ request[r].state = "EXPIRING" /\ request[r].rest
       /\ request' = [request EXCEPT ![r].rest = FALSE]
       /\ events' = Add1(events, WillExpire(r))
    \/ /\ request[r].state = "EXPIRING" /\ ~request[r].rest
       /\ request' = [request EXCEPT ![r] = Terminated]
       /\ events' = Add1(events, DidEnd(r))

Pjsip(r) == \/ AuthRetried(r) \/ AuthNotBuilt(r) \/ AuthNotSent(r)
            \/ Accepted(r) \/ Refused(r) \/ RequestTimer(r)

=============================================================================
