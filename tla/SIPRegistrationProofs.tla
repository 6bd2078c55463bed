------------------------ MODULE SIPRegistrationProofs ------------------------
(***************************************************************************)
(* Proofs about Registration objects for any number of them and of         *)
(* requests: type correctness, the invariants of ObjectInv, and that the   *)
(* objects implement RegistrationService.                                  *)
(***************************************************************************)
EXTENDS SIPRegistration, TLAPS

-----------------------------------------------------------------------------
(***************************************************************************)
(* The event queue.                                                        *)
(***************************************************************************)

\* What Append and Tail do to a queue, index by index.
LEMMA AppendQueue ==
    ASSUME NEW q \in Seq(Event), NEW e \in Event
    PROVE  /\ Append(q, e) \in Seq(Event)
           /\ Len(q) \in Nat
           /\ Len(Append(q, e)) = Len(q) + 1
           /\ \A i \in 1..Len(q) : Append(q, e)[i] = q[i]
           /\ Append(q, e)[Len(q) + 1] = e
  OBVIOUS

LEMMA TailQueue ==
    ASSUME NEW q \in Seq(Event), q # <<>>
    PROVE  /\ Tail(q) \in Seq(Event)
           /\ Head(q) \in Event /\ Head(q) = q[1]
           /\ Len(q) \in Nat /\ Len(q) > 0
           /\ Len(Tail(q)) = Len(q) - 1
           /\ \A i \in 1..(Len(q) - 1) : Tail(q)[i] = q[i + 1]
  OBVIOUS

\* Appending an event adds it to what the queue holds and nothing else.
LEMMA HasAppend ==
    ASSUME NEW q \in Seq(Event), NEW e \in Event, NEW r, NEW names
    PROVE  Has(Append(q, e), r, names)
             <=> Has(q, r, names) \/ (e.obj = r /\ e.name \in names)
  <1> DEFINE p == Append(q, e)
  <1>1. /\ Len(q) \in Nat /\ Len(p) = Len(q) + 1
        /\ \A i \in 1..Len(q) : p[i] = q[i]
        /\ p[Len(q) + 1] = e
    BY AppendQueue
  <1> HIDE DEF p
  <1>2. 1..Len(p) = 1..Len(q) \cup {Len(q) + 1}
    BY <1>1
  <1>3. Has(p, r, names) <=> Has(q, r, names) \/ (e.obj = r /\ e.name \in names)
    BY <1>1, <1>2 DEF Has
  <1> QED  BY <1>3 DEF p

\* Taking the head removes it and nothing else.
LEMMA HasTail ==
    ASSUME NEW q \in Seq(Event), q # <<>>, NEW r, NEW names
    PROVE  Has(q, r, names) <=> \/ Head(q).obj = r /\ Head(q).name \in names
                                \/ Has(Tail(q), r, names)
  <1> DEFINE t == Tail(q)
             n == Len(q) - 1
  <1>1. /\ n \in Nat /\ Len(q) = n + 1 /\ Len(t) = n /\ Head(q) = q[1]
        /\ \A i \in 1..n : t[i] = q[i + 1]
    BY TailQueue
  <1> HIDE DEF t, n
  <1>2. ASSUME Has(q, r, names)
        PROVE  \/ Head(q).obj = r /\ Head(q).name \in names
               \/ Has(t, r, names)
    <2>1. PICK i \in 1..(n + 1) : q[i].obj = r /\ q[i].name \in names
      BY <1>1, <1>2 DEF Has
    <2>2. CASE i = 1
      BY <2>1, <2>2, <1>1
    <2>3. CASE i # 1
      <3>1. i - 1 \in 1..n /\ t[i - 1] = q[i]
        BY <2>1, <2>3, <1>1
      <3> QED  BY <3>1, <2>1, <1>1 DEF Has
    <2> QED  BY <2>2, <2>3
  <1>3. ASSUME Head(q).obj = r /\ Head(q).name \in names
        PROVE  Has(q, r, names)
    BY <1>1, <1>3 DEF Has
  <1>4. ASSUME Has(t, r, names)
        PROVE  Has(q, r, names)
    <2>1. PICK i \in 1..n : t[i].obj = r /\ t[i].name \in names
      BY <1>1, <1>4 DEF Has
    <2>2. i + 1 \in 1..(n + 1) /\ q[i + 1] = t[i]
      BY <2>1, <1>1
    <2> QED  BY <2>1, <2>2, <1>1 DEF Has
  <1> QED  BY <1>2, <1>3, <1>4 DEF t

\* An end that is appended after an answer keeps the order of the two.
LEMMA AnswerOrderAppend ==
    ASSUME NEW q \in Seq(Event), NEW e \in Event, NEW r,
           EndAfterAnswer(q, r),
           e.obj = r /\ e.name = "SIPRequestDidEnd" => Has(q, r, AnswerEvent)
    PROVE  EndAfterAnswer(Append(q, e), r)
  <1> DEFINE p == Append(q, e)
  <1>1. /\ Len(q) \in Nat /\ Len(p) = Len(q) + 1
        /\ \A i \in 1..Len(q) : p[i] = q[i]
        /\ p[Len(q) + 1] = e
    BY AppendQueue
  <1> HIDE DEF p
  <1>2. ASSUME NEW i \in 1..Len(p), p[i].obj = r, p[i].name = "SIPRequestDidEnd"
        PROVE  \E k \in 1..(i-1) : p[k].obj = r /\ p[k].name \in AnswerEvent
    <2>1. CASE i \in 1..Len(q)
      <3>1. PICK k \in 1..(i-1) : q[k].obj = r /\ q[k].name \in AnswerEvent
        BY <1>1, <1>2, <2>1 DEF EndAfterAnswer
      <3> QED  BY <3>1, <2>1, <1>1
    <2>2. CASE i = Len(q) + 1
      <3>1. PICK k \in 1..Len(q) : q[k].obj = r /\ q[k].name \in AnswerEvent
        BY <1>1, <1>2, <2>2 DEF Has
      <3> QED  BY <3>1, <2>2, <1>1
    <2> QED  BY <2>1, <2>2, <1>1
  <1>3. EndAfterAnswer(p, r)
    BY <1>2 DEF EndAfterAnswer
  <1> QED  BY <1>3 DEF p

LEMMA AnswerOrderTail ==
    ASSUME NEW q \in Seq(Event), q # <<>>, NEW r,
           EndAfterAnswer(q, r),
           ~(Head(q).obj = r /\ Head(q).name \in AnswerEvent)
    PROVE  /\ EndAfterAnswer(Tail(q), r)
           /\ ~(Head(q).obj = r /\ Head(q).name = "SIPRequestDidEnd")
  <1> DEFINE t == Tail(q)
             n == Len(q) - 1
  <1>1. /\ n \in Nat /\ Len(q) = n + 1 /\ Len(t) = n /\ Head(q) = q[1]
        /\ \A i \in 1..n : t[i] = q[i + 1]
    BY TailQueue
  <1> HIDE DEF t, n
  <1>2. ASSUME NEW i \in 1..Len(t), t[i].obj = r, t[i].name = "SIPRequestDidEnd"
        PROVE  \E k \in 1..(i-1) : t[k].obj = r /\ t[k].name \in AnswerEvent
    <2>1. i + 1 \in 1..Len(q) /\ q[i + 1] = t[i]
      BY <1>1, <1>2
    <2>2. PICK k \in 1..i : q[k].obj = r /\ q[k].name \in AnswerEvent
      <3>1. \E k \in 1..((i+1)-1) : q[k].obj = r /\ q[k].name \in AnswerEvent
        BY <1>2, <2>1 DEF EndAfterAnswer
      <3> QED  BY <3>1, <1>1, <1>2
    <2>3. k # 1
      BY <2>2, <1>1
    <2>4. k - 1 \in 1..(i - 1) /\ t[k - 1] = q[k]
      BY <2>2, <2>3, <1>1, <1>2
    <2> QED  BY <2>2, <2>4
  <1>3. ~(q[1].obj = r /\ q[1].name = "SIPRequestDidEnd")
    BY <1>1 DEF EndAfterAnswer
  <1>4. EndAfterAnswer(t, r)
    BY <1>2 DEF EndAfterAnswer
  <1> QED  BY <1>1, <1>3, <1>4 DEF t

\* An appended end follows every success that is queued.
LEMMA SuccessOrderAppend ==
    ASSUME NEW q \in Seq(Event), NEW e \in Event, NEW r,
           \/ e.obj = r /\ e.name = "SIPRequestDidEnd"
           \/ /\ EndAfterSuccess(q, r)
              /\ ~(e.obj = r /\ e.name = "SIPRequestDidSucceed")
    PROVE  EndAfterSuccess(Append(q, e), r)
  <1> DEFINE p == Append(q, e)
  <1>1. /\ Len(q) \in Nat /\ Len(p) = Len(q) + 1
        /\ \A i \in 1..Len(q) : p[i] = q[i]
        /\ p[Len(q) + 1] = e
    BY AppendQueue
  <1> HIDE DEF p
  <1>2. ASSUME NEW i \in 1..Len(p), p[i].obj = r,
               p[i].name = "SIPRequestDidSucceed"
        PROVE  \E k \in (i+1)..Len(p) : /\ p[k].obj = r
                                        /\ p[k].name = "SIPRequestDidEnd"
    <2>1. i \in 1..Len(q)
      BY <1>1, <1>2
    <2>2. CASE e.obj = r /\ e.name = "SIPRequestDidEnd"
      <3>1. Len(q) + 1 \in (i+1)..Len(p)
        BY <1>1, <2>1
      <3> QED  BY <3>1, <2>2, <1>1
    <2>3. CASE EndAfterSuccess(q, r)
      <3>1. PICK k \in (i+1)..Len(q) : /\ q[k].obj = r
                                       /\ q[k].name = "SIPRequestDidEnd"
        BY <1>1, <1>2, <2>1, <2>3 DEF EndAfterSuccess
      <3>2. k \in (i+1)..Len(p) /\ p[k] = q[k]
        BY <3>1, <2>1, <1>1
      <3> QED  BY <3>1, <3>2
    <2> QED  BY <2>2, <2>3
  <1>3. EndAfterSuccess(p, r)
    BY <1>2 DEF EndAfterSuccess
  <1> QED  BY <1>3 DEF p

LEMMA SuccessOrderTail ==
    ASSUME NEW q \in Seq(Event), q # <<>>, NEW r, EndAfterSuccess(q, r)
    PROVE  /\ EndAfterSuccess(Tail(q), r)
           /\ Head(q).obj = r /\ Head(q).name = "SIPRequestDidSucceed"
                 => Has(Tail(q), r, {"SIPRequestDidEnd"})
  <1> DEFINE t == Tail(q)
             n == Len(q) - 1
  <1>1. /\ n \in Nat /\ Len(q) = n + 1 /\ Len(t) = n /\ Head(q) = q[1]
        /\ \A i \in 1..n : t[i] = q[i + 1]
    BY TailQueue
  <1> HIDE DEF t, n
  <1>2. ASSUME NEW i \in 1..Len(t), t[i].obj = r,
               t[i].name = "SIPRequestDidSucceed"
        PROVE  \E k \in (i+1)..Len(t) : /\ t[k].obj = r
                                        /\ t[k].name = "SIPRequestDidEnd"
    <2>1. i + 1 \in 1..Len(q) /\ q[i + 1] = t[i]
      BY <1>1, <1>2
    <2>2. PICK k \in ((i+1)+1)..Len(q) : /\ q[k].obj = r
                                         /\ q[k].name = "SIPRequestDidEnd"
      BY <1>2, <2>1 DEF EndAfterSuccess
    <2>3. k - 1 \in (i+1)..Len(t) /\ t[k - 1] = q[k]
      BY <2>2, <1>1, <1>2
    <2> QED  BY <2>2, <2>3
  <1>3. ASSUME q[1].obj = r, q[1].name = "SIPRequestDidSucceed"
        PROVE  Has(t, r, {"SIPRequestDidEnd"})
    <2>1. PICK k \in (1+1)..Len(q) : /\ q[k].obj = r
                                     /\ q[k].name = "SIPRequestDidEnd"
      BY <1>1, <1>3 DEF EndAfterSuccess
    <2>2. k - 1 \in 1..Len(t) /\ t[k - 1] = q[k]
      BY <2>1, <1>1
    <2> QED  BY <2>1, <2>2 DEF Has
  <1>4. EndAfterSuccess(t, r)
    BY <1>2 DEF EndAfterSuccess
  <1> QED  BY <1>1, <1>3, <1>4 DEF t

\* A request without events in the queue has them in the right order.
LEMMA SilentIsOrdered ==
    ASSUME NEW q \in Seq(Event), NEW r, ~Has(q, r, EventName)
    PROVE  EndAfterAnswer(q, r) /\ EndAfterSuccess(q, r)
  BY DEF Has, EndAfterAnswer, EndAfterSuccess, EventName

-----------------------------------------------------------------------------
(***************************************************************************)
(* What Request.end() does to the queue: it adds the events that end the   *)
(* request, after everything that is queued, and nothing else.             *)
(***************************************************************************)
CoreTypeOK == /\ RequestTypeOK
              /\ registration \in [Registrations -> RegistrationRecord]
              /\ owner \in [Requests -> Registrations \cup {NoRegistration}]

CoreInv == CoreTypeOK /\ ObjectInv

LEMMA EventsAreTyped ==
    ASSUME NEW r \in Requests, NEW c \in Codes
    PROVE  /\ DidFail(r, c) \in Event /\ DidSucceed(r) \in Event
           /\ WillExpire(r) \in Event /\ DidEnd(r) \in Event
  BY DEF DidFail, DidSucceed, WillExpire, DidEnd, Event, EventName

LEMMA EventFields ==
    ASSUME NEW e \in Event
    PROVE  /\ e.obj \in Requests /\ e.name \in EventName
           /\ e.code \in Codes \cup {NoCode}
           /\ e.name = "SIPRequestDidFail" => e.code \in Codes
  BY DEF Event, EventName

\* Two events that are added in a row.
LEMMA AddTwo ==
    ASSUME NEW q \in Seq(Event), NEW e \in Event, NEW f \in Event, NEW r, NEW names
    PROVE  /\ Add2(q, e, f) \in Seq(Event)
           /\ Has(Add2(q, e, f), r, names)
                 <=> \/ Has(q, r, names)
                     \/ e.obj = r /\ e.name \in names
                     \/ f.obj = r /\ f.name \in names
  BY AppendQueue, HasAppend DEF Add2

\* An answer and the end that follows it, added at the end of the queue.
LEMMA AddAnswerAndEnd ==
    ASSUME NEW q \in Seq(Event), NEW e \in Event, NEW f \in Event, NEW r,
           e.obj = f.obj, e.name \in AnswerEvent, f.name = "SIPRequestDidEnd"
    PROVE  /\ EndAfterAnswer(q, r) => EndAfterAnswer(Add2(q, e, f), r)
           /\ EndAfterSuccess(q, r) \/ e.obj = r
                 => EndAfterSuccess(Add2(q, e, f), r)
  <1>1. Append(q, e) \in Seq(Event)
    BY AppendQueue
  <1>2. ASSUME EndAfterAnswer(q, r)
        PROVE  EndAfterAnswer(Add2(q, e, f), r)
    <2>1. EndAfterAnswer(Append(q, e), r)
      BY <1>2, AnswerOrderAppend DEF AnswerEvent
    <2>2. f.obj = r => Has(Append(q, e), r, AnswerEvent)
      BY HasAppend
    <2> QED  BY <1>1, <2>1, <2>2, AnswerOrderAppend DEF Add2
  <1>3. ASSUME EndAfterSuccess(q, r) \/ e.obj = r
        PROVE  EndAfterSuccess(Add2(q, e, f), r)
    <2>1. CASE e.obj = r
      BY <1>1, <2>1, SuccessOrderAppend DEF Add2
    <2>2. CASE EndAfterSuccess(q, r) /\ e.obj # r
      <3>1. EndAfterSuccess(Append(q, e), r)
        BY <2>2, SuccessOrderAppend
      <3> QED  BY <1>1, <3>1, SuccessOrderAppend DEF Add2
    <2> QED  BY <1>3, <2>1, <2>2
  <1> QED  BY <1>2, <1>3

LEMMA EndQueue ==
    ASSUME RequestTypeOK, NEW r \in Requests
    PROVE  /\ AfterEnd(r) \in [Requests -> RequestRecord]
           /\ EventsAfterEnd(r) \in Seq(Event)
           /\ AfterEnd(r)[r].state \notin {"IN_PROGRESS", "EXPIRING"}
           /\ \A q \in Requests \ {r} : AfterEnd(r)[q] = request[q]
           /\ \A q, names :
                Has(EventsAfterEnd(r), q, names)
                  <=> \/ Has(events, q, names)
                      \/ /\ q = r /\ request[r].state = "IN_PROGRESS"
                         /\ \/ "SIPRequestDidFail" \in names
                            \/ "SIPRequestDidEnd" \in names
                      \/ /\ q = r /\ request[r].state = "EXPIRING"
                         /\ "SIPRequestDidEnd" \in names
           /\ \A q : q # r /\ EndAfterAnswer(events, q)
                      => EndAfterAnswer(EventsAfterEnd(r), q)
           /\ \A q : EndAfterSuccess(events, q)
                      => EndAfterSuccess(EventsAfterEnd(r), q)
           /\ request[r].state \in {"IN_PROGRESS", "EXPIRING"}
                 => EndAfterSuccess(EventsAfterEnd(r), r)
  <1> DEFINE F == DidFail(r, Transport)
             D == DidEnd(r)
  <1>1. /\ events \in Seq(Event)
        /\ request \in [Requests -> RequestRecord]
    BY DEF RequestTypeOK
  <1>2. /\ F \in Event /\ F.obj = r /\ F.name = "SIPRequestDidFail"
        /\ D \in Event /\ D.obj = r /\ D.name = "SIPRequestDidEnd"
    BY EventsAreTyped, RequestAssumption DEF DidFail, DidEnd
  <1>3. Terminated \in RequestRecord /\ Terminated.state = "TERMINATED"
    BY DEF Terminated, RequestRecord, RequestState
  <1>4. /\ AfterEnd(r) \in [Requests -> RequestRecord]
        /\ AfterEnd(r)[r].state \notin {"IN_PROGRESS", "EXPIRING"}
        /\ \A q \in Requests \ {r} : AfterEnd(r)[q] = request[q]
    BY <1>1, <1>3 DEF AfterEnd
  <1> HIDE DEF F, D
  <1>5. CASE request[r].state = "IN_PROGRESS"
    <2>1. EventsAfterEnd(r) = Add2(events, F, D)
      BY <1>5 DEF EventsAfterEnd, F, D
    <2>2. \A q, names :
            Has(Add2(events, F, D), q, names)
              <=> \/ Has(events, q, names)
                  \/ /\ q = r
                     /\ \/ "SIPRequestDidFail" \in names
                        \/ "SIPRequestDidEnd" \in names
      BY <1>1, <1>2, AddTwo
    <2>3. \A q : /\ EndAfterAnswer(events, q)
                        => EndAfterAnswer(Add2(events, F, D), q)
                 /\ EndAfterSuccess(events, q) \/ q = r
                        => EndAfterSuccess(Add2(events, F, D), q)
      BY <1>1, <1>2, AddAnswerAndEnd DEF AnswerEvent
    <2>4. Add2(events, F, D) \in Seq(Event)
      BY <1>1, <1>2, AddTwo
    <2> QED  BY <1>4, <1>5, <2>1, <2>2, <2>3, <2>4
  <1>6. CASE request[r].state = "EXPIRING"
    <2>1. EventsAfterEnd(r) = Append(events, D)
      BY <1>6 DEF EventsAfterEnd, Add1, D
    <2>2. \A q : q # r /\ EndAfterAnswer(events, q)
                  => EndAfterAnswer(Append(events, D), q)
      BY <1>1, <1>2, AnswerOrderAppend
    <2>3. \A q : EndAfterSuccess(events, q) \/ q = r
                  => EndAfterSuccess(Append(events, D), q)
      BY <1>1, <1>2, SuccessOrderAppend
    <2>4. \A q, names : Has(Append(events, D), q, names)
                          <=> \/ Has(events, q, names)
                              \/ q = r /\ "SIPRequestDidEnd" \in names
      BY <1>1, <1>2, HasAppend
    <2>5. Append(events, D) \in Seq(Event)
      BY <1>1, <1>2, AppendQueue
    <2> QED  BY <1>4, <1>6, <2>1, <2>2, <2>3, <2>4, <2>5
  <1>7. CASE request[r].state \notin {"IN_PROGRESS", "EXPIRING"}
    BY <1>1, <1>4, <1>7 DEF EventsAfterEnd
  <1> QED  BY <1>5, <1>6, <1>7

-----------------------------------------------------------------------------
(***************************************************************************)
(* Every step of an object and of the requests preserves CoreInv.  The     *)
(* proof of each has one step per conjunct of ObjectInv.                   *)
(***************************************************************************)

\* The queue facts in the form in which the steps use them.
LEMMA FreeIsFresh ==
    ASSUME \E q \in Requests : Free(q)
    PROVE  /\ FreeRequest \in Requests
           /\ request[FreeRequest].state \in {"INIT", "TERMINATED"}
           /\ owner[FreeRequest] = NoRegistration
           /\ ~Has(events, FreeRequest, EventName)
  BY DEF Free, FreeRequest, Queued

\* A call that is sent: the request under way is cancelled, a fresh one replaces
\* it.
LEMMA SendRequestPreserves ==
    ASSUME CoreInv, NEW g \in Registrations, NEW asks \in BOOLEAN,
           asks \/ ~NothingToEnd(g), SendRequest(g, asks)
    PROVE  CoreInv'
  <1> DEFINE c == registration[g].current
             n == FreeRequest
             R == IF c = NoRequest THEN request ELSE AfterEnd(c)
             E == IF c = NoRequest THEN events ELSE EventsAfterEnd(c)
  <1>1. /\ request \in [Requests -> RequestRecord]
        /\ events \in Seq(Event)
        /\ registration \in [Registrations -> RegistrationRecord]
        /\ owner \in [Requests -> Registrations \cup {NoRegistration}]
        /\ c \in Requests \cup {NoRequest}
    BY DEF CoreInv, CoreTypeOK, RequestTypeOK, RegistrationRecord
  <1>2. /\ n \in Requests
        /\ request[n].state \in {"INIT", "TERMINATED"}
        /\ owner[n] = NoRegistration
        /\ ~Has(events, n, EventName)
    BY FreeIsFresh DEF SendRequest
  <1>3. /\ request' = [R EXCEPT ![n] = Sent(asks)]
        /\ events' = E
        /\ owner' = [owner EXCEPT ![n] = g]
        /\ registration' = [registration EXCEPT ![g].current = n,
                                                ![g].unregistering = ~asks]
    BY DEF SendRequest
  <1>4. \A h \in Registrations : registration[h].current # n /\ registration[h].last # n
    BY <1>2, RegistrationAssumption DEF CoreInv, ObjectInv, Owned
  <1>5. /\ R \in [Requests -> RequestRecord] /\ E \in Seq(Event)
        /\ \A q \in Requests : q # c => R[q] = request[q]
        /\ c # NoRequest => R[c].state \notin {"IN_PROGRESS", "EXPIRING"}
        /\ \A q, names : Has(events, q, names) => Has(E, q, names)
        /\ \A q, names : q # c /\ Has(E, q, names) => Has(events, q, names)
        /\ \A q : q # c /\ EndAfterAnswer(events, q) => EndAfterAnswer(E, q)
        /\ \A q : EndAfterSuccess(events, q) => EndAfterSuccess(E, q)
        /\ c # NoRequest /\ request[c].state \in {"IN_PROGRESS", "EXPIRING"}
             => Has(E, c, {"SIPRequestDidEnd"}) /\ EndAfterSuccess(E, c)
    <2>1. CASE c = NoRequest
      BY <1>1, <2>1
    <2>2. CASE c # NoRequest
      <3>1. c \in Requests
        BY <1>1, <2>2
      <3>2. RequestTypeOK
        BY DEF CoreInv, CoreTypeOK
      <3>3. /\ R = AfterEnd(c) /\ E = EventsAfterEnd(c)
        BY <2>2
      <3> HIDE DEF c, R, E
      <3> QED  BY <3>1, <3>2, <3>3, EndQueue
    <2> QED  BY <2>1, <2>2
  <1>6. Sent(asks) \in RequestRecord /\ Sent(asks).state = "IN_PROGRESS"
    BY RequestAssumption DEF Sent, RequestRecord, RequestState
  <1>7. /\ request'[n].state = "IN_PROGRESS"
        /\ \A q \in Requests : q # n => request'[q] = R[q]
        /\ owner'[n] = g
        /\ \A q \in Requests : q # n => owner'[q] = owner[q]
        /\ registration'[g].current = n
        /\ registration'[g].last = registration[g].last
        /\ registration'[g].unregistering = ~asks
        /\ \A h \in Registrations : h # g => registration'[h] = registration[h]
    BY <1>1, <1>2, <1>3, <1>5, <1>6 DEF RegistrationRecord
  <1>8. n # c /\ n # NoRequest
    BY <1>2, <1>4, RegistrationAssumption
  <1>9. CoreTypeOK'
    <2>1. RequestTypeOK'
      BY <1>2, <1>3, <1>5, <1>6 DEF RequestTypeOK
    <2>2. /\ registration' \in [Registrations -> RegistrationRecord]
          /\ owner' \in [Requests -> Registrations \cup {NoRegistration}]
      BY <1>1, <1>2, <1>3 DEF RegistrationRecord
    <2> QED  BY <2>1, <2>2 DEF CoreTypeOK
  <1>10. \A h \in Registrations : h # g /\ c # NoRequest => registration[h].current # c
                                                         /\ registration[h].last # c
    BY <1>1 DEF CoreInv, ObjectInv, Owned
  <1>11. \A h \in Registrations : /\ registration[h].current \in Requests \cup {NoRequest}
                                  /\ registration[h].last \in Requests \cup {NoRequest}
    BY <1>1 DEF RegistrationRecord
  <1> HIDE DEF c, n, R, E
  <1> USE DEF CoreInv, ObjectInv
  <1>12. CurrentIsAnswered'
    BY <1>1, <1>3, <1>4, <1>5, <1>7, <1>10, <1>11
       DEF CurrentIsAnswered, WillBeAnswered, Queued
  <1>13. LastWillEnd'
    BY <1>1, <1>3, <1>4, <1>5, <1>7, <1>10, <1>11 DEF LastWillEnd, WillEnd, Queued
  <1>14. OneRequestUnderWay'
    BY <1>1, <1>2, <1>3, <1>5, <1>7, <1>8, RegistrationAssumption DEF OneRequestUnderWay, c
  <1>15. UnregisteringIsBound'
    BY <1>1, <1>7 DEF UnregisteringIsBound, NothingToEnd
  <1>16. Owned'
    BY <1>1, <1>2, <1>4, <1>7 DEF Owned
  <1>17. /\ AnswerComesFirst' /\ AcceptedWillEnd' /\ UnderWayIsSilent'
    <2>1. ~Has(E, n, EventName)
      BY <1>2, <1>5, <1>8
    <2>2. EndAfterAnswer(E, n) /\ EndAfterSuccess(E, n)
      BY <1>5, <2>1, SilentIsOrdered
    <2>3. AnswerComesFirst'
      BY <1>3, <1>5, <1>7, <1>10, <1>11, <2>2 DEF AnswerComesFirst
    <2>4. AcceptedWillEnd'
      BY <1>1, <1>3, <1>5, <1>7, <2>2, RegistrationAssumption DEF AcceptedWillEnd
    <2>5. UnderWayIsSilent'
      BY <1>1, <1>3, <1>5, <1>7, <2>1, RegistrationAssumption
         DEF UnderWayIsSilent, Queued
    <2> QED  BY <2>3, <2>4, <2>5
  <1> QED  BY <1>9, <1>12, <1>13, <1>14, <1>15, <1>16, <1>17

\* A call that fails: nothing has happened, or the request under way is gone.
LEMMA SendErrorPreserves ==
    ASSUME CoreInv, NEW g \in Registrations, SendError(g)
    PROVE  CoreInv'
  <1> DEFINE c == registration[g].current
  <1>1. /\ request \in [Requests -> RequestRecord]
        /\ events \in Seq(Event)
        /\ registration \in [Registrations -> RegistrationRecord]
        /\ owner \in [Requests -> Registrations \cup {NoRegistration}]
        /\ c \in Requests \cup {NoRequest}
    BY DEF CoreInv, CoreTypeOK, RequestTypeOK, RegistrationRecord
  <1>2. CASE UNCHANGED <<requestVars, registration, owner>>
    BY <1>2 DEF requestVars, CoreInv, CoreTypeOK, RequestTypeOK, ObjectInv,
                CurrentIsAnswered, WillBeAnswered, LastWillEnd, WillEnd,
                OneRequestUnderWay, UnregisteringIsBound, Owned,
                AnswerComesFirst, AcceptedWillEnd, UnderWayIsSilent, Queued
  <1>3. CASE /\ CancelCurrent(g)
             /\ registration' = [registration EXCEPT ![g].current = NoRequest]
             /\ UNCHANGED owner
    <2>1. /\ request' \in [Requests -> RequestRecord] /\ events' \in Seq(Event)
          /\ \A q \in Requests : q # c => request'[q] = request[q]
          /\ c # NoRequest => request'[c].state \notin {"IN_PROGRESS", "EXPIRING"}
          /\ \A q, names : Has(events, q, names) => Has(events', q, names)
          /\ \A q, names : q # c /\ Has(events', q, names) => Has(events, q, names)
          /\ \A q : q # c /\ EndAfterAnswer(events, q) => EndAfterAnswer(events', q)
          /\ \A q : EndAfterSuccess(events, q) => EndAfterSuccess(events', q)
          /\ c # NoRequest /\ request[c].state \in {"IN_PROGRESS", "EXPIRING"}
               => Has(events', c, {"SIPRequestDidEnd"}) /\ EndAfterSuccess(events', c)
      <3>1. CASE c = NoRequest
        BY <1>1, <1>3, <3>1 DEF CancelCurrent, requestVars
      <3>2. CASE c # NoRequest
        <4>1. c \in Requests /\ RequestTypeOK
          BY <1>1, <3>2 DEF CoreInv, CoreTypeOK
        <4>2. request' = AfterEnd(c) /\ events' = EventsAfterEnd(c)
          BY <1>3, <3>2 DEF CancelCurrent
        <4> HIDE DEF c
        <4> QED  BY <4>1, <4>2, EndQueue
      <3> QED  BY <3>1, <3>2
    <2>2. /\ registration'[g].current = NoRequest
          /\ registration'[g].last = registration[g].last
          /\ \A h \in Registrations : h # g => registration'[h] = registration[h]
          /\ owner' = owner
      BY <1>1, <1>3 DEF RegistrationRecord
    <2>3. CoreTypeOK'
      BY <1>1, <1>3, <2>1 DEF CoreTypeOK, RequestTypeOK, RegistrationRecord
    <2>4. \A h \in Registrations : h # g /\ c # NoRequest
             => registration[h].current # c /\ registration[h].last # c
      BY <1>1 DEF CoreInv, ObjectInv, Owned
    <2>5. \A h \in Registrations : /\ registration[h].current \in Requests \cup {NoRequest}
                                   /\ registration[h].last \in Requests \cup {NoRequest}
      BY <1>1 DEF RegistrationRecord
    <2> HIDE DEF c
    <2> USE DEF CoreInv, ObjectInv
    <2>6. CurrentIsAnswered' /\ LastWillEnd'
      BY <1>1, <2>1, <2>2, <2>4, <2>5
         DEF CurrentIsAnswered, WillBeAnswered, LastWillEnd, WillEnd, Queued
    <2>7. OneRequestUnderWay'
      BY <1>1, <2>1, <2>2, <2>5, RegistrationAssumption DEF OneRequestUnderWay, c
    <2>8. UnregisteringIsBound' /\ Owned'
      BY <1>1, <2>2, RegistrationAssumption DEF UnregisteringIsBound, Owned
    <2>9. AnswerComesFirst'
      BY <2>1, <2>2, <2>4, <2>5 DEF AnswerComesFirst
    <2>10. AcceptedWillEnd' /\ UnderWayIsSilent'
      BY <2>1, RegistrationAssumption DEF AcceptedWillEnd, UnderWayIsSilent, Queued
    <2> QED  BY <2>3, <2>6, <2>7, <2>8, <2>9, <2>10
  <1> QED  BY <1>2, <1>3 DEF SendError

(***************************************************************************)
(* The handlers take the head of the queue.                                *)
(***************************************************************************)
LEMMA TakeHead ==
    ASSUME CoreInv, events # <<>>
    PROVE  /\ Tail(events) \in Seq(Event)
           /\ Req \in Requests
           /\ Owner \in Registrations \cup {NoRegistration}
           /\ \A q, names : Has(events, q, names)
                              <=> \/ Req = q /\ Head(events).name \in names
                                  \/ Has(Tail(events), q, names)
           /\ \A q : /\ EndAfterAnswer(events, q)
                     /\ ~(Req = q /\ Head(events).name \in AnswerEvent)
                     => /\ EndAfterAnswer(Tail(events), q)
                        /\ ~(Req = q /\ Head(events).name = "SIPRequestDidEnd")
           /\ \A q : EndAfterSuccess(events, q)
                     => /\ EndAfterSuccess(Tail(events), q)
                        /\ Req = q /\ Head(events).name = "SIPRequestDidSucceed"
                             => Has(Tail(events), q, {"SIPRequestDidEnd"})
  <1>1. events \in Seq(Event)
    BY DEF CoreInv, CoreTypeOK, RequestTypeOK
  <1>2. /\ Tail(events) \in Seq(Event)
        /\ Head(events) \in Event
    BY <1>1, TailQueue
  <1>3. Req \in Requests
    BY <1>2 DEF Req, Event
  <1>4. Owner \in Registrations \cup {NoRegistration}
    BY <1>3 DEF Owner, CoreInv, CoreTypeOK
  <1>5. \A q, names : Has(events, q, names)
                        <=> \/ Req = q /\ Head(events).name \in names
                            \/ Has(Tail(events), q, names)
    BY <1>1, HasTail DEF Req
  <1>6. \A q : /\ EndAfterAnswer(events, q)
               /\ ~(Req = q /\ Head(events).name \in AnswerEvent)
               => /\ EndAfterAnswer(Tail(events), q)
                  /\ ~(Req = q /\ Head(events).name = "SIPRequestDidEnd")
    BY <1>1, AnswerOrderTail DEF Req
  <1>7. \A q : EndAfterSuccess(events, q)
               => /\ EndAfterSuccess(Tail(events), q)
                  /\ Req = q /\ Head(events).name = "SIPRequestDidSucceed"
                       => Has(Tail(events), q, {"SIPRequestDidEnd"})
    BY <1>1, SuccessOrderTail DEF Req
  <1> QED  BY <1>2, <1>3, <1>4, <1>5, <1>6, <1>7

\* Ending another request before the head is taken: what is left of the queue.
LEMMA EndThenTakeHead ==
    ASSUME CoreInv, events # <<>>, NEW r \in Requests
    PROVE  LET T == Tail(EventsAfterEnd(r))
           IN  /\ T \in Seq(Event)
               /\ \A q, names : Has(Tail(events), q, names) => Has(T, q, names)
               /\ \A q, names : q # r /\ Has(T, q, names) => Has(Tail(events), q, names)
               /\ \A q : /\ q # r /\ EndAfterAnswer(events, q)
                         /\ ~(Req = q /\ Head(events).name \in AnswerEvent)
                         => EndAfterAnswer(T, q)
               /\ \A q : EndAfterSuccess(events, q) => EndAfterSuccess(T, q)
               /\ request[r].state \in {"IN_PROGRESS", "EXPIRING"}
                    => EndAfterSuccess(T, r)
  <1> DEFINE E == EventsAfterEnd(r)
             T == Tail(E)
             D == DidEnd(r)
             F == DidFail(r, Transport)
  <1>1. events \in Seq(Event) /\ RequestTypeOK
    BY DEF CoreInv, CoreTypeOK, RequestTypeOK
  <1>2. F \in Event /\ D \in Event
    BY EventsAreTyped, RequestAssumption
  <1>3. E \in Seq(Event)
    BY <1>1, EndQueue
  <1>4. E # <<>> /\ Head(E) = Head(events)
    <2>1. E = events \/ E = Append(events, D) \/ E = Append(Append(events, F), D)
      BY DEF EventsAfterEnd, Add1, Add2
    <2>2. /\ Append(events, D) # <<>> /\ Head(Append(events, D)) = Head(events)
          /\ Append(events, F) \in Seq(Event)
          /\ Append(events, F) # <<>> /\ Head(Append(events, F)) = Head(events)
      BY <1>1, <1>2
    <2> HIDE DEF D, F, E
    <2>3. /\ Append(Append(events, F), D) # <<>>
          /\ Head(Append(Append(events, F), D)) = Head(events)
      BY <1>1, <1>2, <2>2
    <2> QED  BY <2>1, <2>2, <2>3
  <1>5. \A q, names : Has(events, q, names)
                        <=> \/ Req = q /\ Head(events).name \in names
                            \/ Has(Tail(events), q, names)
    BY TakeHead
  <1>6. \A q, names : Has(E, q, names)
                        <=> \/ Req = q /\ Head(events).name \in names
                            \/ Has(T, q, names)
    BY <1>3, <1>4, HasTail DEF Req
  <1>7. /\ Tail(events) \in Seq(Event)
        /\ T \in Seq(Event)
    BY <1>1, <1>3, <1>4, TailQueue
  <1>8. /\ \A q, names : Has(Tail(events), q, names) => Has(T, q, names)
        /\ \A q, names : q # r /\ Has(T, q, names) => Has(Tail(events), q, names)
    <2>1. E = events \/ E = Append(events, D) \/ E = Append(Append(events, F), D)
      BY DEF EventsAfterEnd, Add1, Add2
    <2>2. Append(events, F) \in Seq(Event) /\ Append(events, F) # <<>>
      BY <1>1, <1>2
    <2>3. /\ Tail(Append(events, D)) = Append(Tail(events), D)
          /\ Tail(Append(events, F)) = Append(Tail(events), F)
      BY <1>1, <1>2
    <2>4. D.obj = r /\ F.obj = r
      BY DEF DidEnd, DidFail
    <2> HIDE DEF D, F, E
    <2>5. Tail(Append(Append(events, F), D)) = Append(Append(Tail(events), F), D)
      BY <1>2, <2>2, <2>3
    <2>6. Append(Tail(events), F) \in Seq(Event)
      BY <1>2, <1>7, AppendQueue
    <2>7. \A q, names : Has(Append(Tail(events), D), q, names)
                          <=> Has(Tail(events), q, names) \/ (r = q /\ D.name \in names)
      BY <1>2, <1>7, <2>4, HasAppend
    <2>8. \A q, names : Has(Append(Append(Tail(events), F), D), q, names)
                          <=> \/ Has(Tail(events), q, names)
                              \/ r = q /\ (F.name \in names \/ D.name \in names)
      <3>1. \A q, names : Has(Append(Tail(events), F), q, names)
                          <=> Has(Tail(events), q, names) \/ (r = q /\ F.name \in names)
        BY <1>2, <1>7, <2>4, HasAppend
      <3>2. \A q, names : Has(Append(Append(Tail(events), F), D), q, names)
                          <=> \/ Has(Append(Tail(events), F), q, names)
                              \/ r = q /\ D.name \in names
        BY <1>2, <2>4, <2>6, HasAppend
      <3> QED  BY <3>1, <3>2
    <2>9. CASE E = events
      BY <2>9
    <2>10. CASE E = Append(events, D)
      BY <2>3, <2>7, <2>10
    <2>11. CASE E = Append(Append(events, F), D)
      BY <2>5, <2>8, <2>11
    <2> QED  BY <2>1, <2>9, <2>10, <2>11
  <1>9. \A q : /\ EndAfterAnswer(E, q)
               /\ ~(Req = q /\ Head(events).name \in AnswerEvent)
               => EndAfterAnswer(T, q)
    BY <1>3, <1>4, AnswerOrderTail DEF Req
  <1>10. \A q : EndAfterSuccess(E, q) => EndAfterSuccess(T, q)
    BY <1>3, <1>4, SuccessOrderTail
  <1>11. /\ \A q : q # r /\ EndAfterAnswer(events, q) => EndAfterAnswer(E, q)
         /\ \A q : EndAfterSuccess(events, q) => EndAfterSuccess(E, q)
         /\ request[r].state \in {"IN_PROGRESS", "EXPIRING"} => EndAfterSuccess(E, r)
    BY <1>1, EndQueue
  <1> HIDE DEF E, T
  <1>12. /\ T \in Seq(Event)
         /\ \A q, names : Has(Tail(events), q, names) => Has(T, q, names)
         /\ \A q, names : q # r /\ Has(T, q, names) => Has(Tail(events), q, names)
         /\ \A q : /\ q # r /\ EndAfterAnswer(events, q)
                   /\ ~(Req = q /\ Head(events).name \in AnswerEvent)
                   => EndAfterAnswer(T, q)
         /\ \A q : EndAfterSuccess(events, q) => EndAfterSuccess(T, q)
         /\ request[r].state \in {"IN_PROGRESS", "EXPIRING"} => EndAfterSuccess(T, r)
    BY <1>7, <1>8, <1>9, <1>10, <1>11
  <1> QED  BY <1>12 DEF T, E

\* What the objects refer to belongs to them.
LEMMA References ==
    ASSUME CoreInv
    PROVE  \A h \in Registrations :
              /\ registration[h] \in RegistrationRecord
              /\ registration[h].current \in Requests \cup {NoRequest}
              /\ registration[h].last \in Requests \cup {NoRequest}
              /\ \A r \in Requests :
                    registration[h].current = r \/ registration[h].last = r
                      => owner[r] = h
  BY DEF CoreInv, CoreTypeOK, RegistrationRecord, ObjectInv, Owned

(***************************************************************************)
(* A step that takes the head of the queue and changes neither a request   *)
(* nor who owns it, while the object of the event may forget its current   *)
(* request or make it the last one.                                        *)
(***************************************************************************)
LEMMA HandlerPreserves ==
    ASSUME CoreInv, events # <<>>,
           request' = request, owner' = owner, events' = Tail(events),
           NEW g \in Registrations,
           registration' \in [Registrations -> RegistrationRecord],
           \A h \in Registrations : h # g => registration'[h] = registration[h],
           \/ registration' = registration
           \/ /\ registration'[g].current = NoRequest
              /\ Req = registration[g].current
              /\ Head(events).name \in AnswerEvent
              /\ \/ registration'[g].last = registration[g].last
                 \/ /\ registration'[g].last = Req
                    /\ Head(events).name = "SIPRequestDidSucceed",
           Head(events).name # "SIPRequestDidEnd" \/ owner[Req] = NoRegistration,
           \A h \in Registrations :
              registration'[h].current # NoRequest /\ registration'[h].current = Req
                => Head(events).name \notin AnswerEvent
    PROVE  CoreInv'
  <1>1. /\ request \in [Requests -> RequestRecord]
        /\ events \in Seq(Event)
        /\ owner \in [Requests -> Registrations \cup {NoRegistration}]
    BY DEF CoreInv, CoreTypeOK, RequestTypeOK
  <1>2. CoreTypeOK'
    BY <1>1, TakeHead DEF CoreTypeOK, RequestTypeOK
  <1>3. \A h \in Registrations : Req = registration[h].current \/ Req = registration[h].last
                                   => Head(events).name # "SIPRequestDidEnd"
    BY References, TakeHead, RegistrationAssumption
  <1>4. \A h \in Registrations :
           /\ registration'[h].current \in {registration[h].current, NoRequest}
           /\ registration'[h].last \in Requests \cup {NoRequest}
           /\ registration[h].last \in Requests \cup {NoRequest}
           /\ registration[h].current \in Requests \cup {NoRequest}
           /\ \/ registration'[h].last = registration[h].last
              \/ /\ registration'[h].last = Req /\ Req = registration[h].current
                 /\ Head(events).name = "SIPRequestDidSucceed"
    BY References, TakeHead
  <1>5. /\ \A q, names : Has(events, q, names)
                            <=> \/ Req = q /\ Head(events).name \in names
                                \/ Has(events', q, names)
        /\ \A q : /\ EndAfterAnswer(events, q)
                  /\ ~(Req = q /\ Head(events).name \in AnswerEvent)
                  => EndAfterAnswer(events', q)
        /\ \A q : EndAfterSuccess(events, q)
                  => /\ EndAfterSuccess(events', q)
                     /\ Req = q /\ Head(events).name = "SIPRequestDidSucceed"
                          => Has(events', q, {"SIPRequestDidEnd"})
        /\ Req \in Requests
    BY TakeHead
  <1>6. Head(events).name \in EventName
    BY <1>1, TailQueue, EventFields
  <1> USE DEF CoreInv, ObjectInv
  <1>7. CurrentIsAnswered'
    BY <1>1, <1>4, <1>5 DEF CurrentIsAnswered, WillBeAnswered, Queued
  <1>8. LastWillEnd'
    <2> SUFFICES ASSUME NEW h \in Registrations, registration'[h].last # NoRequest
                 PROVE  WillEnd(h)'
      BY DEF LastWillEnd
    <2>1. CASE registration'[h].last = registration[h].last
      BY <1>1, <1>3, <1>4, <1>5, <2>1 DEF LastWillEnd, WillEnd, Queued
    <2>2. CASE /\ registration'[h].last = Req /\ Req = registration[h].current
               /\ Head(events).name = "SIPRequestDidSucceed"
      BY <1>1, <1>5, <2>2 DEF AcceptedWillEnd, WillEnd, Queued
    <2> QED  BY <1>4, <2>1, <2>2
  <1>9. OneRequestUnderWay'
    <2> SUFFICES ASSUME NEW q \in Requests, request[q].state = "IN_PROGRESS"
                 PROVE  /\ owner[q] # NoRegistration
                        /\ registration'[owner[q]].current = q
      BY DEF OneRequestUnderWay
    <2>1. q # Req
      BY <1>5, <1>6 DEF UnderWayIsSilent, Queued
    <2>2. owner[q] # NoRegistration /\ registration[owner[q]].current = q
      BY DEF OneRequestUnderWay
    <2>3. owner[q] \in Registrations
      BY <1>1, <2>2
    <2>4. registration'[owner[q]].current = q
      <3>1. CASE owner[q] = g
        BY <2>1, <2>2, <3>1
      <3>2. CASE owner[q] # g
        BY <2>2, <2>3, <3>2
      <3> QED  BY <3>1, <3>2
    <2> QED  BY <2>2, <2>4
  <1>10. UnregisteringIsBound'
    BY <1>4 DEF UnregisteringIsBound
  <1>11. Owned'
    BY <1>4, <1>5, RegistrationAssumption DEF Owned
  <1>12. AnswerComesFirst' /\ AcceptedWillEnd' /\ UnderWayIsSilent'
    BY <1>1, <1>4, <1>5 DEF AnswerComesFirst, AcceptedWillEnd, UnderWayIsSilent, Queued
  <1> QED  BY <1>2, <1>7, <1>8, <1>9, <1>10, <1>11, <1>12

LEMMA DidFailPreserves ==
    ASSUME CoreInv, NH_SIPRequestDidFail
    PROVE  CoreInv'
  <1>1. /\ events # <<>> /\ Head(events).name = "SIPRequestDidFail"
        /\ Owner # NoRegistration /\ Req = registration[Owner].current
        /\ registration' = [registration EXCEPT ![Owner].current = NoRequest]
        /\ events' = Tail(events) /\ request' = request /\ owner' = owner
    BY DEF NH_SIPRequestDidFail, Handling, Obj
  <1>2. /\ Owner \in Registrations /\ Req \in Requests
        /\ registration \in [Registrations -> RegistrationRecord]
    BY <1>1, TakeHead DEF CoreInv, CoreTypeOK
  <1>3. /\ registration' \in [Registrations -> RegistrationRecord]
        /\ registration'[Owner].current = NoRequest
        /\ registration'[Owner].last = registration[Owner].last
        /\ \A h \in Registrations : h # Owner => registration'[h] = registration[h]
    BY <1>1, <1>2 DEF RegistrationRecord
  <1>4. \A h \in Registrations : registration'[h].current # Req
    BY <1>1, <1>2, <1>3, References, RegistrationAssumption
  <1> QED
    BY <1>1, <1>2, <1>3, <1>4, HandlerPreserves DEF AnswerEvent

LEMMA WillExpirePreserves ==
    ASSUME CoreInv, NH_SIPRequestWillExpire
    PROVE  CoreInv'
  <1>1. /\ events # <<>> /\ Head(events).name = "SIPRequestWillExpire"
        /\ Owner # NoRegistration
        /\ registration' = registration
        /\ events' = Tail(events) /\ request' = request /\ owner' = owner
    BY DEF NH_SIPRequestWillExpire, Handling
  <1>2. /\ Owner \in Registrations
        /\ registration \in [Registrations -> RegistrationRecord]
    BY <1>1, TakeHead DEF CoreInv, CoreTypeOK
  <1> QED
    BY <1>1, <1>2, HandlerPreserves DEF AnswerEvent

LEMMA EventDroppedPreserves ==
    ASSUME CoreInv, EventDropped
    PROVE  CoreInv'
  <1>1. /\ events # <<>>
        /\ registration' = registration
        /\ events' = Tail(events) /\ request' = request /\ owner' = owner
        /\ \/ Owner = NoRegistration
           \/ /\ Owner # NoRegistration
              /\ \/ Head(events).name \in AnswerEvent /\ Req # registration[Owner].current
                 \/ Head(events).name = "SIPRequestWillExpire"
    BY DEF EventDropped, registrationVars, Obj
  <1>2. /\ registration \in [Registrations -> RegistrationRecord]
        /\ Req \in Requests /\ Owner \in Registrations \cup {NoRegistration}
        /\ Owner = owner[Req]
    BY <1>1, TakeHead DEF CoreInv, CoreTypeOK, Owner
  <1>3. CASE Registrations = {}
    <2>1. Tail(events) \in Seq(Event)
      BY <1>1, TakeHead
    <2>2. CoreTypeOK'
      BY <1>1, <2>1 DEF CoreInv, CoreTypeOK, RequestTypeOK
    <2>3. \A q \in Requests : request[q].state # "IN_PROGRESS"
      BY <1>3 DEF CoreInv, CoreTypeOK, ObjectInv, OneRequestUnderWay
    <2>4. \A q : EndAfterSuccess(events, q) => EndAfterSuccess(Tail(events), q)
      BY <1>1, TakeHead
    <2> QED
      BY <1>1, <1>3, <2>2, <2>3, <2>4
         DEF CoreInv, ObjectInv, CurrentIsAnswered, LastWillEnd, OneRequestUnderWay,
             UnregisteringIsBound, Owned, AnswerComesFirst, AcceptedWillEnd,
             UnderWayIsSilent
  <1>4. CASE Registrations # {}
    <2>1. PICK g \in Registrations : TRUE
      BY <1>4
    <2>2. \A h \in Registrations : registration[h].current # NoRequest /\ registration[h].current = Req
             => Head(events).name \notin AnswerEvent
      BY <1>1, <1>2, References, RegistrationAssumption DEF AnswerEvent
    <2>3. Head(events).name # "SIPRequestDidEnd" \/ owner[Req] = NoRegistration
      BY <1>1, <1>2 DEF AnswerEvent
    <2> QED  BY <1>1, <1>2, <2>1, <2>2, <2>3, HandlerPreserves
  <1> QED  BY <1>3, <1>4

(***************************************************************************)
(* A step that takes the head of the queue after it has ended a request k  *)
(* of the same object; the object forgets its current request and its last *)
(* one, and may no longer observe the request of the event.                *)
(***************************************************************************)
LEMMA BindingEndsPreserves ==
    ASSUME CoreInv, events # <<>>,
           NEW g \in Registrations, g = Owner, NEW k \in Requests \cup {NoRequest},
           k # NoRequest => k = registration[g].current \/ k = registration[g].last,
           \/ k = NoRequest /\ request' = request /\ events' = Tail(events)
           \/ /\ k # NoRequest /\ request' = AfterEnd(k)
              /\ events' = Tail(EventsAfterEnd(k)),
           registration' = [registration EXCEPT ![g].current = NoRequest,
                                                ![g].last = NoRequest],
           registration[g].current # NoRequest =>
                registration[g].current = k \/ registration[g].current = Req,
           Req = registration[g].current \/ Req = registration[g].last,
           \/ owner' = owner
           \/ owner' = [owner EXCEPT ![Req] = NoRegistration],
           Head(events).name # "SIPRequestDidEnd" \/ owner'[Req] = NoRegistration
    PROVE  CoreInv'
  <1>1. /\ request \in [Requests -> RequestRecord]
        /\ events \in Seq(Event)
        /\ registration \in [Registrations -> RegistrationRecord]
        /\ owner \in [Requests -> Registrations \cup {NoRegistration}]
        /\ RequestTypeOK
    BY DEF CoreInv, CoreTypeOK, RequestTypeOK
  <1>2. /\ Req \in Requests /\ owner[Req] = g
        /\ Head(events).name \in EventName
    <2>1. Head(events) \in Event
      BY <1>1, TailQueue
    <2> QED  BY <2>1, TakeHead, EventFields DEF Owner
  <1>3. /\ registration'[g].current = NoRequest /\ registration'[g].last = NoRequest
        /\ \A h \in Registrations : h # g => registration'[h] = registration[h]
        /\ registration' \in [Registrations -> RegistrationRecord]
    <2>1. registration[g] \in RegistrationRecord
      BY <1>1
    <2>2. registration'[g] = [registration[g] EXCEPT !.current = NoRequest,
                                                    !.last = NoRequest]
      BY <1>1
    <2>3. /\ registration'[g] \in RegistrationRecord
          /\ registration'[g].current = NoRequest /\ registration'[g].last = NoRequest
      <3> DEFINE o == registration[g]
      <3>1. /\ o \in RegistrationRecord
            /\ registration'[g] = [o EXCEPT !.current = NoRequest, !.last = NoRequest]
        BY <2>1, <2>2
      <3> HIDE DEF o
      <3> QED  BY <3>1 DEF RegistrationRecord
    <2>4. /\ \A h \in Registrations : h # g => registration'[h] = registration[h]
          /\ DOMAIN registration' = Registrations
      BY <1>1
    <2>5. registration' = [h \in Registrations |-> registration'[h]]
      BY <1>1
    <2> QED  BY <1>1, <2>3, <2>4, <2>5
  <1>4. /\ owner' \in [Requests -> Registrations \cup {NoRegistration}]
        /\ \A q \in Requests : q # Req => owner'[q] = owner[q]
    BY <1>1, <1>2
  <1>5. /\ request' \in [Requests -> RequestRecord]
        /\ \A q \in Requests : q # k => request'[q] = request[q]
        /\ k # NoRequest => request'[k].state \notin {"IN_PROGRESS", "EXPIRING"}
    BY <1>1, EndQueue
  <1>6. /\ events' \in Seq(Event)
        /\ \A q, names : Has(Tail(events), q, names) => Has(events', q, names)
        /\ \A q, names : q # k /\ Has(events', q, names) => Has(Tail(events), q, names)
        /\ \A q : /\ q # k /\ EndAfterAnswer(events, q)
                  /\ ~(Req = q /\ Head(events).name \in AnswerEvent)
                  => EndAfterAnswer(events', q)
        /\ \A q : EndAfterSuccess(events, q) => EndAfterSuccess(events', q)
        /\ k # NoRequest /\ request[k].state \in {"IN_PROGRESS", "EXPIRING"}
             => EndAfterSuccess(events', k)
    <2>1. CASE k = NoRequest
      BY <2>1, TakeHead
    <2>2. CASE k # NoRequest
      <3> DEFINE T == Tail(EventsAfterEnd(k))
      <3>1. k \in Requests /\ events' = T
        BY <2>2
      <3>2. /\ T \in Seq(Event)
            /\ \A q, names : Has(Tail(events), q, names) => Has(T, q, names)
            /\ \A q, names : q # k /\ Has(T, q, names) => Has(Tail(events), q, names)
            /\ \A q : /\ q # k /\ EndAfterAnswer(events, q)
                      /\ ~(Req = q /\ Head(events).name \in AnswerEvent)
                      => EndAfterAnswer(T, q)
            /\ \A q : EndAfterSuccess(events, q) => EndAfterSuccess(T, q)
            /\ request[k].state \in {"IN_PROGRESS", "EXPIRING"}
                 => EndAfterSuccess(T, k)
        BY <3>1, EndThenTakeHead
      <3> HIDE DEF T
      <3> QED  BY <3>1, <3>2
    <2> QED  BY <2>1, <2>2
  <1>7. \A q, names : Has(events, q, names)
                        <=> \/ Req = q /\ Head(events).name \in names
                            \/ Has(Tail(events), q, names)
    BY TakeHead
  <1>8. \A h \in Registrations :
           /\ registration[h].current \in Requests \cup {NoRequest}
           /\ registration[h].last \in Requests \cup {NoRequest}
           /\ \A r \in Requests :
                 registration[h].current = r \/ registration[h].last = r => owner[r] = h
    BY References
  <1>9. \A h \in Registrations : h # g =>
           /\ registration[h].current # Req /\ registration[h].last # Req
           /\ k # NoRequest => registration[h].current # k /\ registration[h].last # k
    BY <1>2, <1>8
  <1>10. CoreTypeOK'
    BY <1>3, <1>4, <1>5, <1>6 DEF CoreTypeOK, RequestTypeOK
  <1> USE DEF CoreInv, ObjectInv
  <1>11. CurrentIsAnswered' /\ LastWillEnd'
    BY <1>3, <1>5, <1>6, <1>7, <1>8, <1>9, RegistrationAssumption
       DEF CurrentIsAnswered, WillBeAnswered, LastWillEnd, WillEnd, Queued
  <1>12. OneRequestUnderWay'
    <2> SUFFICES ASSUME NEW q \in Requests, request'[q].state = "IN_PROGRESS"
                 PROVE  /\ owner'[q] # NoRegistration
                        /\ registration'[owner'[q]].current = q
      BY DEF OneRequestUnderWay
    <2>1. q # k /\ request[q].state = "IN_PROGRESS"
      BY <1>5, RegistrationAssumption
    <2>2. q # Req
      BY <1>2, <1>7, <2>1 DEF UnderWayIsSilent, Queued
    <2>3. owner[q] \in Registrations /\ registration[owner[q]].current = q
      BY <1>1, <2>1 DEF OneRequestUnderWay
    <2>4. owner[q] # g
      BY <2>1, <2>2, <2>3, RegistrationAssumption
    <2> QED  BY <1>3, <1>4, <2>2, <2>3, <2>4, RegistrationAssumption
  <1>13. UnregisteringIsBound'
    BY <1>3 DEF UnregisteringIsBound
  <1>14. Owned'
    BY <1>3, <1>4, <1>8, <1>9, RegistrationAssumption DEF Owned
  <1>15. AnswerComesFirst'
    BY <1>3, <1>6, <1>8, <1>9 DEF AnswerComesFirst
  <1>16. AcceptedWillEnd'
    BY <1>5, <1>6, RegistrationAssumption DEF AcceptedWillEnd
  <1>17. UnderWayIsSilent'
    BY <1>5, <1>6, <1>7, RegistrationAssumption DEF UnderWayIsSilent, Queued
  <1> QED  BY <1>10, <1>11, <1>12, <1>13, <1>14, <1>15, <1>16, <1>17

LEMMA DidSucceedPreserves ==
    ASSUME CoreInv, NH_SIPRequestDidSucceed
    PROVE  CoreInv'
  <1>1. /\ events # <<>> /\ Head(events).name = "SIPRequestDidSucceed"
        /\ Owner # NoRegistration /\ Req = registration[Owner].current
        /\ owner' = owner
    BY DEF NH_SIPRequestDidSucceed, Handling, Obj
  <1>2. /\ Owner \in Registrations /\ Req \in Requests
        /\ registration \in [Registrations -> RegistrationRecord]
        /\ registration[Owner].last \in Requests \cup {NoRequest}
    BY <1>1, TakeHead, References DEF CoreInv, CoreTypeOK
  <1>3. CASE registration[Owner].unregistering
    <2>1. /\ registration' = [registration EXCEPT ![Owner].current = NoRequest,
                                                  ![Owner].last = NoRequest]
          /\ \/ /\ registration[Owner].last = NoRequest
                /\ request' = request /\ events' = Tail(events)
             \/ /\ registration[Owner].last # NoRequest
                /\ request' = AfterEnd(registration[Owner].last)
                /\ events' = Tail(EventsAfterEnd(registration[Owner].last))
      BY <1>3 DEF NH_SIPRequestDidSucceed, Obj
    <2> QED  BY <1>1, <1>2, <2>1, BindingEndsPreserves
  <1>4. CASE ~registration[Owner].unregistering
    <2>1. /\ registration' = [registration EXCEPT ![Owner].current = NoRequest,
                                                  ![Owner].last = Req]
          /\ request' = request /\ events' = Tail(events)
      BY <1>4 DEF NH_SIPRequestDidSucceed, Obj
    <2>2. /\ registration' \in [Registrations -> RegistrationRecord]
          /\ registration'[Owner].current = NoRequest
          /\ registration'[Owner].last = Req
          /\ \A h \in Registrations : h # Owner => registration'[h] = registration[h]
      BY <1>2, <2>1 DEF RegistrationRecord
    <2>3. \A h \in Registrations : registration'[h].current # Req
      BY <1>1, <1>2, <2>2, References, RegistrationAssumption
    <2> QED  BY <1>1, <1>2, <2>1, <2>2, <2>3, HandlerPreserves DEF AnswerEvent
  <1> QED  BY <1>3, <1>4

LEMMA DidEndPreserves ==
    ASSUME CoreInv, NH_SIPRequestDidEnd
    PROVE  CoreInv'
  <1>1. /\ events # <<>> /\ Head(events).name = "SIPRequestDidEnd"
        /\ Owner # NoRegistration
        /\ owner' = [owner EXCEPT ![Req] = NoRegistration]
    BY DEF NH_SIPRequestDidEnd, Handling
  <1>2. /\ Owner \in Registrations /\ Req \in Requests /\ Owner = owner[Req]
        /\ registration \in [Registrations -> RegistrationRecord]
        /\ request \in [Requests -> RequestRecord]
        /\ owner \in [Requests -> Registrations \cup {NoRegistration}]
        /\ registration[Owner].current \in Requests \cup {NoRequest}
    BY <1>1, TakeHead, References DEF CoreInv, CoreTypeOK, RequestTypeOK, Owner
  <1>3. CASE Req = registration[Owner].last
    <2>1. /\ registration' = [registration EXCEPT ![Owner].current = NoRequest,
                                                  ![Owner].last = NoRequest]
          /\ \/ /\ registration[Owner].current = NoRequest
                /\ request' = request /\ events' = Tail(events)
             \/ /\ registration[Owner].current # NoRequest
                /\ request' = AfterEnd(registration[Owner].current)
                /\ events' = Tail(EventsAfterEnd(registration[Owner].current))
      BY <1>3 DEF NH_SIPRequestDidEnd, Obj
    <2>2. owner'[Req] = NoRegistration
      BY <1>1, <1>2
    <2> QED  BY <1>1, <1>2, <1>3, <2>1, <2>2, BindingEndsPreserves
  <1>4. CASE Req # registration[Owner].last
    <2>1. /\ events' = Tail(events) /\ request' = request
          /\ registration' = registration
      BY <1>4 DEF NH_SIPRequestDidEnd, Obj
    <2>2. /\ Tail(events) \in Seq(Event)
          /\ \A q, names : Has(events, q, names)
                            <=> \/ Req = q /\ Head(events).name \in names
                                \/ Has(Tail(events), q, names)
          /\ \A q : EndAfterAnswer(events, q) =>
                      /\ EndAfterAnswer(Tail(events), q)
                      /\ Req # q
          /\ \A q : EndAfterSuccess(events, q) => EndAfterSuccess(Tail(events), q)
      BY <1>1, TakeHead DEF AnswerEvent
    <2>3. \A h \in Registrations : registration[h].current # Req /\ registration[h].last # Req
      BY <1>2, <1>4, <2>2, References, RegistrationAssumption
         DEF CoreInv, ObjectInv, AnswerComesFirst
    <2>4. /\ owner' \in [Requests -> Registrations \cup {NoRegistration}]
          /\ owner'[Req] = NoRegistration
          /\ \A q \in Requests : q # Req => owner'[q] = owner[q]
      BY <1>1, <1>2
    <2>5. CoreTypeOK'
      BY <1>2, <2>1, <2>2, <2>4 DEF CoreTypeOK, RequestTypeOK
    <2>6. request[Req].state # "IN_PROGRESS"
      BY <1>1, <1>2, <2>2 DEF CoreInv, ObjectInv, UnderWayIsSilent, Queued, EventName
    <2>7. \A h \in Registrations : /\ registration[h].current \in Requests \cup {NoRequest}
                                   /\ registration[h].last \in Requests \cup {NoRequest}
      BY References
    <2> USE DEF CoreInv, ObjectInv
    <2>8. CurrentIsAnswered' /\ LastWillEnd' /\ UnregisteringIsBound'
      BY <1>1, <2>1, <2>2, <2>3, <2>7 DEF CurrentIsAnswered, WillBeAnswered, LastWillEnd,
             WillEnd, UnregisteringIsBound, Queued
    <2>9. OneRequestUnderWay' /\ Owned'
      BY <2>1, <2>3, <2>4, <2>6 DEF OneRequestUnderWay, Owned
    <2>10. AnswerComesFirst' /\ AcceptedWillEnd' /\ UnderWayIsSilent'
      BY <2>1, <2>2 DEF AnswerComesFirst, AcceptedWillEnd, UnderWayIsSilent, Queued
    <2> QED  BY <2>5, <2>8, <2>9, <2>10
  <1> QED  BY <1>3, <1>4

LEMMA HandleEventPreserves ==
    ASSUME CoreInv, HandleEvent
    PROVE  CoreInv'
  BY DidSucceedPreserves, DidFailPreserves, WillExpirePreserves, DidEndPreserves,
     EventDroppedPreserves DEF HandleEvent

(***************************************************************************)
(* pjsip's steps: request r moves on and its events are added.             *)
(***************************************************************************)
\* Queue p is queue q with events of r added at its end.
Grown(q, p, r) ==
    /\ p \in Seq(Event)
    /\ \A s, names : Has(q, s, names) => Has(p, s, names)
    /\ \A s, names : s # r /\ Has(p, s, names) => Has(q, s, names)
    /\ \A s : s # r /\ EndAfterAnswer(q, s) => EndAfterAnswer(p, s)
    /\ \A s : s # r /\ EndAfterSuccess(q, s) => EndAfterSuccess(p, s)

\* Request r becomes x and nothing else is touched.
Moves(r, x) == /\ request' = [request EXCEPT ![r] = x]
               /\ registration' = registration /\ owner' = owner

\* What the queue must then hold of r.
Reported(r, x) ==
    /\ request[r].state \in {"IN_PROGRESS", "EXPIRING"}
    /\ x.state = "IN_PROGRESS" =>
            request[r].state = "IN_PROGRESS" /\ events' = events
    /\ request[r].state = "IN_PROGRESS" /\ x.state # "IN_PROGRESS"
            => Has(events', r, AnswerEvent)
    /\ request[r].state = "EXPIRING" /\ x.state # "EXPIRING"
            => Has(events', r, {"SIPRequestDidEnd"})
    /\ (/\ EndAfterAnswer(events, r)
        /\ request[r].state = "IN_PROGRESS" \/ Has(events, r, AnswerEvent))
            => EndAfterAnswer(events', r)
    /\ x.state = "EXPIRING" \/ EndAfterSuccess(events', r)

LEMMA AnswerAndEndGrow ==
    ASSUME NEW q \in Seq(Event), NEW r \in Requests, NEW e \in Event,
           e.obj = r, e.name \in AnswerEvent
    PROVE  /\ Grown(q, Add2(q, e, DidEnd(r)), r)
           /\ Has(Add2(q, e, DidEnd(r)), r, AnswerEvent)
           /\ EndAfterAnswer(q, r) => EndAfterAnswer(Add2(q, e, DidEnd(r)), r)
           /\ EndAfterSuccess(Add2(q, e, DidEnd(r)), r)
  <1> DEFINE D == DidEnd(r)
             p == Add2(q, e, D)
  <1>1. D \in Event /\ D.obj = r /\ D.name = "SIPRequestDidEnd"
    BY DEF DidEnd, Event, EventName
  <1> HIDE DEF D
  <1>2. p \in Seq(Event)
    BY <1>1, AddTwo
  <1>3. \A s, names : Has(p, s, names) <=> \/ Has(q, s, names)
                                           \/ s = r /\ e.name \in names
                                           \/ s = r /\ "SIPRequestDidEnd" \in names
    BY <1>1, AddTwo
  <1>4. \A s : /\ EndAfterAnswer(q, s) => EndAfterAnswer(p, s)
               /\ EndAfterSuccess(q, s) \/ s = r => EndAfterSuccess(p, s)
    BY <1>1, AddAnswerAndEnd
  <1> HIDE DEF p
  <1>5. Grown(q, p, r)
    BY <1>2, <1>3, <1>4 DEF Grown
  <1>6. Has(p, r, AnswerEvent)
    BY <1>3
  <1> QED  BY <1>4, <1>5, <1>6 DEF p, D

LEMMA OneGrows ==
    ASSUME NEW q \in Seq(Event), NEW r \in Requests, NEW e \in Event, e.obj = r
    PROVE  /\ Grown(q, Append(q, e), r)
           /\ Has(Append(q, e), r, {e.name})
           /\ \A names : Has(Append(q, e), r, names)
                           <=> Has(q, r, names) \/ e.name \in names
           /\ (/\ EndAfterAnswer(q, r)
               /\ e.name # "SIPRequestDidEnd" \/ Has(q, r, AnswerEvent))
                => EndAfterAnswer(Append(q, e), r)
           /\ (/\ EndAfterSuccess(q, r) \/ e.name = "SIPRequestDidEnd"
               /\ e.name # "SIPRequestDidSucceed")
                => EndAfterSuccess(Append(q, e), r)
  <1> DEFINE p == Append(q, e)
  <1>2. p \in Seq(Event)
    BY AppendQueue
  <1>3. \A s, names : Has(p, s, names)
                        <=> \/ Has(q, s, names)
                            \/ s = r /\ e.name \in names
    BY HasAppend
  <1>4. \A s : s # r /\ EndAfterAnswer(q, s) => EndAfterAnswer(p, s)
    BY AnswerOrderAppend
  <1>5. (/\ EndAfterAnswer(q, r)
         /\ e.name # "SIPRequestDidEnd" \/ Has(q, r, AnswerEvent))
            => EndAfterAnswer(p, r)
    BY AnswerOrderAppend
  <1>6. \A s : s # r /\ EndAfterSuccess(q, s) => EndAfterSuccess(p, s)
    BY SuccessOrderAppend
  <1>7. (/\ EndAfterSuccess(q, r) \/ e.name = "SIPRequestDidEnd"
         /\ e.name # "SIPRequestDidSucceed")
            => EndAfterSuccess(p, r)
    BY SuccessOrderAppend
  <1> HIDE DEF p
  <1>8. Grown(q, p, r)
    BY <1>2, <1>3, <1>4, <1>6 DEF Grown
  <1>9. Has(p, r, {e.name}) /\ \A names : Has(p, r, names)
                           <=> Has(q, r, names) \/ e.name \in names
    BY <1>3
  <1> QED  BY <1>5, <1>7, <1>8, <1>9 DEF p

LEMMA RequestMovesOn ==
    ASSUME CoreInv, NEW r \in Requests, NEW x \in RequestRecord,
           Moves(r, x), Grown(events, events', r), Reported(r, x)
    PROVE  CoreInv'
  <1>1. /\ request \in [Requests -> RequestRecord]
        /\ request'[r] = x
        /\ \A q \in Requests : q # r => request'[q] = request[q]
    BY DEF CoreInv, CoreTypeOK, RequestTypeOK, Moves
  <1>2. CoreTypeOK'
    BY <1>1 DEF CoreInv, CoreTypeOK, RequestTypeOK, Moves, Grown
  <1>3. \A h \in Registrations : /\ registration[h].current \in Requests \cup {NoRequest}
                                 /\ registration[h].last \in Requests \cup {NoRequest}
    BY References
  <1>4. request[r].state = "IN_PROGRESS" => ~Has(events, r, {"SIPRequestDidEnd"})
    BY DEF CoreInv, ObjectInv, UnderWayIsSilent, Queued, Has, EventName
  <1> USE DEF CoreInv, ObjectInv, Grown, Reported
  <1>a. registration' = registration /\ owner' = owner
    BY DEF Moves
  <1>5. CurrentIsAnswered'
    BY <1>1, <1>3, <1>a DEF CurrentIsAnswered, WillBeAnswered, Queued
  <1>6. LastWillEnd'
    BY <1>1, <1>3, <1>4, <1>a DEF LastWillEnd, WillEnd, Queued
  <1>7. OneRequestUnderWay'
    BY <1>1, <1>a DEF OneRequestUnderWay
  <1>8. UnregisteringIsBound' /\ Owned'
    BY <1>a DEF UnregisteringIsBound, Owned
  <1>9. AnswerComesFirst'
    BY <1>1, <1>3, <1>a DEF AnswerComesFirst, CurrentIsAnswered, WillBeAnswered, Queued
  <1>10. AcceptedWillEnd'
    BY <1>1 DEF AcceptedWillEnd
  <1>11. UnderWayIsSilent'
    BY <1>1 DEF UnderWayIsSilent, Queued
  <1> QED  BY <1>2, <1>5, <1>6, <1>7, <1>8, <1>9, <1>10, <1>11

LEMMA TerminatedIsTyped ==
    Terminated \in RequestRecord /\ Terminated.state = "TERMINATED"
  BY DEF Terminated, RequestRecord, RequestState

\* The request fails, or succeeds and is over: an answer and an end.
LEMMA AnsweredAndOver ==
    ASSUME CoreInv, NEW r \in Requests, NEW e \in Event,
           request[r].state = "IN_PROGRESS",
           e.obj = r, e.name \in AnswerEvent,
           Moves(r, Terminated),
           events' = Add2(events, e, DidEnd(r))
    PROVE  CoreInv'
  <1>1. events \in Seq(Event)
    BY DEF CoreInv, CoreTypeOK, RequestTypeOK
  <1>2. /\ Grown(events, events', r)
        /\ Has(events', r, AnswerEvent)
        /\ EndAfterAnswer(events, r) => EndAfterAnswer(events', r)
        /\ EndAfterSuccess(events', r)
    BY <1>1, AnswerAndEndGrow
  <1>3. Reported(r, Terminated)
    BY <1>2, TerminatedIsTyped DEF Reported
  <1> QED  BY <1>2, <1>3, TerminatedIsTyped, RequestMovesOn

LEMMA AuthNotSentPreserves ==
    ASSUME CoreInv, NEW r \in Requests, AuthNotSent(r),
           registration' = registration, owner' = owner
    PROVE  CoreInv'
  <1> DEFINE F == DidFail(r, Transport)
             E == Add2(events, F, DidEnd(r))
  <1>1. /\ events \in Seq(Event)
        /\ F \in Event /\ F.obj = r /\ F.name \in AnswerEvent
    BY RequestAssumption
       DEF CoreInv, CoreTypeOK, RequestTypeOK, DidFail, Event, EventName, AnswerEvent
  <1>2. /\ request[r].state = "IN_PROGRESS"
        /\ Moves(r, Terminated)
        /\ events' = Add2(E, F, DidEnd(r))
    BY DEF AuthNotSent, Moves
  <1> HIDE DEF F
  <1>3. /\ Grown(events, E, r)
        /\ EndAfterAnswer(events, r) => EndAfterAnswer(E, r)
    BY <1>1, AnswerAndEndGrow
  <1>4. E \in Seq(Event)
    BY <1>3 DEF Grown
  <1> HIDE DEF E
  <1>5. /\ Grown(E, events', r)
        /\ Has(events', r, AnswerEvent)
        /\ EndAfterAnswer(E, r) => EndAfterAnswer(events', r)
        /\ EndAfterSuccess(events', r)
    BY <1>1, <1>2, <1>4, AnswerAndEndGrow
  <1>6. Grown(events, events', r)
    BY <1>3, <1>5 DEF Grown
  <1>7. Reported(r, Terminated)
    BY <1>2, <1>3, <1>5, TerminatedIsTyped DEF Reported
  <1> QED  BY <1>2, <1>6, <1>7, TerminatedIsTyped, RequestMovesOn

LEMMA AcceptedPreserves ==
    ASSUME CoreInv, NEW r \in Requests, Accepted(r),
           registration' = registration, owner' = owner
    PROVE  CoreInv'
  <1> DEFINE S == DidSucceed(r)
  <1>1. /\ events \in Seq(Event)
        /\ request \in [Requests -> RequestRecord]
        /\ S \in Event /\ S.obj = r /\ S.name = "SIPRequestDidSucceed"
    BY DEF CoreInv, CoreTypeOK, RequestTypeOK, DidSucceed, Event, EventName
  <1>2. CASE /\ request[r].state = "IN_PROGRESS"
             /\ request' = [request EXCEPT ![r].state = "EXPIRING",
                               ![r].need_auth = FALSE, ![r].rest = TRUE]
             /\ events' = Append(events, S)
    <2> DEFINE x == [request[r] EXCEPT !.state = "EXPIRING",
                                       !.need_auth = FALSE, !.rest = TRUE]
    <2>1. x \in RequestRecord /\ x.state = "EXPIRING"
      <3> DEFINE o == request[r]
      <3>1. o \in RequestRecord /\ x = [o EXCEPT !.state = "EXPIRING",
                                       !.need_auth = FALSE, !.rest = TRUE]
        BY <1>1
      <3> HIDE DEF o, x
      <3> QED  BY <3>1 DEF RequestRecord, RequestState
    <2>2. Moves(r, x)
      BY <1>1, <1>2 DEF Moves
    <2> HIDE DEF x, S
    <2>3. /\ Grown(events, events', r)
          /\ \A names : Has(events', r, names)
                           <=> Has(events, r, names) \/ S.name \in names
          /\ EndAfterAnswer(events, r) => EndAfterAnswer(events', r)
      BY <1>1, <1>2, OneGrows
    <2>4. Has(events', r, AnswerEvent)
      BY <1>1, <2>3 DEF AnswerEvent
    <2>5. Reported(r, x)
      BY <1>2, <2>1, <2>3, <2>4 DEF Reported
    <2> QED  BY <2>1, <2>2, <2>3, <2>5, RequestMovesOn
  <1>3. CASE /\ request[r].state = "IN_PROGRESS"
             /\ request' = [request EXCEPT ![r] = Terminated]
             /\ events' = Add2(events, S, DidEnd(r))
    <2>1. Moves(r, Terminated) /\ S.name \in AnswerEvent
      BY <1>1, <1>3 DEF Moves, AnswerEvent
    <2> HIDE DEF S
    <2> QED  BY <1>1, <1>3, <2>1, AnsweredAndOver
  <1> QED  BY <1>2, <1>3 DEF Accepted, Add1

LEMMA RequestTimerPreserves ==
    ASSUME CoreInv, NEW r \in Requests, RequestTimer(r),
           registration' = registration, owner' = owner
    PROVE  CoreInv'
  <1>1. /\ events \in Seq(Event)
        /\ request \in [Requests -> RequestRecord]
    BY DEF CoreInv, CoreTypeOK, RequestTypeOK
  <1>2. CASE TransactionTerminated(r)
    <2> DEFINE F == DidFail(r, Transport)
    <2>1. F \in Event /\ F.obj = r /\ F.name \in AnswerEvent
      BY RequestAssumption DEF DidFail, Event, EventName, AnswerEvent
    <2>2. /\ request[r].state = "IN_PROGRESS" /\ Moves(r, Terminated)
          /\ events' = Add2(events, F, DidEnd(r))
      BY <1>2 DEF TransactionTerminated, Moves
    <2> HIDE DEF F
    <2> QED  BY <2>1, <2>2, AnsweredAndOver
  <1>3. CASE /\ request[r].state = "EXPIRING"
             /\ request' = [request EXCEPT ![r].rest = FALSE]
             /\ events' = Append(events, WillExpire(r))
    <2> DEFINE x == [request[r] EXCEPT !.rest = FALSE]
               W == WillExpire(r)
    <2>1. x \in RequestRecord /\ x.state = "EXPIRING"
      <3> DEFINE o == request[r]
      <3>1. o \in RequestRecord /\ x = [o EXCEPT !.rest = FALSE]
            /\ o.state = "EXPIRING"
        BY <1>1, <1>3
      <3> HIDE DEF o, x
      <3> QED  BY <3>1 DEF RequestRecord
    <2>2. /\ W \in Event /\ W.obj = r /\ W.name = "SIPRequestWillExpire"
          /\ events' = Append(events, W)
      BY <1>3 DEF WillExpire, Event, EventName
    <2>3. Moves(r, x)
      BY <1>1, <1>3 DEF Moves
    <2> HIDE DEF x, W
    <2>4. /\ Grown(events, events', r)
          /\ EndAfterAnswer(events, r) => EndAfterAnswer(events', r)
      BY <1>1, <2>2, OneGrows
    <2>5. Reported(r, x)
      BY <1>3, <2>1, <2>4 DEF Reported
    <2> QED  BY <2>1, <2>3, <2>4, <2>5, RequestMovesOn
  <1>4. CASE /\ request[r].state = "EXPIRING"
             /\ request' = [request EXCEPT ![r] = Terminated]
             /\ events' = Append(events, DidEnd(r))
    <2> DEFINE D == DidEnd(r)
    <2>1. /\ D \in Event /\ D.obj = r /\ D.name = "SIPRequestDidEnd"
          /\ events' = Append(events, D)
      BY <1>4 DEF DidEnd, Event, EventName
    <2>2. Moves(r, Terminated)
      BY <1>4 DEF Moves
    <2> HIDE DEF D
    <2>3. /\ Grown(events, events', r)
          /\ Has(events', r, {"SIPRequestDidEnd"})
          /\ EndAfterAnswer(events, r) /\ Has(events, r, AnswerEvent)
                => EndAfterAnswer(events', r)
          /\ EndAfterSuccess(events', r)
      BY <1>1, <2>1, OneGrows
    <2>4. Reported(r, Terminated)
      BY <1>4, <2>3, TerminatedIsTyped DEF Reported
    <2> QED  BY <2>2, <2>3, <2>4, TerminatedIsTyped, RequestMovesOn
  <1> QED  BY <1>2, <1>3, <1>4 DEF RequestTimer, Add1

LEMMA PjsipPreserves ==
    ASSUME CoreInv, NEW r \in Requests, Pjsip(r),
           registration' = registration, owner' = owner
    PROVE  CoreInv'
  <1>1. request \in [Requests -> RequestRecord]
    BY DEF CoreInv, CoreTypeOK, RequestTypeOK
  <1>2. ASSUME NEW c \in Codes, request[r].state = "IN_PROGRESS",
               request' = [request EXCEPT ![r] = Terminated],
               events' = Add2(events, DidFail(r, c), DidEnd(r))
        PROVE  CoreInv'
    <2> DEFINE F == DidFail(r, c)
    <2>1. F \in Event /\ F.obj = r /\ F.name \in AnswerEvent
      BY DEF DidFail, Event, EventName, AnswerEvent
    <2>2. Moves(r, Terminated) /\ events' = Add2(events, F, DidEnd(r))
      BY <1>2 DEF Moves
    <2> HIDE DEF F
    <2> QED  BY <1>2, <2>1, <2>2, AnsweredAndOver
  <1>3. CASE AuthRetried(r)
    <2> DEFINE x == [request[r] EXCEPT !.need_auth = FALSE]
    <2>1. /\ request[r].state = "IN_PROGRESS"
          /\ request' = [request EXCEPT ![r].need_auth = FALSE]
          /\ events' = events
      BY <1>3 DEF AuthRetried
    <2>2. Moves(r, x)
      BY <1>1, <2>1 DEF Moves
    <2>3. x \in RequestRecord /\ x.state = "IN_PROGRESS"
      <3> DEFINE o == request[r]
      <3>1. o \in RequestRecord /\ x = [o EXCEPT !.need_auth = FALSE]
            /\ o.state = "IN_PROGRESS"
        BY <1>1, <2>1
      <3> HIDE DEF o, x
      <3> QED  BY <3>1 DEF RequestRecord
    <2>4. Grown(events, events', r)
      BY <2>1 DEF Grown, CoreInv, CoreTypeOK, RequestTypeOK
    <2>5. EndAfterSuccess(events', r)
      BY <2>1 DEF CoreInv, ObjectInv, AcceptedWillEnd
    <2> HIDE DEF x
    <2>6. Reported(r, x)
      BY <2>1, <2>3, <2>5 DEF Reported
    <2> QED  BY <2>2, <2>3, <2>4, <2>6, RequestMovesOn
  <1>4. CASE AuthNotBuilt(r)
    BY <1>2, <1>4, RequestAssumption DEF AuthNotBuilt
  <1>5. CASE Refused(r)
    BY <1>2, <1>5 DEF Refused
  <1> QED
    BY <1>3, <1>4, <1>5, AuthNotSentPreserves, AcceptedPreserves,
       RequestTimerPreserves DEF Pjsip

-----------------------------------------------------------------------------
(***************************************************************************)
(* The object on its own.                                                  *)
(***************************************************************************)
LEMMA ObjectInitCore ==
    ASSUME RequestInit, RegistrationInit
    PROVE  CoreInv
  <1>1. CoreTypeOK
    <2>1. Unsent \in RequestRecord /\ NewRegistration \in RegistrationRecord
      BY DEF Unsent, Terminated, RequestRecord, RequestState, RegistrationRecord,
             NewRegistration
    <2>2. request \in [Requests -> RequestRecord] /\ events \in Seq(Event)
      BY <2>1 DEF RequestInit
    <2>3. /\ registration \in [Registrations -> RegistrationRecord]
          /\ owner \in [Requests -> Registrations \cup {NoRegistration}]
      BY <2>1 DEF RegistrationInit
    <2> QED  BY <2>2, <2>3 DEF CoreTypeOK, RequestTypeOK
  <1>2. /\ \A g \in Registrations : /\ registration[g].current = NoRequest
                                    /\ registration[g].last = NoRequest
        /\ \A r \in Requests : request[r].state = "INIT"
        /\ Len(events) = 0
    BY DEF RequestInit, RegistrationInit, Unsent, Terminated, NewRegistration
  <1>3. /\ CurrentIsAnswered /\ LastWillEnd /\ UnregisteringIsBound
        /\ AnswerComesFirst
    BY <1>2 DEF CurrentIsAnswered, LastWillEnd, UnregisteringIsBound,
                AnswerComesFirst
  <1>4. Owned
    BY <1>2, RegistrationAssumption DEF Owned
  <1>5. OneRequestUnderWay /\ UnderWayIsSilent
    BY <1>2 DEF OneRequestUnderWay, UnderWayIsSilent
  <1>6. AcceptedWillEnd
    <2>1. 1..Len(events) = {}
      BY <1>2
    <2> QED  BY <2>1 DEF AcceptedWillEnd, EndAfterSuccess
  <1> QED  BY <1>1, <1>3, <1>4, <1>5, <1>6 DEF CoreInv, ObjectInv

\* What CoreInv does not speak of: the observers and their notifications.
OutboxOK == observed \subseteq Registrations /\ posted \in Seq(Notification)

LEMMA PostIsTyped ==
    ASSUME OutboxOK, NEW g \in Registrations, NEW n \in NotificationName,
           NEW c \in Codes \cup {NoCode}, Post(g, n, c)
    PROVE  posted' \in Seq(Notification)
  <1>1. Note(n, g, c) \in Notification
    BY DEF Note, Notification
  <1> QED  BY <1>1 DEF Post, OutboxOK

LEMMA OwnerIsTyped ==
    ASSUME CoreInv, events # <<>>, Owner # NoRegistration
    PROVE  Owner \in Registrations /\ Head(events) \in Event
  BY TailQueue DEF CoreInv, CoreTypeOK, RequestTypeOK, Owner, Req, Event

LEMMA HandleEventOutbox ==
    ASSUME CoreInv, OutboxOK, HandleEvent
    PROVE  OutboxOK'
  <1>1. observed' = observed
    BY DEF HandleEvent, NH_SIPRequestDidSucceed, NH_SIPRequestDidFail,
           NH_SIPRequestWillExpire, NH_SIPRequestDidEnd, EventDropped,
           registrationVars
  <1>2. /\ events # <<>>
        /\ \/ posted' = posted
           \/ /\ Owner # NoRegistration
              /\ \E n \in NotificationName, c \in {NoCode, Head(events).code} :
                    Post(Owner, n, c)
    BY DEF HandleEvent, NH_SIPRequestDidSucceed, NH_SIPRequestDidFail,
           NH_SIPRequestWillExpire, NH_SIPRequestDidEnd, EventDropped,
           registrationVars, Handling, NotificationName
  <1>3. CASE posted' = posted
    BY <1>1, <1>3 DEF OutboxOK
  <1>4. CASE /\ Owner # NoRegistration
             /\ \E n \in NotificationName, c \in {NoCode, Head(events).code} :
                   Post(Owner, n, c)
    <2>1. Owner \in Registrations /\ Head(events).code \in Codes \cup {NoCode}
      BY <1>2, <1>4, OwnerIsTyped DEF Event
    <2>2. posted' \in Seq(Notification)
      BY <1>4, <2>1, PostIsTyped
    <2> QED  BY <1>1, <2>2 DEF OutboxOK
  <1> QED  BY <1>2, <1>3, <1>4

LEMMA ObjectNextPreserves ==
    ASSUME CoreInv /\ OutboxOK, [ObjectNext]_objectVars
    PROVE  (CoreInv /\ OutboxOK)'
  <1>1. ASSUME NEW g \in Registrations, Register(g)
        PROVE  CoreInv'
    BY <1>1, SendRequestPreserves DEF Register
  <1>2. ASSUME NEW g \in Registrations, End(g)
        PROVE  CoreInv'
    BY <1>2, SendRequestPreserves DEF End
  <1>3. ASSUME NEW g \in Registrations, CallError(g)
        PROVE  CoreInv'
    BY <1>3, SendErrorPreserves DEF CallError
  <1>4. CASE \E g \in Registrations : Register(g) \/ End(g) \/ CallError(g)
    <2>1. CoreInv'
      BY <1>1, <1>2, <1>3, <1>4
    <2>2. OutboxOK'
      BY <1>4 DEF Register, End, CallError, OutboxOK
    <2> QED  BY <2>1, <2>2
  <1>5. CASE Deliver
    <2>1. UNCHANGED <<request, events, registration, owner>>
      BY <1>5 DEF Deliver, requestVars
    <2>2. CoreInv'
      BY <2>1 DEF CoreInv, CoreTypeOK, RequestTypeOK, ObjectInv,
                  CurrentIsAnswered, WillBeAnswered, LastWillEnd, WillEnd,
                  OneRequestUnderWay, UnregisteringIsBound, Owned,
                  AnswerComesFirst, EndAfterAnswer, AcceptedWillEnd,
                  EndAfterSuccess, UnderWayIsSilent, Queued, Has
    <2>3. OutboxOK'
      BY <1>5 DEF Deliver, OutboxOK
    <2> QED  BY <2>2, <2>3
  <1>6. CASE HandleEvent
    BY <1>6, HandleEventPreserves, HandleEventOutbox
  <1>7. CASE PjsipStep
    <2>1. UNCHANGED <<registration, owner, observed, posted>>
      BY <1>7 DEF PjsipStep, registrationVars
    <2>2. CoreInv'
      BY <1>7, <2>1, PjsipPreserves DEF PjsipStep
    <2> QED  BY <2>1, <2>2 DEF OutboxOK
  <1>8. CASE UNCHANGED objectVars
    <2>1. UNCHANGED <<request, events, registration, owner, observed, posted>>
      BY <1>8 DEF objectVars, requestVars, registrationVars
    <2> QED
      BY <2>1 DEF CoreInv, CoreTypeOK, RequestTypeOK, ObjectInv,
                  CurrentIsAnswered, WillBeAnswered, LastWillEnd, WillEnd,
                  OneRequestUnderWay, UnregisteringIsBound, Owned,
                  AnswerComesFirst, EndAfterAnswer, AcceptedWillEnd,
                  EndAfterSuccess, UnderWayIsSilent, Queued, Has, OutboxOK
  <1> QED  BY <1>4, <1>5, <1>6, <1>7, <1>8 DEF ObjectNext, Client

LEMMA ObjectInvariant == ObjectSpec => [](CoreInv /\ OutboxOK)
  <1>1. ObjectInit => CoreInv /\ OutboxOK
    BY ObjectInitCore DEF ObjectInit, OutboxOK, RegistrationInit
  <1>2. CoreInv /\ OutboxOK /\ [ObjectNext]_objectVars => (CoreInv /\ OutboxOK)'
    BY ObjectNextPreserves
  <1> QED  BY <1>1, <1>2, PTL DEF ObjectSpec

\* Whatever the client calls and pjsip does, the variables keep their types: in
\* particular every handler finds the objects it dereferences.
THEOREM ObjectTypeCorrect == ObjectSpec => []ObjectTypeOK
  <1>1. CoreInv /\ OutboxOK => ObjectTypeOK
    BY DEF CoreInv, CoreTypeOK, OutboxOK, ObjectTypeOK, RegistrationTypeOK
  <1> QED  BY <1>1, ObjectInvariant, PTL

\* The inductive invariant of the objects (Registration and Request of the core).
THEOREM ObjectCorrect == ObjectSpec => []ObjectInv
  <1>1. CoreInv => ObjectInv
    BY DEF CoreInv
  <1> QED  BY <1>1, ObjectInvariant, PTL

\* No call is ever left without an answer: the current request of a Registration
\* is in progress or its answer is in the event queue.
THEOREM CurrentAlwaysAnswered == ObjectSpec => []CurrentIsAnswered
  <1>1. ObjectInv => CurrentIsAnswered
    BY DEF ObjectInv
  <1> QED  BY <1>1, ObjectCorrect, PTL

\* A binding that is_registered reports will end: its request counts down to the
\* expiry or its SIPRequestDidEnd is in the event queue.
THEOREM LastAlwaysEnds == ObjectSpec => []LastWillEnd
  <1>1. ObjectInv => LastWillEnd
    BY DEF ObjectInv
  <1> QED  BY <1>1, ObjectCorrect, PTL

\* Neither a pending call nor a reported binding is ever lost sight of by the
\* Registration that the request or the binding belongs to.
THEOREM NothingIsLost == ObjectSpec => []NothingLostSightOf
  <1> QED  BY CurrentAlwaysAnswered, LastAlwaysEnds, PTL DEF NothingLostSightOf

\* A Registration never has two requests under way (_make_and_send_request ends
\* the one it replaces).
THEOREM OneAtATime == ObjectSpec => []OneRequestUnderWay
  <1>1. ObjectInv => OneRequestUnderWay
    BY DEF ObjectInv
  <1> QED  BY <1>1, ObjectCorrect, PTL

-----------------------------------------------------------------------------
(***************************************************************************)
(* The objects implement RegistrationService.                              *)
(***************************************************************************)

\* A step that touches one object changes the abstract state at that object only.
LEMMA OneObjectMaps ==
    ASSUME registration \in [Registrations -> RegistrationRecord],
           registration' \in [Registrations -> RegistrationRecord],
           NEW g \in Registrations,
           \A h \in Registrations : h # g => registration'[h] = registration[h]
    PROVE  /\ Bound' = [Bound EXCEPT ![g] = Bound'[g]]
           /\ PendingCall' = [PendingCall EXCEPT ![g] = PendingCall'[g]]
  BY DEF Bound, PendingCall

LEMMA SameObjectsMap ==
    ASSUME registration' = registration
    PROVE  Bound' = Bound /\ PendingCall' = PendingCall
  BY DEF Bound, PendingCall

\* The abstract state at one object.
LEMMA AbstractState ==
    ASSUME NEW g \in Registrations
    PROVE  /\ Bound[g] = (registration[g].last # NoRequest)
           /\ Bound'[g] = (registration'[g].last # NoRequest)
           /\ registration[g].current = NoRequest => PendingCall[g] = "none"
           /\ registration[g].current # NoRequest =>
                PendingCall[g] = IF registration[g].unregistering
                                 THEN "end" ELSE "register"
           /\ registration'[g].current = NoRequest => PendingCall'[g] = "none"
           /\ registration'[g].current # NoRequest =>
                PendingCall'[g] = IF registration'[g].unregistering
                                  THEN "end" ELSE "register"
  BY DEF Bound, PendingCall

LEMMA TellMaps ==
    ASSUME NEW g, NEW n, NEW c, Post(g, n, c)
    PROVE  Service!Tell(g, n, c)
  BY DEF Post, Note, Service!Tell

LEMMA CallsMap ==
    ASSUME CoreInv, NEW g \in Registrations,
           Register(g) \/ End(g) \/ CallError(g)
    PROVE  Service!Next \/ UNCHANGED Service!vars
  <1>1. /\ registration \in [Registrations -> RegistrationRecord]
        /\ observed' = observed /\ posted' = posted
    BY DEF CoreInv, CoreTypeOK, Register, End, CallError
  <1>2. ASSUME NEW asks \in BOOLEAN, SendRequest(g, asks)
        PROVE  /\ PendingCall' = [PendingCall EXCEPT
                                    ![g] = IF asks THEN "register" ELSE "end"]
               /\ Bound' = Bound
    <2>1. /\ FreeRequest \in Requests
          /\ registration' = [registration EXCEPT ![g].current = FreeRequest,
                                                  ![g].unregistering = ~asks]
      BY <1>2, FreeIsFresh DEF SendRequest
    <2> DEFINE n == FreeRequest
    <2> HIDE DEF n
    <2>2. /\ n \in Requests /\ n # NoRequest
          /\ registration' = [registration EXCEPT ![g].current = n,
                                                  ![g].unregistering = ~asks]
      BY <2>1, RegistrationAssumption DEF n
    <2>3. /\ registration'[g].current = n
          /\ registration'[g].unregistering = ~asks
          /\ registration'[g].last = registration[g].last
          /\ \A h \in Registrations : h # g => registration'[h] = registration[h]
      BY <1>1, <2>2 DEF RegistrationRecord
    <2>4. registration' \in [Registrations -> RegistrationRecord]
      BY <1>1, <2>2 DEF RegistrationRecord
    <2>5. /\ Bound' = [Bound EXCEPT ![g] = Bound'[g]]
          /\ PendingCall' = [PendingCall EXCEPT ![g] = PendingCall'[g]]
      BY <1>1, <2>3, <2>4, OneObjectMaps
    <2>6. Bound'[g] = Bound[g]
      BY <2>3, AbstractState
    <2>7. PendingCall'[g] = IF asks THEN "register" ELSE "end"
      BY <2>2, <2>3, AbstractState
    <2> QED  BY <2>5, <2>6, <2>7 DEF Bound
  <1>3. CASE Register(g)
    BY <1>1, <1>2, <1>3 DEF Register, Service!Register, Service!Next
  <1>4. CASE End(g)
    <2>1. Bound[g]
      BY <1>4, AbstractState DEF End, NothingToEnd
    <2> QED  BY <1>1, <1>2, <1>4, <2>1 DEF End, Service!End, Service!Next
  <1>5. CASE SendError(g)
    <2>1. CASE UNCHANGED registration
      BY <1>1, <2>1, SameObjectsMap DEF Service!vars
    <2>2. CASE registration' = [registration EXCEPT ![g].current = NoRequest]
      <3>1. /\ registration'[g].current = NoRequest
            /\ registration'[g].last = registration[g].last
            /\ \A h \in Registrations : h # g => registration'[h] = registration[h]
            /\ registration' \in [Registrations -> RegistrationRecord]
        BY <1>1, <2>2 DEF RegistrationRecord
      <3>2. /\ Bound' = [Bound EXCEPT ![g] = Bound'[g]]
            /\ PendingCall' = [PendingCall EXCEPT ![g] = PendingCall'[g]]
        BY <1>1, <3>1, OneObjectMaps
      <3>3. Bound'[g] = Bound[g] /\ PendingCall'[g] = "none"
        BY <3>1, AbstractState
      <3>4. Bound' = Bound
        BY <3>2, <3>3 DEF Bound
      <3> QED  BY <1>1, <3>2, <3>3, <3>4 DEF Service!Withdraw, Service!Next
    <2> QED  BY <1>5, <2>1, <2>2 DEF SendError
  <1> QED  BY <1>3, <1>4, <1>5 DEF CallError

LEMMA AnswersMap ==
    ASSUME CoreInv, NH_SIPRequestDidSucceed \/ NH_SIPRequestDidFail
    PROVE  Service!Next
  <1> DEFINE g == Owner
             n == Req
  <1>1. /\ registration \in [Registrations -> RegistrationRecord]
        /\ g \in Registrations /\ Head(events) \in Event
        /\ n = registration[g].current /\ n \in Requests /\ n # NoRequest
        /\ observed' = observed
    BY OwnerIsTyped, EventFields, RegistrationAssumption
       DEF CoreInv, CoreTypeOK, NH_SIPRequestDidSucceed, NH_SIPRequestDidFail,
           Handling, Obj, Req
  <1> HIDE DEF g, n
  <1>2. ASSUME NEW x \in Requests \cup {NoRequest},
               \/ /\ x = registration[g].last
                  /\ registration' = [registration EXCEPT ![g].current = NoRequest]
               \/ registration' = [registration EXCEPT ![g].current = NoRequest,
                                                       ![g].last = x]
        PROVE  /\ Bound' = [Bound EXCEPT ![g] = (x # NoRequest)]
               /\ PendingCall' = [PendingCall EXCEPT ![g] = "none"]
    <2>1. /\ registration'[g].current = NoRequest
          /\ registration'[g].last = x
          /\ \A h \in Registrations : h # g => registration'[h] = registration[h]
          /\ registration' \in [Registrations -> RegistrationRecord]
      BY <1>1, <1>2 DEF RegistrationRecord
    <2>2. /\ Bound' = [Bound EXCEPT ![g] = Bound'[g]]
          /\ PendingCall' = [PendingCall EXCEPT ![g] = PendingCall'[g]]
      BY <1>1, <2>1, OneObjectMaps
    <2> QED  BY <1>1, <2>1, <2>2, AbstractState
  <1>3. PendingCall[g] = IF registration[g].unregistering THEN "end" ELSE "register"
    BY <1>1, AbstractState
  <1>4. CASE NH_SIPRequestDidSucceed /\ registration[g].unregistering
    <2>1. /\ registration' = [registration EXCEPT ![g].current = NoRequest,
                                                  ![g].last = NoRequest]
          /\ Post(g, "SIPRegistrationDidEnd", NoCode)
      BY <1>4 DEF NH_SIPRequestDidSucceed, Obj, g
    <2>2. Bound[g]
      BY <1>1, <1>4, AbstractState DEF CoreInv, ObjectInv, UnregisteringIsBound
    <2>3. /\ Bound' = [Bound EXCEPT ![g] = FALSE]
          /\ PendingCall' = [PendingCall EXCEPT ![g] = "none"]
      BY <1>2, <2>1
    <2> QED  BY <1>1, <2>1, <2>2, <2>3, TellMaps DEF Service!Ended, Service!Next
  <1>5. CASE NH_SIPRequestDidSucceed /\ ~registration[g].unregistering
    <2>1. /\ registration' = [registration EXCEPT ![g].current = NoRequest,
                                                  ![g].last = n]
          /\ Post(g, "SIPRegistrationDidSucceed", NoCode)
      BY <1>5 DEF NH_SIPRequestDidSucceed, Obj, g, n
    <2>2. /\ Bound' = [Bound EXCEPT ![g] = TRUE]
          /\ PendingCall' = [PendingCall EXCEPT ![g] = "none"]
      BY <1>1, <1>2, <2>1
    <2> QED  BY <1>1, <1>3, <1>5, <2>1, <2>2, TellMaps
             DEF Service!Registered, Service!Next
  <1>6. CASE NH_SIPRequestDidFail
    <2> DEFINE c == Head(events).code
    <2>1. /\ registration' = [registration EXCEPT ![g].current = NoRequest]
          /\ Post(g, IF registration[g].unregistering THEN "SIPRegistrationDidNotEnd"
                                                      ELSE "SIPRegistrationDidFail", c)
      BY <1>6 DEF NH_SIPRequestDidFail, Obj, g
    <2>2. c \in Codes
      BY <1>1, <1>6, EventFields DEF NH_SIPRequestDidFail, Handling
    <2>3. registration[g].last \in Requests \cup {NoRequest}
      BY <1>1 DEF RegistrationRecord
    <2>4. /\ Bound' = [Bound EXCEPT ![g] = Bound[g]]
          /\ PendingCall' = [PendingCall EXCEPT ![g] = "none"]
      BY <1>1, <1>2, <2>1, <2>3, AbstractState
    <2>5. Bound' = Bound
      BY <2>4 DEF Bound
    <2> HIDE DEF c
    <2>6. CASE registration[g].unregistering
      BY <1>1, <1>3, <2>1, <2>2, <2>4, <2>5, <2>6, TellMaps
         DEF Service!NotEnded, Service!Next
    <2>7. CASE ~registration[g].unregistering
      BY <1>1, <1>3, <2>1, <2>2, <2>4, <2>5, <2>7, TellMaps
         DEF Service!Refused, Service!Next
    <2> QED  BY <2>6, <2>7
  <1> QED  BY <1>4, <1>5, <1>6

LEMMA OtherEventsMap ==
    ASSUME CoreInv,
           NH_SIPRequestWillExpire \/ NH_SIPRequestDidEnd \/ EventDropped
    PROVE  Service!Next \/ UNCHANGED Service!vars
  <1> DEFINE g == Owner
  <1>1. /\ registration \in [Registrations -> RegistrationRecord]
        /\ observed' = observed
    BY DEF CoreInv, CoreTypeOK, NH_SIPRequestWillExpire, NH_SIPRequestDidEnd,
           EventDropped, registrationVars
  <1>2. Owner # NoRegistration /\ events # <<>>
          => g \in Registrations /\ Req \in Requests
    BY OwnerIsTyped, EventFields DEF Req
  <1> HIDE DEF g
  <1>3. CASE UNCHANGED <<registration, posted>>
    BY <1>1, <1>3, SameObjectsMap DEF Service!vars
  <1>4. CASE NH_SIPRequestWillExpire
    <2>1. /\ g \in Registrations /\ registration[g].last # NoRequest
          /\ registration' = registration
          /\ Post(g, "SIPRegistrationWillExpire", NoCode)
      BY <1>2, <1>4, RegistrationAssumption
         DEF NH_SIPRequestWillExpire, Handling, Obj, g
    <2>2. Bound[g] /\ Bound' = Bound /\ PendingCall' = PendingCall
      BY <2>1, AbstractState, SameObjectsMap
    <2> QED  BY <1>1, <2>1, <2>2, TellMaps DEF Service!Expiring, Service!Next
  <1>5. CASE NH_SIPRequestDidEnd /\ Req = Obj.last
    <2>1. /\ g \in Registrations /\ registration[g].last # NoRequest
          /\ registration' = [registration EXCEPT ![g].current = NoRequest,
                                                  ![g].last = NoRequest]
          /\ Post(g, "SIPRegistrationDidEnd", NoCode)
      BY <1>2, <1>5, RegistrationAssumption
         DEF NH_SIPRequestDidEnd, Handling, Obj, g
    <2>2. /\ registration'[g].current = NoRequest
          /\ registration'[g].last = NoRequest
          /\ \A h \in Registrations : h # g => registration'[h] = registration[h]
          /\ registration' \in [Registrations -> RegistrationRecord]
      BY <1>1, <2>1 DEF RegistrationRecord
    <2>3. /\ Bound' = [Bound EXCEPT ![g] = Bound'[g]]
          /\ PendingCall' = [PendingCall EXCEPT ![g] = PendingCall'[g]]
      BY <1>1, <2>1, <2>2, OneObjectMaps
    <2>4. Bound[g] /\ Bound'[g] = FALSE /\ PendingCall'[g] = "none"
      BY <2>1, <2>2, AbstractState
    <2> QED  BY <1>1, <2>1, <2>3, <2>4, TellMaps DEF Service!Ended, Service!Next
  <1>6. CASE NH_SIPRequestDidEnd /\ Req # Obj.last
    BY <1>3, <1>6 DEF NH_SIPRequestDidEnd
  <1>7. CASE EventDropped
    BY <1>3, <1>7 DEF EventDropped, registrationVars
  <1> QED  BY <1>4, <1>5, <1>6, <1>7

\* The detailed objects, their requests and the event queue implement the service
\* a user of Registration relies on: answers belong to calls, and a binding that
\* was reported ends once.
THEOREM ObjectImplementsService == ObjectSpec => ImplementsService
  <1>1. ObjectInit => Service!Init
    <2> SUFFICES ASSUME ObjectInit
                 PROVE  Service!Init
      OBVIOUS
    <2>1. \A g \in Registrations : /\ registration[g].current = NoRequest
                                   /\ registration[g].last = NoRequest
      BY DEF ObjectInit, RegistrationInit, NewRegistration
    <2>2. /\ Bound = [g \in Registrations |-> FALSE]
          /\ PendingCall = [g \in Registrations |-> "none"]
      BY <2>1 DEF Bound, PendingCall
    <2> QED  BY <2>2 DEF Service!Init, ObjectInit, RegistrationInit
  <1>2. ASSUME CoreInv, [ObjectNext]_objectVars
        PROVE  [Service!Next]_Service!vars
    <2>1. CASE \E g \in Registrations : Register(g) \/ End(g) \/ CallError(g)
      BY <1>2, <2>1, CallsMap
    <2>2. CASE Deliver
      <3>1. Bound' = Bound /\ PendingCall' = PendingCall
        BY <2>2, SameObjectsMap DEF Deliver
      <3> QED  BY <2>2, <3>1 DEF Deliver, Service!Deliver, Service!Next
    <2>3. CASE HandleEvent
      BY <1>2, <2>3, AnswersMap, OtherEventsMap DEF HandleEvent
    <2>4. CASE PjsipStep \/ UNCHANGED objectVars
      <3>1. UNCHANGED <<registration, observed, posted>>
        BY <2>4 DEF PjsipStep, objectVars, registrationVars
      <3> QED  BY <3>1, SameObjectsMap DEF Service!vars
    <2> QED  BY <1>2, <2>1, <2>2, <2>3, <2>4 DEF ObjectNext, Client
  <1> QED
    BY <1>1, <1>2, ObjectInvariant, PTL DEF ObjectSpec, ImplementsService, Service!Spec

=============================================================================
