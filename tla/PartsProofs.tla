----------------------------- MODULE PartsProofs -----------------------------
(***************************************************************************)
(* What the parts that MCParts puts beside each other guarantee, for every *)
(* value of its constants: a referral, a transfer, a conference, a lookup  *)
(* and the manager of the nameservers.  A behaviour is about one part, so  *)
(* each theorem has the invariant of one part, and the steps of the others *)
(* do not concern it.                                                      *)
(***************************************************************************)
EXTENDS MCParts, StreamProofs

\* A behaviour is about one part from its beginning to its end.
LEMMA KindStays == [MCNext]_vars => kind' = kind
<1>1. UNCHANGED vars => kind' = kind BY DEF vars
<1>2. MCNext => kind' = kind BY DEF MCNext, OfConference, OfReferral, OfMover, OfDNS, OfAudio
<1> QED BY <1>1, <1>2
(***************************************************************************)
(* A request to the conference.                                            *)
(***************************************************************************)
Reported == {"DidStart", "DidFail", "DidEnd", "GotNotify", "Terminate"}
\* what is on its way to _run
ToRead == channel \o arriving
\* the last that an engine's referral says
LastWords == {"DidFail", "DidEnd"}
ReferralTypeOK ==
  /\ request \in [at : {"new", "dns", "answer", "active", "ending", "done"}, route : Nat, session : {"up", "ending", "over"},
                  told : Seq({"Progress", "Did", "DidNot"})]
  /\ referral \in [stage : {"none", "sent", "active", "gone"}, want_end : BOOLEAN, observed : BOOLEAN,
                   final : {"none", "yes", "no"}, notified : Nat]
  /\ arriving \in Seq(Reported) /\ channel \in Seq(Reported)
\* what was told: progress, and one answer at the end
ToldSoFar ==
  /\ \A i \in DOMAIN request.told : request.told[i] # "Progress" => request.at = "done" /\ i = Len(request.told)
  /\ request.at = "done" /\ amiss = {} => Len(request.told) > 0 /\ request.told[Len(request.told)] # "Progress"
  /\ \A i \in DOMAIN request.told : request.told[i] = "Did" => referral.stage = "gone" /\ referral.final = "yes"
\* one referral has its last word on the way at most, and while nobody ended it that word is what the conference said
LastWordsCount ==
  /\ AtMostOne(ToRead, LastWords)
  /\ ~NoneOf(ToRead, LastWords) => referral.stage = "gone"
  /\ request.at \in {"new", "dns"} => referral.stage = "none"
  /\ request.at \in {"new", "dns", "answer", "active"} =>
       ~referral.want_end /\ (~NoneOf(ToRead, {"DidEnd"}) => referral.final = "yes")
ReferralInv == ReferralTypeOK /\ ToldSoFar /\ LastWordsCount

\* What becomes of what waits, when a notification is handed on, when _run reads one, and when one is posted.
LEMMA ReferralQueues ==
  ASSUME ReferralTypeOK
  PROVE  /\ ToRead \in Seq(Reported)
         /\ arriving # <<>> => Append(channel, Head(arriving)) \o Tail(arriving) = ToRead
         /\ channel # <<>> => /\ Tail(channel) \o arriving = Tail(ToRead) /\ ToRead # <<>> /\ Head(ToRead) = Head(channel)
         /\ \A e \in Reported : channel \o Append(arriving, e) = Append(ToRead, e)
<1>1. arriving \in Seq(Reported) /\ channel \in Seq(Reported) BY DEF ReferralTypeOK
<1>2. ToRead \in Seq(Reported) BY <1>1 DEF ToRead
<1>3. arriving # <<>> => Append(channel, Head(arriving)) \o Tail(arriving) = ToRead
  BY <1>1, OnePasses, Zenon DEF ToRead
<1>4. channel # <<>> => Tail(channel) \o arriving = Tail(ToRead) /\ ToRead # <<>> /\ ToRead[1] = Head(channel)
  BY <1>1, FirstLeaves, Zenon DEF ToRead
<1>5. Head(ToRead) = ToRead[1] OBVIOUS
<1>6. \A e \in Reported : channel \o Append(arriving, e) = Append(ToRead, e)
  <2> SUFFICES ASSUME NEW e \in Reported PROVE channel \o Append(arriving, e) = Append(ToRead, e) OBVIOUS
  <2> QED BY <1>1, LastComes DEF ToRead
<1>7. channel # <<>> => Tail(channel) \o arriving = Tail(ToRead) /\ ToRead # <<>> /\ Head(ToRead) = Head(channel)
  BY <1>4, <1>5
<1> QED BY <1>2, <1>3, <1>6, <1>7
\* One is read.
LEMMA ReferralReads ==
  ASSUME ReferralTypeOK, LastWordsCount, channel # <<>>, channel' = Tail(channel), arriving' = arriving
  PROVE  /\ AtMostOne(ToRead', LastWords)
         /\ ~NoneOf(ToRead', LastWords) => ~NoneOf(ToRead, LastWords)
         /\ ~NoneOf(ToRead', {"DidEnd"}) => ~NoneOf(ToRead, {"DidEnd"})
         /\ Head(channel) \in LastWords => NoneOf(ToRead', LastWords) /\ ~NoneOf(ToRead, LastWords)
         /\ Head(channel) = "DidEnd" => ~NoneOf(ToRead, {"DidEnd"})
         /\ NoneOf(ToRead', LastWords) => NoneOf(ToRead', {"DidEnd"})
         /\ channel' \in Seq(Reported) /\ Head(channel) \in Reported
<1>1. ToRead \in Seq(Reported) /\ ToRead # <<>> /\ Head(ToRead) = Head(channel) /\ ToRead' = Tail(ToRead)
  BY ReferralQueues DEF ToRead
<1>2. 1 \in DOMAIN ToRead /\ ToRead[1] = Head(channel) BY <1>1, EmptySeq
<1>3. channel \in Seq(Reported) BY DEF ReferralTypeOK
<1>4. channel' \in Seq(Reported) /\ Head(channel) \in Reported BY <1>3
<1>5. NoneOf(ToRead', LastWords) => NoneOf(ToRead', {"DidEnd"}) BY DEF NoneOf, LastWords
<1>6. /\ AtMostOne(ToRead, LastWords) => AtMostOne(ToRead', LastWords)
      /\ ~NoneOf(ToRead', LastWords) => ~NoneOf(ToRead, LastWords)
      /\ AtMostOne(ToRead, LastWords) /\ Head(ToRead) \in LastWords => NoneOf(ToRead', LastWords)
  BY <1>1, OnlyOneLeft, Zenon
<1>7. ~NoneOf(ToRead', {"DidEnd"}) => ~NoneOf(ToRead, {"DidEnd"})
  BY <1>1, OnlyOneLeft, Zenon
<1>8. AtMostOne(ToRead, LastWords) BY DEF LastWordsCount
<1>9. /\ Head(channel) \in LastWords => ~NoneOf(ToRead, LastWords)
      /\ Head(channel) = "DidEnd" => ~NoneOf(ToRead, {"DidEnd"})
  BY <1>2 DEF NoneOf
<1> QED BY <1>1, <1>4, <1>5, <1>6, <1>7, <1>8, <1>9, Zenon
\* One is posted.
LEMMA ReferralPosts ==
  ASSUME ReferralTypeOK, NEW e \in Reported, channel' = channel, arriving' = Append(arriving, e)
  PROVE  /\ NoneOf(ToRead, LastWords) => AtMostOne(ToRead', LastWords)
         /\ AtMostOne(ToRead, LastWords) /\ e \notin LastWords => AtMostOne(ToRead', LastWords)
         /\ NoneOf(ToRead, LastWords) /\ e \notin LastWords => NoneOf(ToRead', LastWords)
         /\ NoneOf(ToRead, {"DidEnd"}) /\ e # "DidEnd" => NoneOf(ToRead', {"DidEnd"})
         /\ arriving' \in Seq(Reported)
<1>1. ToRead \in Seq(Reported) /\ ToRead' = Append(ToRead, e) BY ReferralQueues DEF ToRead
<1>2. arriving' \in Seq(Reported) BY DEF ReferralTypeOK
<1>3. /\ NoneOf(ToRead, LastWords) => AtMostOne(ToRead', LastWords)
      /\ AtMostOne(ToRead, LastWords) /\ e \notin LastWords => AtMostOne(ToRead', LastWords)
      /\ NoneOf(ToRead, LastWords) /\ e \notin LastWords => NoneOf(ToRead', LastWords)
  BY <1>1, OnlyOneCame, Zenon
<1>4. NoneOf(ToRead, {"DidEnd"}) /\ e \notin {"DidEnd"} => NoneOf(ToRead', {"DidEnd"})
  BY <1>1, OnlyOneCame, Zenon
<1> QED BY <1>2, <1>3, <1>4, Zenon

\* The request comes to its end, with an answer, or goes on.
LEMMA ReferralTells ==
  ASSUME ReferralTypeOK, ToldSoFar, request.at # "done", NEW what \in {"Progress", "Did", "DidNot"},
         request'.told = Append(request.told, what),
         what # "Progress" => request'.at = "done",
         what = "Progress" => request'.at # "done",
         what = "Did" => referral'.stage = "gone" /\ referral'.final = "yes"
  PROVE  ToldSoFar' /\ request'.told \in Seq({"Progress", "Did", "DidNot"})
<1>1. request.told \in Seq({"Progress", "Did", "DidNot"}) BY DEF ReferralTypeOK
<1>2. /\ Len(request.told) \in Nat /\ Len(request'.told) = Len(request.told) + 1
      /\ DOMAIN request.told = 1..Len(request.told) /\ DOMAIN request'.told = 1..(Len(request.told) + 1)
      /\ request'.told \in Seq({"Progress", "Did", "DidNot"})
      /\ \A i \in 1..(Len(request.told) + 1) : request'.told[i] = IF i = Len(request.told) + 1 THEN what ELSE request.told[i]
  BY <1>1
<1>3. \A i \in DOMAIN request.told : request.told[i] = "Progress" BY DEF ToldSoFar
<1> QED BY <1>2, <1>3 DEF ToldSoFar

\* What is told does not change, and what it was told for stays.
LEMMA ReferralToldAsBefore ==
  ASSUME ToldSoFar, request'.told = request.told,
         request'.at = "done" <=> request.at = "done", amiss' = {} => amiss = {},
         referral.stage = "gone" => referral'.stage = "gone" /\ referral'.final = referral.final
  PROVE  ToldSoFar'
BY DEF ToldSoFar

\* the next route, or none
LEMMA SendsReferStep ==
  ASSUME ReferralInv, Participant!SendsRefer, request.at \in {"dns", "answer"}, amiss' = amiss,
         channel' \in Seq(Reported), arriving' \in Seq(Reported), NoneOf(ToRead', LastWords), NoneOf(ToRead', {"DidEnd"})
  PROVE  ReferralInv'
<1> USE DEF ReferralInv, Participant!NoReferral, Participant!Done, Participant!Unwatched
<1>0. AtMostOne(ToRead', LastWords) BY DEF AtMostOne, NoneOf
<1>1. CASE request.route < MaxReferrals /\ request' = [request EXCEPT !.at = "answer", !.route = @ + 1]
           /\ referral' = [Participant!NoReferral EXCEPT !.stage = "sent", !.observed = TRUE]
  <2>a. referral' = [stage |-> "sent", want_end |-> FALSE, observed |-> TRUE, final |-> "none", notified |-> 0]
    BY <1>1
  <2>b. request.route + 1 \in Nat BY DEF ReferralTypeOK
  <2>c. referral' \in [stage : {"none", "sent", "active", "gone"}, want_end : BOOLEAN, observed : BOOLEAN,
                       final : {"none", "yes", "no"}, notified : Nat]
    BY <2>a
  <2>d. request' \in [at : {"new", "dns", "answer", "active", "ending", "done"}, route : Nat,
                      session : {"up", "ending", "over"}, told : Seq({"Progress", "Did", "DidNot"})]
    BY <1>1, <2>b DEF ReferralTypeOK
  <2>1. ReferralTypeOK' BY <2>c, <2>d DEF ReferralTypeOK
  <2>2. request'.told = request.told /\ request'.at = "answer" BY <1>1 DEF ReferralTypeOK
  <2>3. \A i \in DOMAIN request.told : request.told[i] = "Progress" BY DEF ToldSoFar
  <2>4. ToldSoFar' BY <2>2, <2>3 DEF ToldSoFar
  <2>5. referral'.want_end = FALSE BY <1>1
  <2>6. LastWordsCount' BY <1>0, <2>2, <2>5 DEF LastWordsCount
  <2> QED BY <2>1, <2>4, <2>6
<1>2. CASE Participant!Done("DidNot") /\ Participant!Unwatched
  <2>1. /\ request'.told = Append(request.told, "DidNot") /\ request'.at = "done"
        /\ request'.route = request.route /\ request'.session = request.session
    BY <1>2 DEF ReferralTypeOK
  <2>2. ToldSoFar' /\ request'.told \in Seq({"Progress", "Did", "DidNot"})
    BY <2>1, ReferralTells
  <2>3. ReferralTypeOK' BY <1>2, <2>2 DEF ReferralTypeOK
  <2>4. LastWordsCount' BY <1>0, <2>1 DEF LastWordsCount
  <2> QED BY <2>2, <2>3, <2>4
<1> QED BY <1>1, <1>2 DEF Participant!SendsRefer

LEMMA ReferralReadStep ==
  ASSUME ReferralInv, Participant!ReferralReadsAnswer \/ Participant!ReferralReadsNotify \/ Participant!ReferralReadsEnding
  PROVE  ReferralInv'
<1> USE DEF ReferralInv, Participant!Takes, Participant!Done, Participant!Unwatched
<1>1. channel # <<>> /\ channel' = Tail(channel) /\ arriving' = arriving
  BY DEF Participant!ReferralReadsAnswer, Participant!ReferralReadsNotify, Participant!ReferralReadsEnding
<1>2. /\ AtMostOne(ToRead', LastWords)
      /\ ~NoneOf(ToRead', LastWords) => ~NoneOf(ToRead, LastWords)
      /\ ~NoneOf(ToRead', {"DidEnd"}) => ~NoneOf(ToRead, {"DidEnd"})
      /\ Head(channel) \in LastWords => NoneOf(ToRead', LastWords) /\ ~NoneOf(ToRead, LastWords)
      /\ Head(channel) = "DidEnd" => ~NoneOf(ToRead, {"DidEnd"})
      /\ NoneOf(ToRead', LastWords) => NoneOf(ToRead', {"DidEnd"})
      /\ channel' \in Seq(Reported) /\ Head(channel) \in Reported
  BY <1>1, ReferralReads, Zenon
<1>3. ASSUME request'.told = request.told, request'.at = request.at \/ request'.at = "active",
             request.at \notin {"new", "dns", "done"}, referral' = referral, amiss' = amiss,
             request'.at \in {"answer", "active", "ending"},
             request.at = "ending" => request'.at = "ending"
      PROVE ToldSoFar' /\ LastWordsCount'
  <2>1. request.at \in {"answer", "active", "ending"} BY DEF ReferralTypeOK, Participant!ReferralReadsAnswer,
        Participant!ReferralReadsNotify, Participant!ReferralReadsEnding
  <2>2. \A i \in DOMAIN request.told : request.told[i] = "Progress" BY <2>1 DEF ToldSoFar
  <2>3. ToldSoFar' BY <1>3, <2>2 DEF ToldSoFar
  <2>4. request'.at \in {"answer", "active"} => request.at \in {"answer", "active"} BY <1>3, <2>1
  <2>5. LastWordsCount' BY <1>2, <1>3, <2>4 DEF LastWordsCount
  <2> QED BY <2>3, <2>5
<1>4. ASSUME request.at \in {"answer", "active"}, Participant!EndsReferral, amiss' = amiss
      PROVE ReferralInv'
  <2>1. request'.told = request.told /\ request'.at = "ending" BY <1>4 DEF Participant!EndsReferral, ReferralTypeOK
  <2>2. referral'.stage = referral.stage /\ referral'.final = referral.final
    BY <1>4 DEF Participant!EndsReferral, ReferralTypeOK
  <2>3. ReferralTypeOK' BY <1>1, <1>2, <1>4 DEF Participant!EndsReferral, ReferralTypeOK
  <2>4. ToldSoFar' BY <1>4, <2>1, <2>2 DEF ToldSoFar
  <2>5. LastWordsCount' BY <1>2, <2>1, <2>2 DEF LastWordsCount
  <2> QED BY <2>3, <2>4, <2>5
<1>5. ASSUME request.at \in {"active", "ending"}, NEW answer \in {"Did", "DidNot"}, Participant!Done(answer), Participant!Unwatched,
             answer = "Did" => referral.stage = "gone" /\ referral.final = "yes"
      PROVE ReferralInv'
  <2>1. /\ request'.told = Append(request.told, answer) /\ request'.at = "done"
        /\ request'.route = request.route /\ request'.session = request.session
    BY <1>5 DEF ReferralTypeOK
  <2>2. referral'.stage = referral.stage /\ referral'.final = referral.final BY <1>5 DEF ReferralTypeOK
  <2>3. ToldSoFar' /\ request'.told \in Seq({"Progress", "Did", "DidNot"})
    BY <1>5, <2>1, <2>2, ReferralTells
  <2>4. ReferralTypeOK' BY <1>1, <1>2, <1>5, <2>3 DEF ReferralTypeOK
  <2>5. LastWordsCount' BY <1>2, <2>1, <2>2 DEF LastWordsCount
  <2> QED BY <2>3, <2>4, <2>5
<1>6. CASE Participant!ReferralReadsAnswer
  <2> USE <1>6 DEF Participant!ReferralReadsAnswer
  <2>1. CASE Head(channel) = "DidStart"
    <3>1. request' = [request EXCEPT !.at = "active"] /\ referral' = referral BY <2>1
    <3>2. request'.told = request.told /\ request'.at = "active" BY <3>1 DEF ReferralTypeOK
    <3>3. ReferralTypeOK' BY <1>1, <1>2, <3>1 DEF ReferralTypeOK
    <3> QED BY <1>3, <3>1, <3>2, <3>3
  <2>2. CASE Head(channel) = "DidFail"
    <3>1. Participant!SendsRefer /\ amiss' = amiss /\ request.at = "answer" BY <2>2
    <3>2. arriving' \in Seq(Reported) BY <1>1 DEF ReferralTypeOK
    <3>3. NoneOf(ToRead', LastWords) /\ NoneOf(ToRead', {"DidEnd"}) BY <1>2, <2>2 DEF LastWords
    <3> QED BY <1>2, <3>1, <3>2, <3>3, SendsReferStep
  <2>3. CASE Head(channel) = "Terminate" BY <1>4, <2>3
  <2>4. CASE Head(channel) \notin {"DidStart", "DidFail", "Terminate"}
    <3>1. request' = request /\ referral' = referral BY <2>4
    <3>3. ReferralTypeOK' BY <1>1, <1>2, <3>1 DEF ReferralTypeOK
    <3> QED BY <1>3, <3>1, <3>3
  <2> QED BY <2>1, <2>2, <2>3, <2>4
<1>7. CASE Participant!ReferralReadsNotify
  <2> USE <1>7 DEF Participant!ReferralReadsNotify
  <2>1. CASE Head(channel) = "GotNotify"
    <3>1. request' = [request EXCEPT !.told = Append(@, "Progress")] /\ referral' = referral BY <2>1
    <3>2. /\ request'.told = Append(request.told, "Progress") /\ request'.at = "active"
          /\ request'.route = request.route /\ request'.session = request.session
      BY <3>1 DEF ReferralTypeOK
    <3>3. ToldSoFar' /\ request'.told \in Seq({"Progress", "Did", "DidNot"}) BY <3>2, ReferralTells
    <3>4. ReferralTypeOK' BY <1>1, <1>2, <3>1, <3>3 DEF ReferralTypeOK
    <3>5. LastWordsCount' BY <1>2, <3>1, <3>2 DEF LastWordsCount
    <3> QED BY <3>3, <3>4, <3>5
  <2>2. CASE Head(channel) = "DidEnd"
    <3>1. referral.stage = "gone" /\ referral.final = "yes" BY <1>2, <2>2 DEF LastWordsCount, LastWords
    <3> QED BY <1>5, <2>2, <3>1
  <2>3. CASE Head(channel) = "DidFail" BY <1>5, <2>3
  <2>4. CASE Head(channel) = "Terminate" BY <1>4, <2>4
  <2>5. CASE Head(channel) \notin {"GotNotify", "DidEnd", "DidFail", "Terminate"}
    <3>1. request' = request /\ referral' = referral BY <2>5
    <3>3. ReferralTypeOK' BY <1>1, <1>2, <3>1 DEF ReferralTypeOK
    <3> QED BY <1>3, <3>1, <3>3
  <2> QED BY <2>1, <2>2, <2>3, <2>4, <2>5
<1>8. CASE Participant!ReferralReadsEnding
  <2> USE <1>8 DEF Participant!ReferralReadsEnding
  <2>1. CASE Head(channel) \in {"DidEnd", "DidFail"} BY <1>5, <2>1
  <2>2. CASE Head(channel) = "Terminate"
    <3>1. request' = [request EXCEPT !.at = "done"] /\ Participant!Unwatched /\ amiss' = amiss \cup {"twice"} BY <2>2
    <3>2. request'.told = request.told /\ request'.at = "done" BY <3>1 DEF ReferralTypeOK
    <3>3. referral'.stage = referral.stage BY <3>1 DEF ReferralTypeOK
    <3>4. ReferralTypeOK' BY <1>1, <1>2, <3>1 DEF ReferralTypeOK
    <3>5. \A i \in DOMAIN request.told : request.told[i] = "Progress" BY DEF ToldSoFar
    <3>6. ToldSoFar' BY <3>1, <3>2, <3>5 DEF ToldSoFar
    <3>7. LastWordsCount' BY <1>2, <3>2, <3>3 DEF LastWordsCount
    <3> QED BY <3>4, <3>6, <3>7
  <2>3. CASE Head(channel) \notin {"DidEnd", "DidFail", "Terminate"}
    <3>1. request' = request /\ referral' = referral /\ amiss' = amiss BY <2>3
    <3>3. ReferralTypeOK' BY <1>1, <1>2, <3>1 DEF ReferralTypeOK
    <3> QED BY <1>3, <3>1, <3>3
  <2> QED BY <2>1, <2>2, <2>3
<1> QED BY <1>6, <1>7, <1>8

\* A notification is posted to whoever listens, and the referral is as far as it says.
LEMMA ReferralPostStep ==
  ASSUME ReferralInv, NEW name \in Reported, Participant!PostsReferral(name),
         request' = request, channel' = channel, amiss' = {} => amiss = {},
         referral' \in [stage : {"none", "sent", "active", "gone"}, want_end : BOOLEAN, observed : BOOLEAN,
                        final : {"none", "yes", "no"}, notified : Nat],
         referral'.want_end = referral.want_end, referral.stage \in {"sent", "active"}, referral'.stage \in {"active", "gone"},
         name \in LastWords => referral'.stage = "gone",
         name = "DidEnd" => referral.want_end \/ referral'.final = "yes"
  PROVE  ReferralInv'
<1> USE DEF ReferralInv
<1>1. NoneOf(ToRead, LastWords) /\ request.at \notin {"new", "dns"} BY DEF LastWordsCount
<1>2. NoneOf(ToRead, {"DidEnd"}) BY <1>1 DEF NoneOf, LastWords
<1>3. CASE arriving' = arriving
  <2>1. ToRead' = ToRead BY <1>3 DEF ToRead
  <2>2. ReferralTypeOK' BY <1>3 DEF ReferralTypeOK
  <2>3. ToldSoFar' BY DEF ToldSoFar
  <2>4. LastWordsCount' BY <1>1, <1>2, <2>1 DEF LastWordsCount
  <2> QED BY <2>2, <2>3, <2>4
<1>4. CASE arriving' = Append(arriving, name)
  <2>1. /\ NoneOf(ToRead, LastWords) => AtMostOne(ToRead', LastWords)
        /\ NoneOf(ToRead, LastWords) /\ name \notin LastWords => NoneOf(ToRead', LastWords)
        /\ NoneOf(ToRead, {"DidEnd"}) /\ name # "DidEnd" => NoneOf(ToRead', {"DidEnd"})
        /\ arriving' \in Seq(Reported)
    BY <1>4, ReferralPosts, Zenon
  <2>2. ReferralTypeOK' BY <2>1 DEF ReferralTypeOK
  <2>3. ToldSoFar' BY DEF ToldSoFar
  <2>4. LastWordsCount' BY <1>1, <1>2, <2>1 DEF LastWordsCount
  <2> QED BY <2>2, <2>3, <2>4
<1> QED BY <1>3, <1>4 DEF Participant!PostsReferral

\* The session ends or fails: _run is told, unless it is not there.
LEMMA ReferralSessionStep ==
  ASSUME ReferralInv, channel' = channel, referral' = referral, amiss' = amiss,
         NEW session \in {"up", "ending", "over"}, request' = [request EXCEPT !.session = session],
         arriving' = arriving \/ Participant!Terminates
  PROVE  ReferralInv'
<1> USE DEF ReferralInv
<1>1. request'.at = request.at /\ request'.told = request.told BY DEF ReferralTypeOK
<1>2. ToldSoFar' BY <1>1 DEF ToldSoFar
<1>3. CASE arriving' = arriving
  <2>1. ToRead' = ToRead BY <1>3 DEF ToRead
  <2>2. ReferralTypeOK' BY <1>3 DEF ReferralTypeOK
  <2>3. LastWordsCount' BY <1>1, <2>1 DEF LastWordsCount
  <2> QED BY <1>2, <2>2, <2>3
<1>4. CASE arriving' = Append(arriving, "Terminate")
  <2>0. "Terminate" \in Reported /\ "Terminate" \notin LastWords BY DEF Reported, LastWords
  <2>1. /\ AtMostOne(ToRead, LastWords) => AtMostOne(ToRead', LastWords)
        /\ NoneOf(ToRead, LastWords) => NoneOf(ToRead', LastWords)
        /\ NoneOf(ToRead, {"DidEnd"}) => NoneOf(ToRead', {"DidEnd"})
        /\ arriving' \in Seq(Reported)
    BY <1>4, <2>0, ReferralPosts
  <2>2. ReferralTypeOK' BY <2>1 DEF ReferralTypeOK
  <2>3. LastWordsCount' BY <1>1, <2>1 DEF LastWordsCount
  <2> QED BY <1>2, <2>2, <2>3
<1> QED BY <1>3, <1>4 DEF Participant!Terminates

LEMMA ReferralStep == ReferralInv /\ [Participant!ReferralNext]_requestVars => ReferralInv'
<1> SUFFICES ASSUME ReferralInv, [Participant!ReferralNext]_requestVars PROVE ReferralInv' OBVIOUS
<1> USE DEF ReferralInv
<1>1. CASE Participant!ReferralStarts
  <2> USE <1>1 DEF Participant!ReferralStarts
  <2>0. ToRead' = ToRead BY DEF ToRead
  <2>1. CASE Participant!Done("DidNot")
    <3>1. /\ request'.told = Append(request.told, "DidNot") /\ request'.at = "done"
          /\ request'.route = request.route /\ request'.session = request.session
      BY <2>1 DEF Participant!Done, ReferralTypeOK
    <3>2. ToldSoFar' /\ request'.told \in Seq({"Progress", "Did", "DidNot"}) BY <3>1, ReferralTells
    <3>3. ReferralTypeOK' BY <2>1, <3>2 DEF Participant!Done, ReferralTypeOK
    <3>4. LastWordsCount' BY <2>0, <3>1 DEF LastWordsCount
    <3> QED BY <3>2, <3>3, <3>4
  <2>2. CASE request' = [request EXCEPT !.at = "dns"]
    <3>1. request'.told = request.told /\ request'.at = "dns" BY <2>2 DEF ReferralTypeOK
    <3>2. ToldSoFar' BY <3>1 DEF ToldSoFar
    <3>3. ReferralTypeOK' BY <2>2 DEF ReferralTypeOK
    <3>4. LastWordsCount' BY <2>0, <3>1 DEF LastWordsCount
    <3> QED BY <3>2, <3>3, <3>4
  <2> QED BY <2>1, <2>2
<1>2. CASE Participant!ReferralRoutesReturn
  <2> USE <1>2 DEF Participant!ReferralRoutesReturn
  <2>0. ToRead' = ToRead BY DEF ToRead
  <2>1. NoneOf(ToRead', LastWords) BY <2>0 DEF LastWordsCount
  <2>2. NoneOf(ToRead', {"DidEnd"}) BY <2>1 DEF NoneOf, LastWords
  <2>3. channel' \in Seq(Reported) /\ arriving' \in Seq(Reported) BY DEF ReferralTypeOK
  <2> QED BY <2>1, <2>2, <2>3, SendsReferStep
<1>3. CASE Participant!ReferralReadsAnswer \/ Participant!ReferralReadsNotify \/ Participant!ReferralReadsEnding
  BY <1>3, ReferralReadStep
<1>4. CASE Participant!ReferralHandles
  <2> USE <1>4 DEF Participant!ReferralHandles
  <2>1. ToRead' = ToRead BY ReferralQueues DEF ToRead
  <2>2. ReferralTypeOK'
    <3>1. Tail(arriving) \in Seq(Reported) /\ Append(channel, Head(arriving)) \in Seq(Reported) BY DEF ReferralTypeOK
    <3> QED BY <3>1 DEF ReferralTypeOK
  <2>3. ToldSoFar' /\ LastWordsCount' BY <2>1 DEF ToldSoFar, LastWordsCount
  <2> QED BY <2>2, <2>3
<1>5. CASE Participant!ReferralSessionWillEnd \/ Participant!ReferralSessionDidFail \/ Participant!ReferralSessionDidEnd
  BY <1>5, ReferralSessionStep
  DEF Participant!ReferralSessionWillEnd, Participant!ReferralSessionDidFail, Participant!ReferralSessionDidEnd
<1>6. CASE Participant!ReferralAccepted
  <2>1. referral' = [referral EXCEPT !.stage = "active"] /\ Participant!PostsReferral("DidStart") /\ "DidStart" \in Reported
    BY <1>6 DEF Participant!ReferralAccepted, Reported
  <2>2. referral'.stage = "active" /\ referral'.want_end = referral.want_end BY <2>1 DEF ReferralTypeOK
  <2>3. referral' \in [stage : {"none", "sent", "active", "gone"}, want_end : BOOLEAN, observed : BOOLEAN,
                       final : {"none", "yes", "no"}, notified : Nat]
    BY <2>1 DEF ReferralTypeOK
  <2>4. "DidStart" \notin LastWords BY DEF LastWords
  <2> QED BY <1>6, <2>1, <2>2, <2>3, <2>4, ReferralPostStep DEF Participant!ReferralAccepted
<1>7. CASE Participant!ReferralNotifiedEarly
  <2>1. referral' = [referral EXCEPT !.stage = "active"] /\ Participant!PostsReferral("GotNotify") /\ "GotNotify" \in Reported
    BY <1>7 DEF Participant!ReferralNotifiedEarly, Reported
  <2>2. referral'.stage = "active" /\ referral'.want_end = referral.want_end BY <2>1 DEF ReferralTypeOK
  <2>3. referral' \in [stage : {"none", "sent", "active", "gone"}, want_end : BOOLEAN, observed : BOOLEAN,
                       final : {"none", "yes", "no"}, notified : Nat]
    BY <2>1 DEF ReferralTypeOK
  <2>4. "GotNotify" \notin LastWords BY DEF LastWords
  <2>5. amiss' # {} BY <1>7 DEF Participant!ReferralNotifiedEarly
  <2> QED BY <1>7, <2>1, <2>2, <2>3, <2>4, <2>5, ReferralPostStep DEF Participant!ReferralNotifiedEarly
<1>8. CASE Participant!ReferralGotNotify
  <2>1. referral' = [referral EXCEPT !.notified = @ + 1] /\ Participant!PostsReferral("GotNotify") /\ "GotNotify" \in Reported
    BY <1>8 DEF Participant!ReferralGotNotify, Reported
  <2>2. referral'.stage = referral.stage /\ referral'.want_end = referral.want_end BY <2>1 DEF ReferralTypeOK
  <2>a. referral.notified + 1 \in Nat BY DEF ReferralTypeOK
  <2>3. referral' \in [stage : {"none", "sent", "active", "gone"}, want_end : BOOLEAN, observed : BOOLEAN,
                       final : {"none", "yes", "no"}, notified : Nat]
    BY <2>1, <2>a DEF ReferralTypeOK
  <2>4. "GotNotify" \notin LastWords BY DEF LastWords
  <2> QED BY <1>8, <2>1, <2>2, <2>3, <2>4, ReferralPostStep DEF Participant!ReferralGotNotify
<1>9. CASE Participant!ReferralOver
  <2>1. PICK final \in {"yes", "no"} :
          /\ referral' = [referral EXCEPT !.stage = "gone", !.final = final]
          /\ Participant!PostsReferral(IF referral.want_end \/ final = "yes" THEN "DidEnd" ELSE "DidFail")
    BY <1>9 DEF Participant!ReferralOver
  <2>2. referral'.stage = "gone" /\ referral'.want_end = referral.want_end /\ referral'.final = final
    BY <2>1 DEF ReferralTypeOK
  <2>3. referral' \in [stage : {"none", "sent", "active", "gone"}, want_end : BOOLEAN, observed : BOOLEAN,
                       final : {"none", "yes", "no"}, notified : Nat]
    BY <2>1 DEF ReferralTypeOK
  <2>4. "DidEnd" \in Reported /\ "DidFail" \in Reported BY DEF Reported
  <2>5. request' = request /\ channel' = channel /\ amiss' = amiss /\ referral.stage \in {"sent", "active"}
    BY <1>9 DEF Participant!ReferralOver
  <2>6. CASE referral.want_end \/ final = "yes"
    <3>1. Participant!PostsReferral("DidEnd") BY <2>1, <2>6
    <3> QED BY <2>2, <2>3, <2>4, <2>5, <2>6, <3>1, ReferralPostStep
  <2>7. CASE ~(referral.want_end \/ final = "yes")
    <3>1. Participant!PostsReferral("DidFail") BY <2>1, <2>7
    <3> QED BY <2>2, <2>3, <2>4, <2>5, <3>1, ReferralPostStep
  <2> QED BY <2>6, <2>7
<1>10. CASE UNCHANGED requestVars
  <2>1. ToRead' = ToRead BY <1>10 DEF requestVars, ToRead
  <2> QED BY <1>10, <2>1 DEF requestVars, ReferralTypeOK, ToldSoFar, LastWordsCount
<1> QED BY <1>1, <1>2, <1>3, <1>4, <1>5, <1>6, <1>7, <1>8, <1>9, <1>10
        DEF Participant!ReferralNext, Participant!ReferralRuns

\* A request to the conference is answered once, at its end and not before, and a participant is said to
\* have come or gone only when the conference said so (ReferralHandler._run).
THEOREM RequestAlwaysAnswered == MCSpec => []RequestAnswered
<1> DEFINE Inv == kind = "referral" => ReferralInv
<1>1. MCInit => Inv
  <2> SUFFICES ASSUME MCInit, kind = "referral" PROVE ReferralInv OBVIOUS
  <2>1. Participant!ReferralInit BY DEF MCInit, StreamInit
  <2>2. ToRead = <<>> /\ NoneOf(ToRead, LastWords) /\ NoneOf(ToRead, {"DidEnd"}) /\ AtMostOne(ToRead, LastWords)
    BY <2>1 DEF Participant!ReferralInit, ToRead, NoneOf, AtMostOne
  <2>3. ReferralTypeOK BY <2>1 DEF Participant!ReferralInit, Participant!NoReferral, ReferralTypeOK
  <2>4. ToldSoFar BY <2>1 DEF Participant!ReferralInit, ToldSoFar
  <2>5. LastWordsCount BY <2>1, <2>2 DEF Participant!ReferralInit, Participant!NoReferral, LastWordsCount
  <2> QED BY <2>3, <2>4, <2>5 DEF ReferralInv
<1>2. Inv /\ [MCNext]_vars => Inv'
  <2> SUFFICES ASSUME Inv, [MCNext]_vars, kind' = "referral" PROVE ReferralInv' OBVIOUS
  <2>1. kind = "referral" BY KindStays
  <2>2. [Participant!ReferralNext]_requestVars
    BY <2>1 DEF MCNext, StreamNext, vars, otherVars, requestVars, OfConference, OfMover, OfDNS, OfAudio
  <2> QED BY <2>1, <2>2, ReferralStep
<1>3. Inv => RequestAnswered
  <2> SUFFICES ASSUME ReferralInv PROVE Participant!RequestAnswered BY DEF RequestAnswered
  <2> USE DEF ReferralInv
  <2>1. Len(request.told) \in Nat /\ DOMAIN request.told = 1..Len(request.told) BY DEF ReferralTypeOK
  <2> QED BY <2>1 DEF ToldSoFar, Participant!RequestAnswered, Participant!Answers
<1> QED BY <1>1, <1>2, <1>3, PTL DEF MCSpec

-----------------------------------------------------------------------------
(***************************************************************************)
(* The transfer handler.                                                   *)
(***************************************************************************)
MoverTypeOK ==
  /\ DOMAIN mover = {"state", "direction", "at", "nr", "new", "ends"} /\ mover.new \in Nat
  /\ tally \in [up : BOOLEAN, asks : Nat, begun : Nat, settled : Nat]
  /\ calls \in Seq({"connecting", "gone"})
\* the transfers whose outcome is still to be told: the one that _run is at, and the one of the new session
Underway ==
  IF mover.at \in {"out", "dns"} THEN (IF mover.new # 0 THEN 2 ELSE 1) ELSE (IF mover.new # 0 THEN 1 ELSE 0)
Accounted ==
  astray = {} =>
    /\ tally.settled <= tally.begun
    /\ mover.at # "dead" => tally.begun = tally.settled + Underway
    /\ mover.at = "idle" /\ ~mover.ends => mover.state = "None"
MoverInv == MoverTypeOK /\ Accounted

\* A step of the other side, or of _run, that neither begins nor settles a transfer.
LEMMA MoverKeeps ==
  ASSUME MoverInv, tally'.begun = tally.begun, tally'.settled = tally.settled, astray' = {} => astray = {},
         MoverTypeOK', Underway' = Underway, mover.at = "dead" <=> mover'.at = "dead",
         mover'.at = "idle" /\ ~mover'.ends => mover'.state = "None" \/ (mover.at = "idle" /\ ~mover.ends /\ mover'.state = mover.state)
  PROVE  MoverInv'
BY DEF MoverInv, Accounted

LEMMA MoverStep == MoverInv /\ [Mover!TransferHandlerNext]_moverVars => MoverInv'
<1> SUFFICES ASSUME MoverInv, [Mover!TransferHandlerNext]_moverVars PROVE MoverInv' OBVIOUS
<1> USE DEF Mover!Alive, Mover!Strays
<1>0. /\ MoverTypeOK /\ tally.begun \in Nat /\ tally.settled \in Nat /\ tally.asks \in Nat /\ tally.begun + 1 \in Nat
      /\ tally.settled + 1 \in Nat /\ tally.asks + 1 \in Nat /\ Underway \in {0, 1, 2}
  BY DEF MoverInv, MoverTypeOK, Underway
<1>a. ASSUME mover' = mover, calls' = calls, astray' = astray, tally' = tally PROVE MoverInv'
  BY <1>a DEF MoverInv, MoverTypeOK, Accounted, Underway
<1>b. ASSUME NEW at, NEW name, Mover!ReadsItem(at, name)
      PROVE  mover.at = at /\ calls' = calls /\ (astray' = {} => astray = {})
  BY <1>b DEF Mover!ReadsItem
<1>1. CASE Mover!CallTransfer \/ Mover!accept_transfer \/ Mover!reject_transfer
  <2>1. tally' = [tally EXCEPT !.asks = @ + 1] /\ mover' = mover /\ calls' = calls /\ astray' = astray
    BY <1>1 DEF Mover!CallTransfer, Mover!accept_transfer, Mover!reject_transfer, Mover!Asks
  <2>2. tally'.begun = tally.begun /\ tally'.settled = tally.settled /\ MoverTypeOK'
    BY <1>0, <2>1 DEF MoverTypeOK
  <2>3. Underway' = Underway BY <2>1 DEF Underway
  <2> QED BY <2>1, <2>2, <2>3 DEF MoverInv, Accounted
<1>2. CASE Mover!ReferArrives \/ Mover!UsageAccepted \/ Mover!UsageEnds
  BY <1>2, <1>a DEF Mover!ReferArrives, Mover!UsageAccepted, Mover!UsageEnds, Mover!OfTheUsage
<1>3. CASE Mover!HandlesTransfer \/ Mover!PassesOver
  BY <1>3, <1>a DEF Mover!HandlesTransfer, Mover!PassesOver
<1>4. CASE Mover!RunTakesCommand
  <2> DEFINE command == Head(commands)
  <2>1. CASE /\ mover' = [mover EXCEPT !.at = "wait", !.direction = "incoming", !.nr = command.nr]
             /\ UNCHANGED tally
    <3>1. mover.at = "idle" /\ calls' = calls /\ astray' = astray BY <1>4 DEF Mover!RunTakesCommand
    <3>2. mover'.at = "wait" /\ mover'.new = mover.new /\ DOMAIN mover' = DOMAIN mover
      BY <2>1, <1>0 DEF MoverTypeOK
    <3>3. MoverTypeOK' /\ Underway' = Underway BY <1>0, <2>1, <3>1, <3>2 DEF MoverTypeOK, Underway
    <3> QED BY <2>1, <3>1, <3>2, <3>3, MoverKeeps
  <2>2. CASE /\ mover' = [mover EXCEPT !.at = "out", !.direction = "outgoing", !.state = "starting", !.nr = command.nr]
             /\ Mover!Begins
    <3>1. mover.at = "idle" /\ calls' = calls /\ astray' = astray BY <1>4 DEF Mover!RunTakesCommand
    <3>2. mover'.at = "out" /\ mover'.new = mover.new /\ DOMAIN mover' = DOMAIN mover
      BY <2>2, <1>0 DEF MoverTypeOK
    <3>3. tally' = [tally EXCEPT !.begun = @ + 1] BY <2>2 DEF Mover!Begins
    <3>4. tally'.begun = tally.begun + 1 /\ tally'.settled = tally.settled BY <3>3, <1>0 DEF MoverTypeOK
    <3>5. MoverTypeOK' BY <1>0, <3>1, <3>2, <3>3 DEF MoverTypeOK
    <3>6. Underway' = Underway + 1 BY <3>1, <3>2 DEF Underway
    <3> QED BY <1>0, <3>1, <3>2, <3>4, <3>5, <3>6 DEF MoverInv, Accounted
  <2> QED BY <1>4, <2>1, <2>2 DEF Mover!RunTakesCommand
<1>5. CASE Mover!AsksTheApplication
  <2>1. mover.at = "wait" /\ calls' = calls /\ (astray' = {} => astray = {}) /\ tally' = tally
        /\ mover' = [mover EXCEPT !.state = "starting"]
    BY <1>5, <1>b DEF Mover!AsksTheApplication
  <2>2. mover'.at = "wait" /\ mover'.new = mover.new /\ DOMAIN mover' = DOMAIN mover BY <1>0, <2>1 DEF MoverTypeOK
  <2>3. MoverTypeOK' /\ Underway' = Underway BY <1>0, <2>1, <2>2 DEF MoverTypeOK, Underway
  <2> QED BY <2>1, <2>2, <2>3, MoverKeeps
<1>c. /\ Mover!Returned(mover).at = "idle" /\ Mover!Returned(mover).state = "None" /\ Mover!Returned(mover).new = mover.new
      /\ DOMAIN Mover!Returned(mover) = DOMAIN mover
  BY <1>0 DEF MoverTypeOK, Mover!Returned
<1>6. CASE Mover!UsageLost
  <2>1. mover.at \in {"wait", "over"} /\ calls' = calls /\ (astray' = {} => astray = {}) /\ tally' = tally
        /\ mover' = Mover!Returned(mover)
    BY <1>6, <1>b DEF Mover!UsageLost
  <2>3. MoverTypeOK' /\ Underway' = Underway BY <1>0, <1>c, <2>1 DEF MoverTypeOK, Underway
  <2> QED BY <1>c, <2>1, <2>3, MoverKeeps
<1>7. CASE Mover!TransferAccepted
  <2>1. mover.at = "wait" /\ calls' = calls /\ (astray' = {} => astray = {})
        /\ tally' = [tally EXCEPT !.begun = @ + 1] /\ mover' = [mover EXCEPT !.at = "dns", !.state = "started"]
    BY <1>7, <1>b DEF Mover!TransferAccepted, Mover!Begins
  <2>2. mover'.at = "dns" /\ mover'.new = mover.new /\ DOMAIN mover' = DOMAIN mover BY <1>0, <2>1 DEF MoverTypeOK
  <2>3. tally'.begun = tally.begun + 1 /\ tally'.settled = tally.settled BY <2>1, <1>0 DEF MoverTypeOK
  <2>4. MoverTypeOK' BY <1>0, <2>1, <2>2 DEF MoverTypeOK
  <2>a. mover.at = "wait" /\ (astray' = {} => astray = {}) BY <2>1
  <2>5. Underway' = Underway + 1 BY <2>a, <2>2 DEF Underway
  <2> QED BY <1>0, <2>a, <2>2, <2>3, <2>4, <2>5 DEF MoverInv, Accounted
<1>d. ASSUME Mover!GivesFinalCode
      PROVE  /\ mover'.at \in {"idle", "over"} /\ (mover'.at = "idle" => mover'.state = "None")
             /\ mover'.new = mover.new /\ DOMAIN mover' = DOMAIN mover
  <2>1. mover' = [mover EXCEPT !.at = "over", !.state = "failed"] \/ mover' = Mover!Returned(mover)
    BY <1>d DEF Mover!GivesFinalCode
  <2> QED BY <1>0, <1>c, <2>1 DEF MoverTypeOK
<1>8. CASE Mover!TransferRefused
  <2>1. mover.at = "wait" /\ calls' = calls /\ (astray' = {} => astray = {}) /\ tally' = tally /\ Mover!GivesFinalCode
    BY <1>8, <1>b DEF Mover!TransferRefused
  <2>2. MoverTypeOK' /\ Underway' = Underway BY <1>0, <1>d, <2>1 DEF MoverTypeOK, Underway
  <2> QED BY <1>d, <2>1, <2>2, MoverKeeps
<1>9. CASE Mover!TransferLookupFails
  <2>1. /\ mover.at = "dns" /\ calls' = calls /\ astray' = astray /\ Mover!GivesFinalCode
        /\ tally' = [tally EXCEPT !.settled = @ + 1]
    BY <1>9 DEF Mover!TransferLookupFails, Mover!Settles
  <2>2. tally'.begun = tally.begun /\ tally'.settled = tally.settled + 1 BY <2>1, <1>0 DEF MoverTypeOK
  <2>3. MoverTypeOK' BY <1>0, <1>d, <2>1 DEF MoverTypeOK
  <2>a. mover.at = "dns" /\ astray' = astray /\ Mover!GivesFinalCode BY <2>1
  <2>b. /\ mover'.at \in {"idle", "over"} /\ (mover'.at = "idle" => mover'.state = "None")
        /\ mover'.new = mover.new
    BY <1>d, <2>a
  <2>4. Underway = Underway' + 1 /\ Underway' \in Nat BY <2>a, <2>b DEF Underway
  <2> QED BY <1>0, <2>a, <2>b, <2>2, <2>3, <2>4 DEF MoverInv, Accounted
<1>10. CASE Mover!TransferConnects
  <2>1. /\ mover.at = "dns" /\ calls' = Append(calls, "connecting") /\ tally' = tally
        /\ mover' = [mover EXCEPT !.at = "connect", !.new = Len(calls) + 1]
        /\ astray' = {} => astray = {} /\ mover.new = 0
    BY <1>10, <1>0 DEF Mover!TransferConnects
  <2>a. calls \in Seq({"connecting", "gone"}) BY <1>0 DEF MoverTypeOK
  <2>b. Len(calls) + 1 \in Nat \ {0} BY <2>a
  <2>2. Len(calls) + 1 \in Nat \ {0} /\ calls' \in Seq({"connecting", "gone"})
    <3>1. calls' = Append(calls, "connecting") BY <2>1
    <3> QED BY <2>a, <2>b, <3>1
  <2>3. mover'.at = "connect" /\ mover'.new # 0 /\ mover'.new \in Nat /\ DOMAIN mover' = DOMAIN mover
    BY <1>0, <2>1, <2>2 DEF MoverTypeOK
  <2>4. MoverTypeOK' BY <1>0, <2>1, <2>2, <2>3 DEF MoverTypeOK
  <2>5. mover.new = 0 => Underway' = Underway BY <2>1, <2>3 DEF Underway
  <2> QED BY <1>0, <2>1, <2>3, <2>4, <2>5 DEF MoverInv, Accounted
<1>11. CASE Mover!UsageFinished
  <2>1. mover.at = "connect" /\ calls' = calls /\ (astray' = {} => astray = {}) /\ tally' = tally
        /\ mover' = Mover!Returned(mover)
    BY <1>11, <1>b DEF Mover!UsageFinished
  <2>3. MoverTypeOK' /\ Underway' = Underway BY <1>0, <1>c, <2>1 DEF MoverTypeOK, Underway
  <2> QED BY <1>c, <2>1, <2>3, MoverKeeps
<1>12. CASE Mover!OutgoingStarted
  <2>1. mover.at = "out" /\ calls' = calls /\ (astray' = {} => astray = {}) /\ tally' = tally
        /\ mover' = [mover EXCEPT !.state = "started"]
    BY <1>12, <1>b DEF Mover!OutgoingStarted
  <2>2. mover'.at = "out" /\ mover'.new = mover.new /\ DOMAIN mover' = DOMAIN mover BY <1>0, <2>1 DEF MoverTypeOK
  <2>3. MoverTypeOK' /\ Underway' = Underway BY <1>0, <2>1, <2>2 DEF MoverTypeOK, Underway
  <2> QED BY <2>1, <2>2, <2>3, MoverKeeps
<1>13. CASE Mover!OutgoingFailed \/ Mover!OutgoingEnded
  <2>1. /\ mover.at = "out" /\ calls' = calls /\ (astray' = {} => astray = {})
        /\ tally' = [tally EXCEPT !.settled = @ + 1]
        /\ mover' = Mover!Returned(mover) \/ mover' = [Mover!Returned(mover) EXCEPT !.ends = TRUE]
    BY <1>13, <1>b DEF Mover!OutgoingFailed, Mover!OutgoingEnded, Mover!Settles
  <2>2. tally'.begun = tally.begun /\ tally'.settled = tally.settled + 1 BY <2>1, <1>0 DEF MoverTypeOK
  <2>3. mover'.at = "idle" /\ mover'.state = "None" /\ mover'.new = mover.new /\ DOMAIN mover' = DOMAIN mover
    BY <1>0, <1>c, <2>1 DEF MoverTypeOK
  <2>4. MoverTypeOK' BY <1>0, <2>1, <2>3 DEF MoverTypeOK
  <2>5. Underway = Underway' + 1 /\ Underway' \in Nat BY <2>1, <2>3 DEF Underway
  <2> QED BY <1>0, <2>1, <2>2, <2>3, <2>4, <2>5 DEF MoverInv, Accounted
<1>e. ASSUME Mover!Settles, mover.new # 0, mover'.new = 0, mover'.at = mover.at, DOMAIN mover' = DOMAIN mover,
             calls' \in Seq({"connecting", "gone"}), astray' = {} => astray = {}, mover.at # "dead",
             astray' = {} /\ mover'.at = "idle" => mover'.ends
      PROVE  MoverInv'
  <2>1. tally'.begun = tally.begun /\ tally'.settled = tally.settled + 1 BY <1>e, <1>0 DEF Mover!Settles, MoverTypeOK
  <2>2. MoverTypeOK' BY <1>0, <1>e DEF MoverTypeOK, Mover!Settles
  <2>3. Underway = Underway' + 1 /\ Underway' \in Nat BY <1>e DEF Underway
  <2>4. tally.begun \in Nat /\ tally.settled \in Nat BY <1>0 DEF MoverTypeOK
  <2>5. Accounted'
    <3> SUFFICES ASSUME astray' = {} PROVE Accounted' BY DEF Accounted
    <3>1. astray = {} /\ tally.begun = tally.settled + Underway BY <1>0, <1>e DEF MoverInv, Accounted
    <3>2. tally'.begun = tally'.settled + Underway' BY <2>1, <2>3, <2>4, <3>1
    <3>3. tally'.settled <= tally'.begun BY <2>1, <2>3, <2>4, <3>2
    <3>4. ~(mover'.at = "idle" /\ ~mover'.ends) BY <1>e
    <3> QED BY <3>2, <3>3, <3>4 DEF Accounted
  <2> QED BY <2>2, <2>5 DEF MoverInv
\* a handler that is not there any more, or goes
<1>f. ASSUME mover'.at = "dead", mover'.new \in Nat, DOMAIN mover' = DOMAIN mover, calls' \in Seq({"connecting", "gone"}),
             tally'.begun = tally.begun, tally'.settled = tally.settled,
             tally' \in [up : BOOLEAN, asks : Nat, begun : Nat, settled : Nat], astray' = {} => astray = {}
      PROVE  MoverInv'
  BY <1>0, <1>f DEF MoverInv, MoverTypeOK, Accounted
<1>g. ASSUME mover.at # "dead"
      PROVE  /\ Mover!Dead(mover).at = "dead" /\ Mover!Dead(mover).new \in Nat /\ DOMAIN Mover!Dead(mover) = DOMAIN mover
  BY <1>0 DEF MoverTypeOK, Mover!Dead
<1>14. CASE \E i \in DOMAIN calls : Mover!NewSessionStarts(i)
  <2>1. PICK i \in DOMAIN calls : Mover!NewSessionStarts(i) BY <1>14
  <2>a. calls' = [calls EXCEPT ![i] = "gone"] BY <2>1 DEF Mover!NewSessionStarts
  <2>2. i # 0 /\ calls' \in Seq({"connecting", "gone"})
    BY <1>0, <2>a DEF MoverTypeOK
  <2>3. CASE i # mover.new
    <3>1. mover' = mover /\ tally' = tally /\ astray' = astray BY <2>1, <2>3 DEF Mover!NewSessionStarts
    <3> QED BY <2>2, <3>1 DEF MoverInv, MoverTypeOK, Accounted, Underway
  <2>4. CASE i = mover.new /\ mover.at = "dead"
    <3>1. mover' = [mover EXCEPT !.new = 0] /\ tally' = tally /\ astray' = astray BY <2>1, <2>4 DEF Mover!NewSessionStarts
    <3>2. mover'.at = "dead" /\ mover'.new \in Nat /\ DOMAIN mover' = DOMAIN mover BY <1>0, <2>4, <3>1 DEF MoverTypeOK
    <3> QED BY <1>0, <1>f, <2>2, <3>1, <3>2 DEF MoverTypeOK
  <2>5. CASE i = mover.new /\ mover.at # "dead"
    <3>1. mover' = [mover EXCEPT !.new = 0, !.state = "ended", !.ends = TRUE] /\ Mover!Settles /\ astray' = astray
      BY <2>1, <2>5 DEF Mover!NewSessionStarts
    <3>2. mover'.at = mover.at /\ mover'.new = 0 /\ mover'.ends /\ DOMAIN mover' = DOMAIN mover
      BY <1>0, <3>1 DEF MoverTypeOK
    <3> QED BY <1>e, <2>2, <2>5, <3>1, <3>2
  <2> QED BY <2>3, <2>4, <2>5
<1>15. CASE \E i \in DOMAIN calls : Mover!NewSessionFails(i)
  <2>1. PICK i \in DOMAIN calls : Mover!NewSessionFails(i) BY <1>15
  <2>a. calls' = [calls EXCEPT ![i] = "gone"] BY <2>1 DEF Mover!NewSessionFails
  <2>2. i # 0 /\ calls' \in Seq({"connecting", "gone"})
    BY <1>0, <2>a DEF MoverTypeOK
  <2>3. CASE i # mover.new
    <3>1. mover' = (IF mover.at # "dead" THEN Mover!Dead(mover) ELSE mover) /\ tally' = tally /\ astray' = astray
      BY <2>1, <2>3 DEF Mover!NewSessionFails
    <3>2. mover'.at = "dead" /\ mover'.new \in Nat /\ DOMAIN mover' = DOMAIN mover BY <1>0, <1>g, <3>1 DEF MoverTypeOK
    <3> QED BY <1>0, <1>f, <2>2, <3>1, <3>2 DEF MoverTypeOK
  <2>4. CASE i = mover.new /\ mover.at = "dead"
    <3>1. mover' = [mover EXCEPT !.new = 0] /\ tally' = tally /\ astray' = astray BY <2>1, <2>4 DEF Mover!NewSessionFails
    <3>2. mover'.at = "dead" /\ mover'.new \in Nat /\ DOMAIN mover' = DOMAIN mover BY <1>0, <2>4, <3>1 DEF MoverTypeOK
    <3> QED BY <1>0, <1>f, <2>2, <3>1, <3>2 DEF MoverTypeOK
  <2>5. CASE i = mover.new /\ mover.at # "dead"
    <3>1. /\ mover' = [mover EXCEPT !.new = 0, !.state = "failed"] /\ Mover!Settles
          /\ astray' = astray \cup {"late" : a \in {mover.at} \ {"connect"}}
      BY <2>1, <2>5 DEF Mover!NewSessionFails
    <3>2. mover'.at = mover.at /\ mover'.new = 0 /\ DOMAIN mover' = DOMAIN mover BY <1>0, <3>1 DEF MoverTypeOK
    <3>3. astray' = {} => astray = {} /\ mover.at = "connect" BY <3>1
    <3> QED BY <1>e, <2>2, <2>5, <3>1, <3>2, <3>3
  <2> QED BY <2>3, <2>4, <2>5
<1>16. CASE Mover!TransferSessionDidEnd
  <2>1. /\ mover' = (IF mover.at # "dead" THEN Mover!Dead(mover) ELSE mover) /\ tally' = [tally EXCEPT !.up = FALSE]
        /\ astray' = astray /\ calls' = calls
    BY <1>16 DEF Mover!TransferSessionDidEnd
  <2>2. mover'.at = "dead" /\ mover'.new \in Nat /\ DOMAIN mover' = DOMAIN mover BY <1>0, <1>g, <2>1 DEF MoverTypeOK
  <2>3. /\ tally'.begun = tally.begun /\ tally'.settled = tally.settled
        /\ tally' \in [up : BOOLEAN, asks : Nat, begun : Nat, settled : Nat]
    BY <1>0, <2>1 DEF MoverTypeOK
  <2> QED BY <1>0, <1>f, <2>1, <2>2, <2>3 DEF MoverTypeOK
<1>17. CASE UNCHANGED moverVars BY <1>17, <1>a DEF moverVars
<1> QED BY <1>1, <1>2, <1>3, <1>4, <1>5, <1>6, <1>7, <1>8, <1>9, <1>10, <1>11, <1>12, <1>13, <1>14, <1>15, <1>16, <1>17
        DEF Mover!TransferHandlerNext, Mover!TransferRuns

\* Each transfer that the application knows of has one outcome told, and a handler at rest is ready for the
\* next, however the other end, the application and the new sessions come together (TransferHandler._run).
THEOREM TransferAlwaysSettled == MCSpec => []TransferSettled
<1> DEFINE Inv == kind = "mover" => MoverInv
<1>1. MCInit => Inv
  <2> SUFFICES ASSUME MCInit, kind = "mover" PROVE MoverInv OBVIOUS
  <2>1. Mover!TransferHandlerInit BY DEF MCInit, StreamInit
  <2> QED BY <2>1 DEF Mover!TransferHandlerInit, MoverInv, MoverTypeOK, Accounted, Underway
<1>2. Inv /\ [MCNext]_vars => Inv'
  <2> SUFFICES ASSUME Inv, [MCNext]_vars, kind' = "mover" PROVE MoverInv' OBVIOUS
  <2>1. kind = "mover" BY KindStays
  <2>2. [Mover!TransferHandlerNext]_moverVars
    BY <2>1 DEF MCNext, StreamNext, vars, otherVars, moverVars, OfConference, OfReferral, OfDNS, OfAudio
  <2> QED BY <2>1, <2>2, MoverStep
<1>3. Inv => TransferSettled
  <2> SUFFICES ASSUME MoverInv PROVE Mover!TransferSettled BY DEF TransferSettled
  <2>1. tally.begun \in Nat /\ tally.settled \in Nat BY DEF MoverInv, MoverTypeOK
  <2>2. mover.at = "idle" /\ mover.new = 0 => Underway = 0 BY DEF Underway
  <2>3. astray = {} /\ mover.at = "idle" /\ mover.new = 0 => tally.settled = tally.begun
    BY <2>1, <2>2 DEF MoverInv, Accounted
  <2>4. astray = {} /\ mover.at = "idle" /\ ~mover.ends => mover.state = "None" BY DEF MoverInv, Accounted
  <2>5. astray = {} => tally.settled <= tally.begun BY DEF MoverInv, Accounted
  <2> QED BY <2>3, <2>4, <2>5 DEF Mover!TransferSettled
<1> QED BY <1>1, <1>2, <1>3, PTL DEF MCSpec

-----------------------------------------------------------------------------
(***************************************************************************)
(* The conference handler.                                                 *)
(***************************************************************************)
Desks ==
  [remote_focus : BOOLEAN, life : {"new", "on", "over"}, active : BOOLEAN,
   commands : Seq({"subscribe", "unsubscribe", "terminate"}), pc : {"idle", "kill", "off"},
   cmd : {"none", "subscribe", "unsubscribe", "terminate"}, timer : BOOLEAN,
   handler : {"none", "dns", "answer", "subscribed", "ending"}, killed : {"no", "interrupt", "terminate"},
   current : Nat, refused : BOOLEAN]
Subscriptions == [stage : {"sent", "active", "gone"}, want_end : BOOLEAN, observed : BOOLEAN]
Items == [name : {"DidStart", "GotNotify", "DidFail", "DidEnd"}, of : Nat]
DeskTypeOK ==
  /\ desk \in Desks /\ subscriptions \in Seq(Subscriptions) /\ posted \in Seq(Items) /\ data \in Seq(Items)
WillTerminate(cs) == \E k \in DOMAIN cs : cs[k] = "terminate"
OnlySubscribes(cs) == \A k \in DOMAIN cs : cs[k] = "subscribe"
\* a session that is over will have the handler leave, and until then it only ever subscribes; before there is a focus
\* it does nothing
Commanded ==
  /\ desk.life = "over" => desk.pc = "off" \/ WillTerminate(desk.commands)
  /\ desk.life = "over" => ~desk.active
  /\ desk.life # "over" =>
       /\ OnlySubscribes(desk.commands)
       /\ desk.killed # "terminate" /\ desk.pc # "off" /\ (desk.pc = "kill" => desk.cmd = "subscribe")
  /\ desk.life = "new" => ~desk.active
  /\ ~desk.active /\ desk.life # "over" =>
       /\ desk.handler = "none" /\ desk.commands = <<>> /\ desk.pc = "idle" /\ desk.killed = "no" /\ ~desk.timer
  /\ desk.killed # "no" => desk.pc = "kill" /\ desk.handler # "none"
  /\ desk.killed = "interrupt" => desk.cmd = "subscribe"
  /\ desk.handler = "ending" => desk.killed = "terminate"
\* what makes a session with a focus follow the conference, now or later
Follows ==
  desk.active /\ lost = {} =>
    \/ desk.handler # "none" \/ desk.timer \/ desk.refused \/ desk.commands # <<>>
    \/ desk.pc = "kill" /\ desk.cmd = "subscribe"
\* which subscription is the handler's, and what is said of the others
SaidOf(items, subs) ==
  \A k \in DOMAIN items :
    /\ items[k].of \in DOMAIN subs
    /\ items[k].name \in {"DidFail", "DidEnd"} => subs[items[k].of].stage = "gone"
Current ==
  /\ desk.current \in DOMAIN subscriptions \cup {0}
  /\ desk.current = 0 <=> desk.handler \in {"none", "dns"}
  /\ \A i \in DOMAIN subscriptions : subscriptions[i].observed <=> i = desk.current
  /\ desk.handler = "ending" => subscriptions[desk.current].want_end
\* no other is left to the server
NoOther ==
  lost = {} => \A i \in DOMAIN subscriptions : subscriptions[i].stage = "gone" \/ subscriptions[i].want_end \/ i = desk.current
DeskInv == DeskTypeOK /\ Commanded /\ Follows /\ Current /\ NoOther /\ SaidOf(posted, subscriptions) /\ SaidOf(data, subscriptions)

\* What becomes of the commands when one is sent and when one is taken.
LEMMA CommandsGo ==
  ASSUME NEW cs \in Seq({"subscribe", "unsubscribe", "terminate"})
  PROVE  /\ \A new \in {cs \o <<"subscribe">>, Append(cs, "subscribe")} :
              /\ new \in Seq({"subscribe", "unsubscribe", "terminate"}) /\ new # <<>>
              /\ OnlySubscribes(cs) => OnlySubscribes(new)
              /\ WillTerminate(cs) => WillTerminate(new)
         /\ cs \o <<"unsubscribe", "terminate">> \in Seq({"subscribe", "unsubscribe", "terminate"})
         /\ WillTerminate(cs \o <<"unsubscribe", "terminate">>)
         /\ cs # <<>> =>
              /\ Tail(cs) \in Seq({"subscribe", "unsubscribe", "terminate"})
              /\ OnlySubscribes(cs) => OnlySubscribes(Tail(cs)) /\ Head(cs) = "subscribe"
              /\ WillTerminate(cs) /\ Head(cs) # "terminate" => WillTerminate(Tail(cs))
<1> DEFINE C == {"subscribe", "unsubscribe", "terminate"}
<1>1. Len(cs) \in Nat /\ DOMAIN cs = 1..Len(cs) OBVIOUS
<1>2. ASSUME NEW new \in {cs \o <<"subscribe">>, Append(cs, "subscribe")}
      PROVE  /\ new \in Seq(C) /\ new # <<>>
             /\ OnlySubscribes(cs) => OnlySubscribes(new)
             /\ WillTerminate(cs) => WillTerminate(new)
  <2>1. new \in Seq(C) /\ Len(new) = Len(cs) + 1 BY <1>2
  <2>2. \A k \in 1..(Len(cs) + 1) : new[k] = IF k = Len(cs) + 1 THEN "subscribe" ELSE cs[k] BY <1>2, <1>1
  <2>3. DOMAIN new = 1..(Len(cs) + 1) BY <2>1
  <2>4. new # <<>> BY <1>1, <2>1, EmptySeq
  <2> QED BY <1>1, <2>1, <2>2, <2>3, <2>4 DEF OnlySubscribes, WillTerminate
<1>3. /\ cs \o <<"unsubscribe", "terminate">> \in Seq(C)
      /\ WillTerminate(cs \o <<"unsubscribe", "terminate">>)
  <2> DEFINE new == cs \o <<"unsubscribe", "terminate">>
  <2>1. new \in Seq(C) /\ Len(new) = Len(cs) + 2 /\ new[Len(cs) + 2] = "terminate" BY <1>1
  <2>2. Len(cs) + 2 \in DOMAIN new BY <1>1, <2>1
  <2> QED BY <2>1, <2>2 DEF WillTerminate
<1>4. ASSUME cs # <<>>
      PROVE  /\ Tail(cs) \in Seq(C)
             /\ OnlySubscribes(cs) => OnlySubscribes(Tail(cs)) /\ Head(cs) = "subscribe"
             /\ WillTerminate(cs) /\ Head(cs) # "terminate" => WillTerminate(Tail(cs))
  <2>1. /\ Tail(cs) \in Seq(C) /\ Len(cs) \in Nat \ {0} /\ Head(cs) = cs[1] /\ DOMAIN Tail(cs) = 1..(Len(cs) - 1)
        /\ \A k \in 1..(Len(cs) - 1) : Tail(cs)[k] = cs[k + 1]
    BY <1>4, EmptySeq
  <2>2. OnlySubscribes(cs) => OnlySubscribes(Tail(cs)) /\ Head(cs) = "subscribe" BY <1>1, <2>1 DEF OnlySubscribes
  <2>3. ASSUME WillTerminate(cs), Head(cs) # "terminate" PROVE WillTerminate(Tail(cs))
    <3>1. PICK k \in 1..Len(cs) : cs[k] = "terminate" BY <1>1, <2>3 DEF WillTerminate
    <3>2. k # 1 BY <2>1, <2>3, <3>1
    <3>3. k - 1 \in 1..(Len(cs) - 1) /\ Tail(cs)[k - 1] = cs[k] BY <2>1, <3>2
    <3> QED BY <2>1, <3>1, <3>3 DEF WillTerminate
  <2> QED BY <2>1, <2>2, <2>3
<1> QED BY <1>2, <1>3, <1>4
\* What was said stays true of subscriptions that only come and go.
LEMMA SaidStays ==
  ASSUME NEW items, NEW subs, NEW new, SaidOf(items, subs), DOMAIN subs \subseteq DOMAIN new,
         \A i \in DOMAIN subs : subs[i].stage = "gone" => new[i].stage = "gone"
  PROVE  SaidOf(items, new)
BY DEF SaidOf
LEMMA SaidOfFewer ==
  ASSUME NEW items \in Seq(Items), items # <<>>, NEW subs, SaidOf(items, subs)
  PROVE  /\ SaidOf(Tail(items), subs) /\ Tail(items) \in Seq(Items) /\ Head(items) \in Items
         /\ Head(items).of \in DOMAIN subs
         /\ Head(items).name \in {"DidFail", "DidEnd"} => subs[Head(items).of].stage = "gone"
<1>1. /\ Tail(items) \in Seq(Items) /\ Len(items) \in Nat \ {0} /\ Head(items) = items[1] /\ DOMAIN Tail(items) = 1..(Len(items) - 1)
      /\ \A k \in 1..(Len(items) - 1) : Tail(items)[k] = items[k + 1]
      /\ Head(items) \in Items /\ DOMAIN items = 1..Len(items)
  BY EmptySeq
<1> QED BY <1>1 DEF SaidOf
LEMMA SaidOfMore ==
  ASSUME NEW items \in Seq(Items), NEW e \in Items, NEW subs, SaidOf(items, subs), e.of \in DOMAIN subs,
         e.name \in {"DidFail", "DidEnd"} => subs[e.of].stage = "gone"
  PROVE  SaidOf(Append(items, e), subs) /\ Append(items, e) \in Seq(Items)
<1>1. /\ Append(items, e) \in Seq(Items) /\ Len(items) \in Nat /\ DOMAIN Append(items, e) = 1..(Len(items) + 1)
      /\ \A k \in 1..(Len(items) + 1) : Append(items, e)[k] = IF k = Len(items) + 1 THEN e ELSE items[k]
      /\ DOMAIN items = 1..Len(items)
  OBVIOUS
<1> QED BY <1>1 DEF SaidOf

\* The subscription that the handler lets go of.
LEMMA LetsGo ==
  ASSUME DeskTypeOK, Current
  PROVE  /\ Conference!Unobserved \in Seq(Subscriptions) /\ DOMAIN Conference!Unobserved = DOMAIN subscriptions
         /\ Len(Conference!Unobserved) = Len(subscriptions)
         /\ \A i \in DOMAIN subscriptions :
              /\ Conference!Unobserved[i].stage = subscriptions[i].stage
              /\ Conference!Unobserved[i].want_end = subscriptions[i].want_end
              /\ Conference!Unobserved[i].observed = FALSE
<1>1. subscriptions \in Seq(Subscriptions) /\ \A i \in DOMAIN subscriptions : subscriptions[i] \in Subscriptions
  BY DEF DeskTypeOK
<1>2. CASE desk.current = 0
  <2>1. Conference!Unobserved = subscriptions BY <1>2 DEF Conference!Unobserved
  <2>2. \A i \in DOMAIN subscriptions : i # 0 BY <1>1
  <2> QED BY <1>1, <1>2, <2>1, <2>2 DEF Current, Subscriptions
<1>3. CASE desk.current # 0
  <2>1. desk.current \in DOMAIN subscriptions BY <1>3 DEF Current
  <2> DEFINE r == [subscriptions[desk.current] EXCEPT !.observed = FALSE]
  <2>2. Conference!Unobserved = [subscriptions EXCEPT ![desk.current] = r]
    BY <1>3 DEF Conference!Unobserved
  <2>3. /\ r \in Subscriptions /\ r.stage = subscriptions[desk.current].stage /\ r.observed = FALSE
        /\ r.want_end = subscriptions[desk.current].want_end
    BY <1>1, <2>1 DEF Subscriptions
  <2> HIDE DEF r
  <2>4. \A i \in DOMAIN subscriptions : i # desk.current => subscriptions[i].observed = FALSE
    BY <1>1, <2>1 DEF Current, Subscriptions
  <2> QED BY <1>1, <2>1, <2>2, <2>3, <2>4
<1> QED BY <1>2, <1>3
\* The subscription that is to end.
LEMMA LeavesOne ==
  ASSUME NEW subs \in Seq(Subscriptions), NEW c \in DOMAIN subs
  PROVE  /\ [subs EXCEPT ![c] = Conference!Leaves(@)] \in Seq(Subscriptions)
         /\ DOMAIN [subs EXCEPT ![c] = Conference!Leaves(@)] = DOMAIN subs
         /\ \A i \in DOMAIN subs :
              /\ [subs EXCEPT ![c] = Conference!Leaves(@)][i].stage = subs[i].stage
              /\ [subs EXCEPT ![c] = Conference!Leaves(@)][i].observed = subs[i].observed
              /\ [subs EXCEPT ![c] = Conference!Leaves(@)][i].want_end = (subs[i].want_end \/ i = c)
<1> DEFINE r == Conference!Leaves(subs[c])
           new == [subs EXCEPT ![c] = Conference!Leaves(@)]
<1>1. \A i \in DOMAIN subs : subs[i] \in Subscriptions OBVIOUS
<1>2. r \in Subscriptions /\ r.stage = subs[c].stage /\ r.observed = subs[c].observed /\ r.want_end = TRUE
  BY <1>1 DEF Conference!Leaves, Subscriptions
<1>3. new = [subs EXCEPT ![c] = r] OBVIOUS
<1> HIDE DEF r, new
<1>4. new \in Seq(Subscriptions) /\ DOMAIN new = DOMAIN subs BY <1>2, <1>3
<1>5. \A i \in DOMAIN subs : /\ new[i].stage = subs[i].stage /\ new[i].observed = subs[i].observed
                             /\ new[i].want_end = (subs[i].want_end \/ i = c)
  <2> SUFFICES ASSUME NEW i \in DOMAIN subs
      PROVE  /\ new[i].stage = subs[i].stage /\ new[i].observed = subs[i].observed
             /\ new[i].want_end = (subs[i].want_end \/ i = c)
    OBVIOUS
  <2>1. CASE i = c
    <3>1. new[i] = r BY <1>3, <2>1
    <3>2. new[i].want_end = TRUE BY <1>2, <3>1
    <3> QED BY <1>2, <2>1, <3>1, <3>2
  <2>2. CASE i # c
    <3>1. new[i] = subs[i] BY <1>3, <2>2
    <3>2. subs[i].want_end \in BOOLEAN BY <1>1 DEF Subscriptions
    <3> QED BY <2>2, <3>1, <3>2
  <2> QED BY <2>1, <2>2
<1> QED BY <1>4, <1>5 DEF new

\* The session, the network, the timer and the commands leave the subscriptions alone.
LEMMA DeskAlone ==
  ASSUME DeskInv, UNCHANGED <<subscriptions, posted, data, lost>>, desk' \in Desks, desk'.current = desk.current,
         desk'.handler = desk.handler \/ (desk.handler = "none" /\ desk'.handler = "dns"),
         Commanded', Follows'
  PROVE  DeskInv'
<1>1. DeskTypeOK' BY DEF DeskInv, DeskTypeOK
<1>2. Current' BY DEF DeskInv, Current
<1>3. NoOther' BY DEF DeskInv, NoOther
<1>4. SaidOf(posted, subscriptions)' /\ SaidOf(data, subscriptions)' BY DEF DeskInv
<1> QED BY <1>1, <1>2, <1>3, <1>4 DEF DeskInv

\* What the commands of the session, the network and the timer add.
LEMMA ConferenceSessionStep ==
  ASSUME DeskInv,
         \/ Conference!ConferenceSessionDidStart \/ Conference!ConferenceDidRenegotiate \/ Conference!_resubscribe
         \/ Conference!_terminate \/ Conference!ConferenceTimerFires
  PROVE  DeskInv'
<1> USE DEF Conference!OfTheSession, Conference!Wants
<1>0. desk \in Desks /\ desk.commands \in Seq({"subscribe", "unsubscribe", "terminate"}) /\ Commanded /\ Follows
  BY DEF DeskInv, DeskTypeOK, Desks
<1>1. \A new \in {desk.commands \o <<"subscribe">>, Append(desk.commands, "subscribe")} :
         /\ new \in Seq({"subscribe", "unsubscribe", "terminate"}) /\ new # <<>>
         /\ OnlySubscribes(desk.commands) => OnlySubscribes(new)
         /\ WillTerminate(desk.commands) => WillTerminate(new)
  BY <1>0, CommandsGo
<1>a. ASSUME NEW new \in {desk.commands \o <<"subscribe">>, Append(desk.commands, "subscribe")}, desk' \in Desks,
             desk'.commands = new, desk'.life = desk.life \/ (desk.life = "new" /\ desk'.life = "on"),
             desk'.active \/ (desk'.active = desk.active /\ (desk.active \/ desk.life = "over")),
             desk'.active => desk'.life = "on",
             desk'.pc = desk.pc, desk'.cmd = desk.cmd, desk'.handler = desk.handler, desk'.killed = desk.killed,
             desk'.current = desk.current, UNCHANGED <<subscriptions, posted, data, lost>>
      PROVE  DeskInv'
  <2>1. /\ desk'.commands # <<>> /\ (OnlySubscribes(desk.commands) => OnlySubscribes(desk'.commands))
        /\ WillTerminate(desk.commands) => WillTerminate(desk'.commands)
    BY <1>1, <1>a
  <2>2. Commanded' BY <1>0, <1>a, <2>1 DEF Commanded, Desks
  <2>3. Follows' BY <2>1 DEF Follows
  <2> QED BY <1>a, <2>2, <2>3, DeskAlone
<1>2. CASE Conference!ConferenceSessionDidStart
  <2> USE <1>2 DEF Conference!ConferenceSessionDidStart
  <2>1. CASE desk.remote_focus
    <3> DEFINE new == Append(desk.commands, "subscribe")
    <3>1. desk' = [desk EXCEPT !.life = "on", !.active = desk.remote_focus, !.commands = new] BY <2>1
    <3>2. new \in Seq({"subscribe", "unsubscribe", "terminate"}) BY <1>1
    <3> HIDE DEF new
    <3>3. desk' \in Desks /\ desk'.commands = new /\ desk'.life = "on" /\ desk'.active BY <1>0, <2>1, <3>1, <3>2 DEF Desks
    <3>4. /\ desk'.pc = desk.pc /\ desk'.cmd = desk.cmd /\ desk'.handler = desk.handler /\ desk'.killed = desk.killed
          /\ desk'.current = desk.current
      BY <1>0, <3>1 DEF Desks
    <3> QED BY <1>a, <3>3, <3>4 DEF new
  <2>2. CASE ~desk.remote_focus
    <3>1. desk' = [desk EXCEPT !.life = "on", !.active = desk.remote_focus, !.commands = desk.commands] BY <2>2
    <3>2. desk' \in Desks /\ desk'.commands = desk.commands /\ desk'.life = "on" /\ ~desk'.active BY <1>0, <2>2, <3>1 DEF Desks
    <3>3. /\ desk'.pc = desk.pc /\ desk'.cmd = desk.cmd /\ desk'.handler = desk.handler /\ desk'.killed = desk.killed
          /\ desk'.current = desk.current /\ desk'.timer = desk.timer
      BY <1>0, <3>1 DEF Desks
    <3>4. Commanded' BY <1>0, <3>2, <3>3 DEF Commanded
    <3>5. Follows' BY <3>2 DEF Follows
    <3> QED BY <3>2, <3>3, <3>4, <3>5, DeskAlone
  <2> QED BY <2>1, <2>2
<1>3. CASE Conference!ConferenceDidRenegotiate
  <2> USE <1>3 DEF Conference!ConferenceDidRenegotiate
  <2>1. CASE desk.active
    <3>1. desk' = desk BY <2>1
    <3> QED BY <1>0, <3>1, DeskAlone DEF Commanded, Follows
  <2>2. CASE ~desk.active
    <3> DEFINE new == desk.commands \o <<"subscribe">>
    <3>1. desk' = [[desk EXCEPT !.commands = new] EXCEPT !.active = TRUE, !.remote_focus = TRUE] BY <2>2
    <3>2. new \in Seq({"subscribe", "unsubscribe", "terminate"}) BY <1>1
    <3> HIDE DEF new
    <3>3. desk' \in Desks /\ desk'.commands = new /\ desk'.life = "on" /\ desk'.active BY <1>0, <3>1, <3>2 DEF Desks
    <3>4. /\ desk'.pc = desk.pc /\ desk'.cmd = desk.cmd /\ desk'.handler = desk.handler /\ desk'.killed = desk.killed
          /\ desk'.current = desk.current /\ desk'.life = desk.life
      BY <1>0, <3>1 DEF Desks
    <3> QED BY <1>a, <3>3, <3>4 DEF new
  <2> QED BY <2>1, <2>2
<1>4. CASE Conference!_resubscribe \/ Conference!ConferenceTimerFires
  <2> DEFINE new == desk.commands \o <<"subscribe">>
  <2>1. desk' = [desk EXCEPT !.commands = new] \/ desk' = [[desk EXCEPT !.commands = new] EXCEPT !.timer = FALSE]
    BY <1>4 DEF Conference!_resubscribe, Conference!ConferenceTimerFires
  <2>2. (desk.active \/ desk.timer) /\ UNCHANGED <<subscriptions, posted, data, lost>>
    BY <1>4 DEF Conference!_resubscribe, Conference!ConferenceTimerFires
  <2>3. new \in Seq({"subscribe", "unsubscribe", "terminate"}) BY <1>1
  <2> HIDE DEF new
  <2>4. desk' \in Desks /\ desk'.commands = new /\ desk'.life = desk.life /\ desk'.active = desk.active
    BY <1>0, <2>1, <2>3 DEF Desks
  <2>5. /\ desk'.pc = desk.pc /\ desk'.cmd = desk.cmd /\ desk'.handler = desk.handler /\ desk'.killed = desk.killed
        /\ desk'.current = desk.current
    BY <1>0, <2>1 DEF Desks
  <2>6. desk.active \/ desk.life = "over" BY <1>0, <2>2 DEF Commanded
  <2>7. desk.active => desk.life = "on" BY <1>0 DEF Commanded, Desks
  <2> QED BY <1>a, <2>2, <2>4, <2>5, <2>6, <2>7 DEF new
<1>5. CASE Conference!_terminate
  <2> DEFINE new == desk.commands \o <<"unsubscribe", "terminate">>
  <2>1. desk' = [[desk EXCEPT !.commands = new] EXCEPT !.life = "over", !.active = FALSE]
    BY <1>5 DEF Conference!_terminate
  <2>2. new \in Seq({"subscribe", "unsubscribe", "terminate"}) /\ WillTerminate(new) BY <1>0, CommandsGo
  <2> HIDE DEF new
  <2>3. desk' \in Desks /\ desk'.commands = new /\ desk'.life = "over" /\ ~desk'.active BY <1>0, <2>1, <2>2 DEF Desks
  <2>4. /\ desk'.pc = desk.pc /\ desk'.cmd = desk.cmd /\ desk'.handler = desk.handler /\ desk'.killed = desk.killed
        /\ desk'.current = desk.current
    BY <1>0, <2>1 DEF Desks
  <2>5. Commanded' BY <1>0, <2>2, <2>3, <2>4 DEF Commanded
  <2>6. Follows' BY <2>3 DEF Follows
  <2>7. UNCHANGED <<subscriptions, posted, data, lost>> BY <1>5 DEF Conference!_terminate
  <2> QED BY <2>3, <2>4, <2>5, <2>6, <2>7, DeskAlone
<1> QED BY <1>2, <1>3, <1>4, <1>5

\* _run takes a command.
LEMMA ConferenceRunStep ==
  ASSUME DeskInv,
         \/ Conference!ConferenceSubscribes \/ Conference!ConferenceUnsubscribes \/ Conference!ConferenceTerminates
         \/ Conference!ConferenceHandlerGone
  PROVE  DeskInv'
<1> USE DEF Conference!OfTheSession, Conference!Command, Conference!Spawned
<1>0. desk \in Desks /\ desk.commands \in Seq({"subscribe", "unsubscribe", "terminate"}) /\ Commanded /\ Follows
  BY DEF DeskInv, DeskTypeOK, Desks
<1> DEFINE new == Tail(desk.commands)
<1>1. desk.commands # <<>> =>
        /\ new \in Seq({"subscribe", "unsubscribe", "terminate"})
        /\ OnlySubscribes(desk.commands) => OnlySubscribes(new) /\ Head(desk.commands) = "subscribe"
        /\ WillTerminate(desk.commands) /\ Head(desk.commands) # "terminate" => WillTerminate(new)
  BY <1>0, CommandsGo
<1>2. CASE Conference!ConferenceSubscribes
  <2> USE <1>2 DEF Conference!ConferenceSubscribes
  <2>1. desk.pc = "idle" /\ desk.commands # <<>> /\ Head(desk.commands) = "subscribe"
        /\ UNCHANGED <<subscriptions, posted, data, lost>>
    OBVIOUS
  <2>a. desk.active \/ desk.life = "over" BY <1>0, <2>1 DEF Commanded
  <2>2. CASE desk.handler = "none"
    <3>1. desk' = [[[[desk EXCEPT !.commands = new, !.cmd = "subscribe"] EXCEPT !.timer = FALSE]
                     EXCEPT !.handler = "dns", !.pc = "idle"] EXCEPT !.pc = "idle"]
      BY <2>2
    <3> HIDE DEF new
    <3>2. /\ desk' \in Desks /\ desk'.commands = new /\ desk'.life = desk.life /\ desk'.active = desk.active
          /\ desk'.pc = "idle" /\ desk'.handler = "dns" /\ desk'.killed = desk.killed /\ desk'.current = desk.current
      BY <1>0, <1>1, <2>1, <3>1 DEF Desks
    <3>3. Commanded' BY <1>0, <1>1, <2>1, <2>a, <3>2 DEF Commanded
    <3>4. Follows' BY <3>2 DEF Follows
    <3> QED BY <2>1, <2>2, <3>2, <3>3, <3>4, DeskAlone
  <2>3. CASE desk.handler # "none"
    <3>1. desk' = [[[desk EXCEPT !.commands = new, !.cmd = "subscribe"] EXCEPT !.timer = FALSE]
                    EXCEPT !.killed = "interrupt", !.pc = "kill"]
      BY <2>3
    <3> HIDE DEF new
    <3>2. /\ desk' \in Desks /\ desk'.commands = new /\ desk'.life = desk.life /\ desk'.active = desk.active
          /\ desk'.pc = "kill" /\ desk'.cmd = "subscribe" /\ desk'.handler = desk.handler
          /\ desk'.killed = "interrupt" /\ desk'.current = desk.current
      BY <1>0, <1>1, <2>1, <3>1 DEF Desks
    <3>a. desk.handler # "ending" /\ desk.killed = "no" BY <1>0, <2>1 DEF Commanded
    <3>3. Commanded' BY <1>0, <1>1, <2>1, <2>3, <2>a, <3>2, <3>a DEF Commanded
    <3>4. Follows' BY <3>2 DEF Follows
    <3> QED BY <2>1, <3>2, <3>3, <3>4, DeskAlone
  <2> QED BY <2>2, <2>3
<1>3. CASE Conference!ConferenceUnsubscribes
  <2> USE <1>3 DEF Conference!ConferenceUnsubscribes
  <2>1. desk.pc = "idle" /\ desk.commands # <<>> /\ Head(desk.commands) = "unsubscribe"
        /\ UNCHANGED <<subscriptions, posted, data, lost>>
    OBVIOUS
  <2>2. desk.life = "over" /\ ~desk.active BY <1>0, <1>1, <2>1 DEF Commanded
  <2>3. WillTerminate(desk.commands) /\ desk.killed = "no" /\ desk.handler # "ending" BY <1>0, <2>1, <2>2 DEF Commanded
  <2>4. CASE desk.handler = "none"
    <3>1. desk' = [[desk EXCEPT !.commands = new, !.cmd = "unsubscribe"] EXCEPT !.timer = FALSE] BY <2>4
    <3>2. new \in Seq({"subscribe", "unsubscribe", "terminate"}) /\ WillTerminate(new) BY <1>1, <2>1, <2>3
    <3> HIDE DEF new
    <3>3. /\ desk' \in Desks /\ desk'.commands = new /\ desk'.life = desk.life /\ desk'.active = desk.active
          /\ desk'.handler = desk.handler /\ desk'.killed = desk.killed /\ desk'.current = desk.current
      BY <1>0, <3>1, <3>2 DEF Desks
    <3>4. Commanded' BY <2>2, <2>3, <3>2, <3>3 DEF Commanded
    <3>5. Follows' BY <2>2, <3>3 DEF Follows
    <3> QED BY <2>1, <3>3, <3>4, <3>5, DeskAlone
  <2>5. CASE desk.handler # "none"
    <3>1. desk' = [[[desk EXCEPT !.commands = new, !.cmd = "unsubscribe"] EXCEPT !.timer = FALSE]
                   EXCEPT !.killed = "terminate", !.pc = "kill"]
      BY <2>5
    <3>2. new \in Seq({"subscribe", "unsubscribe", "terminate"}) /\ WillTerminate(new) BY <1>1, <2>1, <2>3
    <3> HIDE DEF new
    <3>3. /\ desk' \in Desks /\ desk'.commands = new /\ desk'.life = desk.life /\ desk'.active = desk.active
          /\ desk'.handler = desk.handler /\ desk'.killed = "terminate" /\ desk'.pc = "kill" /\ desk'.current = desk.current
      BY <1>0, <3>1, <3>2 DEF Desks
    <3>4. Commanded' BY <2>2, <2>3, <2>5, <3>2, <3>3 DEF Commanded
    <3>5. Follows' BY <2>2, <3>3 DEF Follows
    <3> QED BY <2>1, <3>3, <3>4, <3>5, DeskAlone
  <2> QED BY <2>4, <2>5
<1>4. CASE Conference!ConferenceTerminates
  <2> USE <1>4 DEF Conference!ConferenceTerminates
  <2>1. desk.pc = "idle" /\ desk.commands # <<>> /\ Head(desk.commands) = "terminate"
        /\ UNCHANGED <<subscriptions, posted, data, lost>>
    OBVIOUS
  <2>2. desk.life = "over" /\ ~desk.active BY <1>0, <1>1, <2>1 DEF Commanded
  <2>3. desk.killed = "no" /\ desk.handler # "ending" BY <1>0, <2>1, <2>2 DEF Commanded
  <2>4. desk' = [[desk EXCEPT !.commands = new, !.cmd = "terminate"] EXCEPT !.pc = "off"] OBVIOUS
  <2>5. new \in Seq({"subscribe", "unsubscribe", "terminate"}) BY <1>1, <2>1
  <2> HIDE DEF new
  <2>6. /\ desk' \in Desks /\ desk'.life = desk.life /\ desk'.active = desk.active /\ desk'.pc = "off"
        /\ desk'.handler = desk.handler /\ desk'.killed = desk.killed /\ desk'.current = desk.current
    BY <1>0, <2>4, <2>5 DEF Desks
  <2>7. Commanded' BY <2>2, <2>3, <2>6 DEF Commanded
  <2>8. Follows' BY <2>2, <2>6 DEF Follows
  <2> QED BY <2>1, <2>6, <2>7, <2>8, DeskAlone
<1>5. CASE Conference!ConferenceHandlerGone
  <2> HIDE DEF new
  <2> USE <1>5 DEF Conference!ConferenceHandlerGone
  <2>1. desk.pc = "kill" /\ desk.handler = "none" /\ UNCHANGED <<subscriptions, posted, data, lost>>
    OBVIOUS
  <2>2. desk.killed = "no" BY <1>0, <2>1 DEF Commanded
  <2>3. CASE desk.cmd = "subscribe"
    <3>1. desk' = [desk EXCEPT !.handler = "dns", !.pc = "idle"] BY <2>3
    <3>2. /\ desk' \in Desks /\ desk'.commands = desk.commands /\ desk'.life = desk.life /\ desk'.active = desk.active
          /\ desk'.handler = "dns" /\ desk'.killed = "no" /\ desk'.pc = "idle" /\ desk'.current = desk.current
      BY <1>0, <2>2, <3>1 DEF Desks
    <3>3. desk.active \/ desk.life = "over" BY <1>0, <2>1 DEF Commanded
    <3>4. Commanded' BY <1>0, <2>1, <3>2, <3>3 DEF Commanded
    <3>5. Follows' BY <3>2 DEF Follows
    <3> QED BY <2>1, <3>2, <3>4, <3>5, DeskAlone
  <2>4. CASE desk.cmd # "subscribe"
    <3>1. desk' = [desk EXCEPT !.pc = "idle"] BY <2>4
    <3>2. /\ desk' \in Desks /\ desk'.commands = desk.commands /\ desk'.life = desk.life /\ desk'.active = desk.active
          /\ desk'.handler = "none" /\ desk'.killed = "no" /\ desk'.pc = "idle" /\ desk'.current = desk.current
      BY <1>0, <2>1, <2>2, <3>1 DEF Desks
    <3>3. desk.life = "over" /\ ~desk.active BY <1>0, <2>1, <2>4 DEF Commanded
    <3>4. Commanded' BY <1>0, <2>1, <3>2, <3>3 DEF Commanded
    <3>5. Follows' BY <3>2, <3>3 DEF Follows
    <3> QED BY <2>1, <3>2, <3>4, <3>5, DeskAlone
  <2> QED BY <2>3, <2>4
<1> QED BY <1>2, <1>3, <1>4, <1>5

\* The handler ends, for now or for good: what it held has gone, or will end, or the conference was missed.
LEMMA DeskFinishes ==
  ASSUME DeskInv, desk.handler # "none", posted' = posted, data' \in Seq(Items), SaidOf(data', subscriptions),
         desk' \in Desks, desk'.life = desk.life, desk'.active = desk.active, desk'.pc = desk.pc, desk'.cmd = desk.cmd,
         desk'.handler = "none", desk'.killed = "no", desk'.current = 0,
         desk'.commands = desk.commands \/ desk'.commands = desk.commands \o <<"subscribe">>,
         desk.active /\ lost' = {} =>
           desk'.timer \/ desk'.refused \/ desk'.commands # <<>> \/ (desk.pc = "kill" /\ desk.cmd = "subscribe"),
         lost' = {} => lost = {},
         subscriptions' \in Seq(Subscriptions), DOMAIN subscriptions' = DOMAIN subscriptions,
         \A i \in DOMAIN subscriptions :
           /\ subscriptions'[i].stage = subscriptions[i].stage /\ ~subscriptions'[i].observed
           /\ subscriptions[i].want_end => subscriptions'[i].want_end
           /\ i = desk.current /\ lost' = {} => subscriptions[i].stage = "gone" \/ subscriptions'[i].want_end
  PROVE  DeskInv'
<1>0. desk \in Desks /\ desk.commands \in Seq({"subscribe", "unsubscribe", "terminate"}) /\ Commanded
  BY DEF DeskInv, DeskTypeOK, Desks
<1>1. DeskTypeOK' BY DEF DeskInv, DeskTypeOK
<1>2. Commanded'
  <2>1. /\ OnlySubscribes(desk.commands) => OnlySubscribes(desk'.commands)
        /\ WillTerminate(desk.commands) => WillTerminate(desk'.commands)
    BY <1>0, CommandsGo
  <2>2. desk.active \/ desk.life = "over" BY <1>0 DEF Commanded
  <2> QED BY <1>0, <2>1, <2>2 DEF Commanded
<1>3. Follows' BY DEF Follows
<1>4. Current'
  <2>1. \A i \in DOMAIN subscriptions : i # 0 BY DEF DeskInv, DeskTypeOK
  <2>2. \A i \in DOMAIN subscriptions' : ~subscriptions'[i].observed /\ i # desk'.current BY <2>1
  <2> QED BY <2>2 DEF Current
<1>5. NoOther' BY DEF DeskInv, NoOther
<1>6. SaidOf(posted, subscriptions)' /\ SaidOf(data, subscriptions)' BY SaidStays DEF DeskInv
<1> QED BY <1>1, <1>2, <1>3, <1>4, <1>5, <1>6 DEF DeskInv

\* The handler sends the next request: the one before has failed, or the conference was missed.
LEMMA DeskTries ==
  ASSUME DeskInv, desk.handler \in {"dns", "answer"}, posted' = posted, data' \in Seq(Items), SaidOf(data', subscriptions),
         desk' = [desk EXCEPT !.handler = "answer", !.current = Len(subscriptions) + 1],
         subscriptions' = Append(Conference!Unobserved, [stage |-> "sent", want_end |-> FALSE, observed |-> TRUE]),
         lost' = {} => lost = {},
         lost' = {} /\ desk.current # 0 => subscriptions[desk.current].stage = "gone"
  PROVE  DeskInv'
<1> DEFINE n == Len(subscriptions) + 1
           new == [stage |-> "sent", want_end |-> FALSE, observed |-> TRUE]
           held == Conference!Unobserved
<1>0. desk \in Desks /\ Commanded /\ Follows /\ Current /\ NoOther /\ DeskTypeOK BY DEF DeskInv, DeskTypeOK
<1>1. /\ held \in Seq(Subscriptions) /\ DOMAIN held = DOMAIN subscriptions /\ Len(held) = Len(subscriptions)
      /\ \A i \in DOMAIN subscriptions :
           /\ held[i].stage = subscriptions[i].stage /\ held[i].want_end = subscriptions[i].want_end
           /\ held[i].observed = FALSE
  BY <1>0, LetsGo
<1>2. n \in Nat /\ Len(subscriptions) \in Nat /\ DOMAIN subscriptions = 1..Len(subscriptions) /\ n # 0
  BY <1>0 DEF DeskTypeOK
<1>3. new \in Subscriptions /\ new.stage = "sent" /\ new.observed = TRUE BY DEF Subscriptions
<1>4. subscriptions' = Append(held, new) OBVIOUS
<1>5. desk' = [desk EXCEPT !.handler = "answer", !.current = n] OBVIOUS
<1> HIDE DEF held, new
<1>6. /\ subscriptions' \in Seq(Subscriptions) /\ DOMAIN subscriptions' = 1..n
      /\ \A i \in 1..n : subscriptions'[i] = IF i = n THEN new ELSE held[i]
  <2>1. /\ Append(held, new) \in Seq(Subscriptions) /\ DOMAIN Append(held, new) = 1..(Len(held) + 1)
        /\ \A i \in 1..(Len(held) + 1) : Append(held, new)[i] = IF i = Len(held) + 1 THEN new ELSE held[i]
    BY <1>1, <1>3
  <2> QED BY <1>1, <1>4, <2>1
<1> HIDE DEF n
<1>7. /\ desk' \in Desks /\ desk'.handler = "answer" /\ desk'.current = n
      /\ desk'.life = desk.life /\ desk'.active = desk.active /\ desk'.pc = desk.pc /\ desk'.cmd = desk.cmd
      /\ desk'.killed = desk.killed /\ desk'.commands = desk.commands /\ desk'.timer = desk.timer
  BY <1>0, <1>2, <1>5 DEF Desks
<1>8. DeskTypeOK' BY <1>6, <1>7 DEF DeskInv, DeskTypeOK
<1>9. Commanded' BY <1>0, <1>7 DEF Commanded
<1>10. Follows' BY <1>7 DEF Follows
<1>11. \A i \in DOMAIN subscriptions : i \in DOMAIN subscriptions' /\ i # n /\ subscriptions'[i] = held[i]
  BY <1>2, <1>6 DEF n
<1>12. \A i \in DOMAIN subscriptions' : i = n \/ i \in DOMAIN subscriptions BY <1>2, <1>6 DEF n
<1>a. n \in DOMAIN subscriptions' /\ subscriptions'[n] = new BY <1>2, <1>6
<1>13. Current' BY <1>1, <1>2, <1>3, <1>7, <1>11, <1>12, <1>a DEF Current
<1>14. NoOther'
  <2> SUFFICES ASSUME lost' = {}, NEW i \in DOMAIN subscriptions', i # n
      PROVE  subscriptions'[i].stage = "gone" \/ subscriptions'[i].want_end
    BY <1>7 DEF NoOther
  <2>1. i \in DOMAIN subscriptions /\ i # 0 BY <1>2, <1>12
  <2>2. /\ subscriptions'[i].stage = subscriptions[i].stage
        /\ subscriptions'[i].want_end = subscriptions[i].want_end
    BY <1>1, <1>11, <2>1
  <2> QED BY <1>0, <2>1, <2>2 DEF NoOther
<1>15. SaidOf(posted, subscriptions)' /\ SaidOf(data, subscriptions)'
  <2>1. SaidOf(posted, subscriptions) BY DEF DeskInv
  <2>2. /\ DOMAIN subscriptions \subseteq DOMAIN subscriptions'
        /\ \A i \in DOMAIN subscriptions : subscriptions[i].stage = "gone" => subscriptions'[i].stage = "gone"
    BY <1>1, <1>11
  <2> QED BY <2>1, <2>2, SaidStays
<1> QED BY <1>8, <1>9, <1>10, <1>13, <1>14, <1>15 DEF DeskInv

\* The handler reads on, or is answered.
LEMMA DeskReads ==
  ASSUME DeskInv, UNCHANGED <<subscriptions, lost, posted>>, data' \in Seq(Items), SaidOf(data', subscriptions),
         desk' = desk \/ (desk.handler = "answer" /\ desk' = [desk EXCEPT !.handler = "subscribed"])
  PROVE  DeskInv'
<1>0. desk \in Desks /\ Commanded /\ Follows /\ Current BY DEF DeskInv, DeskTypeOK
<1>1. /\ desk' \in Desks /\ desk'.current = desk.current
      /\ desk'.handler = desk.handler \/ (desk.handler = "answer" /\ desk'.handler = "subscribed")
      /\ desk'.life = desk.life /\ desk'.active = desk.active /\ desk'.pc = desk.pc /\ desk'.cmd = desk.cmd
      /\ desk'.killed = desk.killed /\ desk'.commands = desk.commands /\ desk'.timer = desk.timer
      /\ desk'.refused = desk.refused
  BY <1>0 DEF Desks
<1>2. DeskTypeOK' BY <1>1 DEF DeskInv, DeskTypeOK
<1>3. Commanded' BY <1>0, <1>1 DEF Commanded
<1>4. Follows' BY <1>0, <1>1 DEF Follows
<1>5. Current' BY <1>0, <1>1 DEF Current
<1>6. NoOther' BY <1>1 DEF DeskInv, NoOther
<1>7. SaidOf(posted, subscriptions)' /\ SaidOf(data, subscriptions)' BY DEF DeskInv
<1> QED BY <1>2, <1>3, <1>4, <1>5, <1>6, <1>7 DEF DeskInv

\* The handler of the conference, as it waits and is stopped.
LEMMA ConferenceHandlerStep ==
  ASSUME DeskInv,
         \/ Conference!ConferenceRoutesReturn \/ Conference!ConferenceReadsAnswer \/ Conference!ConferenceReadsNotify
         \/ Conference!ConferenceInterrupted \/ Conference!ConferenceTerminated \/ Conference!ConferenceReadsEnding
  PROVE  DeskInv'
<1> USE DEF Conference!OfTheHandler
<1>0. /\ desk \in Desks /\ desk.commands \in Seq({"subscribe", "unsubscribe", "terminate"})
      /\ Commanded /\ Follows /\ Current /\ DeskTypeOK /\ NoOther
      /\ data \in Seq(Items) /\ SaidOf(data, subscriptions) /\ subscriptions \in Seq(Subscriptions)
  BY DEF DeskInv, DeskTypeOK, Desks
<1>1. /\ Conference!Unobserved \in Seq(Subscriptions) /\ DOMAIN Conference!Unobserved = DOMAIN subscriptions
      /\ \A i \in DOMAIN subscriptions :
           /\ Conference!Unobserved[i].stage = subscriptions[i].stage
           /\ Conference!Unobserved[i].want_end = subscriptions[i].want_end
           /\ Conference!Unobserved[i].observed = FALSE
  BY <1>0, LetsGo
<1>2. data # <<>> =>
        /\ SaidOf(Tail(data), subscriptions) /\ Tail(data) \in Seq(Items) /\ Head(data) \in Items
        /\ Head(data).of \in DOMAIN subscriptions
        /\ Head(data).name \in {"DidFail", "DidEnd"} => subscriptions[Head(data).of].stage = "gone"
  BY <1>0, SaidOfFewer
\* the fields of a handler that ends
<1>3. ASSUME NEW d \in Desks
      PROVE  LET f == Conference!Finished(d) IN
             /\ f \in Desks /\ f.life = d.life /\ f.active = d.active /\ f.pc = d.pc /\ f.cmd = d.cmd
             /\ f.handler = "none" /\ f.killed = "no" /\ f.current = 0
             /\ f.commands = d.commands /\ f.timer = d.timer /\ f.refused = d.refused
  BY DEF Conference!Finished, Desks
<1>4. ASSUME desk' = [Conference!Finished(desk) EXCEPT !.timer = TRUE]
             \/ desk' = [Conference!Finished(desk) EXCEPT !.refused = TRUE] \/ desk' = Conference!Finished(desk)
      PROVE  /\ desk' \in Desks /\ desk'.life = desk.life /\ desk'.active = desk.active /\ desk'.pc = desk.pc
             /\ desk'.cmd = desk.cmd /\ desk'.handler = "none" /\ desk'.killed = "no" /\ desk'.current = 0
             /\ desk'.commands = desk.commands
             /\ desk' = [Conference!Finished(desk) EXCEPT !.timer = TRUE]
                \/ desk' = [Conference!Finished(desk) EXCEPT !.refused = TRUE] => desk'.timer \/ desk'.refused
  <2> DEFINE f == Conference!Finished(desk)
  <2>1. /\ f \in Desks /\ f.life = desk.life /\ f.active = desk.active /\ f.pc = desk.pc /\ f.cmd = desk.cmd
        /\ f.handler = "none" /\ f.killed = "no" /\ f.current = 0
        /\ f.commands = desk.commands /\ f.timer = desk.timer /\ f.refused = desk.refused
    BY <1>0, <1>3
  <2>2. desk' = [f EXCEPT !.timer = TRUE] \/ desk' = [f EXCEPT !.refused = TRUE] \/ desk' = f BY <1>4
  <2>3. desk' = [f EXCEPT !.timer = TRUE] \/ desk' = [f EXCEPT !.refused = TRUE] => desk'.timer \/ desk'.refused
    <3> HIDE DEF f
    <3> QED BY <2>1 DEF Desks
  <2>4. /\ desk' \in Desks /\ desk'.life = desk.life /\ desk'.active = desk.active /\ desk'.pc = desk.pc
        /\ desk'.cmd = desk.cmd /\ desk'.handler = "none" /\ desk'.killed = "no" /\ desk'.current = 0
        /\ desk'.commands = desk.commands
    <3> HIDE DEF f
    <3> QED BY <2>1, <2>2 DEF Desks
  <2> QED BY <2>3, <2>4
\* it gives up for now, or for good
<1>5. ASSUME desk.handler # "none", posted' = posted, data' \in Seq(Items), SaidOf(data', subscriptions),
             subscriptions' = Conference!Unobserved, lost' = {} => lost = {},
             desk' = [Conference!Finished(desk) EXCEPT !.timer = TRUE]
             \/ desk' = [Conference!Finished(desk) EXCEPT !.refused = TRUE],
             lost' = {} /\ desk.current # 0 => subscriptions[desk.current].stage = "gone"
      PROVE  DeskInv'
  <2>1. /\ desk' \in Desks /\ desk'.life = desk.life /\ desk'.active = desk.active /\ desk'.pc = desk.pc
        /\ desk'.cmd = desk.cmd /\ desk'.handler = "none" /\ desk'.killed = "no" /\ desk'.current = 0
        /\ desk'.commands = desk.commands /\ (desk'.timer \/ desk'.refused)
    BY <1>4, <1>5
  <2>2. \A i \in DOMAIN subscriptions : i # 0 BY <1>0
  <2>3. /\ subscriptions' \in Seq(Subscriptions) /\ DOMAIN subscriptions' = DOMAIN subscriptions
        /\ \A i \in DOMAIN subscriptions :
             /\ subscriptions'[i].stage = subscriptions[i].stage /\ ~subscriptions'[i].observed
             /\ subscriptions[i].want_end => subscriptions'[i].want_end
             /\ i = desk.current /\ lost' = {} => subscriptions[i].stage = "gone" \/ subscriptions'[i].want_end
    BY <1>1, <1>5, <2>2
  <2> QED BY <1>5, <2>1, <2>3, DeskFinishes
\* it goes on to the next route, or gives up
<1>6. ASSUME Conference!ConferenceNextRoute \/ Conference!ConferenceRetriesLater,
             desk.handler \in {"dns", "answer"}, posted' = posted, data' \in Seq(Items),
             SaidOf(data', subscriptions), lost' = {} => lost = {},
             lost' = {} /\ desk.current # 0 => subscriptions[desk.current].stage = "gone"
      PROVE  DeskInv'
  <2>1. CASE Conference!ConferenceRetriesLater
    BY <1>5, <1>6, <2>1 DEF Conference!ConferenceRetriesLater
  <2>2. CASE /\ desk' = [desk EXCEPT !.handler = "answer", !.current = Len(subscriptions) + 1]
             /\ subscriptions' = Append(Conference!Unobserved, [stage |-> "sent", want_end |-> FALSE, observed |-> TRUE])
    BY <1>6, <2>2, DeskTries
  <2> QED BY <1>6, <2>1, <2>2 DEF Conference!ConferenceNextRoute
<1>7. CASE Conference!ConferenceRoutesReturn
  <2>1. desk.handler = "dns" /\ desk.current = 0 BY <1>0, <1>7 DEF Conference!ConferenceRoutesReturn, Current
  <2> QED BY <1>0, <1>6, <1>7, <2>1 DEF Conference!ConferenceRoutesReturn
<1>8. CASE Conference!ConferenceReadsAnswer
  <2> DEFINE item == Head(data)
  <2>1. desk.handler = "answer" /\ data # <<>> /\ data' = Tail(data) /\ posted' = posted
    BY <1>8 DEF Conference!ConferenceReadsAnswer, Conference!Reads
  <2>2. data' \in Seq(Items) /\ SaidOf(data', subscriptions) BY <1>2, <2>1
  <2>3. CASE item.name = "DidStart" /\ Conference!Own(item)
    <3>1. desk' = [desk EXCEPT !.handler = "subscribed"] /\ UNCHANGED <<subscriptions, lost>>
      BY <1>8, <2>3 DEF Conference!ConferenceReadsAnswer
    <3> QED BY <2>1, <2>2, <3>1, DeskReads
  <2>4. CASE item.name = "DidFail"
    <3>1. /\ \/ Conference!ConferenceNextRoute
             \/ Conference!ConferenceRetriesLater
             \/ desk' = [Conference!Finished(desk) EXCEPT !.refused = TRUE] /\ subscriptions' = Conference!Unobserved
          /\ lost' = IF Conference!Own(item) THEN lost ELSE lost \cup {"mistaken"}
      BY <1>8, <2>4 DEF Conference!ConferenceReadsAnswer
    <3>2. subscriptions[item.of].stage = "gone" BY <1>2, <2>1, <2>4
    <3>3. lost' = {} => lost = {} /\ item.of = desk.current BY <3>1 DEF Conference!Own
    <3>4. lost' = {} /\ desk.current # 0 => subscriptions[desk.current].stage = "gone" BY <3>2, <3>3
    <3> QED BY <1>5, <1>6, <2>1, <2>2, <3>1, <3>3, <3>4
  <2>5. CASE ~(item.name = "DidStart" /\ Conference!Own(item)) /\ item.name # "DidFail"
    <3>1. UNCHANGED <<desk, subscriptions, lost>>
      BY <1>8, <2>5 DEF Conference!ConferenceReadsAnswer
    <3> QED BY <2>1, <2>2, <3>1, DeskReads
  <2> QED BY <2>3, <2>4, <2>5
<1>9. CASE Conference!ConferenceReadsNotify
  <2> DEFINE item == Head(data)
  <2>1. desk.handler = "subscribed" /\ data # <<>> /\ data' = Tail(data) /\ posted' = posted
    BY <1>9 DEF Conference!ConferenceReadsNotify, Conference!Reads
  <2>2. data' \in Seq(Items) /\ SaidOf(data', subscriptions) BY <1>2, <2>1
  <2>3. CASE item.name = "DidEnd" /\ Conference!Own(item)
    <3>1. desk' = Conference!Finished(desk) /\ subscriptions' = Conference!Unobserved /\ lost' # {}
      BY <1>9, <2>3 DEF Conference!ConferenceReadsNotify
    <3>2. /\ desk' \in Desks /\ desk'.life = desk.life /\ desk'.active = desk.active /\ desk'.pc = desk.pc
          /\ desk'.cmd = desk.cmd /\ desk'.handler = "none" /\ desk'.killed = "no" /\ desk'.current = 0
          /\ desk'.commands = desk.commands
      BY <1>4, <3>1
    <3> QED BY <1>1, <2>1, <2>2, <3>1, <3>2, DeskFinishes
  <2>4. CASE item.name = "DidFail"
    <3> DEFINE new == desk.commands \o <<"subscribe">>
               d == [desk EXCEPT !.commands = new]
    <3>1. /\ desk' = Conference!Finished(d) /\ subscriptions' = Conference!Unobserved
          /\ lost' = IF Conference!Own(item) THEN lost ELSE lost \cup {"mistaken"}
      BY <1>9, <2>4 DEF Conference!ConferenceReadsNotify, Conference!Wants
    <3>2. new \in Seq({"subscribe", "unsubscribe", "terminate"}) /\ new # <<>> BY <1>0, CommandsGo
    <3>3. /\ d \in Desks /\ d.life = desk.life /\ d.active = desk.active /\ d.pc = desk.pc
          /\ d.cmd = desk.cmd /\ d.commands = new
      <4> HIDE DEF new
      <4> QED BY <1>0, <3>2 DEF Desks
    <3> HIDE DEF d
    <3>4. /\ desk' \in Desks /\ desk'.life = desk.life /\ desk'.active = desk.active /\ desk'.pc = desk.pc
          /\ desk'.cmd = desk.cmd /\ desk'.handler = "none" /\ desk'.killed = "no" /\ desk'.current = 0
          /\ desk'.commands = new
      BY <1>3, <3>1, <3>3
    <3>5. subscriptions[item.of].stage = "gone" BY <1>2, <2>1, <2>4
    <3>6. lost' = {} => lost = {} /\ item.of = desk.current BY <3>1 DEF Conference!Own
    <3>7. lost' = {} => subscriptions[desk.current].stage = "gone" BY <3>5, <3>6
    <3> QED BY <1>1, <2>1, <2>2, <3>1, <3>2, <3>4, <3>6, <3>7, DeskFinishes
  <2>5. CASE ~(item.name = "DidEnd" /\ Conference!Own(item)) /\ item.name # "DidFail"
    <3>1. UNCHANGED <<desk, subscriptions, lost>>
      BY <1>9, <2>5 DEF Conference!ConferenceReadsNotify
    <3> QED BY <2>1, <2>2, <3>1, DeskReads
  <2> QED BY <2>3, <2>4, <2>5
<1>10. CASE Conference!ConferenceInterrupted
  <2> USE <1>10 DEF Conference!ConferenceInterrupted
  <2>1. /\ desk.killed = "interrupt" /\ desk' = Conference!Finished(desk) /\ posted' = posted /\ data' = data
        /\ lost' = lost
    OBVIOUS
  <2>2. /\ desk' \in Desks /\ desk'.life = desk.life /\ desk'.active = desk.active /\ desk'.pc = desk.pc
        /\ desk'.cmd = desk.cmd /\ desk'.handler = "none" /\ desk'.killed = "no" /\ desk'.current = 0
        /\ desk'.commands = desk.commands
    BY <1>4, <2>1
  <2>3. desk.handler # "none" /\ desk.pc = "kill" /\ desk.cmd = "subscribe" BY <1>0, <2>1 DEF Commanded
  <2>4. /\ subscriptions' \in Seq(Subscriptions) /\ DOMAIN subscriptions' = DOMAIN subscriptions
        /\ \A i \in DOMAIN subscriptions :
             /\ subscriptions'[i].stage = subscriptions[i].stage /\ ~subscriptions'[i].observed
             /\ subscriptions[i].want_end => subscriptions'[i].want_end
             /\ i = desk.current => subscriptions'[i].want_end
    <3>1. CASE desk.current = 0
      <4>1. subscriptions' = subscriptions /\ subscriptions = Conference!Unobserved
        BY <3>1 DEF Conference!Unobserved
      <4>2. \A i \in DOMAIN subscriptions : i # 0 BY <1>0
      <4> QED BY <1>1, <3>1, <4>1, <4>2
    <3>2. CASE desk.current # 0
      <4>1. desk.current \in DOMAIN subscriptions BY <1>0, <3>2 DEF Current
      <4> DEFINE held == Conference!Unobserved
      <4>2. subscriptions' = [held EXCEPT ![desk.current] = Conference!Leaves(@)] BY <3>2
      <4>3. held \in Seq(Subscriptions) /\ desk.current \in DOMAIN held BY <1>1, <4>1
      <4>4. /\ [held EXCEPT ![desk.current] = Conference!Leaves(@)] \in Seq(Subscriptions)
            /\ DOMAIN [held EXCEPT ![desk.current] = Conference!Leaves(@)] = DOMAIN held
            /\ \A i \in DOMAIN held :
                 /\ [held EXCEPT ![desk.current] = Conference!Leaves(@)][i].stage = held[i].stage
                 /\ [held EXCEPT ![desk.current] = Conference!Leaves(@)][i].observed = held[i].observed
                 /\ [held EXCEPT ![desk.current] = Conference!Leaves(@)][i].want_end
                      = (held[i].want_end \/ i = desk.current)
        BY <4>3, LeavesOne
      <4>5. /\ subscriptions' \in Seq(Subscriptions) /\ DOMAIN subscriptions' = DOMAIN held
            /\ \A i \in DOMAIN held :
                 /\ subscriptions'[i].stage = held[i].stage /\ subscriptions'[i].observed = held[i].observed
                 /\ subscriptions'[i].want_end = (held[i].want_end \/ i = desk.current)
        BY <4>2, <4>4, Zenon
      <4> QED BY <1>1, <4>5
    <3> QED BY <3>1, <3>2
  <2> QED BY <1>0, <2>1, <2>2, <2>3, <2>4, DeskFinishes
<1>11. CASE Conference!ConferenceTerminated
  <2> USE <1>11 DEF Conference!ConferenceTerminated
  <2>1. desk.killed = "terminate" /\ desk.handler # "ending" /\ posted' = posted /\ data' = data /\ lost' = lost
    OBVIOUS
  <2>2. desk.handler # "none" /\ desk.life = "over" /\ ~desk.active BY <1>0, <2>1 DEF Commanded
  <2>3. CASE desk.current = 0
    <3>1. desk' = Conference!Finished(desk) /\ subscriptions' = subscriptions /\ subscriptions = Conference!Unobserved
      BY <2>3 DEF Conference!Unobserved
    <3>2. /\ desk' \in Desks /\ desk'.life = desk.life /\ desk'.active = desk.active /\ desk'.pc = desk.pc
          /\ desk'.cmd = desk.cmd /\ desk'.handler = "none" /\ desk'.killed = "no" /\ desk'.current = 0
          /\ desk'.commands = desk.commands
      BY <1>4, <3>1
    <3>3. \A i \in DOMAIN subscriptions : i # 0 BY <1>0
    <3> QED BY <1>0, <1>1, <2>1, <2>2, <2>3, <3>1, <3>2, <3>3, DeskFinishes
  <2>4. CASE desk.current # 0
    <3>1. desk.current \in DOMAIN subscriptions BY <1>0, <2>4 DEF Current
    <3>2. desk' = [desk EXCEPT !.handler = "ending"] BY <2>4
    <3>3. /\ desk' \in Desks /\ desk'.current = desk.current /\ desk'.handler = "ending"
          /\ desk'.life = desk.life /\ desk'.active = desk.active /\ desk'.pc = desk.pc /\ desk'.cmd = desk.cmd
          /\ desk'.killed = "terminate" /\ desk'.commands = desk.commands /\ desk'.timer = desk.timer
      BY <1>0, <2>1, <3>2 DEF Desks
    <3>4. subscriptions' = [subscriptions EXCEPT ![desk.current] = Conference!Leaves(@)] BY <2>4
    <3>5. /\ [subscriptions EXCEPT ![desk.current] = Conference!Leaves(@)] \in Seq(Subscriptions)
          /\ DOMAIN [subscriptions EXCEPT ![desk.current] = Conference!Leaves(@)] = DOMAIN subscriptions
          /\ \A i \in DOMAIN subscriptions :
               /\ [subscriptions EXCEPT ![desk.current] = Conference!Leaves(@)][i].stage = subscriptions[i].stage
               /\ [subscriptions EXCEPT ![desk.current] = Conference!Leaves(@)][i].observed = subscriptions[i].observed
               /\ [subscriptions EXCEPT ![desk.current] = Conference!Leaves(@)][i].want_end
                    = (subscriptions[i].want_end \/ i = desk.current)
      BY <1>0, <3>1, LeavesOne
    <3>6. /\ subscriptions' \in Seq(Subscriptions) /\ DOMAIN subscriptions' = DOMAIN subscriptions
          /\ \A i \in DOMAIN subscriptions :
               /\ subscriptions'[i].stage = subscriptions[i].stage
               /\ subscriptions'[i].observed = subscriptions[i].observed
               /\ subscriptions'[i].want_end = (subscriptions[i].want_end \/ i = desk.current)
      BY <3>4, <3>5, Zenon
    <3>7. DeskTypeOK' BY <1>0, <2>1, <3>3, <3>6 DEF DeskInv, DeskTypeOK
    <3>8. Commanded' BY <1>0, <2>1, <2>2, <3>3 DEF Commanded
    <3>9. Follows' BY <2>2, <3>3 DEF Follows
    <3>10. Current'
      <4>1. desk.handler \notin {"none", "dns"} BY <1>0, <2>4 DEF Current
      <4>2. desk'.current \in DOMAIN subscriptions' \cup {0} BY <3>1, <3>3, <3>6
      <4>3. \A i \in DOMAIN subscriptions' : subscriptions'[i].observed <=> i = desk'.current
        BY <1>0, <3>3, <3>6 DEF Current
      <4>4. subscriptions'[desk'.current].want_end BY <3>1, <3>3, <3>6
      <4> QED BY <2>4, <3>3, <4>2, <4>3, <4>4 DEF Current
    <3>11. NoOther' BY <1>0, <2>1, <3>3, <3>6 DEF NoOther
    <3>12. SaidOf(posted, subscriptions)' /\ SaidOf(data, subscriptions)'
      BY <2>1, <3>6, SaidStays DEF DeskInv
    <3> QED BY <3>7, <3>8, <3>9, <3>10, <3>11, <3>12 DEF DeskInv
  <2> QED BY <2>3, <2>4
<1>12. CASE Conference!ConferenceReadsEnding
  <2> DEFINE item == Head(data)
  <2>1. desk.handler = "ending" /\ data # <<>> /\ data' = Tail(data) /\ posted' = posted /\ lost' = lost
    BY <1>12 DEF Conference!ConferenceReadsEnding, Conference!Reads
  <2>2. data' \in Seq(Items) /\ SaidOf(data', subscriptions) BY <1>2, <2>1
  <2>3. CASE item.name = "DidFail" \/ (item.name = "DidEnd" /\ Conference!Own(item))
    <3>1. desk' = Conference!Finished(desk) /\ subscriptions' = Conference!Unobserved
      BY <1>12, <2>3 DEF Conference!ConferenceReadsEnding
    <3>2. /\ desk' \in Desks /\ desk'.life = desk.life /\ desk'.active = desk.active /\ desk'.pc = desk.pc
          /\ desk'.cmd = desk.cmd /\ desk'.handler = "none" /\ desk'.killed = "no" /\ desk'.current = 0
          /\ desk'.commands = desk.commands
      BY <1>4, <3>1
    <3>3. ~desk.active /\ subscriptions[desk.current].want_end BY <1>0, <2>1 DEF Commanded, Current
    <3> QED BY <1>1, <2>1, <2>2, <3>1, <3>2, <3>3, DeskFinishes
  <2>4. CASE ~(item.name = "DidFail" \/ (item.name = "DidEnd" /\ Conference!Own(item)))
    <3>1. UNCHANGED <<desk, subscriptions>>
      BY <1>12, <2>4 DEF Conference!ConferenceReadsEnding
    <3> QED BY <2>1, <2>2, <3>1, DeskReads
  <2> QED BY <2>3, <2>4
<1> QED BY <1>7, <1>8, <1>9, <1>10, <1>11, <1>12

\* What the engine's subscriptions do, each its own.
LEMMA ConferenceEngineStep ==
  ASSUME DeskInv, NEW i \in DOMAIN subscriptions, Conference!ConferenceEngine(i)
  PROVE  DeskInv'
<1> USE DEF Conference!OfTheEngine
<1>0. /\ DeskTypeOK /\ Commanded /\ Follows /\ Current /\ NoOther /\ posted \in Seq(Items) /\ data \in Seq(Items)
      /\ subscriptions \in Seq(Subscriptions) /\ subscriptions[i] \in Subscriptions /\ i \in Nat
      /\ SaidOf(posted, subscriptions) /\ SaidOf(data, subscriptions)
  BY DEF DeskInv, DeskTypeOK
<1>1. PICK r \in Subscriptions, name \in {"DidStart", "GotNotify", "DidFail", "DidEnd"} :
        /\ subscriptions' = [subscriptions EXCEPT ![i] = r]
        /\ r.observed = subscriptions[i].observed /\ (subscriptions[i].want_end => r.want_end)
        /\ subscriptions[i].stage # "gone"
        /\ name \in {"DidFail", "DidEnd"} => r.stage = "gone"
        /\ Conference!Raise(i, name)
        /\ UNCHANGED <<desk, data>> /\ (lost' = {} => lost = {})
  <2>1. CASE Conference!ConferenceAccepted(i)
    <3>1. PICK brief \in {subscriptions[i].want_end, TRUE} :
            subscriptions' = [subscriptions EXCEPT ![i] = [@ EXCEPT !.stage = "active", !.want_end = brief]]
      BY <2>1 DEF Conference!ConferenceAccepted
    <3> DEFINE r == [subscriptions[i] EXCEPT !.stage = "active", !.want_end = brief]
    <3>2. subscriptions' = [subscriptions EXCEPT ![i] = r] BY <3>1
    <3>3. brief \in BOOLEAN /\ (subscriptions[i].want_end => brief) BY <1>0 DEF Subscriptions
    <3>6. /\ r \in Subscriptions /\ r.observed = subscriptions[i].observed
          /\ (subscriptions[i].want_end => r.want_end)
      BY <1>0, <3>3 DEF Subscriptions
    <3> HIDE DEF r
    <3>7. /\ Conference!Raise(i, "DidStart") /\ UNCHANGED <<desk, data>> /\ lost' = lost /\ subscriptions[i].stage # "gone"
      BY <2>1 DEF Conference!ConferenceAccepted
    <3> QED BY <3>2, <3>6, <3>7
  <2>2. CASE Conference!ConferenceNotifiedEarly(i)
    <3> DEFINE r == [subscriptions[i] EXCEPT !.stage = "active"]
    <3>1. subscriptions' = [subscriptions EXCEPT ![i] = r] BY <2>2 DEF Conference!ConferenceNotifiedEarly
    <3>2. r \in Subscriptions /\ r.observed = subscriptions[i].observed /\ r.want_end = subscriptions[i].want_end
      BY <1>0 DEF Subscriptions
    <3> HIDE DEF r
    <3>3. /\ Conference!Raise(i, "GotNotify") /\ UNCHANGED <<desk, data>> /\ lost' # {} /\ subscriptions[i].stage # "gone"
      BY <2>2 DEF Conference!ConferenceNotifiedEarly
    <3> QED BY <3>1, <3>2, <3>3
  <2>3. CASE Conference!ConferenceSubscriptionGone(i)
    <3> DEFINE r == [subscriptions[i] EXCEPT !.stage = "gone"]
    <3>1. subscriptions' = [subscriptions EXCEPT ![i] = r] BY <2>3 DEF Conference!ConferenceSubscriptionGone
    <3>2. /\ r \in Subscriptions /\ r.observed = subscriptions[i].observed /\ r.want_end = subscriptions[i].want_end
          /\ r.stage = "gone"
      BY <1>0 DEF Subscriptions
    <3> HIDE DEF r
    <3>3. /\ \/ Conference!Raise(i, "DidEnd") \/ Conference!Raise(i, "DidFail")
          /\ UNCHANGED <<desk, data>> /\ lost' = lost /\ subscriptions[i].stage # "gone"
      BY <2>3 DEF Conference!ConferenceSubscriptionGone
    <3> QED BY <3>1, <3>2, <3>3
  <2> QED BY <2>1, <2>2, <2>3 DEF Conference!ConferenceEngine
<1>2. subscriptions' \in Seq(Subscriptions) /\ DOMAIN subscriptions' = DOMAIN subscriptions /\ subscriptions'[i] = r
  BY <1>0, <1>1
<1>3. \A j \in DOMAIN subscriptions : j # i => subscriptions'[j] = subscriptions[j] BY <1>0, <1>1
<1>4. SaidOf(posted, subscriptions') /\ SaidOf(data, subscriptions')
  <2>1. \A j \in DOMAIN subscriptions : subscriptions[j].stage = "gone" => subscriptions'[j].stage = "gone"
    BY <1>1, <1>3
  <2> QED BY <1>0, <1>2, <2>1, SaidStays
<1>5. posted' \in Seq(Items) /\ SaidOf(posted', subscriptions')
  <2> DEFINE e == [name |-> name, of |-> i]
  <2>1. e \in Items /\ e.of = i /\ e.name = name BY <1>0 DEF Items
  <2>2. posted' = posted \/ posted' = Append(posted, e) BY <1>1 DEF Conference!Raise
  <2> HIDE DEF e
  <2>3. SaidOf(Append(posted, e), subscriptions') /\ Append(posted, e) \in Seq(Items)
    BY <1>0, <1>1, <1>2, <1>4, <2>1, SaidOfMore
  <2> QED BY <1>0, <1>4, <2>2, <2>3
<1>6. DeskTypeOK' BY <1>0, <1>1, <1>2, <1>5 DEF DeskTypeOK
<1>7. Commanded' BY <1>0, <1>1 DEF Commanded
<1>8. Follows' BY <1>0, <1>1 DEF Follows
<1>9. Current'
  <2>1. /\ desk.current \in DOMAIN subscriptions \cup {0}
        /\ desk.current = 0 <=> desk.handler \in {"none", "dns"}
    BY <1>0 DEF Current
  <2>2. \A j \in DOMAIN subscriptions : subscriptions'[j].observed <=> j = desk.current
    BY <1>0, <1>1, <1>2, <1>3 DEF Current
  <2>3. desk.handler = "ending" => subscriptions'[desk.current].want_end BY <1>0, <1>1, <1>2, <1>3 DEF Current
  <2> QED BY <1>1, <1>2, <2>1, <2>2, <2>3 DEF Current
<1>10. NoOther'
  <2> SUFFICES ASSUME lost' = {}, NEW j \in DOMAIN subscriptions, j # desk.current
      PROVE  subscriptions'[j].stage = "gone" \/ subscriptions'[j].want_end
    BY <1>1, <1>2 DEF NoOther
  <2>1. subscriptions[j].stage = "gone" \/ subscriptions[j].want_end BY <1>0, <1>1 DEF NoOther
  <2> QED BY <1>1, <1>2, <1>3, <2>1
<1> QED BY <1>1, <1>4, <1>5, <1>6, <1>7, <1>8, <1>9, <1>10 DEF DeskInv

LEMMA ConferenceStep == DeskInv /\ [Conference!ConferenceNext]_deskVars => DeskInv'
<1> SUFFICES ASSUME DeskInv, [Conference!ConferenceNext]_deskVars PROVE DeskInv' OBVIOUS
<1>1. CASE UNCHANGED deskVars
  BY <1>1 DEF deskVars, DeskInv, DeskTypeOK, Commanded, Follows, Current, NoOther
<1>2. CASE Conference!ConferenceHandles
  <2> USE <1>2 DEF Conference!ConferenceHandles
  <2>1. /\ posted \in Seq(Items) /\ SaidOf(posted, subscriptions) /\ posted # <<>>
        /\ data \in Seq(Items) /\ SaidOf(data, subscriptions)
    BY DEF DeskInv, DeskTypeOK
  <2>2. /\ SaidOf(Tail(posted), subscriptions) /\ Tail(posted) \in Seq(Items) /\ Head(posted) \in Items
        /\ Head(posted).of \in DOMAIN subscriptions
        /\ Head(posted).name \in {"DidFail", "DidEnd"} => subscriptions[Head(posted).of].stage = "gone"
    BY <2>1, SaidOfFewer
  <2>3. SaidOf(Append(data, Head(posted)), subscriptions) /\ Append(data, Head(posted)) \in Seq(Items)
    BY <2>1, <2>2, SaidOfMore
  <2> QED BY <2>2, <2>3 DEF DeskInv, DeskTypeOK, Commanded, Follows, Current, NoOther
<1>3. CASE \E i \in DOMAIN subscriptions : Conference!ConferenceEngine(i) BY <1>3, ConferenceEngineStep
<1> QED BY <1>1, <1>2, <1>3, ConferenceSessionStep, ConferenceRunStep, ConferenceHandlerStep
        DEF Conference!ConferenceNext, Conference!ConferenceRuns

\* When everything has settled a session with a focus follows the conference, or will try again unless it
\* was refused, and no subscription but the current one is left to the server (_subscription_handler).
THEOREM ConferenceAlwaysAsWanted == MCSpec => []ConferenceAsWanted
<1> DEFINE Inv == kind = "conference" => DeskInv
<1>1. MCInit => Inv
  <2> SUFFICES ASSUME MCInit, kind = "conference" PROVE DeskInv OBVIOUS
  <2>1. Conference!ConferenceInit BY DEF MCInit, StreamInit
  <2>2. subscriptions = <<>> /\ posted = <<>> /\ data = <<>> /\ DOMAIN subscriptions = {} /\ DOMAIN posted = {}
        /\ DOMAIN data = {}
    BY <2>1 DEF Conference!ConferenceInit
  <2>3. PICK focus \in BOOLEAN :
       desk = [remote_focus |-> focus, life |-> "new", active |-> FALSE, commands |-> <<>>, pc |-> "idle",
               cmd |-> "none", timer |-> FALSE, handler |-> "none", killed |-> "no", current |-> 0, refused |-> FALSE]
    BY <2>1 DEF Conference!ConferenceInit
  <2>4. desk \in Desks BY <2>3 DEF Desks
  <2>5. DOMAIN desk.commands = {} BY <2>3
  <2>6. DeskTypeOK BY <2>2, <2>4 DEF DeskTypeOK
  <2>7. Commanded BY <2>3, <2>5 DEF Commanded, OnlySubscribes, WillTerminate
  <2>8. Follows BY <2>3 DEF Follows
  <2>9. Current BY <2>2, <2>3 DEF Current
  <2>10. NoOther BY <2>2 DEF NoOther
  <2>11. SaidOf(posted, subscriptions) /\ SaidOf(data, subscriptions) BY <2>2 DEF SaidOf
  <2> QED BY <2>6, <2>7, <2>8, <2>9, <2>10, <2>11 DEF DeskInv
<1>2. Inv /\ [MCNext]_vars => Inv'
  <2> SUFFICES ASSUME Inv, [MCNext]_vars, kind' = "conference" PROVE DeskInv' OBVIOUS
  <2>1. kind = "conference" BY KindStays
  <2>2. [Conference!ConferenceNext]_deskVars
    BY <2>1 DEF MCNext, StreamNext, vars, otherVars, deskVars, OfReferral, OfMover, OfDNS, OfAudio
  <2> QED BY <2>1, <2>2, ConferenceStep
<1>3. Inv => ConferenceAsWanted
  <2> SUFFICES ASSUME DeskInv, Conference!ConferenceQuiet, lost = {}
      PROVE  /\ desk.active => desk.handler = "subscribed" \/ desk.timer \/ desk.refused
             /\ desk.handler = "subscribed" => desk.active /\ subscriptions[desk.current].observed
             /\ \A i \in DOMAIN subscriptions : Conference!Given(i) => i = desk.current
    BY DEF ConferenceAsWanted, Conference!ConferenceAsWanted
  <2>1. /\ desk.pc = "idle" /\ desk.commands = <<>> /\ desk.killed = "no" /\ desk.handler \in {"none", "subscribed"}
    BY DEF Conference!ConferenceQuiet
  <2>2. desk.active => desk.handler = "subscribed" \/ desk.timer \/ desk.refused
    BY <2>1 DEF DeskInv, Follows
  <2>3. desk.handler = "subscribed" => desk.active /\ subscriptions[desk.current].observed
    <3>1. desk.life # "over"
      <4>1. DOMAIN desk.commands = {} BY <2>1
      <4> QED BY <2>1, <4>1 DEF DeskInv, Commanded, WillTerminate
    <3> QED BY <2>1, <3>1 DEF DeskInv, Commanded, Current
  <2>4. \A i \in DOMAIN subscriptions : Conference!Given(i) => i = desk.current
    BY DEF DeskInv, NoOther, Conference!Given
  <2> QED BY <2>2, <2>3, <2>4
<1> QED BY <1>1, <1>2, <1>3, PTL DEF MCSpec

-----------------------------------------------------------------------------
(***************************************************************************)
(* The lookups of routes.                                                  *)
(***************************************************************************)
Means == Transports \cup {"udp", "tls", "service"}
Zones == [naptr : Seq(Means), srv : SUBSET Means, service : BOOLEAN, a : BOOLEAN]
Lookups ==
  [what : {"sip", "stun", "msrprelay", "xcap"}, form : {"address", "port", "transport", "plain"}, secure : BOOLEAN,
   transport : Means, supported : Seq(Means), zone : Zones,
   at : {"start", "naptr", "pointers", "eachsrv", "srv", "a", "service", "done"}, left : Seq(Means),
   routes : Seq([transport : Means, from : {"uri", "naptr", "srv", "a"}]), slow : BOOLEAN,
   result : {"none", "routes", "error"}]
\* a plain URI, and what may be used for it
Plain == lookup.form = "plain" /\ (lookup.secure => lookup.supported = <<"tls">>)
\* the routes so far, when the records of an order are asked for one by one: those wanted of the asked ones
Asked(left, order) == 1..(Len(order) - Len(left))
Gathered(left, routes, order, from, wanted) ==
  /\ Len(left) <= Len(order)
  /\ \A k \in 1..Len(left) : left[k] = order[Len(order) - Len(left) + k]
  /\ \A i \in DOMAIN routes : routes[i].from = from /\ routes[i].transport \in wanted
  /\ \A i \in DOMAIN routes : \E m \in Asked(left, order) : order[m] = routes[i].transport
  /\ \A i, j \in DOMAIN routes :
       i < j => \E m, n \in Asked(left, order) :
         m < n /\ order[m] = routes[i].transport /\ order[n] = routes[j].transport
Complete(left, routes, order, wanted) ==
  \A m \in Asked(left, order) : order[m] \in wanted => \E i \in DOMAIN routes : routes[i].transport = order[m]
SupportedSRV == {t \in lookup.zone.srv : \E k \in DOMAIN lookup.supported : lookup.supported[k] = t}
NonePublished(records) == \A r \in records : Routes!Published[r] = {}
Sought ==
  /\ lookup.at # "service"
  /\ lookup.at \in {"start", "naptr", "srv", "a"} => lookup.routes = <<>>
  /\ lookup.at \in {"start", "naptr", "pointers", "srv"} => ~lookup.slow
  /\ lookup.at \in {"naptr", "pointers", "eachsrv"} => Plain
  /\ lookup.at = "pointers" =>
       /\ Gathered(lookup.left, lookup.routes, lookup.zone.naptr, "naptr", SupportedSRV)
       /\ Complete(lookup.left, lookup.routes, lookup.zone.naptr, SupportedSRV)
  /\ lookup.at = "eachsrv" =>
       /\ Gathered(lookup.left, lookup.routes, lookup.supported, "srv", lookup.zone.srv)
       /\ ~lookup.slow => Complete(lookup.left, lookup.routes, lookup.supported, lookup.zone.srv) /\ NonePublished({"uri", "naptr"})
  /\ lookup.at = "srv" =>
       lookup.form = "transport" /\ lookup.left = <<lookup.transport>> /\ lookup.transport \in Routes!Allowed
  /\ lookup.at = "a" =>
       /\ lookup.left # <<>>
       /\ Routes!Published["a"] = IF lookup.zone.a THEN {Head(lookup.left)} ELSE {}
       /\ ~lookup.slow => NonePublished({"uri", "naptr", "srv"})
  /\ lookup.at = "done" => Routes!RoutesAsPublished
LookupInv == "what" \in DOMAIN lookup /\ (lookup.what = "sip" => lookup \in Lookups /\ Sought)

\* What is published, and what may be used, does not change under a lookup.
SameQuestion ==
  /\ lookup'.what = lookup.what /\ lookup'.form = lookup.form /\ lookup'.secure = lookup.secure
  /\ lookup'.transport = lookup.transport /\ lookup'.supported = lookup.supported /\ lookup'.zone = lookup.zone
LEMMA PublishedStays ==
  ASSUME SameQuestion
  PROVE  /\ Routes!Published' = Routes!Published
         /\ Routes!Allowed' = Routes!Allowed
         /\ Plain' = Plain /\ SupportedSRV' = SupportedSRV
BY DEF SameQuestion, Routes!Published, Routes!Allowed, Routes!Range, Plain, SupportedSRV

\* A lookup that ends well.
Good(rs, from) ==
  /\ rs \in Seq([transport : Means, from : {"uri", "naptr", "srv", "a"}]) /\ rs # <<>>
  /\ from \in {"uri", "naptr", "srv", "a"}
  /\ \A i \in DOMAIN rs : rs[i].from = from /\ rs[i].transport \in Routes!Published[from]
  /\ \A i, j \in DOMAIN rs :
       i < j => LET order == IF from = "naptr" THEN lookup.zone.naptr ELSE lookup.supported IN
                \E m, n \in DOMAIN order : m < n /\ order[m] = rs[i].transport /\ order[n] = rs[j].transport
  /\ ~lookup.slow =>
       /\ \A t \in Routes!Published[from] : \E i \in DOMAIN rs : rs[i].transport = t
       /\ NonePublished(Routes!Better[from])
LEMMA LookupReturns ==
  ASSUME lookup \in Lookups, lookup.what = "sip", NEW rs, NEW from, Routes!Returns(rs), Good(rs, from)
  PROVE  LookupInv'
<1> USE DEF Good
<1>1. /\ lookup' \in Lookups /\ lookup'.at = "done" /\ lookup'.routes = rs /\ lookup'.result = "routes"
      /\ lookup'.slow = lookup.slow
  BY DEF Routes!Returns, Lookups
<1>2. SameQuestion BY DEF Routes!Returns, Lookups, SameQuestion
<1>3. Routes!Published' = Routes!Published BY <1>2, PublishedStays
<1>4. 1 \in DOMAIN rs
  <2>1. Len(rs) \in Nat /\ DOMAIN rs = 1..Len(rs) /\ Len(rs) # 0 BY EmptySeq
  <2> QED BY <2>1
<1>5. \A i, j \in DOMAIN lookup'.routes :
        /\ lookup'.routes[i].from = lookup'.routes[j].from
        /\ lookup'.routes[i].transport \in Routes!Published'[lookup'.routes[i].from]
        /\ i < j => LET order == IF lookup'.routes[i].from = "naptr" THEN lookup'.zone.naptr ELSE lookup'.supported IN
             \E m, n \in DOMAIN order : m < n /\ order[m] = lookup'.routes[i].transport /\ order[n] = lookup'.routes[j].transport
  BY <1>1, <1>2, <1>3 DEF SameQuestion
<1>6. ASSUME ~lookup'.slow
      PROVE  /\ {lookup'.routes[i].transport : i \in DOMAIN lookup'.routes} = Routes!Published'[lookup'.routes[1].from]
             /\ \A r \in Routes!Better[lookup'.routes[1].from] : Routes!Published'[r] = {}
  <2>1. lookup'.routes[1].from = from BY <1>1, <1>4
  <2>2. {rs[i].transport : i \in DOMAIN rs} = Routes!Published[from] BY <1>1, <1>6
  <2>3. NonePublished(Routes!Better[from]) BY <1>1, <1>6
  <2> QED BY <1>1, <1>3, <2>1, <2>2, <2>3 DEF NonePublished
<1>7. Routes!RoutesAsPublished'
  BY <1>1, <1>5, <1>6 DEF Routes!RoutesAsPublished
<1>8. Sought' BY <1>1, <1>7 DEF Sought
<1> QED BY <1>1, <1>8 DEF LookupInv, Lookups

\* A lookup that ends with the only route there is.
LEMMA LookupReturnsOne ==
  ASSUME lookup \in Lookups, lookup.what = "sip", NEW t \in Means, NEW from \in {"uri", "naptr", "srv", "a"},
         Routes!Returns(<<Routes!Route(t, from)>>), t \in Routes!Published[from],
         ~lookup.slow => (\A u \in Routes!Published[from] : u = t) /\ NonePublished(Routes!Better[from])
  PROVE  LookupInv'
<1> DEFINE r == Routes!Route(t, from)
           rs == <<r>>
<1>1. r \in [transport : Means, from : {"uri", "naptr", "srv", "a"}] /\ r.transport = t /\ r.from = from BY DEF Routes!Route
<1> HIDE DEF r
<1>2. /\ rs # <<>> /\ DOMAIN rs = {1} /\ rs[1] = r
      /\ rs \in Seq([transport : Means, from : {"uri", "naptr", "srv", "a"}])
  BY <1>1
<1>3. Routes!Returns(rs) BY DEF r
<1> HIDE DEF rs
<1>4. \A i \in DOMAIN rs : rs[i].from = from /\ rs[i].transport \in Routes!Published[from] BY <1>1, <1>2
<1>5. \A i, j \in DOMAIN rs : ~(i < j) BY <1>2
<1>6. ~lookup.slow => /\ \A u \in Routes!Published[from] : \E i \in DOMAIN rs : rs[i].transport = u
                      /\ NonePublished(Routes!Better[from])
  BY <1>1, <1>2
<1>7. \A i, j \in DOMAIN rs :
        i < j => LET order == IF from = "naptr" THEN lookup.zone.naptr ELSE lookup.supported IN
                 \E m, n \in DOMAIN order : m < n /\ order[m] = rs[i].transport /\ order[n] = rs[j].transport
  BY <1>5
<1>8. rs # <<>> /\ rs \in Seq([transport : Means, from : {"uri", "naptr", "srv", "a"}]) BY <1>2
<1>9. Good(rs, from) BY <1>4, <1>6, <1>7, <1>8 DEF Good
<1> QED BY <1>3, <1>9, LookupReturns

\* A lookup that finds nothing.
LEMMA LookupFails ==
  ASSUME lookup \in Lookups, lookup.what = "sip", lookup.routes = <<>>,
         \/ Routes!Fails /\ (~lookup.slow => NonePublished({"uri", "naptr", "srv", "a"}))
         \/ lookup' = [lookup EXCEPT !.at = "done", !.slow = TRUE, !.result = "error"]
  PROVE  LookupInv'
<1>1. /\ lookup' \in Lookups /\ lookup'.at = "done" /\ lookup'.routes = <<>> /\ lookup'.result = "error"
      /\ ~lookup'.slow => NonePublished({"uri", "naptr", "srv", "a"})
  BY DEF Routes!Fails, Lookups
<1>2. SameQuestion BY DEF Routes!Fails, Lookups, SameQuestion
<1>3. Routes!Published' = Routes!Published BY <1>2, PublishedStays
<1>5. Routes!RoutesAsPublished'
  <2>1. ~lookup'.slow => \A r \in Routes!Records : Routes!Published'[r] = {}
    BY <1>1, <1>3 DEF NonePublished, Routes!Records
  <2>2. DOMAIN lookup'.routes = {} BY <1>1
  <2> QED BY <1>1, <2>1, <2>2 DEF Routes!RoutesAsPublished
<1> QED BY <1>1, <1>5 DEF Sought, LookupInv, Lookups

LEMMA PublishedIs ==
  /\ \A t : t \in Routes!Allowed <=> Routes!IsSupported(t) /\ (lookup.secure => t = "tls")
  /\ \A t : t \in Routes!Published["naptr"] <=>
       t \in Routes!Range(lookup.zone.naptr) /\ t \in lookup.zone.srv /\ t \in Routes!Allowed /\ lookup.form = "plain"
  /\ \A t : t \in Routes!Published["srv"] <=>
       /\ t \in lookup.zone.srv /\ t \in Routes!Allowed
       /\ lookup.form = "plain" \/ (lookup.form = "transport" /\ t = lookup.transport)
  /\ \A t : t \in Routes!Published["a"] <=>
       /\ t \in Routes!Allowed /\ lookup.zone.a /\ lookup.form # "address"
       /\ \/ lookup.secure /\ lookup.form # "transport"
          \/ t = (IF lookup.form = "plain" THEN "udp" ELSE lookup.transport)
  /\ \A t : t \in Routes!Published["uri"] <=>
       t \in Routes!Allowed /\ lookup.form = "address" /\ (lookup.secure \/ t = lookup.transport)
  /\ Routes!Better["uri"] = {} /\ Routes!Better["naptr"] = {} /\ Routes!Better["srv"] = {"uri", "naptr"}
  /\ Routes!Better["a"] = {"uri", "naptr", "srv"}
<1>1. \A t : t \in Routes!Allowed <=> Routes!IsSupported(t) /\ (lookup.secure => t = "tls")
  BY DEF Routes!Allowed, Routes!IsSupported
<1>2. \A t : t \in Routes!Published["naptr"] <=>
       t \in Routes!Range(lookup.zone.naptr) /\ t \in lookup.zone.srv /\ t \in Routes!Allowed /\ lookup.form = "plain"
  BY DEF Routes!Published, Routes!Records
<1>3. \A t : t \in Routes!Published["srv"] <=>
       /\ t \in lookup.zone.srv /\ t \in Routes!Allowed
       /\ lookup.form = "plain" \/ (lookup.form = "transport" /\ t = lookup.transport)
  BY DEF Routes!Published, Routes!Records
<1>4. \A t : t \in Routes!Published["a"] <=>
       /\ t \in Routes!Allowed /\ lookup.zone.a /\ lookup.form # "address"
       /\ \/ lookup.secure /\ lookup.form # "transport"
          \/ t = (IF lookup.form = "plain" THEN "udp" ELSE lookup.transport)
  BY DEF Routes!Published, Routes!Records
<1>5. \A t : t \in Routes!Published["uri"] <=>
       t \in Routes!Allowed /\ lookup.form = "address" /\ (lookup.secure \/ t = lookup.transport)
  BY DEF Routes!Published, Routes!Records
<1>6. /\ Routes!Better["uri"] = {} /\ Routes!Better["naptr"] = {} /\ Routes!Better["srv"] = {"uri", "naptr"}
      /\ Routes!Better["a"] = {"uri", "naptr", "srv"}
  BY DEF Routes!Better, Routes!Records
<1> QED BY <1>1, <1>2, <1>3, <1>4, <1>5, <1>6

\* A lookup of a plain URI keeps what it needs, as it starts.
LEMMA LookupStarts ==
  ASSUME lookup \in Lookups, lookup.what = "sip", Sought,
         \/ Routes!StartsAtAddress \/ Routes!StartsAtPort \/ Routes!StartsAtTransport \/ Routes!StartsPlain
  PROVE  LookupInv'
<1> USE DEF Routes!Starts
<1>1. lookup.at = "start" /\ lookup.routes = <<>> /\ ~lookup.slow
  BY DEF Routes!StartsAtAddress, Routes!StartsAtPort, Routes!StartsAtTransport, Routes!StartsPlain, Sought
<1>2. \A t : Routes!IsSupported(t) => t \in Means
  BY DEF Routes!IsSupported, Routes!Range, Lookups
<1>3. ASSUME Routes!Fails, NonePublished({"uri", "naptr", "srv", "a"}) PROVE LookupInv'
  BY <1>1, <1>3, LookupFails
<1> DEFINE d == Routes!Dictated
<1>4. CASE Routes!StartsAtAddress
  <2> USE <1>4 DEF Routes!StartsAtAddress
  <2>1. CASE Routes!IsSupported(d)
    <3>1. Routes!Returns(<<Routes!Route(d, "uri")>>) BY <2>1
    <3>2. d \in Means BY <1>2, <2>1
    <3>3. d \in Routes!Published["uri"] /\ (\A t \in Routes!Published["uri"] : t = d)
      BY <2>1, PublishedIs DEF Routes!Dictated
    <3> HIDE DEF d
    <3>4. NonePublished(Routes!Better["uri"]) BY PublishedIs DEF NonePublished
    <3> QED BY <3>1, <3>2, <3>3, <3>4, LookupReturnsOne
  <2>2. CASE ~Routes!IsSupported(d)
    <3>1. Routes!Fails BY <2>2
    <3>2. NonePublished({"uri", "naptr", "srv", "a"})
      BY <2>2, PublishedIs DEF Routes!Dictated, NonePublished
    <3> QED BY <1>3, <3>1, <3>2
  <2> QED BY <2>1, <2>2
<1>5. CASE Routes!StartsAtPort
  <2> USE <1>5 DEF Routes!StartsAtPort
  <2>1. CASE Routes!IsSupported(d)
    <3>1. lookup' = [lookup EXCEPT !.at = "a", !.left = <<d>>] BY <2>1
    <3>2. d \in Means BY <1>2, <2>1
    <3>3. Routes!Published["a"] = IF lookup.zone.a THEN {d} ELSE {}
      BY <2>1, PublishedIs DEF Routes!Dictated
    <3>4. NonePublished({"uri", "naptr", "srv"})
      BY PublishedIs DEF NonePublished
    <3> HIDE DEF d
    <3>5. <<d>> \in Seq(Means) /\ Head(<<d>>) = d /\ <<d>> # <<>> BY <3>2
    <3> DEFINE one == <<d>>
    <3>6. lookup' = [lookup EXCEPT !.at = "a", !.left = one] BY <3>1
    <3>7. one \in Seq(Means) /\ Head(one) = d /\ one # <<>> BY <3>5
    <3> HIDE DEF one
    <3>8. lookup' \in Lookups /\ lookup'.at = "a" /\ lookup'.left = one /\ lookup'.routes = <<>> /\ SameQuestion
      BY <1>1, <3>6, <3>7 DEF Lookups, SameQuestion
    <3>9. Routes!Published' = Routes!Published BY <3>8, PublishedStays
    <3>10. Sought' BY <3>3, <3>4, <3>7, <3>8, <3>9 DEF Sought, SameQuestion, NonePublished
    <3> QED BY <3>8, <3>10 DEF LookupInv, Lookups
  <2>2. CASE ~Routes!IsSupported(d)
    <3>1. Routes!Fails BY <2>2
    <3>2. NonePublished({"uri", "naptr", "srv", "a"})
      BY <2>2, PublishedIs DEF Routes!Dictated, NonePublished
    <3> QED BY <1>3, <3>1, <3>2
  <2> QED BY <2>1, <2>2
<1>6. CASE Routes!StartsAtTransport
  <2> USE <1>6 DEF Routes!StartsAtTransport
  <2> DEFINE t == lookup.transport
  <2>1. CASE Routes!IsSupported(t) /\ (lookup.secure => t = "tls")
    <3>1. lookup' = [lookup EXCEPT !.at = "srv", !.left = <<t>>] BY <2>1
    <3> DEFINE one == <<t>>
    <3>2. one \in Seq(Means) BY DEF Lookups
    <3>3. lookup' = [lookup EXCEPT !.at = "srv", !.left = one] BY <3>1
    <3>4. t \in Routes!Allowed BY <2>1, PublishedIs
    <3> HIDE DEF one
    <3>5. lookup' \in Lookups /\ lookup'.at = "srv" /\ lookup'.left = one /\ lookup'.routes = <<>> /\ ~lookup'.slow /\ SameQuestion
      BY <1>1, <3>2, <3>3 DEF Lookups, SameQuestion
    <3>6. Routes!Allowed' = Routes!Allowed BY <3>5, PublishedStays
    <3>7. Sought' BY <3>4, <3>5, <3>6 DEF Sought, SameQuestion, one
    <3> QED BY <3>5, <3>7 DEF LookupInv, Lookups
  <2>2. CASE ~(Routes!IsSupported(t) /\ (lookup.secure => t = "tls"))
    <3>1. Routes!Fails BY <2>2
    <3>2. NonePublished({"uri", "naptr", "srv", "a"})
      BY <2>2, PublishedIs DEF NonePublished
    <3> QED BY <1>3, <3>1, <3>2
  <2> QED BY <2>1, <2>2
<1>7. CASE Routes!StartsPlain
  <2> USE <1>7 DEF Routes!StartsPlain
  <2>1. CASE lookup.supported = <<>> \/ (lookup.secure /\ ~Routes!IsSupported("tls"))
    <3>1. Routes!Fails BY <2>1
    <3>2. NonePublished({"uri", "naptr", "srv", "a"})
      BY <2>1, PublishedIs DEF NonePublished, Routes!IsSupported, Routes!Range
    <3> QED BY <1>3, <3>1, <3>2
  <2>2. CASE ~(lookup.supported = <<>> \/ (lookup.secure /\ ~Routes!IsSupported("tls")))
    <3> DEFINE usable == IF lookup.secure THEN <<"tls">> ELSE lookup.supported
    <3>1. lookup' = [lookup EXCEPT !.at = "naptr", !.supported = usable] BY <2>2
    <3>2. usable \in Seq(Means) /\ (lookup.secure => usable = <<"tls">>)
      <4>1. "tls" \in Means BY DEF Means
      <4>2. <<"tls">> \in Seq(Means) BY <4>1
      <4>3. lookup.supported \in Seq(Means) BY DEF Lookups
      <4> QED BY <4>2, <4>3
    <3> HIDE DEF usable
    <3>3. /\ lookup' \in Lookups /\ lookup'.at = "naptr" /\ lookup'.routes = <<>> /\ ~lookup'.slow
          /\ lookup'.form = "plain" /\ lookup'.secure = lookup.secure /\ lookup'.supported = usable
      BY <1>1, <3>1, <3>2 DEF Lookups
    <3>4. Plain' BY <3>2, <3>3 DEF Plain
    <3>5. Sought' BY <3>3, <3>4 DEF Sought
    <3> QED BY <3>3, <3>5 DEF LookupInv, Lookups
  <2> QED BY <2>1, <2>2
<1> QED BY <1>4, <1>5, <1>6, <1>7

\* The next record of an order is asked for: what it gives comes after what the others gave.
Grown(q, p, e) ==
  DOMAIN q = 1..(Len(p) + 1) /\ q[Len(p) + 1] = e /\ \A i \in 1..Len(p) : q[i] = p[i]
LEMMA AppendGrows ==
  ASSUME NEW R, NEW p \in Seq(R), NEW e \in R
  PROVE  Grown(Append(p, e), p, e)
<1>1. Len(p) \in Nat /\ DOMAIN p = 1..Len(p) OBVIOUS
<1>2. Append(p, e) \in Seq(R) /\ Len(Append(p, e)) = Len(p) + 1 OBVIOUS
<1>3. DOMAIN Append(p, e) = 1..(Len(p) + 1) BY <1>2
<1>4. \A i \in 1..(Len(p) + 1) : Append(p, e)[i] = IF i = Len(p) + 1 THEN e ELSE p[i] BY <1>1
<1> QED BY <1>1, <1>3, <1>4 DEF Grown
LEMMA GathersOn ==
  ASSUME NEW order \in Seq(Means), NEW from \in {"uri", "naptr", "srv", "a"}, NEW wanted,
         NEW left \in Seq(Means), NEW p \in Seq([transport : Means, from : {"uri", "naptr", "srv", "a"}]),
         NEW left2, NEW q,
         Gathered(left, p, order, from, wanted), left # <<>>, left2 = Tail(left),
         \/ q = p
         \/ Head(left) \in wanted /\ Grown(q, p, [transport |-> Head(left), from |-> from])
  PROVE  /\ Gathered(left2, q, order, from, wanted)
         /\ Complete(left, p, order, wanted)
            /\ (Head(left) \in wanted => Grown(q, p, [transport |-> Head(left), from |-> from]))
            => Complete(left2, q, order, wanted)
<1> DEFINE L == Len(left)
           N == Len(order)
           h == Head(left)
           e == [transport |-> h, from |-> from]
           R == [transport : Means, from : {"uri", "naptr", "srv", "a"}]
<1>1. /\ p \in Seq(R) /\ N \in Nat /\ L \in Nat \ {0} /\ h = left[1] /\ h \in Means
      /\ Len(left2) = L - 1 /\ \A k \in 1..(L - 1) : left2[k] = left[k + 1]
  <2>2. L \in Nat /\ L # 0 /\ N \in Nat BY EmptySeq
  <2>3. h = left[1] /\ h \in Means /\ Tail(left) \in Seq(Means) /\ Len(Tail(left)) = L - 1
        /\ \A k \in 1..(L - 1) : Tail(left)[k] = left[k + 1]
    BY <2>2
  <2> QED BY <2>2, <2>3
<1>2. /\ L <= N /\ \A k \in 1..L : left[k] = order[N - L + k]
      /\ \A i \in DOMAIN p : p[i].from = from /\ p[i].transport \in wanted
      /\ \A i \in DOMAIN p : \E m \in 1..(N - L) : order[m] = p[i].transport
      /\ \A i, j \in DOMAIN p :
           i < j => \E m, n \in 1..(N - L) : m < n /\ order[m] = p[i].transport /\ order[n] = p[j].transport
  BY DEF Gathered, Asked
<1>b. 1 \in 1..L /\ N - L \in Nat /\ N - (L - 1) = N - L + 1 BY <1>1, <1>2
<1>c. \A k \in 1..L : left[k] = order[N - L + k] BY <1>2
<1>3. h = order[N - L + 1] /\ N - (L - 1) = N - L + 1 /\ N - L \in Nat
  <2>1. left[1] = order[N - L + 1] BY <1>b, <1>c
  <2> QED BY <1>1, <1>b, <2>1
<1>4. DOMAIN p = 1..Len(p) /\ Len(p) \in Nat BY <1>1
<1>5. e \in R /\ e.transport = h /\ e.from = from BY <1>1
<1>6. (q = p) \/ (Grown(q, p, e) /\ h \in wanted) OBVIOUS
<1>a. Complete(left, p, order, wanted) => \A m \in 1..(N - L) : order[m] \in wanted => \E i \in DOMAIN p : p[i].transport = order[m]
  BY DEF Complete, Asked
<1> HIDE DEF L, N, h, e, R
<1>7. Len(left2) <= N /\ \A k \in 1..Len(left2) : left2[k] = order[N - Len(left2) + k]
  <2> DEFINE M == Len(left2)
  <2>1. M = L - 1 /\ M <= N BY <1>1, <1>2
  <2> HIDE DEF M
  <2> SUFFICES ASSUME NEW k \in 1..M PROVE left2[k] = order[N - M + k]
    BY <2>1 DEF M
  <2>2. k + 1 \in 1..L /\ N - L + (k + 1) = N - M + k /\ k \in 1..(L - 1) BY <1>1, <1>3, <2>1
  <2>3. left[k + 1] = order[N - L + (k + 1)] BY <1>c, <2>2
  <2> QED BY <1>1, <2>2, <2>3
<1>8. Grown(q, p, e) => /\ DOMAIN q = 1..(Len(p) + 1) /\ q[Len(p) + 1] = e
                          /\ \A i \in 1..Len(p) : q[i] = p[i]
  BY DEF Grown
<1>9. /\ \A i \in DOMAIN q : q[i].from = from /\ q[i].transport \in wanted
      /\ \A i \in DOMAIN q : \E m \in 1..(N - L + 1) : order[m] = q[i].transport
  <2>1. \A i \in DOMAIN p : /\ p[i].from = from /\ p[i].transport \in wanted
                            /\ \E m \in 1..(N - L + 1) : order[m] = p[i].transport
    BY <1>2, <1>3
  <2>2. N - L + 1 \in 1..(N - L + 1) BY <1>3
  <2>3. CASE Grown(q, p, e) /\ h \in wanted
    <3>1. \A i \in DOMAIN q : (i \in DOMAIN p /\ q[i] = p[i]) \/ q[i] = e BY <1>4, <1>8, <2>3
    <3> QED BY <1>3, <1>5, <2>1, <2>2, <2>3, <3>1
  <2> QED BY <1>6, <2>1, <2>3
<1>10. \A i, j \in DOMAIN q :
         i < j => \E m, n \in 1..(N - L + 1) : m < n /\ order[m] = q[i].transport /\ order[n] = q[j].transport
  <2> SUFFICES ASSUME NEW i \in DOMAIN q, NEW j \in DOMAIN q, i < j
      PROVE  \E m, n \in 1..(N - L + 1) : m < n /\ order[m] = q[i].transport /\ order[n] = q[j].transport
    OBVIOUS
  <2>1. CASE i \in DOMAIN p /\ j \in DOMAIN p /\ q[i] = p[i] /\ q[j] = p[j]
    <3>1. PICK m, n \in 1..(N - L) : m < n /\ order[m] = p[i].transport /\ order[n] = p[j].transport BY <1>2, <2>1
    <3>2. m \in 1..(N - L + 1) /\ n \in 1..(N - L + 1) BY <1>3, <3>1
    <3> QED BY <2>1, <3>1, <3>2
  <2>2. CASE Grown(q, p, e) /\ j = Len(p) + 1
    <3>1. i \in DOMAIN p /\ q[i] = p[i] /\ q[j] = e BY <1>4, <1>8, <2>2
    <3>2. PICK m \in 1..(N - L) : order[m] = p[i].transport BY <1>2, <3>1
    <3>3. m \in 1..(N - L + 1) /\ N - L + 1 \in 1..(N - L + 1) /\ m < N - L + 1 BY <1>3, <3>2
    <3>4. order[N - L + 1] = q[j].transport /\ order[m] = q[i].transport BY <1>3, <1>5, <3>1, <3>2
    <3> QED BY <3>3, <3>4
  <2> QED BY <1>4, <1>6, <1>8, <2>1, <2>2
<1>11. ASSUME Complete(left, p, order, wanted), h \in wanted => Grown(q, p, e)
       PROVE  \A m \in 1..(N - L + 1) : order[m] \in wanted => \E i \in DOMAIN q : q[i].transport = order[m]
  <2> SUFFICES ASSUME NEW m \in 1..(N - L + 1), order[m] \in wanted PROVE \E i \in DOMAIN q : q[i].transport = order[m]
    OBVIOUS
  <2>1. CASE m = N - L + 1
    <3>1. order[m] = h /\ Grown(q, p, e) BY <1>3, <1>11, <2>1
    <3>2. Len(p) + 1 \in DOMAIN q /\ q[Len(p) + 1].transport = h BY <1>4, <1>5, <1>8, <3>1
    <3> QED BY <3>1, <3>2
  <2>2. CASE m \in 1..(N - L)
    <3>1. PICK i \in DOMAIN p : p[i].transport = order[m] BY <1>a, <1>11, <2>2
    <3>2. i \in DOMAIN q /\ q[i] = p[i] BY <1>4, <1>6, <1>8
    <3> QED BY <3>1, <3>2
  <2> QED BY <1>3, <2>1, <2>2
<1>12. N - Len(left2) = N - L + 1 BY <1>1, <1>3
<1>13. DOMAIN q = DOMAIN q /\ Asked(left2, order) = 1..(N - L + 1)
  BY <1>12 DEF Asked, N
<1>14. Gathered(left2, q, order, from, wanted)
  <2>1. \A i \in DOMAIN q : \E m \in Asked(left2, order) : order[m] = q[i].transport BY <1>9, <1>13
  <2>2. \A i, j \in DOMAIN q :
          i < j => \E m, n \in Asked(left2, order) : m < n /\ order[m] = q[i].transport /\ order[n] = q[j].transport
    <3> DEFINE S == 1..(N - L + 1)
    <3>1. \A i, j \in DOMAIN q : i < j => \E m, n \in S : m < n /\ order[m] = q[i].transport /\ order[n] = q[j].transport
      BY <1>10
    <3>2. Asked(left2, order) = S BY <1>13
    <3> HIDE DEF S
    <3> QED BY <3>1, <3>2
  <2> QED BY <1>7, <1>9, <2>1, <2>2 DEF Gathered, N
<1>15. Complete(left, p, order, wanted) /\ (h \in wanted => Grown(q, p, e)) => Complete(left2, q, order, wanted)
  BY <1>11, <1>13 DEF Complete
<1> QED BY <1>14, <1>15 DEF h, e

\* Whatever is looked up, the question stays.
LEMMA QuestionStays ==
  ASSUME "what" \in DOMAIN lookup, Routes!LookupNext
  PROVE  "what" \in DOMAIN lookup' /\ lookup'.what = lookup.what
<1> USE DEF Routes!Returns, Routes!Fails, Routes!Queries
<1>1. CASE Routes!StartsAtAddress \/ Routes!StartsAtPort \/ Routes!StartsAtTransport \/ Routes!StartsPlain
  BY <1>1 DEF Routes!StartsAtAddress, Routes!StartsAtPort, Routes!StartsAtTransport, Routes!StartsPlain
<1>2. CASE Routes!AsksNAPTR \/ Routes!AsksPointer \/ Routes!AfterPointers \/ Routes!NAPTRTimesOut
  BY <1>2 DEF Routes!AsksNAPTR, Routes!AsksPointer, Routes!AfterPointers, Routes!NAPTRTimesOut
<1>3. CASE Routes!AsksSRV \/ Routes!AsksEachSRV \/ Routes!EachSRVTimesOut \/ Routes!AfterEachSRV
  BY <1>3 DEF Routes!AsksSRV, Routes!AsksEachSRV, Routes!EachSRVTimesOut, Routes!AfterEachSRV
<1>4. CASE Routes!AsksA \/ Routes!TimesOut \/ Routes!StartsService \/ Routes!StartsXCAP \/ Routes!AsksService
  BY <1>4 DEF Routes!AsksA, Routes!TimesOut, Routes!StartsService, Routes!StartsXCAP, Routes!AsksService
<1> QED BY <1>1, <1>2, <1>3, <1>4 DEF Routes!LookupNext

\* What has been gathered of an order when all of it has been asked for.
Gave(routes, order, from, wanted) ==
  /\ \A i \in DOMAIN routes :
       /\ routes[i].from = from /\ routes[i].transport \in wanted
       /\ \E m \in DOMAIN order : order[m] = routes[i].transport
  /\ \A i, j \in DOMAIN routes :
       i < j => \E m, n \in DOMAIN order : m < n /\ order[m] = routes[i].transport /\ order[n] = routes[j].transport
GaveAll(routes, order, wanted) ==
  \A m \in DOMAIN order : order[m] \in wanted => \E i \in DOMAIN routes : routes[i].transport = order[m]
LEMMA AllGathered ==
  ASSUME NEW order \in Seq(Means), NEW from, NEW wanted, NEW routes, Gathered(<<>>, routes, order, from, wanted)
  PROVE  /\ Gave(routes, order, from, wanted)
         /\ Complete(<<>>, routes, order, wanted) => GaveAll(routes, order, wanted)
<1>1. Asked(<<>>, order) = DOMAIN order
  <2>1. Len(order) \in Nat /\ DOMAIN order = 1..Len(order) /\ Len(<<>>) = 0 OBVIOUS
  <2> QED BY <2>1 DEF Asked
<1> QED BY <1>1 DEF Gathered, Complete, Gave, GaveAll

\* The answers of the DNS, and the queries that time out.
LEMMA LookupQueries ==
  ASSUME lookup \in Lookups, lookup.what = "sip", Sought,
         \/ Routes!AsksNAPTR \/ Routes!AsksPointer \/ Routes!AfterPointers \/ Routes!NAPTRTimesOut
         \/ Routes!AsksSRV \/ Routes!AsksEachSRV \/ Routes!EachSRVTimesOut \/ Routes!AfterEachSRV
         \/ Routes!AsksA \/ Routes!TimesOut
  PROVE  LookupInv'
<1> DEFINE R == [transport : Means, from : {"uri", "naptr", "srv", "a"}]
<1>0. /\ lookup.left \in Seq(Means) /\ lookup.routes \in Seq(R) /\ lookup.supported \in Seq(Means)
      /\ lookup.zone.naptr \in Seq(Means) /\ lookup.zone \in Zones /\ <<>> \in Seq(R)
  BY DEF Lookups, Zones
<1>1. lookup.left # <<>> => Tail(lookup.left) \in Seq(Means) /\ Head(lookup.left) \in Means BY <1>0
\* nothing is gathered yet
<1>2. ASSUME NEW order \in Seq(Means), NEW from, NEW wanted
      PROVE  Gathered(order, <<>>, order, from, wanted) /\ Complete(order, <<>>, order, wanted)
  <2>1. Len(order) \in Nat /\ Len(order) - Len(order) = 0 /\ DOMAIN <<>> = {} BY <1>2
  <2>2. \A k \in 1..Len(order) : Len(order) - Len(order) + k = k BY <1>2, <2>1
  <2> QED BY <1>2, <2>1, <2>2 DEF Gathered, Complete, Asked
<1>3. CASE Routes!AsksNAPTR
  <2>1. lookup' = [lookup EXCEPT !.at = "pointers", !.left = lookup.zone.naptr] /\ lookup.at = "naptr"
    BY <1>3 DEF Routes!AsksNAPTR
  <2>2. /\ lookup' \in Lookups /\ SameQuestion /\ lookup'.at = "pointers" /\ lookup'.left = lookup.zone.naptr
        /\ lookup'.routes = <<>> /\ ~lookup'.slow /\ Plain
    BY <1>0, <2>1 DEF Lookups, SameQuestion, Sought
  <2>3. Plain' BY <2>2, PublishedStays
  <2>4. /\ Gathered(lookup'.left, lookup'.routes, lookup'.zone.naptr, "naptr", SupportedSRV')
        /\ Complete(lookup'.left, lookup'.routes, lookup'.zone.naptr, SupportedSRV')
    BY <1>0, <1>2, <2>2 DEF SameQuestion
  <2> QED BY <2>2, <2>3, <2>4 DEF LookupInv, Lookups, Sought
\* the next of an order answers, or does not
<1>4. ASSUME NEW order \in Seq(Means), NEW from \in {"uri", "naptr", "srv", "a"}, NEW wanted,
             Gathered(lookup.left, lookup.routes, order, from, wanted), lookup.left # <<>>,
             lookup' = [lookup EXCEPT !.left = Tail(@),
                          !.routes = @ \o IF Head(lookup.left) \in wanted
                                          THEN <<Routes!Route(Head(lookup.left), from)>> ELSE <<>>]
      PROVE  /\ lookup' \in Lookups /\ SameQuestion /\ lookup'.at = lookup.at /\ lookup'.slow = lookup.slow
             /\ Gathered(lookup'.left, lookup'.routes, order, from, wanted)
             /\ Complete(lookup.left, lookup.routes, order, wanted) => Complete(lookup'.left, lookup'.routes, order, wanted)
  <2> DEFINE h == Head(lookup.left)
             e == [transport |-> h, from |-> from]
             left2 == Tail(lookup.left)
             q == lookup.routes \o IF h \in wanted THEN <<e>> ELSE <<>>
  <2>1. lookup' = [lookup EXCEPT !.left = left2, !.routes = q] BY <1>4 DEF Routes!Route
  <2>2. left2 \in Seq(Means) /\ e \in R BY <1>1, <1>4
  <2>3. IF h \in wanted THEN q = Append(lookup.routes, e) ELSE q = lookup.routes
    <3>1. <<e>> \in Seq(R) BY <2>2
    <3>2. lookup.routes \o <<>> = lookup.routes BY <1>0
    <3>3. lookup.routes \o <<e>> = Append(lookup.routes, e)
      <4> HIDE DEF e
      <4> QED BY <1>0, <2>2
    <3> HIDE DEF e
    <3> QED BY <3>2, <3>3
  <2>4. Append(lookup.routes, e) \in Seq(R) /\ Grown(Append(lookup.routes, e), lookup.routes, e)
    <3> HIDE DEF e, R
    <3>1. Append(lookup.routes, e) \in Seq(R) BY <1>0, <2>2
    <3>2. lookup.routes \in Seq(R) /\ e \in R BY <1>0, <2>2
    <3>3. Grown(Append(lookup.routes, e), lookup.routes, e) BY <3>2, AppendGrows, Zenon
    <3> QED BY <3>1, <3>3
  <2> HIDE DEF q, left2
  <2>5. q \in Seq(R) /\ (IF h \in wanted THEN Grown(q, lookup.routes, e) ELSE q = lookup.routes)
    <3> HIDE DEF e
    <3> QED BY <1>0, <2>3, <2>4
  <2>6. /\ lookup' \in Lookups /\ lookup'.left = left2 /\ lookup'.routes = q /\ lookup'.at = lookup.at
        /\ lookup'.slow = lookup.slow /\ SameQuestion
    BY <2>1, <2>2, <2>5 DEF Lookups, SameQuestion
  <2>7. /\ Gathered(left2, q, order, from, wanted)
        /\ Complete(lookup.left, lookup.routes, order, wanted) => Complete(left2, q, order, wanted)
    BY <1>0, <1>4, <2>5, GathersOn DEF left2
  <2> QED BY <2>6, <2>7
<1>5. ASSUME lookup' \in Lookups, SameQuestion, lookup'.at = "pointers", Plain, ~lookup'.slow,
             Gathered(lookup'.left, lookup'.routes, lookup.zone.naptr, "naptr", SupportedSRV),
             Complete(lookup'.left, lookup'.routes, lookup.zone.naptr, SupportedSRV)
      PROVE  LookupInv'
  BY <1>5, PublishedStays DEF SameQuestion, LookupInv, Lookups, Sought
<1>6. ASSUME lookup' \in Lookups, SameQuestion, lookup'.at = "eachsrv", Plain,
             Gathered(lookup'.left, lookup'.routes, lookup.supported, "srv", lookup.zone.srv),
             ~lookup'.slow =>
               /\ Complete(lookup'.left, lookup'.routes, lookup.supported, lookup.zone.srv)
               /\ NonePublished({"uri", "naptr"})
      PROVE  LookupInv'
  <2>1. NonePublished({"uri", "naptr"})' <=> NonePublished({"uri", "naptr"}) BY <1>6, PublishedStays DEF NonePublished
  <2> QED BY <1>6, <2>1, PublishedStays DEF SameQuestion, LookupInv, Lookups, Sought
<1>7. CASE Routes!AsksPointer
  <2> USE <1>7 DEF Routes!AsksPointer
  <2>1. lookup.at = "pointers" /\ lookup.left # <<>> OBVIOUS
  <2>2. Routes!IsSupported(Head(lookup.left)) /\ Head(lookup.left) \in lookup.zone.srv
        <=> Head(lookup.left) \in SupportedSRV
    BY DEF Routes!IsSupported, Routes!Range, SupportedSRV
  <2>3. lookup' = [lookup EXCEPT !.left = Tail(@),
                     !.routes = @ \o IF Head(lookup.left) \in SupportedSRV
                                     THEN <<Routes!Route(Head(lookup.left), "naptr")>> ELSE <<>>]
    BY <2>2
  <2>4. /\ Gathered(lookup.left, lookup.routes, lookup.zone.naptr, "naptr", SupportedSRV)
        /\ Complete(lookup.left, lookup.routes, lookup.zone.naptr, SupportedSRV) /\ Plain /\ ~lookup.slow
    BY <2>1 DEF Sought
  <2> QED BY Zenon, <1>0, <1>4, <1>5, <2>1, <2>3, <2>4
<1>8. CASE Routes!AsksEachSRV \/ Routes!EachSRVTimesOut
  <2>1. lookup.at = "eachsrv" /\ lookup.left # <<>> BY <1>8 DEF Routes!AsksEachSRV, Routes!EachSRVTimesOut
  <2>2. /\ Gathered(lookup.left, lookup.routes, lookup.supported, "srv", lookup.zone.srv) /\ Plain
        /\ ~lookup.slow =>
             Complete(lookup.left, lookup.routes, lookup.supported, lookup.zone.srv) /\ NonePublished({"uri", "naptr"})
    BY <2>1 DEF Sought
  <2>3. CASE Routes!AsksEachSRV
    <3>1. lookup' = [lookup EXCEPT !.left = Tail(@),
                       !.routes = @ \o IF Head(lookup.left) \in lookup.zone.srv
                                       THEN <<Routes!Route(Head(lookup.left), "srv")>> ELSE <<>>]
      BY <2>3 DEF Routes!AsksEachSRV
    <3> QED BY Zenon, <1>0, <1>4, <1>6, <2>1, <2>2, <3>1
  <2>4. CASE Routes!EachSRVTimesOut
    <3>1. lookup' = [lookup EXCEPT !.left = Tail(@), !.slow = TRUE] BY <2>4 DEF Routes!EachSRVTimesOut
    <3>2. /\ lookup' \in Lookups /\ SameQuestion /\ lookup'.at = "eachsrv" /\ lookup'.slow
          /\ lookup'.left = Tail(lookup.left) /\ lookup'.routes = lookup.routes
      BY <1>1, <2>1, <3>1 DEF Lookups, SameQuestion
    <3>3. Gathered(Tail(lookup.left), lookup.routes, lookup.supported, "srv", lookup.zone.srv)
      BY <1>0, <2>1, <2>2, GathersOn
    <3> QED BY <1>6, <2>2, <3>2, <3>3
  <2> QED BY <1>8, <2>3, <2>4
<1>9. CASE Routes!NAPTRTimesOut
  <2>1. lookup' = [lookup EXCEPT !.at = "eachsrv", !.left = lookup.supported, !.routes = <<>>, !.slow = TRUE] /\ Plain
    BY <1>9 DEF Routes!NAPTRTimesOut, Sought
  <2>2. /\ lookup' \in Lookups /\ SameQuestion /\ lookup'.at = "eachsrv" /\ lookup'.slow
        /\ lookup'.left = lookup.supported /\ lookup'.routes = <<>>
    BY <1>0, <2>1 DEF Lookups, SameQuestion
  <2> QED BY <1>0, <1>2, <1>6, <2>1, <2>2
\* the SRV and NAPTR records that are published
<1>11. Plain => /\ \A t : t \in Routes!Published["naptr"] <=> t \in Routes!Range(lookup.zone.naptr) /\ t \in SupportedSRV
                /\ \A t : t \in Routes!Published["srv"] <=> t \in Routes!Range(lookup.supported) /\ t \in lookup.zone.srv
                /\ Routes!Published["uri"] = {}
                /\ SupportedSRV = {t \in lookup.zone.srv : t \in Routes!Range(lookup.supported)}
  <2> SUFFICES ASSUME Plain
               PROVE  /\ \A t : t \in Routes!Published["naptr"] <=> t \in Routes!Range(lookup.zone.naptr) /\ t \in SupportedSRV
                      /\ \A t : t \in Routes!Published["srv"] <=> t \in Routes!Range(lookup.supported) /\ t \in lookup.zone.srv
                      /\ Routes!Published["uri"] = {}
                      /\ SupportedSRV = {t \in lookup.zone.srv : t \in Routes!Range(lookup.supported)}
    OBVIOUS
  <2>1. \A t : Routes!IsSupported(t) <=> \E k \in DOMAIN lookup.supported : lookup.supported[k] = t
    BY DEF Routes!IsSupported, Routes!Range
  <2>2. lookup.secure => \A t : Routes!IsSupported(t) => t = "tls"
    <3>1. DOMAIN <<"tls">> = {1} /\ <<"tls">>[1] = "tls" OBVIOUS
    <3> QED BY <2>1, <3>1 DEF Plain
  <2>3. \A t : t \in Routes!Allowed <=> Routes!IsSupported(t) BY <2>2, PublishedIs
  <2>4. SupportedSRV = {t \in lookup.zone.srv : t \in Routes!Range(lookup.supported)}
    BY <2>1 DEF SupportedSRV, Routes!IsSupported
  <2>5. lookup.form = "plain" BY DEF Plain
  <2> QED BY <2>1, <2>3, <2>4, <2>5, PublishedIs DEF SupportedSRV, Routes!IsSupported
<1>12. CASE Routes!AfterPointers
  <2> USE <1>12 DEF Routes!AfterPointers
  <2>1. lookup.at = "pointers" /\ lookup.left = <<>> OBVIOUS
  <2>2. /\ Gathered(lookup.left, lookup.routes, lookup.zone.naptr, "naptr", SupportedSRV)
        /\ Complete(lookup.left, lookup.routes, lookup.zone.naptr, SupportedSRV) /\ Plain /\ ~lookup.slow
    BY <2>1 DEF Sought
  <2>a. Gave(lookup.routes, lookup.zone.naptr, "naptr", SupportedSRV) /\ (GaveAll(lookup.routes, lookup.zone.naptr, SupportedSRV))
    BY <1>0, <2>1, <2>2, AllGathered
  <2>3. /\ \A i \in DOMAIN lookup.routes :
             lookup.routes[i].from = "naptr" /\ lookup.routes[i].transport \in SupportedSRV
             /\ \E m \in DOMAIN lookup.zone.naptr : lookup.zone.naptr[m] = lookup.routes[i].transport
        /\ \A i, j \in DOMAIN lookup.routes :
             i < j => \E m, n \in DOMAIN lookup.zone.naptr :
               m < n /\ lookup.zone.naptr[m] = lookup.routes[i].transport /\ lookup.zone.naptr[n] = lookup.routes[j].transport
        /\ \A m \in DOMAIN lookup.zone.naptr : lookup.zone.naptr[m] \in SupportedSRV
             => \E i \in DOMAIN lookup.routes : lookup.routes[i].transport = lookup.zone.naptr[m]
    BY <2>a DEF Gave, GaveAll
  <2>4. \A t : t \in Routes!Range(lookup.zone.naptr) <=> \E m \in DOMAIN lookup.zone.naptr : lookup.zone.naptr[m] = t
    BY DEF Routes!Range
  <2>5. \A t : t \in Routes!Published["naptr"] <=> t \in Routes!Range(lookup.zone.naptr) /\ t \in SupportedSRV
    BY <1>11, <2>2
  <2>6. CASE lookup.routes # <<>>
    <3>1. Routes!Returns(lookup.routes) BY <2>6
    <3>2. \A i \in DOMAIN lookup.routes :
            lookup.routes[i].from = "naptr" /\ lookup.routes[i].transport \in Routes!Published["naptr"]
      BY <2>3, <2>4, <2>5
    <3>3. \A t \in Routes!Published["naptr"] : \E i \in DOMAIN lookup.routes : lookup.routes[i].transport = t
      BY <2>3, <2>4, <2>5
    <3>4. NonePublished(Routes!Better["naptr"]) BY PublishedIs DEF NonePublished
    <3>5. Good(lookup.routes, "naptr") BY <1>0, <2>3, <2>6, <3>2, <3>3, <3>4 DEF Good
    <3> QED BY <3>1, <3>5, LookupReturns
  <2>7. CASE lookup.routes = <<>>
    <3>1. lookup' = [lookup EXCEPT !.at = "eachsrv", !.left = lookup.supported] BY <2>7
    <3>2. /\ lookup' \in Lookups /\ SameQuestion /\ lookup'.at = "eachsrv"
          /\ lookup'.left = lookup.supported /\ lookup'.routes = <<>>
      BY <1>0, <2>7, <3>1 DEF Lookups, SameQuestion
    <3>3. NonePublished({"uri", "naptr"})
      <4>1. DOMAIN lookup.routes = {} BY <2>7
      <4>2. \A t : t \notin Routes!Published["naptr"] BY <2>3, <2>4, <2>5, <4>1
      <4>3. Routes!Published["uri"] = {} BY <1>11, <2>2
      <4> QED BY <4>2, <4>3 DEF NonePublished
    <3> QED BY <1>0, <1>2, <1>6, <2>2, <3>2, <3>3
  <2> QED BY <2>6, <2>7
<1>13. ASSUME NEW t \in Means, Routes!Published["a"] = IF lookup.zone.a THEN {t} ELSE {},
              ~lookup.slow => NonePublished({"uri", "naptr", "srv"}), lookup.routes = <<>>,
              lookup' = [lookup EXCEPT !.at = "a", !.left = <<t>>]
       PROVE  LookupInv'
  <2> DEFINE one == <<t>>
  <2>1. one \in Seq(Means) /\ Head(one) = t /\ one # <<>> OBVIOUS
  <2>2. lookup' = [lookup EXCEPT !.at = "a", !.left = one] BY <1>13
  <2> HIDE DEF one
  <2>3. /\ lookup' \in Lookups /\ lookup'.at = "a" /\ lookup'.left = one /\ lookup'.routes = <<>> /\ SameQuestion
        /\ lookup'.slow = lookup.slow
    BY <1>13, <2>1, <2>2 DEF Lookups, SameQuestion
  <2>4. Routes!Published' = Routes!Published BY <2>3, PublishedStays
  <2>5. Sought' BY <1>13, <2>1, <2>3, <2>4 DEF Sought, SameQuestion, NonePublished
  <2> QED BY <2>3, <2>5 DEF LookupInv, Lookups
<1>14. CASE Routes!AfterEachSRV
  <2> DEFINE default == IF lookup.secure THEN "tls" ELSE "udp"
  <2>1. lookup.at = "eachsrv" /\ lookup.left = <<>> BY <1>14 DEF Routes!AfterEachSRV
  <2>2. /\ Gathered(lookup.left, lookup.routes, lookup.supported, "srv", lookup.zone.srv) /\ Plain
        /\ ~lookup.slow =>
             Complete(lookup.left, lookup.routes, lookup.supported, lookup.zone.srv) /\ NonePublished({"uri", "naptr"})
    BY <2>1 DEF Sought
  <2>a. Gave(lookup.routes, lookup.supported, "srv", lookup.zone.srv) /\ (~lookup.slow => GaveAll(lookup.routes, lookup.supported, lookup.zone.srv))
    BY <1>0, <2>1, <2>2, AllGathered
  <2>3. /\ \A i \in DOMAIN lookup.routes :
             lookup.routes[i].from = "srv" /\ lookup.routes[i].transport \in lookup.zone.srv
             /\ \E m \in DOMAIN lookup.supported : lookup.supported[m] = lookup.routes[i].transport
        /\ \A i, j \in DOMAIN lookup.routes :
             i < j => \E m, n \in DOMAIN lookup.supported :
               m < n /\ lookup.supported[m] = lookup.routes[i].transport /\ lookup.supported[n] = lookup.routes[j].transport
        /\ ~lookup.slow => \A m \in DOMAIN lookup.supported : lookup.supported[m] \in lookup.zone.srv
             => \E i \in DOMAIN lookup.routes : lookup.routes[i].transport = lookup.supported[m]
    BY <2>a DEF Gave, GaveAll
  <2>4. \A t : t \in Routes!Range(lookup.supported) <=> \E m \in DOMAIN lookup.supported : lookup.supported[m] = t
    BY DEF Routes!Range
  <2>5. \A t : t \in Routes!Published["srv"] <=> t \in Routes!Range(lookup.supported) /\ t \in lookup.zone.srv
    BY <1>11, <2>2
  <2>6. CASE lookup.routes # <<>>
    <3>1. Routes!Returns(lookup.routes) BY <1>14, <2>6 DEF Routes!AfterEachSRV
    <3>2. \A i \in DOMAIN lookup.routes :
            lookup.routes[i].from = "srv" /\ lookup.routes[i].transport \in Routes!Published["srv"]
      BY <2>3, <2>4, <2>5
    <3>3. ~lookup.slow => \A t \in Routes!Published["srv"] : \E i \in DOMAIN lookup.routes : lookup.routes[i].transport = t
      BY <2>3, <2>4, <2>5
    <3>4. ~lookup.slow => NonePublished(Routes!Better["srv"]) BY <2>2, PublishedIs DEF NonePublished
    <3>5. Good(lookup.routes, "srv") BY <1>0, <2>3, <2>6, <3>2, <3>3, <3>4 DEF Good
    <3> QED BY <3>1, <3>5, LookupReturns
  <2>7. CASE lookup.routes = <<>>
    <3>1. ~lookup.slow => NonePublished({"uri", "naptr", "srv"})
      <4>1. DOMAIN lookup.routes = {} BY <2>7
      <4>2. ~lookup.slow => \A t : t \notin Routes!Published["srv"] BY <2>3, <2>4, <2>5, <4>1
      <4> QED BY <2>2, <4>2 DEF NonePublished
    <3>2. lookup.form = "plain" /\ \A t : t \in Routes!Published["a"] <=> t \in Routes!Allowed /\ lookup.zone.a /\ (lookup.secure \/ t = "udp")
      BY <2>2, PublishedIs DEF Plain
    <3>3. \A t : t \in Routes!Allowed <=> Routes!IsSupported(t) /\ (lookup.secure => t = "tls") BY PublishedIs
    <3>4. CASE Routes!IsSupported(default)
      <4>1. lookup' = [lookup EXCEPT !.at = "a", !.left = <<default>>] BY <1>14, <2>1, <2>7, <3>4 DEF Routes!AfterEachSRV
      <4>2. default \in Means BY DEF Means
      <4>3. Routes!Published["a"] = IF lookup.zone.a THEN {default} ELSE {} BY <3>2, <3>3, <3>4
      <4> HIDE DEF default
      <4> QED BY Zenon, <1>13, <2>7, <3>1, <4>1, <4>2, <4>3
    <3>5. CASE ~Routes!IsSupported(default)
      <4>1. Routes!Fails BY <1>14, <2>1, <2>7, <3>5 DEF Routes!AfterEachSRV
      <4>2. \A t : t \notin Routes!Published["a"] BY <3>2, <3>3, <3>5
      <4>3. ~lookup.slow => NonePublished({"uri", "naptr", "srv", "a"}) BY <3>1, <4>2 DEF NonePublished
      <4> QED BY <2>7, <4>1, <4>3, LookupFails
    <3> QED BY <3>4, <3>5
  <2> QED BY <2>6, <2>7
<1>15. CASE Routes!AsksSRV
  <2> DEFINE t == lookup.transport
  <2>1. /\ lookup.at = "srv" /\ lookup.routes = <<>> /\ ~lookup.slow /\ lookup.form = "transport" /\ lookup.left = <<t>>
        /\ t \in Routes!Allowed
    BY <1>15 DEF Routes!AsksSRV, Sought
  <2>2. Head(lookup.left) = t /\ t \in Means BY <2>1 DEF Lookups
  <2>3. CASE t \in lookup.zone.srv
    <3>1. Routes!Returns(<<Routes!Route(t, "srv")>>) BY <1>15, <2>2, <2>3 DEF Routes!AsksSRV
    <3>2. t \in Routes!Published["srv"] /\ (\A u \in Routes!Published["srv"] : u = t) /\ NonePublished(Routes!Better["srv"])
      BY <2>1, <2>3, PublishedIs DEF NonePublished
    <3> QED BY <2>2, <3>1, <3>2, LookupReturnsOne
  <2>4. CASE t \notin lookup.zone.srv
    <3>1. lookup' = [lookup EXCEPT !.at = "a"] BY <1>15, <2>2, <2>4 DEF Routes!AsksSRV, Routes!Queries
    <3>2. /\ lookup' \in Lookups /\ lookup'.at = "a" /\ lookup'.left = lookup.left /\ lookup'.routes = <<>> /\ SameQuestion
          /\ lookup'.slow = lookup.slow
      BY <2>1, <3>1 DEF Lookups, SameQuestion
    <3>3. Routes!Published["a"] = IF lookup.zone.a THEN {t} ELSE {}
      <4>1. \A u : u \in Routes!Published["a"] <=> (lookup.zone.a /\ u = t) BY <2>1, PublishedIs
      <4> QED BY <4>1
    <3>4. NonePublished({"uri", "naptr", "srv"}) BY <2>1, <2>4, PublishedIs DEF NonePublished
    <3>5. lookup.left # <<>> BY <2>1
    <3>6. Sought' BY <2>2, <3>2, <3>3, <3>4, <3>5, PublishedStays DEF Sought, SameQuestion, NonePublished
    <3> QED BY <3>2, <3>6 DEF LookupInv, Lookups
  <2> QED BY <2>3, <2>4
<1>16. CASE Routes!AsksA
  <2>1. /\ lookup.at = "a" /\ lookup.routes = <<>> /\ lookup.left # <<>>
        /\ Routes!Published["a"] = IF lookup.zone.a THEN {Head(lookup.left)} ELSE {}
        /\ ~lookup.slow => NonePublished({"uri", "naptr", "srv"})
    BY <1>16 DEF Routes!AsksA, Sought
  <2> DEFINE t == Head(lookup.left)
  <2>2. t \in Means BY <1>1, <2>1
  <2>3. CASE lookup.zone.a
    <3>1. Routes!Returns(<<Routes!Route(t, "a")>>) BY <1>16, <2>3 DEF Routes!AsksA
    <3>2. t \in Routes!Published["a"] /\ (\A u \in Routes!Published["a"] : u = t)
          /\ (~lookup.slow => NonePublished(Routes!Better["a"]))
      BY <2>1, <2>3, PublishedIs
    <3> HIDE DEF t
    <3> QED BY <2>2, <3>1, <3>2, LookupReturnsOne
  <2>4. CASE ~lookup.zone.a
    <3>1. Routes!Fails BY <1>16, <2>4 DEF Routes!AsksA
    <3>2. ~lookup.slow => NonePublished({"uri", "naptr", "srv", "a"}) BY <2>1, <2>4 DEF NonePublished
    <3> QED BY <2>1, <3>1, <3>2, LookupFails
  <2> QED BY <2>3, <2>4
<1>17. CASE Routes!TimesOut
  BY <1>17, LookupFails DEF Routes!TimesOut, Sought
<1> QED BY <1>3, <1>7, <1>8, <1>9, <1>12, <1>14, <1>15, <1>16, <1>17

LEMMA LookupStep == LookupInv /\ [Routes!LookupNext]_lookup => LookupInv'
<1> SUFFICES ASSUME LookupInv, [Routes!LookupNext]_lookup PROVE LookupInv' OBVIOUS
<1>0. CASE UNCHANGED lookup
  <2>1. /\ Routes!Published' = Routes!Published /\ Routes!Allowed' = Routes!Allowed
        /\ Plain' = Plain /\ SupportedSRV' = SupportedSRV
    BY <1>0, PublishedStays DEF SameQuestion
  <2>2. Routes!RoutesAsPublished' = Routes!RoutesAsPublished BY <1>0, <2>1 DEF Routes!RoutesAsPublished
  <2> QED BY <1>0, <2>1, <2>2 DEF LookupInv, Sought, NonePublished
<1> SUFFICES ASSUME Routes!LookupNext PROVE LookupInv' BY <1>0
<1>1. "what" \in DOMAIN lookup' /\ lookup'.what = lookup.what BY QuestionStays DEF LookupInv
<1>2. CASE lookup.what # "sip" BY <1>1, <1>2 DEF LookupInv
<1>3. CASE lookup.what = "sip"
  <2>1. lookup \in Lookups /\ Sought BY <1>3 DEF LookupInv
  <2>2. ~Routes!StartsService /\ ~Routes!StartsXCAP /\ ~Routes!AsksService
    BY <1>3, <2>1 DEF Routes!StartsService, Routes!StartsXCAP, Routes!AsksService, Routes!Starts, Sought
  <2> QED BY <1>3, <2>1, <2>2, LookupStarts, LookupQueries DEF Routes!LookupNext
<1> QED BY <1>2, <1>3

\* As it begins a lookup has found nothing yet.
LEMMA LookupBegins == Routes!LookupInit => LookupInv
<1> SUFFICES ASSUME Routes!LookupInit PROVE LookupInv OBVIOUS
<1>1. CASE \E a \in BOOLEAN : \E form \in {"address", "port", "transport", "plain"}, secure \in BOOLEAN, transport \in Transports :
         \E supported, naptr \in Routes!Orders, srv \in SUBSET Transports :
           lookup = Routes!Question("sip", form, secure, transport, supported, naptr, srv, FALSE, a)
  <2>1. PICK a \in BOOLEAN, form \in {"address", "port", "transport", "plain"}, secure \in BOOLEAN, transport \in Transports,
             supported \in Routes!Orders, naptr \in Routes!Orders, srv \in SUBSET Transports :
           lookup = Routes!Question("sip", form, secure, transport, supported, naptr, srv, FALSE, a)
    BY <1>1
  <2>2. ASSUME NEW o \in Routes!Orders PROVE o \in Seq(Means)
    <3>1. CASE o = <<>> BY <3>1
    <3>2. CASE \E t \in Transports : o = <<t>> BY <3>2 DEF Means
    <3>3. CASE o \in Transports \X Transports
      <4>1. PICK t, u \in Transports : o = <<t, u>> BY <3>3
      <4>2. t \in Means /\ u \in Means BY <4>1 DEF Means
      <4> QED BY <4>1, <4>2
    <3> QED BY <2>2, <3>1, <3>2, <3>3 DEF Routes!Orders
  <2>3. supported \in Seq(Means) /\ naptr \in Seq(Means) BY <2>2
  <2>4. srv \in SUBSET Means /\ transport \in Means BY DEF Means
  <2> DEFINE z == [naptr |-> naptr, srv |-> srv, service |-> FALSE, a |-> a]
  <2>5. z \in Zones BY <2>3, <2>4 DEF Zones
  <2>6. lookup = [what |-> "sip", form |-> form, secure |-> secure, transport |-> transport, supported |-> supported,
                  zone |-> z, at |-> "start", left |-> <<>>, routes |-> <<>>, slow |-> FALSE, result |-> "none"]
    BY <2>1 DEF Routes!Question
  <2> HIDE DEF z
  <2>7. lookup \in Lookups BY <2>3, <2>4, <2>5, <2>6 DEF Lookups
  <2>8. Sought BY <2>6 DEF Sought
  <2> QED BY <2>7, <2>8 DEF LookupInv, Lookups
<1>2. CASE \E a \in BOOLEAN : \E what \in {"stun", "msrprelay", "xcap"}, form \in {"address", "plain"}, service \in BOOLEAN :
         lookup = Routes!Question(what, form, FALSE, "udp", <<>>, <<>>, {}, service, a)
  <2>1. PICK a \in BOOLEAN, what \in {"stun", "msrprelay", "xcap"}, form \in {"address", "plain"}, service \in BOOLEAN :
         lookup = Routes!Question(what, form, FALSE, "udp", <<>>, <<>>, {}, service, a)
    BY <1>2
  <2>2. "what" \in DOMAIN lookup /\ lookup.what = what BY <2>1 DEF Routes!Question
  <2> QED BY <2>2 DEF LookupInv
<1> QED BY <1>1, <1>2 DEF Routes!LookupInit

-----------------------------------------------------------------------------
(***************************************************************************)
(* The nameservers.  NameserversFollow is about a manager at rest.  To be  *)
(* inductive it needs what a probe under way has found out so far          *)
(* (FreshProbe), and that an interrupt leaves the command that was sent    *)
(* with it (InterruptsCount).                                              *)
(***************************************************************************)
Probers ==
  [proc : {"none", "idle", "local", "google"}, commands : Nat, killed : BOOLEAN, since : Nat, timer : BOOLEAN,
   wakeup : {"no", "set", "stuck"}, read : Nat, nameservers : [from : {"network", "google"}, nr : Nat], stopped : BOOLEAN]
ManagerTypeOK ==
  /\ prober \in Probers
  /\ network \in [nr : Nat, local : BOOLEAN, google : BOOLEAN, changed : Nat, woke : Nat, wakings : Nat]

InterruptsCount ==
  /\ prober.since <= prober.commands
  /\ prober.killed => prober.since > 0
\* nothing will make the manager probe again, but for its timer
NotAsked == prober.commands = 0 /\ network.changed = 0
ProbedWell ==
  /\ prober.nameservers \in {Nameservers!Local(network.nr), Nameservers!Google}
  /\ ~prober.timer => IF prober.nameservers = Nameservers!Google THEN network.google ELSE network.local
FreshProbe ==
  NotAsked =>
    /\ prober.proc \in {"local", "google"} => prober.read = network.nr /\ ~prober.timer
    /\ prober.proc = "google" => ~network.local
    /\ prober.proc = "idle" => ProbedWell
ManagerInv == ManagerTypeOK /\ InterruptsCount /\ FreshProbe

-----------------------------------------------------------------------------
\* What is in the way of rest when a probe is asked for: the command.
LEMMA AsksAgain ==
  ASSUME ManagerTypeOK, InterruptsCount
  PROVE  /\ Nameservers!ProbesAgain(prober) \in Probers
         /\ Nameservers!ProbesAgain(prober).proc = prober.proc
         /\ Nameservers!ProbesAgain(prober).since <= Nameservers!ProbesAgain(prober).commands
         /\ Nameservers!ProbesAgain(prober).killed => Nameservers!ProbesAgain(prober).since > 0
         /\ prober.proc # "none" => Nameservers!ProbesAgain(prober).commands > 0
<1>1. prober.commands \in Nat /\ prober.since \in Nat BY DEF ManagerTypeOK, Probers
<1>2. prober.commands + 1 \in Nat /\ prober.since + 1 \in Nat BY <1>1
<1>3. Nameservers!ProbesAgain(prober) \in Probers BY <1>2 DEF ManagerTypeOK, Probers, Nameservers!ProbesAgain
<1>4. Nameservers!ProbesAgain(prober).proc = prober.proc BY DEF ManagerTypeOK, Probers, Nameservers!ProbesAgain
<1>5. CASE prober.proc = "none" BY <1>1, <1>3, <1>4, <1>5 DEF InterruptsCount, Nameservers!ProbesAgain
<1>6. CASE prober.proc # "none"
  <2>1. /\ Nameservers!ProbesAgain(prober).since = prober.since + 1
        /\ Nameservers!ProbesAgain(prober).commands = prober.commands + 1
    BY <1>6 DEF ManagerTypeOK, Probers, Nameservers!ProbesAgain
  <2> QED BY <2>1, <1>1, <1>3, <1>4 DEF InterruptsCount
<1> QED BY <1>5, <1>6

\* Every step of the manager and of the network keeps the invariant.
LEMMA ManagerStep == ManagerInv /\ [Nameservers!ManagerNext]_<<prober, network>> => ManagerInv'
<1> SUFFICES ASSUME ManagerInv, [Nameservers!ManagerNext]_<<prober, network>> PROVE ManagerInv' OBVIOUS
<1> USE DEF ManagerInv, Nameservers!OfTheManager
<1>a. /\ prober.commands \in Nat /\ prober.since \in Nat /\ network.nr \in Nat /\ network.changed \in Nat
      /\ network.woke \in Nat /\ network.wakings \in Nat
  BY DEF ManagerTypeOK, Probers
<1>b. /\ prober.commands + 1 \in Nat /\ prober.since + 1 \in Nat /\ network.nr + 1 \in Nat
      /\ network.changed + 1 \in Nat /\ network.woke + 1 \in Nat /\ network.wakings + 1 \in Nat
  BY <1>a
<1>1. CASE Nameservers!ManagerStarts
  <2> USE <1>1 DEF Nameservers!ManagerStarts
  <2>1. ManagerTypeOK' BY <1>a, <1>b DEF ManagerTypeOK, Probers, Nameservers!Local, Nameservers!Google
  <2>2. InterruptsCount' BY DEF ManagerTypeOK, Probers, InterruptsCount
  <2>3. FreshProbe' BY DEF ManagerTypeOK, Probers, FreshProbe, NotAsked, ProbedWell, Nameservers!Local, Nameservers!Google
  <2> QED BY <2>1, <2>2, <2>3
<1>2. CASE Nameservers!ManagerStops
  <2> USE <1>2 DEF Nameservers!ManagerStops
  <2>1. ManagerTypeOK' BY <1>a, <1>b DEF ManagerTypeOK, Probers, Nameservers!Local, Nameservers!Google
  <2>2. InterruptsCount' BY DEF ManagerTypeOK, Probers, InterruptsCount
  <2>3. FreshProbe' BY DEF ManagerTypeOK, Probers, FreshProbe, NotAsked, ProbedWell, Nameservers!Local, Nameservers!Google
  <2> QED BY <2>1, <2>2, <2>3
<1>3. CASE Nameservers!ProbeInterrupted
  <2> USE <1>3 DEF Nameservers!ProbeInterrupted
  <2>1. ManagerTypeOK' BY <1>a, <1>b DEF ManagerTypeOK, Probers, Nameservers!Local, Nameservers!Google
  <2>2. InterruptsCount' BY DEF ManagerTypeOK, Probers, InterruptsCount
  <2>0. prober.commands > 0 /\ prober'.commands > 0 BY <1>a DEF ManagerTypeOK, Probers, InterruptsCount
  <2>3. FreshProbe' BY <2>0 DEF FreshProbe, NotAsked
  <2> QED BY <2>1, <2>2, <2>3
<1>4. CASE Nameservers!TakesProbe
  <2> USE <1>4 DEF Nameservers!TakesProbe
  <2>0. prober.commands - 1 \in Nat BY <1>a
  <2>1. ManagerTypeOK' BY <1>a, <2>0 DEF ManagerTypeOK, Probers, Nameservers!Local, Nameservers!Google
  <2>2. InterruptsCount' BY DEF ManagerTypeOK, Probers, InterruptsCount
  <2>3. FreshProbe' BY DEF ManagerTypeOK, Probers, FreshProbe, NotAsked, ProbedWell, Nameservers!Local, Nameservers!Google
  <2> QED BY <2>1, <2>2, <2>3
<1>5. CASE Nameservers!LocalAnswers
  <2> USE <1>5 DEF Nameservers!LocalAnswers
  <2>1. ManagerTypeOK' BY <1>a, <1>b DEF ManagerTypeOK, Probers, Nameservers!Local, Nameservers!Google
  <2>2. InterruptsCount' BY DEF ManagerTypeOK, Probers, InterruptsCount
  <2>3. FreshProbe' BY DEF ManagerTypeOK, Probers, FreshProbe, NotAsked, ProbedWell, Nameservers!Local, Nameservers!Google
  <2> QED BY <2>1, <2>2, <2>3
<1>6. CASE Nameservers!LocalFails
  <2> USE <1>6 DEF Nameservers!LocalFails
  <2>1. ManagerTypeOK' BY <1>a, <1>b DEF ManagerTypeOK, Probers, Nameservers!Local, Nameservers!Google
  <2>2. InterruptsCount' BY DEF ManagerTypeOK, Probers, InterruptsCount
  <2>3. FreshProbe' BY DEF ManagerTypeOK, Probers, FreshProbe, NotAsked, ProbedWell, Nameservers!Local, Nameservers!Google
  <2> QED BY <2>1, <2>2, <2>3
<1>7. CASE Nameservers!GoogleAnswers
  <2> USE <1>7 DEF Nameservers!GoogleAnswers
  <2>1. ManagerTypeOK' BY <1>a, <1>b DEF ManagerTypeOK, Probers, Nameservers!Local, Nameservers!Google
  <2>2. InterruptsCount' BY DEF ManagerTypeOK, Probers, InterruptsCount
  <2>3. FreshProbe' BY DEF ManagerTypeOK, Probers, FreshProbe, NotAsked, ProbedWell, Nameservers!Local, Nameservers!Google
  <2> QED BY <2>1, <2>2, <2>3
<1>8. CASE Nameservers!GoogleFails
  <2> USE <1>8 DEF Nameservers!GoogleFails
  <2>1. ManagerTypeOK' BY <1>a, <1>b DEF ManagerTypeOK, Probers, Nameservers!Local, Nameservers!Google
  <2>2. InterruptsCount' BY DEF ManagerTypeOK, Probers, InterruptsCount
  <2>3. FreshProbe' BY DEF ManagerTypeOK, Probers, FreshProbe, NotAsked, ProbedWell, Nameservers!Local, Nameservers!Google
  <2> QED BY <2>1, <2>2, <2>3
<1>9. CASE Nameservers!ProbeTimerFires
  <2> USE <1>9 DEF Nameservers!ProbeTimerFires
  <2>1. ManagerTypeOK' BY <1>a, <1>b DEF ManagerTypeOK, Probers, Nameservers!Local, Nameservers!Google
  <2>2. InterruptsCount' BY DEF ManagerTypeOK, Probers, InterruptsCount
  <2>3. FreshProbe' BY DEF ManagerTypeOK, Probers, FreshProbe, NotAsked, ProbedWell, Nameservers!Local, Nameservers!Google
  <2> QED BY <2>1, <2>2, <2>3
<1>10. CASE Nameservers!NetworkChanges
  <2> USE <1>10 DEF Nameservers!NetworkChanges
  <2>1. PICK local, google \in BOOLEAN :
             network' = [network EXCEPT !.nr = @ + 1, !.local = local, !.google = google, !.changed = @ + 1]
    OBVIOUS
  <2>2. ManagerTypeOK' BY <1>b, <2>1 DEF ManagerTypeOK
  <2>3. InterruptsCount' BY DEF InterruptsCount
  <2>4. network'.changed > 0 BY <1>a, <2>1 DEF ManagerTypeOK
  <2>5. FreshProbe' BY <2>4 DEF FreshProbe, NotAsked
  <2> QED BY <2>2, <2>3, <2>5
<1>11. CASE Nameservers!NetworkWakes
  BY <1>a, <1>b, <1>11
  DEF Nameservers!NetworkWakes, ManagerTypeOK, Probers, InterruptsCount, FreshProbe, NotAsked, ProbedWell, Nameservers!Local, Nameservers!Google
<1>12. CASE Nameservers!_NH_SystemIPAddressDidChange
  BY <1>a, <1>b, <1>12, AsksAgain
  DEF Nameservers!_NH_SystemIPAddressDidChange, ManagerTypeOK, Probers, InterruptsCount, FreshProbe, NotAsked, ProbedWell, Nameservers!Local, Nameservers!Google
<1>13. CASE Nameservers!_NH_SystemDidWakeUpFromSleep
  BY <1>a, <1>b, <1>13
  DEF Nameservers!_NH_SystemDidWakeUpFromSleep, ManagerTypeOK, Probers, InterruptsCount, FreshProbe, NotAsked, ProbedWell, Nameservers!Local, Nameservers!Google
<1>14. CASE Nameservers!wakeup_action
  BY <1>a, <1>b, <1>14, AsksAgain
  DEF Nameservers!wakeup_action, ManagerTypeOK, Probers, InterruptsCount, FreshProbe, NotAsked, ProbedWell, Nameservers!Local, Nameservers!Google
<1>15. CASE UNCHANGED <<prober, network>>
  BY <1>15
  DEF ManagerTypeOK, Probers, InterruptsCount, FreshProbe, NotAsked, ProbedWell, Nameservers!Local, Nameservers!Google
<1> QED BY <1>1, <1>2, <1>3, <1>4, <1>5, <1>6, <1>7, <1>8, <1>9, <1>10, <1>11, <1>12, <1>13, <1>14, <1>15
        DEF Nameservers!ManagerNext, Nameservers!ManagerRuns

-----------------------------------------------------------------------------
\* Whoever looks up the routes to a server is told those that are published, and the nameservers that all
\* lookups use are those of the present network, or Google's (DNSLookup, DNSManager).
THEOREM NamesAlwaysAsPublished == MCSpec => []NamesAsPublished
<1> DEFINE Inv == /\ kind = "lookup" => LookupInv
                  /\ kind = "dns" => ManagerInv
<1>1. MCInit => Inv
  <2>1. ASSUME MCInit, kind = "lookup" PROVE LookupInv
    <3>1. Routes!LookupInit BY <2>1 DEF MCInit, StreamInit
    <3> QED BY <3>1, LookupBegins
  <2>2. ASSUME MCInit, kind = "dns" PROVE ManagerInv
    <3>1. Nameservers!ManagerInit BY <2>2 DEF MCInit, StreamInit
    <3> QED BY <3>1
        DEF Nameservers!ManagerInit, ManagerInv, ManagerTypeOK, Probers, InterruptsCount, FreshProbe, NotAsked,
            Nameservers!Local
  <2> QED BY <2>1, <2>2
<1>2. Inv /\ [MCNext]_vars => Inv'
  <2>1. ASSUME Inv, [MCNext]_vars, kind' = "lookup" PROVE LookupInv'
    <3>1. kind = "lookup" BY <2>1, KindStays
    <3>2. [Routes!LookupNext]_lookup
      BY <2>1, <3>1 DEF MCNext, StreamNext, vars, otherVars, dnsVars, OfConference, OfReferral, OfMover, OfAudio
    <3> QED BY <2>1, <3>1, <3>2, LookupStep
  <2>2. ASSUME Inv, [MCNext]_vars, kind' = "dns" PROVE ManagerInv'
    <3>1. kind = "dns" BY <2>2, KindStays
    <3>2. [Nameservers!ManagerNext]_<<prober, network>>
      BY <2>2, <3>1 DEF MCNext, StreamNext, vars, otherVars, dnsVars, OfConference, OfReferral, OfMover, OfAudio
    <3> QED BY <2>2, <3>1, <3>2, ManagerStep
  <2> QED BY <2>1, <2>2
<1>3. Inv => NamesAsPublished
  <2>1. ASSUME kind = "lookup", LookupInv PROVE Routes!RoutesAsPublished
    <3>1. CASE lookup.what = "sip" /\ lookup.at = "done" BY <2>1, <3>1 DEF LookupInv, Sought
    <3>2. CASE ~(lookup.what = "sip" /\ lookup.at = "done") BY <3>2 DEF Routes!RoutesAsPublished
    <3> QED BY <3>1, <3>2
  <2>2. ASSUME kind = "dns", ManagerInv PROVE Nameservers!NameserversFollow
    BY <2>2 DEF ManagerInv, FreshProbe, NotAsked, ProbedWell, Nameservers!NameserversFollow
  <2> QED BY <2>1, <2>2 DEF NamesAsPublished
<1> QED BY <1>1, <1>2, <1>3, PTL DEF MCSpec
(***************************************************************************)
(* The media streams, with the facts of StreamProofs.                      *)
(***************************************************************************)
LEMMA ChatStep == ASSUME ChatInv, kind = "chat", [MCNext]_vars PROVE ChatInv' /\ [Contract!Next]_life
<1>1. CASE UNCHANGED vars
  <2>1. UNCHANGED <<life, slips, msrp, chat>> BY <1>1 DEF vars, streamVars
  <2> QED BY <2>1, ChatStays
<1>2. CASE MCNext
  <2>1. ChatNext BY <1>2 DEF MCNext, StreamNext, OfConference, OfReferral, OfMover, OfDNS, OfAudio
  <2> QED BY <2>1, ChatGoesOn
<1> QED BY <1>1, <1>2
\* A message that the application sends has one fate, whenever the stream ends or the peer answers:
\* ChatStreamDidDeliverMessage or ChatStreamDidNotDeliverMessage, once; and what is announced as a message
\* of the peer is all of one message.
THEOREM EachMessageAlwaysOnce == MCSpec => []EachMessageOnce
<1> DEFINE Inv == kind = "chat" => ChatInv
<1>1. MCInit => Inv BY ChatBegins DEF MCInit, StreamInit, OverMSRP
<1>2. Inv /\ [MCNext]_vars => Inv'
  <2> SUFFICES ASSUME Inv, [MCNext]_vars, kind' = "chat" PROVE ChatInv' OBVIOUS
  <2>1. kind = "chat" BY KindStays
  <2> QED BY <2>1, ChatStep
<1>3. Inv => EachMessageOnce
  <2>1. kind # "chat" => EachMessageOnce BY DEF EachMessageOnce
  <2> QED BY <2>1, MessagesOK
<1> QED BY <1>1, <1>2, <1>3, PTL DEF MCSpec
LEMMA TransferStep == ASSUME TransferInv, kind = "transfer", [MCNext]_vars PROVE TransferInv' /\ [Contract!Next]_life
<1>1. CASE UNCHANGED vars
  <2>1. UNCHANGED <<life, msrp, transfer>> BY <1>1 DEF vars, streamVars
  <2> QED BY <2>1, TransferStays
<1>2. CASE MCNext
  <2>1. TransferNext BY <1>2 DEF MCNext, StreamNext, OfConference, OfReferral, OfMover, OfDNS, OfAudio
  <2> QED BY <2>1, TransferGoesOnSoundly
<1> QED BY <1>1, <1>2
\* A transfer of a file has one outcome at most, whatever the thread, the peer and the session do and in which
\* order: it succeeds when the receiver has the whole file in its place, or the sender has sent every part that
\* was asked for as what it is, up to the last; and what a receiver has of a file that did not come is kept.
THEOREM TransferAlwaysAsTold == MCSpec => []TransferOutcome
<1> DEFINE Inv == kind = "transfer" => TransferInv
<1>1. MCInit => Inv BY TransferBegins DEF MCInit, StreamInit, OverMSRP
<1>2. Inv /\ [MCNext]_vars => Inv'
  <2> SUFFICES ASSUME Inv, [MCNext]_vars, kind' = "transfer" PROVE TransferInv' OBVIOUS
  <2>1. kind = "transfer" BY KindStays
  <2> QED BY <2>1, TransferStep
<1>3. Inv => TransferOutcome
  <2>1. kind # "transfer" => TransferOutcome BY DEF TransferOutcome
  <2>2. TransferInv => TransferOutcome BY OutcomeOK DEF TransferInv
  <2> QED BY <2>1, <2>2
<1> QED BY <1>1, <1>2, <1>3, PTL DEF MCSpec
LEMMA RTPStep == ASSUME RTPInv, kind = "rtp", [MCNext]_vars PROVE RTPInv' /\ [Contract!Next]_life
<1>1. CASE UNCHANGED vars
  <2>1. UNCHANGED <<life, slips, rtp, talk>> BY <1>1 DEF vars, streamVars
  <2> QED BY <2>1, RTPStays
<1>2. CASE MCNext
  <2>1. RTPNext BY <1>2 DEF MCNext, StreamNext, OfConference, OfReferral, OfMover, OfDNS, OfAudio
  <2> QED BY <2>1, RTPGoesOnSoundly
<1> QED BY <1>1, <1>2
\* Hold: between two re-INVITEs a stream that is on hold is out of its bridge, one that is not can be heard, and
\* the recorder follows, however often the application and the peer put the session on hold and off again and
\* however the calls fall between the offers and the answers, unless one of the slips has been taken.
THEOREM HoldAlwaysKept == MCSpec => []HoldIsKept
<1> DEFINE Inv == kind = "rtp" => RTPInv
<1>1. MCInit => Inv BY RTPBegins DEF MCInit, StreamInit
<1>2. Inv /\ [MCNext]_vars => Inv'
  <2> SUFFICES ASSUME Inv, [MCNext]_vars, kind' = "rtp" PROVE RTPInv' OBVIOUS
  <2>1. kind = "rtp" BY KindStays
  <2> QED BY <2>1, RTPStep
<1>3. Inv => HoldIsKept
  <2>1. kind # "rtp" => HoldIsKept BY DEF HoldIsKept
  <2> QED BY <2>1, HoldKept
<1> QED BY <1>1, <1>2, <1>3, PTL DEF MCSpec
LEMMA ScreenStep == ASSUME ScreenInv, kind = "screen", [MCNext]_vars PROVE ScreenInv' /\ [Contract!Next]_life
<1>1. CASE UNCHANGED vars
  <2>1. UNCHANGED <<life, msrp, screen>> BY <1>1 DEF vars, streamVars
  <2> QED BY <2>1, ScreenStays
<1>2. CASE MCNext
  <2>1. ScreenNext BY <1>2 DEF MCNext, StreamNext, OfConference, OfReferral, OfMover, OfDNS, OfAudio
  <2> QED BY <2>1, ScreenGoesOnSoundly
<1> QED BY <1>1, <1>2
\* Where no stream is concerned the session has none to know about.
LEMMA NoStreamStep ==
  ASSUME kind \notin {"chat", "transfer", "screen", "rtp"}, [MCNext]_vars
  PROVE  life' = life
<1>1. CASE UNCHANGED vars BY <1>1 DEF vars, streamVars
<1>2. CASE MCNext
  <2>1. ~StreamNext BY DEF StreamNext
  <2> QED BY <1>2, <2>1 DEF MCNext, OfConference, OfReferral, OfMover, OfDNS, OfAudio, streamVars
<1> QED BY <1>1, <1>2
\* Every kind of stream behaves as the session relies on: a call has one outcome, nothing starts that was not
\* asked to, what has failed stays so, and what comes after deactivate() is not heard.  Each step of a chat, of
\* a transfer, of a screen and of RTP is one of MediaStream or changes nothing of what the session knows.
THEOREM StreamsAlwaysAsAgreed == MCSpec => ImplementsMediaStream
<1> DEFINE Inv == /\ kind = "chat" => ChatInv
                  /\ kind = "transfer" => TransferInv
                  /\ kind = "screen" => ScreenInv
                  /\ kind = "rtp" => RTPInv
<1>1. MCInit => Inv /\ Contract!Init
  <2> SUFFICES ASSUME MCInit PROVE Inv /\ Contract!Init OBVIOUS
  <2>1. UserInit BY DEF MCInit, StreamInit, NoStream
  <2>2. life = "new" BY <2>1 DEF UserInit
  <2>3. kind = "chat" => ChatInv BY ChatBegins DEF MCInit, StreamInit, OverMSRP
  <2>4. kind = "transfer" => TransferInv BY TransferBegins DEF MCInit, StreamInit, OverMSRP
  <2>5. kind = "screen" => ScreenInv BY ScreenBegins DEF MCInit, StreamInit, OverMSRP
  <2>6. kind = "rtp" => RTPInv BY RTPBegins DEF MCInit, StreamInit
  <2> QED BY <2>2, <2>3, <2>4, <2>5, <2>6 DEF Contract!Init
<1>2. Inv /\ [MCNext]_vars => Inv' /\ [Contract!Next]_life
  <2> SUFFICES ASSUME Inv, [MCNext]_vars PROVE Inv' /\ [Contract!Next]_life OBVIOUS
  <2>1. kind' = kind BY KindStays
  <2>2. CASE kind = "chat" BY <2>1, <2>2, ChatStep
  <2>3. CASE kind = "transfer" BY <2>1, <2>3, TransferStep
  <2>4. CASE kind = "screen" BY <2>1, <2>4, ScreenStep
  <2>5. CASE kind = "rtp" BY <2>1, <2>5, RTPStep
  <2>6. CASE kind \notin {"chat", "transfer", "screen", "rtp"}
    <3>1. life' = life BY <2>6, NoStreamStep
    <3> QED BY <2>1, <2>6, <3>1
  <2> QED BY <2>2, <2>3, <2>4, <2>5, <2>6
<1> QED BY <1>1, <1>2, PTL DEF MCSpec, ImplementsMediaStream, Contract!Spec
=============================================================================
