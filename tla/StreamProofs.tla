---------------------------- MODULE StreamProofs ----------------------------
(***************************************************************************)
(* Facts about the media streams that the theorems of PartsProofs rest on, *)
(* for every value of the constants.  What the session believes of a       *)
(* stream over MSRP is what has become of its calls, whatever kind of      *)
(* stream it is; on that rest the messages of a chat, the parts of a file  *)
(* and the contract with the session.                                      *)
(***************************************************************************)
EXTENDS ChatStream, FileTransferStream, ScreenSharingStream, RTPStream, SequenceFacts

(***************************************************************************)
(* The green threads of a stream over MSRP, whatever its kind.             *)
(***************************************************************************)
Green == {"none", "initialize", "start"}
\* the calls that wait, in their order; an initialize() that was put off may even come behind the end()
Starts == {<<"start">>, <<"start", "end">>}
Beginnings == {<<"initialize">>, <<"initialize", "end">>, <<"end", "initialize">>}
WithEnd == {<<"end">>, <<"initialize", "end">>, <<"start", "end">>, <<"end", "initialize">>}
OnlyEnd == {<<>>, <<"end">>}
MSRPTypeOK ==
  /\ life \in {"new", "init", "ready", "starting", "on", "failed", "leaving", "over"}
  /\ msrp \in [jobs : Starts \cup Beginnings \cup WithEnd \cup OnlyEnd, greenlet : Green, initialized : BOOLEAN, done : BOOLEAN,
               connector : {"none", "prepared", "failed"}, session : {"none", "open", "lost", "closed"}, shutting : BOOLEAN,
               ending : {"no", "interrupting", "closing", "forgetting", "over"}, captured : BOOLEAN]
\* what the session believes of the stream is what has become of its calls
AsTheSessionKnows ==
  /\ life = "new" => msrp.jobs = <<>> /\ ~msrp.initialized
  /\ life = "init" => msrp.jobs \in {<<>>, <<"initialize">>} /\ ~msrp.initialized
  /\ life \in {"ready", "on", "failed"} => msrp.jobs = <<>>
  /\ life \in {"ready", "starting", "on"} => msrp.initialized
  /\ life = "starting" => (msrp.jobs = <<"start">> <=> msrp.greenlet = "none") /\ msrp.jobs \in {<<>>, <<"start">>}
  /\ life \notin {"init", "starting", "leaving", "over"} => msrp.greenlet = "none"
  /\ msrp.session # "none" => life \in {"on", "failed", "leaving", "over"}
  /\ msrp.jobs \in WithEnd \/ msrp.ending # "no" => life = "over"
\* the calls come one after the other
InOrder ==
  /\ msrp.jobs \in Starts \/ msrp.greenlet = "start" => msrp.initialized /\ msrp.session = "none"
  /\ msrp.jobs \in Beginnings \/ msrp.greenlet = "initialize" => ~msrp.initialized /\ msrp.session = "none"
  /\ msrp.greenlet # "none" => msrp.jobs \in OnlyEnd
  /\ msrp.session # "none" => msrp.initialized
\* an end comes once, and what waits then
EndsInOrder ==
  /\ msrp.done <=> msrp.ending # "no"
  /\ msrp.ending # "no" => msrp.jobs \notin WithEnd \cup Starts
  /\ msrp.ending \in {"interrupting", "closing", "forgetting"} => msrp.jobs = <<>>
  /\ msrp.ending \in {"closing", "forgetting"} => msrp.initialized
  /\ msrp.ending = "interrupting" => msrp.session = "none"
  /\ msrp.ending \in {"interrupting", "over"} => msrp.greenlet # "start"
  /\ msrp.ending = "forgetting" => msrp.greenlet = "none"
MSRPInv == MSRPTypeOK /\ AsTheSessionKnows /\ InOrder /\ EndsInOrder
Jobs == Starts \cup Beginnings \cup WithEnd \cup OnlyEnd
\* What becomes of the calls that wait when one is made and when one is begun.
LEMMA JobsGo ==
  /\ Append(<<>>, "initialize") = <<"initialize">> /\ Append(<<>>, "start") = <<"start">>
  /\ Append(<<"end">>, "initialize") = <<"end", "initialize">>
  /\ Append(<<>>, "end") = <<"end">> /\ Append(<<"initialize">>, "end") = <<"initialize", "end">>
  /\ Append(<<"start">>, "end") = <<"start", "end">>
<1> DEFINE C == {"initialize", "start", "end"}
<1>1. ASSUME NEW a \in C PROVE Append(<<>>, a) = <<a>> OBVIOUS
<1>2. ASSUME NEW a \in C, NEW b \in C PROVE Append(<<a>>, b) = <<a, b>>
  <2>1. Append(<<a>>, b) \in Seq(C) /\ <<a, b>> \in Seq(C) OBVIOUS
  <2>2. Len(Append(<<a>>, b)) = 2 /\ Len(<<a, b>>) = 2 OBVIOUS
  <2>3. \A i \in 1..2 : Append(<<a>>, b)[i] = <<a, b>>[i] OBVIOUS
  <2> QED BY <2>1, <2>2, <2>3, SeqEqual
<1> QED BY <1>1, <1>2
LEMMA JobsBegin ==
  ASSUME NEW q \in Jobs, q # <<>>
  PROVE  /\ Head(q) = "initialize" => q \in Beginnings \ {<<"end", "initialize">>} /\ Tail(q) \in OnlyEnd
                                      /\ (Tail(q) \in WithEnd <=> q \in WithEnd)
         /\ Head(q) = "start" => q \in Starts /\ Tail(q) \in OnlyEnd /\ (Tail(q) \in WithEnd <=> q \in WithEnd)
         /\ Head(q) = "end" => q \in {<<"end">>, <<"end", "initialize">>} /\ Tail(q) \in {<<>>, <<"initialize">>}
                               /\ (Tail(q) = <<>> <=> q = <<"end">>)
<1> DEFINE C == {"initialize", "start", "end"}
<1>1. ASSUME NEW a \in C, NEW b \in C
      PROVE  Head(<<a>>) = a /\ Tail(<<a>>) = <<>> /\ Head(<<a, b>>) = a /\ Tail(<<a, b>>) = <<b>>
  OBVIOUS
<1>2. ASSUME NEW a \in C, NEW b \in C, NEW c \in C, NEW d \in C
      PROVE  <<a>> # <<>> /\ <<a, b>> # <<>> /\ <<c>> # <<a, b>> /\ (<<c>> = <<a>> <=> c = a) /\ (<<c, d>> = <<a, b>> <=> c = a /\ d = b)
  OBVIOUS
<1>3. \/ q = <<"initialize">> \/ q = <<"start">> \/ q = <<"end">> \/ q = <<"initialize", "end">> \/ q = <<"start", "end">>
      \/ q = <<"end", "initialize">>
  BY DEF Jobs, Starts, Beginnings, WithEnd, OnlyEnd
<1>4. CASE q = <<"initialize">> BY <1>4, <1>1, <1>2 DEF Starts, Beginnings, WithEnd, OnlyEnd
<1>5. CASE q = <<"start">> BY <1>5, <1>1, <1>2 DEF Starts, Beginnings, WithEnd, OnlyEnd
<1>6. CASE q = <<"end">> BY <1>6, <1>1, <1>2 DEF Starts, Beginnings, WithEnd, OnlyEnd
<1>7. CASE q = <<"initialize", "end">> BY <1>7, <1>1, <1>2 DEF Starts, Beginnings, WithEnd, OnlyEnd
<1>8. CASE q = <<"start", "end">> BY <1>8, <1>1, <1>2 DEF Starts, Beginnings, WithEnd, OnlyEnd
<1>9. CASE q = <<"end", "initialize">> BY <1>9, <1>1, <1>2 DEF Starts, Beginnings, WithEnd, OnlyEnd
<1> QED BY <1>3, <1>4, <1>5, <1>6, <1>7, <1>8, <1>9
\* The kinds of queues, one from the other.
LEMMA JobsKinds ==
  /\ <<>> \in OnlyEnd /\ <<>> \notin Starts \cup Beginnings \cup WithEnd
  /\ <<"initialize">> \in Beginnings /\ <<"initialize">> \notin Starts \cup WithEnd \cup OnlyEnd
  /\ <<"start">> \in Starts /\ <<"start">> \notin Beginnings \cup WithEnd \cup OnlyEnd
  /\ <<"end">> \in OnlyEnd /\ <<"end">> \in WithEnd /\ <<"end">> \notin Starts \cup Beginnings
  /\ <<"initialize", "end">> \in Beginnings /\ <<"initialize", "end">> \in WithEnd /\ <<"initialize", "end">> \notin Starts \cup OnlyEnd
  /\ <<"end", "initialize">> \in Beginnings /\ <<"end", "initialize">> \in WithEnd /\ <<"end", "initialize">> \notin Starts \cup OnlyEnd
  /\ <<"start", "end">> \in Starts /\ <<"start", "end">> \in WithEnd /\ <<"start", "end">> \notin Beginnings \cup OnlyEnd
  /\ \A q \in OnlyEnd : (q = <<>> \/ q \in WithEnd) /\ q \notin Starts \cup Beginnings
  /\ \A q \in Starts : (q = <<"start">> \/ q \in WithEnd) /\ q \notin OnlyEnd \cup Beginnings
  /\ \A q \in Beginnings : (q = <<"initialize">> \/ q \in WithEnd) /\ q \notin Starts \cup OnlyEnd
<1> DEFINE C == {"initialize", "start", "end"}
<1>1. ASSUME NEW a \in C, NEW b \in C, NEW c \in C, NEW d \in C
      PROVE  <<a>> # <<>> /\ <<a, b>> # <<>> /\ <<c>> # <<a, b>> /\ (<<c>> = <<a>> <=> c = a) /\ (<<c, d>> = <<a, b>> <=> c = a /\ d = b)
  OBVIOUS
<1> QED BY <1>1 DEF Starts, Beginnings, WithEnd, OnlyEnd

LEMMA JobsDiffer == <<"end", "initialize">> \notin {<<>>, <<"end">>, <<"initialize">>, <<"start">>, <<"initialize", "end">>, <<"start", "end">>}
<1> DEFINE C == {"initialize", "start", "end"}
<1>1. ASSUME NEW a \in C, NEW b \in C, NEW c \in C, NEW d \in C
      PROVE  <<a, b>> # <<>> /\ <<c>> # <<a, b>> /\ (<<c, d>> = <<a, b>> <=> c = a /\ d = b)
  OBVIOUS
<1> QED BY <1>1

MSRPSteps ==
  \/ DoInitialize \/ DoStart \/ DoDeactivate \/ DoEnd \/ Resuming \/ Initialized \/ NotInitialized \/ Started \/ NotStarted
  \/ WillEnd \/ EndsUninitialized \/ Interrupted \/ Closes \/ Forgets \/ ConnectionLost
\* Every step of the stream keeps this, and the session sees what it relies on.
LEMMA MSRPGoesOnSoundly ==
  ASSUME MSRPInv, MSRPSteps
  PROVE  MSRPInv' /\ [Contract!Next]_life
<1> DEFINE Life == {"new", "init", "ready", "starting", "on", "failed", "leaving", "over"}
           Types == [jobs : Jobs, greenlet : Green, initialized : BOOLEAN, done : BOOLEAN,
                     connector : {"none", "prepared", "failed"}, session : {"none", "open", "lost", "closed"}, shutting : BOOLEAN,
                     ending : {"no", "interrupting", "closing", "forgetting", "over"}, captured : BOOLEAN]
<1>0. life \in Life /\ msrp \in Types BY DEF MSRPInv, MSRPTypeOK, Jobs
<1>t. ASSUME life' \in Life, msrp' \in Types, AsTheSessionKnows', InOrder', EndsInOrder', [Contract!Next]_life
      PROVE  MSRPInv' /\ [Contract!Next]_life
  BY <1>t DEF MSRPInv, MSRPTypeOK, Jobs
<1> USE DEF MSRPInv
<1>1. CASE DoInitialize
  <2>1. life = "new" /\ life' = "init" /\ msrp.jobs = <<>> BY <1>1 DEF DoInitialize, CallInitialize, Calls, AsTheSessionKnows
  <2>2. msrp' = [msrp EXCEPT !.jobs = <<"initialize">>] BY <1>1, <2>1, JobsGo DEF DoInitialize, Later
  <2>3. <<"initialize">> \in Jobs BY JobsKinds DEF Jobs
  <2>4. msrp' \in Types BY <1>0, <2>2, <2>3
  <2>5. AsTheSessionKnows' BY <1>0, <2>1, <2>2, JobsKinds DEF AsTheSessionKnows
  <2>6. InOrder' BY <1>0, <2>1, <2>2, JobsKinds DEF InOrder, AsTheSessionKnows
  <2>7. EndsInOrder' BY <1>0, <2>1, <2>2, JobsKinds DEF EndsInOrder, AsTheSessionKnows
  <2>8. [Contract!Next]_life BY <2>1 DEF Contract!Next, Contract!Initialize, Contract!Becomes
  <2> QED BY <1>t, <2>1, <2>4, <2>5, <2>6, <2>7, <2>8
<1>2. CASE DoStart
  <2>1. life = "ready" /\ life' = "starting" /\ msrp.jobs = <<>> BY <1>2 DEF DoStart, CallStart, Calls, AsTheSessionKnows
  <2>2. msrp' = [msrp EXCEPT !.jobs = <<"start">>] BY <1>2, <2>1, JobsGo DEF DoStart, Later
  <2>3. <<"start">> \in Jobs BY JobsKinds DEF Jobs
  <2>4. msrp' \in Types BY <1>0, <2>2, <2>3
  <2>5. AsTheSessionKnows' BY <1>0, <2>1, <2>2, JobsKinds DEF AsTheSessionKnows
  <2>6. InOrder' BY <1>0, <2>1, <2>2, JobsKinds DEF InOrder, AsTheSessionKnows
  <2>7. EndsInOrder' BY <1>0, <2>1, <2>2, JobsKinds DEF EndsInOrder, AsTheSessionKnows
  <2>8. [Contract!Next]_life BY <2>1 DEF Contract!Next, Contract!Start, Contract!Becomes
  <2> QED BY <1>t, <2>1, <2>4, <2>5, <2>6, <2>7, <2>8
<1>3. CASE DoDeactivate
  <2>1. life \in {"init", "ready", "starting", "on", "failed"} /\ life' = "leaving" /\ msrp' = [msrp EXCEPT !.shutting = TRUE]
    BY <1>3 DEF DoDeactivate, CallDeactivate, Calls
  <2>4. msrp' \in Types BY <1>0, <2>1
  <2>5. AsTheSessionKnows' BY <1>0, <2>1 DEF AsTheSessionKnows
  <2>6. InOrder' BY <1>0, <2>1 DEF InOrder
  <2>7. EndsInOrder' BY <1>0, <2>1 DEF EndsInOrder
  <2>8. [Contract!Next]_life BY <2>1 DEF Contract!Next, Contract!Deactivate, Contract!Becomes
  <2> QED BY <1>t, <2>1, <2>4, <2>5, <2>6, <2>7, <2>8
<1>4. CASE DoEnd
  <2>1. life = "leaving" /\ life' = "over" /\ msrp.jobs \notin WithEnd /\ msrp.ending = "no"
    BY <1>4 DEF DoEnd, CallEnd, Calls, AsTheSessionKnows
  <2>2. msrp.jobs \in {<<>>, <<"initialize">>, <<"start">>} BY <1>0, <2>1, JobsKinds DEF Jobs
  <2> DEFINE new == Append(msrp.jobs, "end")
  <2>3. /\ new \in Jobs /\ new \in WithEnd /\ (new \in Starts <=> msrp.jobs \in Starts) /\ (new \in OnlyEnd <=> msrp.jobs \in OnlyEnd)
        /\ (new \in Beginnings <=> msrp.jobs \in Beginnings)
    BY <2>2, JobsGo, JobsKinds DEF Jobs
  <2>a. msrp' = [msrp EXCEPT !.jobs = new] BY <1>4 DEF DoEnd, Later
  <2> HIDE DEF new
  <2>4. msrp' \in Types BY <1>0, <2>3, <2>a
  <2>5. AsTheSessionKnows' BY <1>0, <2>1, <2>a DEF AsTheSessionKnows
  <2>6. InOrder' BY <1>0, <2>3, <2>a DEF InOrder
  <2>7. EndsInOrder' BY <1>0, <2>1, <2>a DEF EndsInOrder
  <2>8. [Contract!Next]_life BY <2>1 DEF Contract!Next, Contract!End, Contract!Becomes
  <2> QED BY <1>t, <2>1, <2>4, <2>5, <2>6, <2>7, <2>8
\* the green threads, in their order
<1>5. CASE RunInitialize \/ RunStart
  <2> DEFINE rest == Tail(msrp.jobs)
             green == IF RunInitialize THEN "initialize" ELSE "start"
  <2>1. /\ life' = life /\ msrp' = [msrp EXCEPT !.jobs = rest, !.greenlet = green] /\ msrp.jobs # <<>> /\ Head(msrp.jobs) = green
    BY <1>5, JobsKinds DEF RunInitialize, RunStart, Takes, Rest, Silent
  <2>2. green \in {"initialize", "start"} OBVIOUS
  <2> HIDE DEF rest, green
  <2>3. /\ green = "initialize" => msrp.jobs \in Beginnings
        /\ green = "start" => msrp.jobs \in Starts
        /\ rest \in OnlyEnd /\ (rest \in WithEnd <=> msrp.jobs \in WithEnd)
    BY <1>0, <2>1, <2>2, JobsBegin DEF rest
  <2>4. msrp' \in Types BY <1>0, <2>1, <2>2, <2>3 DEF Jobs, Green
  <2>5. rest \notin Starts \cup Beginnings /\ (rest = <<>> \/ rest \in WithEnd) BY <2>3, JobsKinds
  <2>6. msrp.jobs \in Starts \cup Beginnings /\ msrp.jobs # <<>> BY <2>2, <2>3, JobsKinds
  <2>7. life \in {"init", "starting", "leaving", "over"} BY <1>0, <2>6 DEF AsTheSessionKnows
  <2>8. AsTheSessionKnows'
    <3>1. life = "starting" => green = "start" /\ rest = <<>>
      BY <1>0, <2>2, <2>3, <2>5, <2>6, JobsKinds DEF AsTheSessionKnows
    <3>2. rest \in WithEnd => life = "over" BY <2>3 DEF AsTheSessionKnows
    <3>3. life = "init" => green = "initialize" /\ rest = <<>>
      BY <1>0, <2>2, <2>3, <2>5, <2>6, JobsKinds DEF AsTheSessionKnows
    <3> QED BY <1>0, <2>1, <2>2, <2>5, <2>7, <3>1, <3>2, <3>3 DEF AsTheSessionKnows
  <2>9. InOrder' BY <1>0, <2>1, <2>2, <2>3, <2>5 DEF InOrder
  <2>10. EndsInOrder' BY <1>0, <2>1, <2>2, <2>3, <2>5, <2>6 DEF EndsInOrder
  <2> QED BY <1>0, <1>t, <2>1, <2>4, <2>8, <2>9, <2>10
<1>6. CASE Initialized \/ NotInitialized
  <2> DEFINE how == IF Initialized THEN "prepared" ELSE "failed"
  <2>1. /\ msrp' = [msrp EXCEPT !.greenlet = "none", !.initialized = TRUE, !.connector = how] /\ msrp.greenlet = "initialize"
        /\ life' = IF life \in {"leaving", "over"} THEN life ELSE IF Initialized THEN "ready" ELSE "failed"
    BY <1>6 DEF Initialized, NotInitialized, Waits, Prepared, Tell, Over
  <2>2. how \in {"prepared", "failed"} OBVIOUS
  <2> HIDE DEF how
  <2>3. msrp' \in Types BY <1>0, <2>1, <2>2 DEF Green
  <2>4. msrp.jobs \in OnlyEnd /\ ~msrp.initialized /\ msrp.session = "none" /\ msrp.jobs \notin Starts \cup Beginnings
    BY <2>1, JobsKinds DEF InOrder
  <2>5. life \in {"init", "leaving", "over"} BY <1>0, <2>1, <2>4 DEF AsTheSessionKnows
  <2>6. life = "init" => msrp.jobs = <<>> BY <2>4, JobsKinds DEF AsTheSessionKnows
  <2>7. AsTheSessionKnows' BY <1>0, <2>1, <2>4, <2>5, <2>6 DEF AsTheSessionKnows
  <2>8. InOrder' BY <1>0, <2>1, <2>4 DEF InOrder
  <2>9. EndsInOrder' BY <1>0, <2>1, <2>4 DEF EndsInOrder
  <2>10. [Contract!Next]_life
    BY <2>1, <2>5 DEF Contract!Next, Contract!Initialized, Contract!NotInitialized, Contract!Becomes
  <2> QED BY <1>t, <2>1, <2>3, <2>5, <2>7, <2>8, <2>9, <2>10
<1>7. CASE Started \/ NotStarted
  <2>1. /\ \/ msrp' = [msrp EXCEPT !.greenlet = "none", !.connector = "none", !.session = "open"]
           \/ msrp' = [msrp EXCEPT !.greenlet = "none"]
        /\ msrp.greenlet = "start" /\ life' = IF life \in {"leaving", "over"} THEN life ELSE IF Started THEN "on" ELSE "failed"
    BY <1>7 DEF Started, NotStarted, Waits, Tell, Over
  <2>3. msrp' \in Types BY <1>0, <2>1 DEF Green
  <2>4. msrp.jobs \in OnlyEnd /\ msrp.initialized /\ msrp.session = "none" /\ msrp.jobs \notin Starts \cup Beginnings
    BY <2>1, JobsKinds DEF InOrder
  <2>5. life \in {"starting", "leaving", "over"} BY <1>0, <2>1, <2>4 DEF AsTheSessionKnows
  <2>6. life = "starting" => msrp.jobs = <<>> BY <2>4, JobsKinds DEF AsTheSessionKnows
  <2>7. AsTheSessionKnows' BY ZenonT(60), <1>0, <2>1, <2>4, <2>5, <2>6 DEF AsTheSessionKnows
  <2>8. InOrder' BY <1>0, <2>1, <2>4 DEF InOrder
  <2>9. EndsInOrder' BY ZenonT(60), <1>0, <2>1, <2>4 DEF EndsInOrder
  <2>10. [Contract!Next]_life BY <2>1, <2>5 DEF Contract!Next, Contract!Started, Contract!Fails, Contract!Becomes
  <2> QED BY <1>t, <2>1, <2>3, <2>5, <2>7, <2>8, <2>9, <2>10
\* the end
<1>8. CASE Interrupts \/ WillEnd \/ EndsUninitialized
  <2> DEFINE rest == Tail(msrp.jobs)
             open == msrp.session = "open"
  <2>1. /\ \E how \in {"interrupting", "closing", "over"} :
             /\ msrp' = [msrp EXCEPT !.jobs = rest, !.done = TRUE, !.ending = how, !.captured = open]
             /\ how = "interrupting" => ~msrp.initialized /\ msrp.greenlet = "initialize"
             /\ how = "closing" => msrp.initialized
             /\ how = "over" => ~msrp.initialized /\ msrp.greenlet = "none"
        /\ msrp.jobs # <<>> /\ Head(msrp.jobs) = "end"
    BY <1>8, JobsKinds DEF Interrupts, WillEnd, EndsUninitialized, Takes, Waits, Ending, Rest
  <2>2. open \in BOOLEAN OBVIOUS
  <2>a. Interrupts \/ life' = IF life \in {"leaving", "over"} THEN life ELSE IF WillEnd THEN life ELSE "failed"
    BY <1>8 DEF WillEnd, EndsUninitialized, Tell, Over
  <2>b. Interrupts => life' = life BY DEF Interrupts, Silent
  <2> HIDE DEF rest, open
  <2>3. msrp.jobs \in {<<"end">>, <<"end", "initialize">>} /\ rest \in {<<>>, <<"initialize">>} /\ (rest = <<>> <=> msrp.jobs = <<"end">>)
    BY <1>0, <2>1, JobsBegin DEF rest
  <2>4. /\ msrp.jobs \in WithEnd /\ rest \in Jobs /\ rest \notin WithEnd \cup Starts
        /\ rest = <<>> \/ (rest = <<"initialize">> /\ msrp.jobs \in Beginnings /\ rest \in Beginnings)
    BY <2>3, JobsKinds DEF Jobs
  <2>5. life = "over" BY <2>4 DEF AsTheSessionKnows
  <2>6. life' = life BY <2>a, <2>b, <2>5
  <2>7. msrp' \in Types BY <1>0, <2>1, <2>2, <2>4
  <2>8. AsTheSessionKnows' BY <1>0, <2>1, <2>5, <2>6 DEF AsTheSessionKnows
  <2>9. rest # <<>> => ~msrp.initialized /\ msrp.session = "none" /\ msrp.greenlet = "none"
    BY <1>0, <2>4, JobsKinds DEF InOrder
  <2>10. InOrder' BY <1>0, <2>1, <2>4, <2>9, JobsKinds DEF InOrder
  <2>11. EndsInOrder' BY <1>0, <2>1, <2>4, <2>9 DEF EndsInOrder, InOrder
  <2> QED BY <1>0, <1>t, <2>6, <2>7, <2>8, <2>10, <2>11
<1>9. CASE GreenletDies
  <2>1. /\ msrp.ending \in {"interrupting", "closing"} /\ msrp' = [msrp EXCEPT !.greenlet = "none", !.initialized = TRUE] /\ life' = life
    BY <1>9 DEF GreenletDies, Silent
  <2>2. life = "over" /\ msrp.jobs = <<>> BY <2>1 DEF AsTheSessionKnows, EndsInOrder
  <2>3. msrp' \in Types BY <1>0, <2>1 DEF Green
  <2>4. AsTheSessionKnows' BY <1>0, <2>1, <2>2 DEF AsTheSessionKnows
  <2>5. InOrder' BY <1>0, <2>1, <2>2, JobsKinds DEF InOrder
  <2>6. EndsInOrder' BY <1>0, <2>1 DEF EndsInOrder
  <2> QED BY <1>0, <1>t, <2>1, <2>3, <2>4, <2>5, <2>6
<1>10. CASE Interrupted \/ Closes \/ Forgets
  <2>1. /\ msrp.ending \in {"interrupting", "closing", "forgetting"}
        /\ \/ msrp' = [msrp EXCEPT !.ending = "over"] /\ msrp.greenlet # "start"
           \/ \E s \in {"closed", msrp.session} :
                /\ msrp' = [msrp EXCEPT !.ending = "forgetting", !.connector = "none", !.session = s]
                /\ msrp.ending = "closing" /\ msrp.greenlet = "none"
    BY <1>10 DEF Interrupted, Closes, Forgets, Waits, EndsInOrder
  <2>2. life = "over" /\ msrp.jobs = <<>> BY <2>1 DEF AsTheSessionKnows, EndsInOrder
  <2>3. life' = life BY <1>10, <2>2 DEF Interrupted, Closes, Forgets, Tell, Over, Silent
  <2>4. msrp' \in Types BY <1>0, <2>1
  <2>5. AsTheSessionKnows' BY <1>0, <2>1, <2>2, <2>3 DEF AsTheSessionKnows
  <2>6. InOrder' BY ZenonT(60), <1>0, <2>1, <2>2, JobsKinds DEF InOrder, EndsInOrder
  <2>7. EndsInOrder' BY <1>0, <2>1 DEF EndsInOrder
  <2> QED BY <1>0, <1>t, <2>3, <2>4, <2>5, <2>6, <2>7
<1>11. CASE ConnectionLost
  <2>1. /\ msrp.session = "open" /\ msrp' = [msrp EXCEPT !.session = "lost"]
        /\ life' = life \/ (life' = "failed" /\ life \notin {"leaving", "over"})
    BY <1>11 DEF ConnectionLost, Silent, Tell, Over
  <2>2. life \in {"on", "failed", "leaving", "over"} BY <2>1 DEF AsTheSessionKnows
  <2>3. msrp' \in Types BY <1>0, <2>1
  <2>4. AsTheSessionKnows' BY <1>0, <2>1, <2>2 DEF AsTheSessionKnows
  <2>5. InOrder' BY <1>0, <2>1 DEF InOrder
  <2>6. EndsInOrder' BY <1>0, <2>1 DEF EndsInOrder
  <2>7. [Contract!Next]_life BY <2>1, <2>2 DEF Contract!Next, Contract!Fails, Contract!Becomes
  <2> QED BY <1>0, <1>t, <2>1, <2>3, <2>4, <2>5, <2>6, <2>7
<1> QED BY <1>1, <1>2, <1>3, <1>4, <1>5, <1>6, <1>7, <1>8, <1>9, <1>10, <1>11 DEF MSRPSteps, Resuming
\* What is not given back: a connection, a way of losing something, an end.
LEMMA MSRPMovesOn ==
  ASSUME MSRPInv, MSRPSteps
  PROVE  /\ slips \subseteq slips' /\ (msrp.session # "none" => msrp'.session # "none") /\ kind' = kind
         /\ msrp.jobs # <<"end", "initialize">> => msrp'.jobs # <<"end", "initialize">>
         /\ msrp'.ending \in {"forgetting", "over"} => \/ msrp'.ending = msrp.ending
                                                      \/ Closes \/ Forgets \/ Interrupted \/ EndsUninitialized
         /\ msrp.ending = "over" /\ msrp.greenlet = "none" /\ msrp.jobs = <<>> =>
              msrp'.ending = "over" /\ msrp'.greenlet = "none" /\ msrp'.jobs = <<>>
<1>0. /\ life \in {"new", "init", "ready", "starting", "on", "failed", "leaving", "over"} /\ msrp.jobs \in Jobs
      /\ msrp \in [jobs : Jobs, greenlet : Green, initialized : BOOLEAN, done : BOOLEAN,
                   connector : {"none", "prepared", "failed"}, session : {"none", "open", "lost", "closed"}, shutting : BOOLEAN,
                   ending : {"no", "interrupting", "closing", "forgetting", "over"}, captured : BOOLEAN]
      /\ AsTheSessionKnows
  BY DEF MSRPInv, MSRPTypeOK, Jobs
<1>1. CASE DoInitialize \/ DoStart \/ DoDeactivate \/ DoEnd
  <2>1. life # "over" /\ slips' = slips /\ kind' = kind
    BY <1>1 DEF DoInitialize, DoStart, DoDeactivate, DoEnd, CallInitialize, CallStart, CallDeactivate, CallEnd, Calls
  <2>2. msrp.ending = "no" BY <1>0, <2>1 DEF AsTheSessionKnows
  <2>3. \/ msrp' = [msrp EXCEPT !.shutting = TRUE]
        \/ life \in {"new", "ready"} /\ (msrp' = [msrp EXCEPT !.jobs = Append(@, "initialize")] \/ msrp' = [msrp EXCEPT !.jobs = Append(@, "start")])
        \/ life = "leaving" /\ msrp' = [msrp EXCEPT !.jobs = Append(@, "end")]
    BY <1>1 DEF DoInitialize, DoStart, DoDeactivate, DoEnd, CallInitialize, CallStart, CallDeactivate, CallEnd, Calls, Later
  <2>4. msrp'.ending = "no" /\ msrp'.session = msrp.session BY <1>0, <2>2, <2>3
  <2>5. ASSUME msrp.jobs # <<"end", "initialize">> PROVE msrp'.jobs # <<"end", "initialize">>
    <3>1. CASE msrp' = [msrp EXCEPT !.shutting = TRUE] BY <1>0, <2>5, <3>1
    <3>2. CASE life \in {"new", "ready"} /\ msrp' # [msrp EXCEPT !.shutting = TRUE]
      <4>1. msrp.jobs = <<>> BY <1>0, <3>2 DEF AsTheSessionKnows
      <4>2. msrp'.jobs = <<"initialize">> \/ msrp'.jobs = <<"start">> BY <1>0, <2>3, <3>2, <4>1, JobsGo
      <4> QED BY <4>2, JobsKinds
    <3>3. CASE life = "leaving" /\ msrp' # [msrp EXCEPT !.shutting = TRUE]
      <4>1. msrp.jobs \notin WithEnd BY <1>0, <3>3 DEF AsTheSessionKnows
      <4>2. msrp.jobs \in {<<>>, <<"initialize">>, <<"start">>} BY <1>0, <4>1, JobsKinds DEF Jobs
      <4>3. msrp'.jobs = Append(msrp.jobs, "end") BY <1>0, <2>3, <3>3
      <4>4. msrp'.jobs \in {<<"end">>, <<"initialize", "end">>, <<"start", "end">>} BY <4>2, <4>3, JobsGo
      <4> QED BY <4>4, JobsDiffer
    <3> QED BY <2>3, <3>1, <3>2, <3>3
  <2> QED BY <2>1, <2>2, <2>4, <2>5
<1>2. CASE RunInitialize \/ RunStart \/ Interrupts \/ WillEnd \/ EndsUninitialized
  <2>1. /\ slips' = slips /\ kind' = kind /\ msrp.jobs # <<>> /\ Head(msrp.jobs) \in {"initialize", "start", "end"}
        /\ msrp'.jobs = Tail(msrp.jobs) /\ msrp'.session = msrp.session
    BY ZenonT(60), <1>0, <1>2, JobsKinds DEF RunInitialize, RunStart, Interrupts, WillEnd, EndsUninitialized, Silent, Tell, Takes, Rest, Ending
  <2>2. EndsUninitialized \/ msrp'.ending = msrp.ending \/ msrp'.ending \in {"interrupting", "closing"}
    BY <1>0, <1>2 DEF RunInitialize, RunStart, Interrupts, WillEnd, Ending
  <2>3. Tail(msrp.jobs) \in {<<>>, <<"end">>, <<"initialize">>} BY <1>0, <2>1, JobsBegin DEF OnlyEnd
  <2>4. msrp'.jobs # <<"end", "initialize">> BY <2>1, <2>3, JobsKinds
  <2> QED BY <2>1, <2>2, <2>4
<1>3. CASE Initialized \/ NotInitialized \/ Started \/ NotStarted \/ GreenletDies
  <2>1. /\ slips \subseteq slips' /\ kind' = kind /\ msrp.greenlet # "none" /\ msrp'.jobs = msrp.jobs /\ msrp'.ending = msrp.ending
        /\ msrp'.session = msrp.session \/ msrp'.session = "open"
    BY <1>0, <1>3 DEF Initialized, NotInitialized, Started, NotStarted, GreenletDies, Waits, Prepared, Tell, Silent
  <2> QED BY <2>1
<1>4. CASE Interrupted \/ Closes \/ Forgets
  <2>1. /\ slips' = slips /\ kind' = kind /\ msrp'.jobs = msrp.jobs /\ msrp.ending \in {"interrupting", "closing", "forgetting"}
        /\ msrp'.session = msrp.session \/ msrp'.session = "closed"
    BY <1>0, <1>4 DEF Interrupted, Closes, Forgets, Tell, Silent
  <2> QED BY <1>4, <2>1
<1>5. CASE ConnectionLost
  <2>1. /\ slips' = slips /\ kind' = kind /\ msrp' = [msrp EXCEPT !.session = "lost"]
    BY <1>5 DEF ConnectionLost, Tell, Silent
  <2> QED BY <1>0, <2>1
<1> QED BY <1>1, <1>2, <1>3, <1>4, <1>5 DEF MSRPSteps, Resuming
\* The stream begins with nothing asked of it.
LEMMA MSRPBegins == ASSUME UserInit, MSRPInit PROVE MSRPInv
<1>1. MSRPTypeOK BY JobsKinds DEF UserInit, MSRPInit, MSRPTypeOK, Green
<1>2. AsTheSessionKnows BY JobsKinds DEF UserInit, MSRPInit, AsTheSessionKnows
<1>3. InOrder BY JobsKinds DEF UserInit, MSRPInit, InOrder
<1>4. EndsInOrder BY DEF UserInit, MSRPInit, EndsInOrder
<1> QED BY <1>1, <1>2, <1>3, <1>4 DEF MSRPInv
(***************************************************************************)
(* Chat: where each message is.                                            *)
(***************************************************************************)
NoTwice(q) == \A i, j \in DOMAIN q : q[i] = q[j] => i = j
Within(m, q) == \E i \in DOMAIN q : q[i] = m
ChatTypeOK ==
  /\ chat \in [asked : SUBSET Messages, posted : Seq(Messages), queue : Seq(Messages), sent : SUBSET Messages,
               thread : {"none", "run", "dying"}, encryption : BOOLEAN, fates : [Messages -> {0, 1}],
               stored : Nat, flown : Nat, whole : BOOLEAN]
  /\ chat.whole /\ chat.stored = chat.flown
\* a message that waits somewhere waits there only, and its fate is not told yet
OnePlace ==
  /\ NoTwice(chat.posted) /\ NoTwice(chat.queue)
  /\ \A m \in Messages :
       /\ m \notin chat.asked => ~Within(m, chat.posted) /\ ~Within(m, chat.queue) /\ m \notin chat.sent /\ chat.fates[m] = 0
       /\ Within(m, chat.posted) => ~Within(m, chat.queue) /\ m \notin chat.sent /\ chat.fates[m] = 0
       /\ Within(m, chat.queue) => m \notin chat.sent /\ chat.fates[m] = 0
       /\ m \in chat.sent => chat.fates[m] = 0
\* ... and what waits nowhere has been told
NoneLost ==
  slips = {} => \A m \in chat.asked :
    Within(m, chat.posted) \/ Within(m, chat.queue) \/ m \in chat.sent \/ chat.fates[m] = 1
\* after the end nothing waits to be sent
NothingLeft ==
  /\ chat.thread = "none" => chat.sent = {}
  /\ chat.thread # "none" => msrp.session # "none"
  /\ msrp.jobs # <<"end", "initialize">>
  /\ msrp.ending \in {"forgetting", "over"} => chat.thread \in {"none", "dying"} /\ (chat.thread = "none" => chat.queue = <<>>)
  /\ msrp.ending = "over" => chat.thread = "none" /\ msrp.greenlet = "none" /\ msrp.jobs = <<>>
ChatInv == MSRPInv /\ ChatTypeOK /\ OnePlace /\ NoneLost /\ NothingLeft
LEMMA FirstGoes ==
  ASSUME NEW S, NEW q \in Seq(S), q # <<>>, NoTwice(q)
  PROVE  /\ Head(q) \in S /\ Tail(q) \in Seq(S) /\ NoTwice(Tail(q)) /\ Within(Head(q), q) /\ ~Within(Head(q), Tail(q))
         /\ \A m : Within(m, q) <=> m = Head(q) \/ Within(m, Tail(q))
<1>1. /\ Len(q) \in Nat \ {0} /\ Head(q) = q[1] /\ DOMAIN q = 1..Len(q) /\ Tail(q) \in Seq(S) /\ DOMAIN Tail(q) = 1..(Len(q) - 1)
      /\ \A i \in 1..(Len(q) - 1) : Tail(q)[i] = q[i + 1]
  BY EmptySeq
<1>2. \A i \in 1..(Len(q) - 1) : i + 1 \in 1..Len(q) /\ i + 1 # 1 BY <1>1
<1>3. NoTwice(Tail(q)) BY <1>1, <1>2 DEF NoTwice
<1>4. Within(Head(q), q) BY <1>1 DEF Within
<1>5. ~Within(Head(q), Tail(q)) BY <1>1, <1>2 DEF NoTwice, Within
<1>6. ASSUME NEW m PROVE Within(m, q) <=> m = Head(q) \/ Within(m, Tail(q))
  <2>1. ASSUME Within(m, q) PROVE m = Head(q) \/ Within(m, Tail(q))
    <3>1. PICK i \in 1..Len(q) : q[i] = m BY <1>1, <2>1 DEF Within
    <3>2. CASE i = 1 BY <1>1, <3>1, <3>2
    <3>3. CASE i # 1
      <4>1. i - 1 \in 1..(Len(q) - 1) /\ Tail(q)[i - 1] = m BY <1>1, <3>1, <3>3
      <4> QED BY <1>1, <4>1 DEF Within
    <3> QED BY <3>2, <3>3
  <2>2. Within(m, Tail(q)) => Within(m, q) BY <1>1, <1>2 DEF Within
  <2> QED BY <2>1, <2>2, <1>4
<1> QED BY <1>1, <1>3, <1>4, <1>5, <1>6
LEMMA LastArrives ==
  ASSUME NEW S, NEW q \in Seq(S), NEW e \in S, NoTwice(q), ~Within(e, q)
  PROVE  Append(q, e) \in Seq(S) /\ NoTwice(Append(q, e)) /\ \A m : Within(m, Append(q, e)) <=> m = e \/ Within(m, q)
<1>1. /\ Append(q, e) \in Seq(S) /\ Len(q) \in Nat /\ DOMAIN q = 1..Len(q) /\ DOMAIN Append(q, e) = 1..(Len(q) + 1)
      /\ \A i \in 1..(Len(q) + 1) : Append(q, e)[i] = IF i = Len(q) + 1 THEN e ELSE q[i]
  OBVIOUS
<1>2. NoTwice(Append(q, e)) BY <1>1 DEF NoTwice, Within
<1>3. \A m : Within(m, Append(q, e)) <=> m = e \/ Within(m, q) BY <1>1 DEF Within
<1> QED BY <1>1, <1>2, <1>3
LEMMA NothingWithin == /\ NoTwice(<<>>) /\ \A m : ~Within(m, <<>>)
BY DEF NoTwice, Within

Chats ==
  [asked : SUBSET Messages, posted : Seq(Messages), queue : Seq(Messages), sent : SUBSET Messages,
   thread : {"none", "run", "dying"}, encryption : BOOLEAN, fates : [Messages -> {0, 1}],
   stored : Nat, flown : Nat, whole : BOOLEAN]
\* The fate of what waits is told for the first time.
LEMMA FatesAre ==
  ASSUME ChatTypeOK, NEW ms, \A m \in Messages : m \in ms => chat.fates[m] = 0
  PROVE  Fate(ms) \in [Messages -> {0, 1}] /\ \A m \in Messages : Fate(ms)[m] = IF m \in ms THEN 1 ELSE chat.fates[m]
BY DEF Fate, ChatTypeOK
\* What is on its way nowhere any more has been told.
LEMMA MessagesMove ==
  ASSUME ChatTypeOK, OnePlace, NoneLost, chat' \in Chats, chat'.whole, chat'.stored = chat'.flown, slips \subseteq slips',
         chat'.asked = chat.asked, NoTwice(chat'.posted), NoTwice(chat'.queue),
         \A m \in Messages :
            \/ /\ Within(m, chat'.posted) <=> Within(m, chat.posted)
               /\ Within(m, chat'.queue) <=> Within(m, chat.queue)
               /\ m \in chat'.sent <=> m \in chat.sent
               /\ chat'.fates[m] = chat.fates[m]
            \/ /\ Within(m, chat.posted) \/ Within(m, chat.queue) \/ m \in chat.sent
               /\ \/ ~Within(m, chat'.posted) /\ ~Within(m, chat'.queue) /\ m \notin chat'.sent
                     /\ (chat'.fates[m] = 1 \/ (slips' # {} /\ chat'.fates[m] = 0))
                  \/ ~Within(m, chat'.posted) /\ Within(m, chat'.queue) /\ m \notin chat'.sent /\ chat'.fates[m] = 0
                  \/ ~Within(m, chat'.posted) /\ ~Within(m, chat'.queue) /\ m \in chat'.sent /\ chat'.fates[m] = 0
  PROVE  ChatTypeOK' /\ OnePlace' /\ NoneLost'
<1>1. ChatTypeOK' BY DEF ChatTypeOK, Chats
<1>2. OnePlace' BY DEF OnePlace, ChatTypeOK
<1>3. NoneLost' BY DEF NoneLost, OnePlace, ChatTypeOK, Chats
<1> QED BY <1>1, <1>2, <1>3
\* Every step of a chat keeps the messages where they are, or moves them on.
LEMMA ChatGoesOn ==
  ASSUME ChatInv, ChatNext
  PROVE  ChatInv' /\ [Contract!Next]_life
<1>0. /\ MSRPInv /\ ChatTypeOK /\ OnePlace /\ NoneLost /\ NothingLeft /\ chat \in Chats
      /\ chat.posted \in Seq(Messages) /\ chat.queue \in Seq(Messages) /\ NoTwice(chat.posted) /\ NoTwice(chat.queue)
      /\ msrp.session \in {"none", "open", "lost", "closed"}
  BY DEF ChatInv, ChatTypeOK, Chats, OnePlace, MSRPInv, MSRPTypeOK
<1> DEFINE C == ChatTypeOK' /\ OnePlace' /\ NoneLost'
<1>a. ASSUME ChatKept, slips \subseteq slips' PROVE C
  BY <1>a, <1>0, MessagesMove DEF ChatKept, ChatTypeOK
\* what waits in the queue, and perhaps for its reports, is told
<1>b. ASSUME NEW ms, ms = ToSet(chat.queue) \/ ms = ToSet(chat.queue) \cup chat.sent, slips \subseteq slips',
             \E thread \in {"none", "run", "dying"}, encryption \in BOOLEAN, sent \in {{}, chat.sent} :
               /\ chat' = [chat EXCEPT !.queue = <<>>, !.sent = sent, !.thread = thread, !.encryption = encryption, !.fates = Fate(ms)]
               /\ sent # chat.sent => ms = ToSet(chat.queue) \cup chat.sent
               /\ sent = chat.sent /\ sent # {} => ms = ToSet(chat.queue)
      PROVE  C
  <2>1. \A m : m \in ToSet(chat.queue) <=> Within(m, chat.queue) BY DEF ToSet, Within
  <2>2. \A m \in Messages : m \in ms => (Within(m, chat.queue) \/ m \in chat.sent) /\ chat.fates[m] = 0
    BY <1>0, <1>b, <2>1 DEF OnePlace
  <2>3. Fate(ms) \in [Messages -> {0, 1}] /\ \A m \in Messages : Fate(ms)[m] = IF m \in ms THEN 1 ELSE chat.fates[m]
    BY <1>0, <2>2, FatesAre
  <2> DEFINE new == Fate(ms)
  <2> HIDE DEF new
  <2>4. PICK thread \in {"none", "run", "dying"}, encryption \in BOOLEAN, sent \in {{}, chat.sent} :
               /\ chat' = [chat EXCEPT !.queue = <<>>, !.sent = sent, !.thread = thread, !.encryption = encryption, !.fates = new]
               /\ sent # chat.sent => ms = ToSet(chat.queue) \cup chat.sent
               /\ sent = chat.sent /\ sent # {} => ms = ToSet(chat.queue)
    BY Zenon, <1>b DEF new
  <2>5. new \in [Messages -> {0, 1}] /\ \A m \in Messages : new[m] = IF m \in ms THEN 1 ELSE chat.fates[m]
    BY <2>3 DEF new
  <2>6. chat.sent \in SUBSET Messages /\ sent \in SUBSET Messages /\ <<>> \in Seq(Messages) BY <1>0, <2>4 DEF Chats
  <2>7. chat' \in Chats BY <1>0, <2>4, <2>5, <2>6 DEF Chats
  <2>8. /\ chat'.posted = chat.posted /\ chat'.queue = <<>> /\ chat'.sent = sent /\ chat'.fates = new /\ chat'.asked = chat.asked
        /\ chat'.whole = chat.whole /\ chat'.stored = chat.stored /\ chat'.flown = chat.flown
    BY <1>0, <2>4 DEF Chats
  <2>9. \A m \in Messages : (m \in ms <=> Within(m, chat.queue) \/ (m \in chat.sent /\ m \notin sent))
    BY <1>0, <1>b, <2>1, <2>4 DEF OnePlace
  <2>10. \A m \in Messages : Within(m, chat.queue) => m \notin chat.sent /\ ~Within(m, chat.posted)
    BY <1>0 DEF OnePlace
  <2>11. \A m \in Messages : m \in chat.sent => ~Within(m, chat.posted)
    BY <1>0 DEF OnePlace
  <2>12. ASSUME NEW m \in Messages
         PROVE \/ /\ Within(m, chat'.posted) <=> Within(m, chat.posted)
                  /\ Within(m, chat'.queue) <=> Within(m, chat.queue)
                  /\ m \in chat'.sent <=> m \in chat.sent
                  /\ chat'.fates[m] = chat.fates[m]
               \/ /\ Within(m, chat.posted) \/ Within(m, chat.queue) \/ m \in chat.sent
                  /\ ~Within(m, chat'.posted) /\ ~Within(m, chat'.queue) /\ m \notin chat'.sent
                  /\ chat'.fates[m] = 1
    <3>1. CASE m \in ms BY <2>4, <2>5, <2>8, <2>9, <2>10, <2>11, <3>1, NothingWithin
    <3>2. CASE m \notin ms BY <2>4, <2>5, <2>8, <2>9, <3>2, NothingWithin
    <3> QED BY <3>1, <3>2
  <2>13. chat'.whole /\ chat'.stored = chat'.flown BY <1>0, <2>8 DEF ChatTypeOK
  <2> QED BY <1>0, <1>b, <2>7, <2>8, <2>12, <2>13, NothingWithin, MessagesMove
\* the stream
<1>1. CASE ChatKeeps
  <2>1. MSRPSteps /\ ChatKept BY <1>1 DEF ChatKeeps, MSRPSteps
  <2>2. MSRPInv' /\ [Contract!Next]_life BY <1>0, <2>1, MSRPGoesOnSoundly
  <2>3. NothingLeft'
    <3>1. chat' = chat BY <2>1 DEF ChatKept
    <3>2. msrp'.ending \in {"forgetting", "over"} => msrp'.ending = msrp.ending
      BY <1>0, <1>1, <2>1 DEF ChatKeeps, DoInitialize, DoStart, DoDeactivate, DoEnd, Later, MSRPInv, MSRPTypeOK,
       Resuming, RunInitialize, RunStart, Interrupts, GreenletDies, Initialized, NotStarted, WillEnd, ConnectionLost, Prepared, Ending
    <3> QED BY <1>0, <2>1, <3>1, <3>2, MSRPMovesOn DEF NothingLeft
  <2> QED BY <1>0, <1>a, <2>1, <2>2, <2>3, MSRPMovesOn DEF ChatInv
<1>2. CASE ChatNotInitialized
  <2>1. MSRPSteps BY <1>2 DEF ChatNotInitialized, MSRPSteps
  <2>2. MSRPInv' /\ [Contract!Next]_life BY <1>0, <2>1, MSRPGoesOnSoundly
  <2>3. chat' = [chat EXCEPT !.queue = <<>>, !.sent = chat.sent, !.thread = chat.thread, !.encryption = FALSE, !.fates = Fate(ToSet(chat.queue))]
    BY <1>0, <1>2 DEF ChatNotInitialized, Drained, Chats
  <2>4. chat.thread = "none" /\ chat.sent = {} /\ msrp.greenlet # "start"
    BY <1>0, <1>2 DEF ChatNotInitialized, NotInitialized, Interrupted, Waits, NothingLeft, InOrder, EndsInOrder, MSRPInv
  <2>5. C BY Zenon, <1>b, <1>0, <2>1, <2>3, <2>4, MSRPMovesOn DEF Chats
  <2>6. chat'.thread = "none" /\ chat'.sent = {} /\ chat'.queue = <<>> BY <1>0, <2>3, <2>4 DEF Chats
  <2>7. msrp'.ending = "over" => msrp'.greenlet = "none" /\ msrp'.jobs = <<>>
    BY <1>0, <1>2 DEF ChatNotInitialized, NotInitialized, Interrupted, Prepared, Waits, NothingLeft, MSRPInv, EndsInOrder, MSRPTypeOK
  <2>8. NothingLeft' BY <1>0, <2>1, <2>6, <2>7, MSRPMovesOn DEF NothingLeft
  <2> QED BY <2>2, <2>5, <2>8 DEF ChatInv
<1>3. CASE ChatStarted
  <2>1. MSRPSteps BY <1>3 DEF ChatStarted, MSRPSteps
  <2>2. MSRPInv' /\ [Contract!Next]_life BY <1>0, <2>1, MSRPGoesOnSoundly
  <2>3. /\ chat' = [chat EXCEPT !.thread = "run"] /\ msrp.greenlet = "start" /\ msrp.session = "none" /\ msrp'.session = "open"
        /\ msrp'.ending = msrp.ending
    BY <1>0, <1>3 DEF ChatStarted, Started, Waits, InOrder, MSRPInv, MSRPTypeOK
  <2>4. chat' \in Chats /\ chat'.posted = chat.posted /\ chat'.queue = chat.queue /\ chat'.sent = chat.sent /\ chat'.fates = chat.fates
        /\ chat'.asked = chat.asked /\ chat'.whole = chat.whole /\ chat'.stored = chat.stored /\ chat'.flown = chat.flown
        /\ chat'.thread = "run"
    BY <1>0, <2>3 DEF Chats
  <2>5. C BY <1>0, <2>1, <2>4, MSRPMovesOn, MessagesMove DEF ChatTypeOK
  <2>6. msrp.ending \notin {"forgetting", "over"} BY <1>0, <2>3 DEF MSRPInv, EndsInOrder
  <2>7. NothingLeft' BY <1>0, <2>1, <2>3, <2>4, <2>6, MSRPMovesOn DEF NothingLeft
  <2> QED BY <2>2, <2>5, <2>7 DEF ChatInv
<1>4. CASE ChatCloses
  <2>1. MSRPSteps BY <1>4 DEF ChatCloses, MSRPSteps
  <2>2. MSRPInv' /\ [Contract!Next]_life BY <1>0, <2>1, MSRPGoesOnSoundly
  <2>3. msrp'.ending = "forgetting" /\ msrp'.session \in {msrp.session, "closed"}
    BY <1>0, <1>4 DEF ChatCloses, Closes, MSRPInv, MSRPTypeOK
  <2>4. CASE chat.thread = "none"
    <3>1. chat' = [chat EXCEPT !.queue = <<>>, !.sent = chat.sent, !.thread = chat.thread, !.encryption = FALSE, !.fates = Fate(ToSet(chat.queue))]
      BY <1>0, <1>4, <2>4 DEF ChatCloses, Drained, Chats
    <3>2. chat.sent = {} BY <1>0, <2>4 DEF NothingLeft
    <3>3. C BY Zenon, <1>b, <1>0, <2>1, <3>1, <3>2, MSRPMovesOn DEF Chats
    <3>4. chat'.thread = "none" /\ chat'.sent = {} /\ chat'.queue = <<>> BY <1>0, <3>1, <3>2, <2>4 DEF Chats
    <3>5. NothingLeft' BY <1>0, <2>1, <2>3, <3>4, MSRPMovesOn DEF NothingLeft
    <3> QED BY <2>2, <3>3, <3>5 DEF ChatInv
  <2>5. CASE chat.thread # "none"
    <3>1. chat' = [chat EXCEPT !.thread = "dying", !.encryption = FALSE] BY <1>0, <1>4, <2>5 DEF ChatCloses
    <3>2. chat' \in Chats /\ chat'.posted = chat.posted /\ chat'.queue = chat.queue /\ chat'.sent = chat.sent /\ chat'.fates = chat.fates
          /\ chat'.asked = chat.asked /\ chat'.whole = chat.whole /\ chat'.stored = chat.stored /\ chat'.flown = chat.flown
          /\ chat'.thread = "dying"
      BY <1>0, <3>1 DEF Chats
    <3>3. C BY <1>0, <2>1, <3>2, MSRPMovesOn, MessagesMove DEF ChatTypeOK
    <3>4. NothingLeft' BY <1>0, <2>1, <2>3, <2>5, <3>2, MSRPMovesOn DEF NothingLeft
    <3> QED BY <2>2, <3>3, <3>4 DEF ChatInv
  <2> QED BY <2>4, <2>5
<1>5. CASE ChatForgets
  <2>1. MSRPSteps /\ ChatKept BY <1>5 DEF ChatForgets, MSRPSteps
  <2>2. MSRPInv' /\ [Contract!Next]_life BY <1>0, <2>1, MSRPGoesOnSoundly
  <2>3. chat' = chat /\ chat.thread # "dying" /\ msrp.ending = "forgetting" /\ msrp'.ending = "over" /\ msrp'.greenlet = msrp.greenlet
        /\ msrp'.jobs = msrp.jobs
    BY <1>0, <1>5 DEF ChatForgets, Forgets, ChatKept, MSRPInv, MSRPTypeOK
  <2>4. msrp.greenlet = "none" /\ msrp.jobs = <<>> BY <1>0, <2>3 DEF MSRPInv, EndsInOrder
  <2>5. NothingLeft' BY <1>0, <2>1, <2>3, <2>4, MSRPMovesOn DEF NothingLeft
  <2> QED BY <1>a, <2>1, <2>2, <2>5, MSRPMovesOn, <1>0 DEF ChatInv
\* what the stream does not notice
<1>c. ASSUME UNCHANGED msrp, UNCHANGED life PROVE MSRPInv' /\ [Contract!Next]_life
  BY <1>c, <1>0 DEF MSRPInv, MSRPTypeOK, AsTheSessionKnows, InOrder, EndsInOrder
<1>6. CASE ThreadDies \/ Chokes
  <2>1. msrp' = msrp /\ life' = life /\ slips \subseteq slips' BY <1>6 DEF ThreadDies, Chokes, userVars, Silent
  <2>2. chat.thread # "none" BY <1>6 DEF ThreadDies, Chokes
  <2>3. C /\ chat'.thread = "none" /\ chat'.sent = {} /\ chat'.queue = <<>>
    <3>1. CASE ThreadDies
      <4>1. chat' = [chat EXCEPT !.queue = <<>>, !.sent = {}, !.thread = "none", !.encryption = chat.encryption,
                                 !.fates = Fate(ToSet(chat.queue) \cup chat.sent)]
        BY <1>0, <3>1 DEF ThreadDies, ThreadDrained, Chats
      <4>2. C BY Zenon, <1>b, <1>0, <2>1, <4>1 DEF Chats
      <4> QED BY <1>0, <4>1, <4>2 DEF Chats
    <3>2. CASE Chokes
      <4> DEFINE h == Head(chat.queue)
                 ms == ToSet(chat.queue) \cup chat.sent
                 told2 == [Fate(ms) EXCEPT ![h] = chat.fates[h]]
      <4>1. h \in Messages /\ Within(h, chat.queue) /\ chat.fates[h] = 0
        BY <1>0, <3>2, FirstGoes DEF Chokes, OnePlace
      <4>2. \A m : m \in ToSet(chat.queue) <=> Within(m, chat.queue) BY DEF ToSet, Within
      <4>3. \A m \in Messages : m \in ms => chat.fates[m] = 0 BY <1>0, <4>2 DEF OnePlace
      <4>4. Fate(ms) \in [Messages -> {0, 1}] /\ \A m \in Messages : Fate(ms)[m] = IF m \in ms THEN 1 ELSE chat.fates[m]
        BY <1>0, <4>3, FatesAre
      <4>5. told2 \in [Messages -> {0, 1}] /\ \A m \in Messages : told2[m] = IF m = h THEN 0 ELSE IF m \in ms THEN 1 ELSE chat.fates[m]
        BY <4>1, <4>4
      <4>6. chat' = [chat EXCEPT !.thread = "none", !.sent = {}, !.queue = <<>>, !.fates = told2]
        BY <1>0, <3>2 DEF Chokes, ThreadDrained, Chats
      <4> HIDE DEF told2, h, ms
      <4>7. chat' \in Chats /\ chat'.posted = chat.posted /\ chat'.queue = <<>> /\ chat'.sent = {} /\ chat'.fates = told2
            /\ chat'.asked = chat.asked /\ chat'.whole = chat.whole /\ chat'.stored = chat.stored /\ chat'.flown = chat.flown
            /\ chat'.thread = "none"
        <5>1. <<>> \in Seq(Messages) /\ {} \in SUBSET Messages OBVIOUS
        <5>2. told2 \in [Messages -> {0, 1}] BY <4>5
        <5> QED BY <1>0, <4>6, <5>1, <5>2 DEF Chats
      <4>8. slips' # {} BY <3>2 DEF Chokes
      <4>9. \A m \in Messages : m \in ms <=> Within(m, chat.queue) \/ m \in chat.sent BY <4>2 DEF ms
      <4>10. ASSUME NEW m \in Messages
             PROVE \/ /\ Within(m, chat'.posted) <=> Within(m, chat.posted)
                      /\ Within(m, chat'.queue) <=> Within(m, chat.queue)
                      /\ m \in chat'.sent <=> m \in chat.sent
                      /\ chat'.fates[m] = chat.fates[m]
                   \/ /\ Within(m, chat.posted) \/ Within(m, chat.queue) \/ m \in chat.sent
                      /\ ~Within(m, chat'.posted) /\ ~Within(m, chat'.queue) /\ m \notin chat'.sent
                      /\ chat'.fates[m] = 1 \/ (slips' # {} /\ chat'.fates[m] = 0)
        <5>1. Within(m, chat.queue) => m \notin chat.sent /\ ~Within(m, chat.posted) BY <1>0 DEF OnePlace
        <5>2. m \in chat.sent => ~Within(m, chat.posted) BY <1>0 DEF OnePlace
        <5>3. CASE m \in ms BY <4>1, <4>5, <4>7, <4>8, <4>9, <5>1, <5>2, <5>3, NothingWithin
        <5>4. CASE m \notin ms BY <4>1, <4>5, <4>7, <4>9, <5>4, NothingWithin
        <5> QED BY <5>3, <5>4
      <4>11. C BY <1>0, <2>1, <4>7, <4>10, NothingWithin, MessagesMove DEF ChatTypeOK
      <4> QED BY <4>7, <4>11
    <3> QED BY <1>6, <3>1, <3>2
  <2>4. NothingLeft' BY <1>0, <2>1, <2>3 DEF NothingLeft
  <2> QED BY <1>c, <2>1, <2>3, <2>4 DEF ChatInv
<1>7. ASSUME NEW m \in Messages, SendMessage(m) PROVE ChatInv' /\ [Contract!Next]_life
  <2>1. msrp' = msrp /\ life' = life /\ slips' = slips /\ m \notin chat.asked BY <1>7 DEF SendMessage, userVars
  <2> DEFINE new == Append(chat.posted, m)
  <2>2. chat' = [chat EXCEPT !.asked = @ \cup {m}, !.posted = new] BY <1>7 DEF SendMessage
  <2>3. ~Within(m, chat.posted) /\ ~Within(m, chat.queue) /\ m \notin chat.sent /\ chat.fates[m] = 0 BY <1>0, <2>1 DEF OnePlace
  <2>4. new \in Seq(Messages) /\ NoTwice(new) /\ \A x : Within(x, new) <=> x = m \/ Within(x, chat.posted)
    BY <1>0, <2>3, LastArrives
  <2> HIDE DEF new
  <2>5. /\ chat' \in Chats /\ chat'.posted = new /\ chat'.queue = chat.queue /\ chat'.sent = chat.sent /\ chat'.fates = chat.fates
        /\ chat'.asked = chat.asked \cup {m} /\ chat'.whole = chat.whole /\ chat'.stored = chat.stored /\ chat'.flown = chat.flown
        /\ chat'.thread = chat.thread
    BY <1>0, <2>2, <2>4 DEF Chats
  <2>6. ChatTypeOK' BY <1>0, <2>5 DEF ChatTypeOK, Chats
  <2>7. OnePlace' BY <1>0, <2>3, <2>4, <2>5 DEF OnePlace
  <2>8. NoneLost' BY <1>0, <2>1, <2>4, <2>5 DEF NoneLost
  <2>9. NothingLeft' BY <1>0, <2>1, <2>5 DEF NothingLeft
  <2> QED BY <1>c, <2>1, <2>6, <2>7, <2>8, <2>9 DEF ChatInv
<1>8. CASE EnqueueMessage
  <2> DEFINE m == Head(chat.posted)
             rest == Tail(chat.posted)
             more == Append(chat.queue, m)
             fates == Fate({m})
  <2>1. msrp' = msrp /\ life' = life /\ slips' = slips /\ chat.posted # <<>> BY <1>8 DEF EnqueueMessage, userVars
  <2>2. /\ rest \in Seq(Messages) /\ m \in Messages /\ NoTwice(rest) /\ Within(m, chat.posted) /\ ~Within(m, rest)
        /\ \A x : Within(x, chat.posted) <=> x = m \/ Within(x, rest)
    BY <1>0, <2>1, FirstGoes
  <2>3. ~Within(m, chat.queue) /\ m \notin chat.sent /\ chat.fates[m] = 0 BY <1>0, <2>2 DEF OnePlace
  <2>4. more \in Seq(Messages) /\ NoTwice(more) /\ \A x : Within(x, more) <=> x = m \/ Within(x, chat.queue)
    BY <1>0, <2>2, <2>3, LastArrives
  <2>5. fates \in [Messages -> {0, 1}] /\ \A x \in Messages : fates[x] = IF x = m THEN 1 ELSE chat.fates[x]
    BY <1>0, <2>2, <2>3, FatesAre
  <2>6. \/ chat' = [chat EXCEPT !.posted = rest, !.fates = fates]
        \/ chat' = [chat EXCEPT !.posted = rest, !.queue = more] /\ ~msrp.done
    BY <1>8 DEF EnqueueMessage
  <2> HIDE DEF m, rest, more, fates
  <2>7. /\ chat' \in Chats /\ chat'.posted = rest /\ chat'.sent = chat.sent /\ chat'.thread = chat.thread
        /\ chat'.asked = chat.asked /\ chat'.whole = chat.whole /\ chat'.stored = chat.stored /\ chat'.flown = chat.flown
        /\ \/ chat'.queue = chat.queue /\ chat'.fates = fates
           \/ chat'.queue = more /\ chat'.fates = chat.fates /\ ~msrp.done
    BY <1>0, <2>2, <2>4, <2>5, <2>6 DEF Chats
  <2>8. C
    <3>1. CASE chat'.queue = chat.queue /\ chat'.fates = fates
      BY <1>0, <2>1, <2>2, <2>3, <2>5, <2>7, <3>1, MessagesMove DEF ChatTypeOK
    <3>2. CASE chat'.queue = more /\ chat'.fates = chat.fates
      BY <1>0, <2>1, <2>2, <2>3, <2>4, <2>7, <3>2, MessagesMove DEF ChatTypeOK
    <3> QED BY <2>7, <3>1, <3>2
  <2>9. ~msrp.done => msrp.ending = "no" BY <1>0 DEF MSRPInv, EndsInOrder
  <2>10. NothingLeft' BY <1>0, <2>1, <2>7, <2>9 DEF NothingLeft
  <2> QED BY <1>c, <2>1, <2>8, <2>10 DEF ChatInv
<1>9. CASE TakeMessage
  <2> DEFINE m == Head(chat.queue)
             rest == Tail(chat.queue)
             fates == Fate({m})
             more == chat.sent \cup {m}
  <2>1. msrp' = msrp /\ life' = life /\ slips' = slips /\ chat.queue # <<>> /\ chat.thread # "none" BY <1>9 DEF TakeMessage, userVars
  <2>2. /\ rest \in Seq(Messages) /\ m \in Messages /\ NoTwice(rest) /\ Within(m, chat.queue) /\ ~Within(m, rest)
        /\ \A x : Within(x, chat.queue) <=> x = m \/ Within(x, rest)
    BY <1>0, <2>1, FirstGoes
  <2>3. ~Within(m, chat.posted) /\ m \notin chat.sent /\ chat.fates[m] = 0 BY <1>0, <2>2 DEF OnePlace
  <2>5. fates \in [Messages -> {0, 1}] /\ \A x \in Messages : fates[x] = IF x = m THEN 1 ELSE chat.fates[x]
    BY <1>0, <2>2, <2>3, FatesAre
  <2>6. chat' = [chat EXCEPT !.queue = rest, !.fates = fates] \/ chat' = [chat EXCEPT !.queue = rest, !.sent = more]
    BY <1>9 DEF TakeMessage
  <2>a. more \in SUBSET Messages /\ \A x : x \in more <=> x = m \/ x \in chat.sent BY <1>0, <2>2 DEF Chats
  <2> HIDE DEF m, rest, fates, more
  <2>7. /\ chat' \in Chats /\ chat'.posted = chat.posted /\ chat'.queue = rest /\ chat'.thread = chat.thread
        /\ chat'.asked = chat.asked /\ chat'.whole = chat.whole /\ chat'.stored = chat.stored /\ chat'.flown = chat.flown
        /\ \/ chat'.sent = chat.sent /\ chat'.fates = fates
           \/ chat'.sent = more /\ chat'.fates = chat.fates
    BY <1>0, <2>2, <2>5, <2>6, <2>a DEF Chats
  <2>8. C
    <3>1. CASE chat'.sent = chat.sent /\ chat'.fates = fates
      BY <1>0, <2>1, <2>2, <2>3, <2>5, <2>7, <3>1, MessagesMove DEF ChatTypeOK
    <3>2. CASE chat'.sent = more /\ chat'.fates = chat.fates
      BY <1>0, <2>1, <2>2, <2>3, <2>7, <2>a, <3>2, MessagesMove DEF ChatTypeOK
    <3> QED BY <2>7, <3>1, <3>2
  <2>10. NothingLeft' BY <1>0, <2>1, <2>7 DEF NothingLeft
  <2> QED BY <1>c, <2>1, <2>8, <2>10 DEF ChatInv
<1>10. ASSUME NEW m \in Messages, Answered(m) PROVE ChatInv' /\ [Contract!Next]_life
  <2> DEFINE fates == Fate({m})
  <2>1. msrp' = msrp /\ life' = life /\ slips' = slips /\ m \in chat.sent BY <1>10 DEF Answered, userVars
  <2>2. ~Within(m, chat.posted) /\ ~Within(m, chat.queue) /\ chat.fates[m] = 0 BY <1>0, <2>1 DEF OnePlace
  <2>3. fates \in [Messages -> {0, 1}] /\ \A x \in Messages : fates[x] = IF x = m THEN 1 ELSE chat.fates[x]
    BY <1>0, <2>2, FatesAre
  <2>4. chat' = [chat EXCEPT !.sent = @ \ {m}, !.fates = fates] BY <1>10 DEF Answered
  <2> HIDE DEF fates
  <2>5. /\ chat' \in Chats /\ chat'.posted = chat.posted /\ chat'.queue = chat.queue /\ chat'.thread = chat.thread
        /\ chat'.asked = chat.asked /\ chat'.whole = chat.whole /\ chat'.stored = chat.stored /\ chat'.flown = chat.flown
        /\ chat'.sent = chat.sent \ {m} /\ chat'.fates = fates
    BY <1>0, <2>3, <2>4 DEF Chats
  <2>6. C BY <1>0, <2>1, <2>2, <2>3, <2>5, MessagesMove DEF ChatTypeOK
  <2>7. NothingLeft' BY <1>0, <2>1, <2>5 DEF NothingLeft
  <2> QED BY <1>c, <2>1, <2>6, <2>7 DEF ChatInv
<1>11. CASE ReceivePart
  <2>1. msrp' = msrp /\ life' = life /\ slips' = slips BY <1>11 DEF ReceivePart, userVars
  <2>2. chat.stored \in Nat /\ chat.flown \in Nat /\ chat.stored = chat.flown BY <1>0 DEF Chats, ChatTypeOK
  <2>3. \E whole \in BOOLEAN, n \in {0, chat.stored + 1} :
           whole /\ chat' = [chat EXCEPT !.whole = whole, !.stored = n, !.flown = n]
    BY Zenon, <1>0, <1>11, <2>2 DEF ReceivePart, PartAborted, Chats, ChatTypeOK
  <2>4. PICK whole \in BOOLEAN, n \in {0, chat.stored + 1} : whole /\ chat' = [chat EXCEPT !.whole = whole, !.stored = n, !.flown = n]
    BY Zenon, <2>3
  <2>5. n \in Nat BY <2>2
  <2>6. /\ chat' \in Chats /\ chat'.posted = chat.posted /\ chat'.queue = chat.queue /\ chat'.thread = chat.thread
        /\ chat'.asked = chat.asked /\ chat'.whole /\ chat'.stored = chat'.flown
        /\ chat'.sent = chat.sent /\ chat'.fates = chat.fates
    BY <1>0, <2>4, <2>5 DEF Chats
  <2>7. C BY <1>0, <2>1, <2>6, MessagesMove
  <2>8. NothingLeft' BY <1>0, <2>1, <2>6 DEF NothingLeft
  <2> QED BY <1>c, <2>1, <2>7, <2>8 DEF ChatInv
<1> QED BY <1>1, <1>2, <1>3, <1>4, <1>5, <1>6, <1>7, <1>8, <1>9, <1>10, <1>11 DEF ChatNext
\* A chat begins with nothing asked, and what its invariant says of the messages.
LEMMA ChatBegins == ASSUME UserInit, MSRPInit, ChatInit PROVE ChatInv
<1>1. ChatTypeOK BY DEF ChatInit, ChatTypeOK
<1>2. OnePlace BY NothingWithin DEF ChatInit, OnePlace
<1>3. NoneLost BY DEF ChatInit, NoneLost
<1>4. NothingLeft BY JobsDiffer DEF ChatInit, MSRPInit, NothingLeft
<1> QED BY <1>1, <1>2, <1>3, <1>4, MSRPBegins DEF ChatInv
LEMMA ChatStays == ASSUME ChatInv, UNCHANGED <<life, slips, msrp, chat>> PROVE ChatInv'
BY DEF ChatInv, MSRPInv, MSRPTypeOK, AsTheSessionKnows, InOrder, EndsInOrder, ChatTypeOK, OnePlace, NoneLost, NothingLeft
LEMMA MessagesOK == ASSUME ChatInv PROVE EachMessageOnce
<1>1. \A m \in Messages : chat.fates[m] <= 1 BY DEF ChatInv, ChatTypeOK
<1>2. ASSUME msrp.ending = "over", chat.posted = <<>>, slips = {}, NEW m \in chat.asked PROVE chat.fates[m] = 1
  <2>1. chat.queue = <<>> /\ chat.sent = {} BY <1>2 DEF ChatInv, NothingLeft
  <2> QED BY <1>2, <2>1, NothingWithin DEF ChatInv, NoneLost
<1>3. chat.whole BY DEF ChatInv, ChatTypeOK
<1> QED BY <1>1, <1>2, <1>3 DEF EachMessageOnce
(***************************************************************************)
(* A transfer of a file: the handler t and its thread.                     *)
(***************************************************************************)
Working == {"writing", "checking", "asking", "waiting", "seeking", "sending", "finishing"}
Tells(mail, about) == \E i \in DOMAIN mail : mail[i].about = about
TransferTypeOK(t) ==
  /\ DOMAIN t = {"outgoing", "proposal", "asks", "entry", "handler", "heard", "known", "good", "started", "born",
                 "sessionFailed", "thread", "mail", "stop", "outcomes", "lost", "fd", "file", "hash", "queue", "received",
                 "offset", "from", "asked", "answered", "read", "wire", "reported", "finished"}
  /\ t.outgoing \in BOOLEAN /\ t.proposal \in BOOLEAN /\ t.heard \in BOOLEAN /\ t.started \in BOOLEAN
  /\ t.born \in BOOLEAN /\ t.stop \in BOOLEAN /\ t.asked \in BOOLEAN /\ t.answered \in BOOLEAN
  /\ t.finished \in BOOLEAN /\ t.known \in BOOLEAN
  /\ t.received \in Nat /\ t.offset \in Nat /\ t.from \in Nat /\ t.read \in Nat
  /\ t.handler \in {"new", "on", "off"} /\ t.thread \in {"none", "hashing", "gone"} \cup Working
  /\ t.outcomes \in {<<>>, <<TRUE>>, <<FALSE>>}
  /\ t.wire \in Seq(Nat \X Nat) /\ IsSeq(t.queue)
\* what the thread has told and nobody has read yet
LettersOK(mail, started, thread, outcomes, outgoing) ==
  /\ IsSeq(mail)
  /\ \A i \in DOMAIN mail :
       /\ mail[i].about \in {"hash", "error", "end", "ask", "part"}
       /\ mail[i].about \in {"hash", "error", "end"} => mail[i].ok \in BOOLEAN
       /\ mail[i].about = "part" => mail[i].part \in Nat
       /\ started <=> mail[i].about # "hash"
       /\ mail[i].about = "hash" => Len(mail) = 1
       /\ mail[i].about = "end" => thread = "gone" /\ i = Len(mail) /\ outcomes = <<mail[i].ok>>
       /\ outgoing => mail[i].about # "error"
       /\ ~outgoing => mail[i].about \in {"error", "end"}
Letters(t) == LettersOK(t.mail, t.started, t.thread, t.outcomes, t.outgoing)
\* the thread works from the start of the stream on, or for the hash before
Works(t) ==
  /\ t.started <=> t.thread \in Working \cup {"gone"}
  /\ t.asked \/ t.wire # <<>> => t.started /\ t.outgoing
  /\ t.thread \in {"hashing", "asking"} => t.mail = <<>>
  /\ t.thread \in {"none", "hashing", "asking"} => ~t.answered /\ ~t.asked
  /\ t.handler = "new" => t.thread = "none" /\ t.mail = <<>>
\* who tells the outcome
OneOutcome(t) ==
  /\ t.thread \in Working => t.outcomes = <<>>
  /\ t.outcomes # <<>> => t.thread = "gone" \/ t.handler = "off"
  /\ t.outcomes = <<TRUE>> => t.thread = "gone"
  /\ "removed" \in t.lost => t.thread = "gone"
\* what a receiver has got
Received(t) ==
  ~t.outgoing =>
    /\ t.thread \in {"none", "writing", "checking", "gone"}
    /\ "removed" \notin t.lost => t.file = t.hash
    /\ t.received = 0 => t.offset < Parts /\ \A i \in DOMAIN t.queue : t.queue[i][1] = 0
    /\ t.outcomes = <<TRUE>> => t.file = Whole /\ t.received > 0
    /\ t.handler = "new" => t.file = <<>> /\ Len(t.entry) \in 0..(Parts - 1)
    /\ t.handler = "off" => t.thread \in {"none", "gone"}
    /\ t.handler = "off" /\ t.lost = {} /\ t.outcomes # <<TRUE>> /\ t.file # <<>> => t.entry = t.file
\* what a sender has asked
Asking(t) ==
  t.outgoing /\ ~t.stop =>
    /\ t.asked \/ Tells(t.mail, "ask") => t.thread = "waiting"
    /\ Tells(t.mail, "ask") => ~t.asked /\ ~t.answered /\ Len(t.mail) = 1
    /\ t.answered => ~t.asked
\* what it has sent, and what it has still to send: the parts that wait are the last that were read
AllSent(t) == t.from + Len(t.wire) = Parts
AsRead(t) == \A k \in DOMAIN t.wire : t.wire[k][1] = t.from + k
Waiting(t) == IF t.thread = "gone" /\ t.mail # <<>> THEN Len(t.mail) - 1 ELSE Len(t.mail)
Sending == {"sending", "finishing", "gone"}
Sent(t) ==
  t.outgoing =>
    /\ t.thread \notin {"writing", "checking"}
    /\ t.thread \notin Sending => t.wire = <<>> /\ ~Tells(t.mail, "part")
    /\ t.offset <= Parts
    /\ t.thread \in Sending => t.offset = t.from + Len(t.wire)
    /\ \A k \in DOMAIN t.wire : t.wire[k][2] = t.from + k
    /\ t.wire # <<>> /\ AllSent(t) => AsRead(t)
    /\ t.finished => t.wire # <<>> /\ AllSent(t)
    /\ t.outcomes = <<TRUE>> => t.finished
ToSend(t) ==
  t.outgoing /\ ~t.stop /\ t.thread \in Sending =>
    /\ t.offset + Waiting(t) <= t.read /\ t.read <= Parts
    /\ \A i \in 1..Waiting(t) : t.mail[i].about = "part" /\ t.mail[i].part = t.read - Waiting(t) + i
    /\ t.thread = "gone" /\ t.mail # <<>> => t.mail[Len(t.mail)].about = "end"
    /\ t.offset + Waiting(t) = t.read => AsRead(t)
FileOK(t) ==
  /\ TransferTypeOK(t) /\ Letters(t) /\ Works(t) /\ OneOutcome(t)
  /\ Received(t) /\ Asking(t) /\ Sent(t) /\ ToSend(t)
\* the handler works for a stream that starts when the session does
ForTheStream ==
  /\ transfer.started => msrp.session # "none"
  /\ msrp.jobs \in Starts \/ msrp.greenlet = "start" \/ transfer.started => transfer.proposal \/ transfer.born
  /\ life = "new" => transfer.handler = "new"
\* one that looks for a hash works for a stream that waits for it
ForTheHash ==
  transfer.thread = "hashing" \/ Tells(transfer.mail, "hash") =>
    /\ ~msrp.initialized /\ msrp.greenlet = "none" /\ msrp.jobs \in OnlyEnd /\ msrp.ending \in {"no", "over"}
    /\ life \in {"init", "leaving", "over"}
TransferInv == MSRPInv /\ FileOK(transfer) /\ ForTheStream /\ ForTheHash
LEMMA SeqDomain == ASSUME NEW s, IsSeq(s) PROVE Len(s) \in Nat /\ DOMAIN s = 1..Len(s) /\ (s = <<>> <=> Len(s) = 0)
<1>1. PICK S : s \in Seq(S) BY DEF IsSeq
<1> QED BY <1>1, EmptySeq
LEMMA AppendIs ==
  ASSUME NEW s, NEW e, IsSeq(s)
  PROVE  /\ IsSeq(Append(s, e)) /\ Len(Append(s, e)) = Len(s) + 1 /\ Append(s, e) # <<>>
         /\ \A i \in 1..(Len(s) + 1) : Append(s, e)[i] = IF i = Len(s) + 1 THEN e ELSE s[i]
<1>1. PICK S : s \in Seq(S) BY DEF IsSeq
<1>2. s \in Seq(S \cup {e}) BY <1>1, SeqMonotonic
<1>3. /\ Len(Append(s, e)) = Len(s) + 1
      /\ \A i \in 1..(Len(s) + 1) : Append(s, e)[i] = IF i = Len(s) + 1 THEN e ELSE s[i]
  BY <1>2
<1> QED BY <1>3, OneMore, SeqDomain
\* The letters when one is read, and when one is sent.
LEMMA LetterRead ==
  ASSUME NEW mail, NEW s, NEW t, NEW o, NEW g, LettersOK(mail, s, t, o, g), mail # <<>>
  PROVE  /\ LettersOK(Tail(mail), s, t, o, g) /\ Len(mail) \in Nat \ {0} /\ Len(Tail(mail)) = Len(mail) - 1 /\ Head(mail) = mail[1]
         /\ DOMAIN mail = 1..Len(mail) /\ DOMAIN Tail(mail) = 1..(Len(mail) - 1)
         /\ \A i \in 1..(Len(mail) - 1) : Tail(mail)[i] = mail[i + 1] /\ i + 1 \in 1..Len(mail)
         /\ \A about : Tells(Tail(mail), about) => Tells(mail, about)
         /\ Tells(mail, Head(mail).about)
         /\ Head(mail).about \in {"hash", "end"} => Tail(mail) = <<>> /\ Len(mail) = 1
<1>1. IsSeq(mail) BY DEF LettersOK
<1>2. /\ IsSeq(Tail(mail)) /\ Len(mail) \in Nat \ {0} /\ Len(Tail(mail)) = Len(mail) - 1 /\ Head(mail) = mail[1]
      /\ \A i \in 1..(Len(mail) - 1) : Tail(mail)[i] = mail[i + 1]
      /\ Tail(mail) = <<>> <=> Len(mail) = 1
  BY <1>1, WithoutFirst
<1>3. DOMAIN mail = 1..Len(mail) /\ DOMAIN Tail(mail) = 1..(Len(mail) - 1) BY <1>1, <1>2, SeqDomain
<1>4. \A i \in 1..(Len(mail) - 1) : i + 1 \in 1..Len(mail) BY <1>2
<1>5. LettersOK(Tail(mail), s, t, o, g) BY <1>2, <1>3, <1>4 DEF LettersOK
<1>6. \A about : Tells(Tail(mail), about) => Tells(mail, about) BY <1>2, <1>3, <1>4 DEF Tells
<1>7. 1 \in DOMAIN mail BY <1>2, <1>3
<1>8. Tells(mail, Head(mail).about) BY <1>2, <1>7 DEF Tells
<1>9. Head(mail).about \in {"hash", "end"} => Len(mail) = 1 BY <1>2, <1>7 DEF LettersOK
<1> QED BY <1>2, <1>3, <1>4, <1>5, <1>6, <1>8, <1>9
NewLetter(mail, e, s, t, o, g) ==
  /\ e.about \in {"hash", "error", "end", "ask", "part"}
  /\ e.about \in {"hash", "error", "end"} => e.ok \in BOOLEAN
  /\ e.about = "part" => e.part \in Nat
  /\ s <=> e.about # "hash"
  /\ e.about = "hash" => mail = <<>>
  /\ e.about = "end" => t = "gone" /\ o = <<e.ok>>
  /\ g => e.about # "error"
  /\ ~g => e.about \in {"error", "end"}
LEMMA LetterSent ==
  ASSUME NEW mail, NEW s, NEW t, NEW o, NEW g, NEW e, NEW t2, NEW o2,
         LettersOK(mail, s, t, o, g), ~Tells(mail, "end"), ~Tells(mail, "hash"), NewLetter(mail, e, s, t2, o2, g)
  PROVE  /\ LettersOK(Append(mail, e), s, t2, o2, g) /\ Len(Append(mail, e)) = Len(mail) + 1 /\ Len(mail) \in Nat
         /\ \A i \in 1..(Len(mail) + 1) : Append(mail, e)[i] = IF i = Len(mail) + 1 THEN e ELSE mail[i]
         /\ \A about : Tells(Append(mail, e), about) <=> about = e.about \/ Tells(mail, about)
         /\ Append(mail, e) # <<>>
<1>1. IsSeq(mail) BY DEF LettersOK
<1>2. Len(mail) \in Nat /\ DOMAIN mail = 1..Len(mail) /\ (mail = <<>> <=> Len(mail) = 0) BY <1>1, SeqDomain
<1>3. /\ IsSeq(Append(mail, e)) /\ Len(Append(mail, e)) = Len(mail) + 1 /\ Append(mail, e) # <<>>
      /\ \A i \in 1..(Len(mail) + 1) : Append(mail, e)[i] = IF i = Len(mail) + 1 THEN e ELSE mail[i]
  BY <1>1, AppendIs
<1>4. DOMAIN Append(mail, e) = 1..(Len(mail) + 1) BY <1>3, SeqDomain
<1>5. \A about : Tells(Append(mail, e), about) <=> about = e.about \/ Tells(mail, about)
  <2>1. \A i \in 1..Len(mail) : i \in 1..(Len(mail) + 1) /\ i # Len(mail) + 1 BY <1>2
  <2> QED BY <1>2, <1>3, <1>4, <2>1 DEF Tells
<1>6. LettersOK(Append(mail, e), s, t2, o2, g)
  <2> SUFFICES ASSUME NEW i \in 1..(Len(mail) + 1)
      PROVE  LET l == Append(mail, e)[i] IN
             /\ l.about \in {"hash", "error", "end", "ask", "part"}
             /\ l.about \in {"hash", "error", "end"} => l.ok \in BOOLEAN
             /\ l.about = "part" => l.part \in Nat
             /\ s <=> l.about # "hash"
             /\ l.about = "hash" => Len(mail) + 1 = 1
             /\ l.about = "end" => t2 = "gone" /\ i = Len(mail) + 1 /\ o2 = <<l.ok>>
             /\ g => l.about # "error"
             /\ ~g => l.about \in {"error", "end"}
    BY <1>3, <1>4 DEF LettersOK
  <2>1. CASE i = Len(mail) + 1 BY <1>2, <1>3, <2>1 DEF NewLetter
  <2>2. CASE i # Len(mail) + 1
    <3>1. i \in DOMAIN mail /\ Append(mail, e)[i] = mail[i] BY <1>2, <1>3, <2>2
    <3>2. mail[i].about # "end" /\ mail[i].about # "hash" BY <3>1 DEF Tells
    <3> QED BY <3>1, <3>2 DEF LettersOK
  <2> QED BY <2>1, <2>2
<1> QED BY <1>2, <1>3, <1>5, <1>6
\* What a step of the handler or of its thread changes.
Changes(t, u, F) == DOMAIN u = DOMAIN t /\ \A f \in DOMAIN t \ F : u[f] = t[f]
Notes == {"born", "known", "heard", "good", "sessionFailed", "reported", "fd", "asks"}
Noted(t, u) == u.born \in BOOLEAN /\ u.known \in BOOLEAN /\ u.heard \in BOOLEAN
\* ... notes that it takes, and what it has lost
LEMMA NotesTaken ==
  ASSUME NEW t, NEW u, FileOK(t), Changes(t, u, Notes \cup {"lost"}), Noted(t, u),
         t.lost \subseteq u.lost, "removed" \in u.lost => "removed" \in t.lost
  PROVE  FileOK(u)
<1>1. /\ u.outgoing = t.outgoing /\ u.proposal = t.proposal /\ u.entry = t.entry
      /\ u.handler = t.handler /\ u.started = t.started /\ u.thread = t.thread
      /\ u.mail = t.mail /\ u.stop = t.stop /\ u.outcomes = t.outcomes
      /\ u.file = t.file /\ u.hash = t.hash
      /\ u.queue = t.queue /\ u.received = t.received /\ u.offset = t.offset
      /\ u.from = t.from /\ u.asked = t.asked /\ u.answered = t.answered
      /\ u.read = t.read /\ u.wire = t.wire /\ u.finished = t.finished
      /\ DOMAIN u = DOMAIN t
  BY DEF FileOK, TransferTypeOK, Changes, Notes
<1>2. TransferTypeOK(u) BY <1>1 DEF FileOK, TransferTypeOK, Noted
<1>3. Letters(u) BY <1>1 DEF FileOK, Letters
<1>4. Works(u) BY <1>1 DEF FileOK, Works
<1>5. OneOutcome(u) BY <1>1 DEF FileOK, OneOutcome
<1>6. Received(u) BY <1>1 DEF FileOK, Received
<1>7. Asking(u) BY <1>1 DEF FileOK, Asking, Tells
<1>8. Sent(u) BY ZenonT(60), <1>1 DEF FileOK, Sent, AllSent, AsRead, Tells
<1>9. ToSend(u) BY <1>1 DEF FileOK, ToSend, AsRead, Waiting
<1> QED BY <1>2, <1>3, <1>4, <1>5, <1>6, <1>7, <1>8, <1>9 DEF FileOK
\* ... the end of the handler, and the outcome it may tell then
LEMMA HandlerOff ==
  ASSUME NEW t, NEW u, FileOK(t), Changes(t, u, Notes \cup {"handler", "entry", "lost", "stop", "outcomes"}), Noted(t, u),
         u.handler = "off", u.stop \in BOOLEAN, t.stop => u.stop, "removed" \in u.lost => "removed" \in t.lost,
         "removed" \in t.lost => "removed" \in u.lost,
         u.outcomes = t.outcomes \/ (t.thread \notin Working \cup {"gone"} /\ u.outcomes = <<FALSE>>),
         ~t.outgoing => /\ t.thread \in {"none", "gone"}
                        /\ u.lost = {} /\ u.outcomes # <<TRUE>> /\ t.file # <<>> => u.entry = t.file
  PROVE  FileOK(u)
<1>1. /\ u.outgoing = t.outgoing /\ u.proposal = t.proposal
      /\ u.started = t.started /\ u.thread = t.thread
      /\ u.mail = t.mail /\ u.file = t.file /\ u.hash = t.hash
      /\ u.queue = t.queue /\ u.received = t.received /\ u.offset = t.offset
      /\ u.from = t.from /\ u.asked = t.asked /\ u.answered = t.answered
      /\ u.read = t.read /\ u.wire = t.wire /\ u.finished = t.finished
      /\ DOMAIN u = DOMAIN t
  BY DEF FileOK, TransferTypeOK, Changes, Notes
<1>a. <<FALSE>> # <<TRUE>> /\ <<FALSE>> # <<>> OBVIOUS
<1>2. TransferTypeOK(u) BY <1>1 DEF FileOK, TransferTypeOK, Noted
<1>3. Letters(u) BY ZenonT(60), <1>1 DEF FileOK, Letters, LettersOK
<1>4. Works(u) BY <1>1 DEF FileOK, Works
<1>5. OneOutcome(u) BY <1>1, <1>a DEF FileOK, OneOutcome
<1>6. Received(u) BY <1>1, <1>a DEF FileOK, Received
<1>7. Asking(u) BY <1>1 DEF FileOK, Asking, Tells
<1>8. Sent(u)
  <2>1. Sent(t) /\ (u.outcomes = <<TRUE>> => t.outcomes = <<TRUE>>) BY <1>a DEF FileOK
  <2>2. t.outgoing /\ u.outcomes = <<TRUE>> => u.finished BY <1>1, <2>1 DEF Sent
  <2>3. AllSent(u) = AllSent(t) /\ AsRead(u) = AsRead(t) BY <1>1 DEF AllSent, AsRead
  <2> QED BY ZenonT(60), <1>1, <2>1, <2>2, <2>3 DEF Sent
<1>9. ToSend(u) BY <1>1 DEF FileOK, ToSend, AsRead, Waiting
<1> QED BY <1>2, <1>3, <1>4, <1>5, <1>6, <1>7, <1>8, <1>9 DEF FileOK
\* ... a letter that is read
LEMMA LetterOpened ==
  ASSUME NEW t, FileOK(t), t.mail # <<>>, NEW u, u = [t EXCEPT !.mail = Tail(@)]
  PROVE  FileOK(u) /\ Changes(t, u, {"mail"}) /\ u.mail = Tail(t.mail)
<1>0. u.mail = Tail(t.mail) /\ Changes(t, u, {"mail"}) BY DEF FileOK, TransferTypeOK, Changes
<1>1. /\ u.outgoing = t.outgoing /\ u.proposal = t.proposal /\ u.entry = t.entry
      /\ u.handler = t.handler /\ u.started = t.started /\ u.thread = t.thread
      /\ u.stop = t.stop /\ u.outcomes = t.outcomes /\ u.lost = t.lost
      /\ u.file = t.file /\ u.hash = t.hash
      /\ u.queue = t.queue /\ u.received = t.received /\ u.offset = t.offset
      /\ u.from = t.from /\ u.asked = t.asked /\ u.answered = t.answered
      /\ u.read = t.read /\ u.wire = t.wire /\ u.finished = t.finished
      /\ DOMAIN u = DOMAIN t /\ u.born = t.born /\ u.known = t.known /\ u.heard = t.heard
  BY DEF FileOK, TransferTypeOK
<1>l. /\ Letters(u) /\ Len(t.mail) \in Nat \ {0} /\ Len(Tail(t.mail)) = Len(t.mail) - 1 /\ Head(t.mail) = t.mail[1]
      /\ DOMAIN t.mail = 1..Len(t.mail) /\ DOMAIN Tail(t.mail) = 1..(Len(t.mail) - 1)
      /\ \A i \in 1..(Len(t.mail) - 1) : Tail(t.mail)[i] = t.mail[i + 1] /\ i + 1 \in 1..Len(t.mail)
      /\ \A about : Tells(Tail(t.mail), about) => Tells(t.mail, about)
      /\ Len(t.mail) = 1 => Tail(t.mail) = <<>>
  <2>1. LettersOK(t.mail, t.started, t.thread, t.outcomes, t.outgoing) BY DEF FileOK, Letters
  <2>2. IsSeq(t.mail) BY <2>1 DEF LettersOK
  <2> DEFINE m == t.mail
  <2>3. LettersOK(m, t.started, t.thread, t.outcomes, t.outgoing) /\ m # <<>> /\ IsSeq(m) BY <2>1, <2>2
  <2> HIDE DEF m
  <2>4. /\ LettersOK(Tail(m), t.started, t.thread, t.outcomes, t.outgoing)
        /\ Len(m) \in Nat \ {0} /\ Len(Tail(m)) = Len(m) - 1 /\ Head(m) = m[1]
        /\ DOMAIN m = 1..Len(m) /\ DOMAIN Tail(m) = 1..(Len(m) - 1)
        /\ \A i \in 1..(Len(m) - 1) : Tail(m)[i] = m[i + 1] /\ i + 1 \in 1..Len(m)
        /\ \A about : Tells(Tail(m), about) => Tells(m, about)
    BY <2>3, LetterRead
  <2>5. Len(m) = 1 => Tail(m) = <<>> BY <2>3, WithoutFirst
  <2>6. Letters(u) BY <1>0, <1>1, <2>4 DEF Letters, m
  <2> QED BY <2>4, <2>5, <2>6 DEF m
<1>2. TransferTypeOK(u) BY <1>1 DEF FileOK, TransferTypeOK
<1>4. Works(u) BY <1>1, <1>l DEF FileOK, Works
<1>5. OneOutcome(u) BY <1>1 DEF FileOK, OneOutcome
<1>6. Received(u) BY ZenonT(60), <1>1 DEF FileOK, Received
<1>7. Asking(u)
  <2>1. Tells(t.mail, "ask") => Len(t.mail) = 1 \/ ~(t.outgoing /\ ~t.stop) BY DEF FileOK, Asking
  <2>2. Len(t.mail) = 1 => ~Tells(Tail(t.mail), "ask") BY <1>l DEF Tells
  <2>3. Tells(u.mail, "ask") => ~(t.outgoing /\ ~t.stop) BY <1>0, <1>l, <2>1, <2>2
  <2>4. Asking(t) BY DEF FileOK
  <2> QED BY <1>1, <2>3, <2>4 DEF Asking
<1>8. Sent(u)
  <2>1. Sent(t) BY DEF FileOK
  <2>2. Tells(u.mail, "part") => Tells(t.mail, "part") BY <1>0, <1>l
  <2> QED BY ZenonT(60), <1>1, <2>1, <2>2 DEF Sent, AllSent, AsRead
<1>9. ASSUME t.outgoing, ~t.stop, t.thread \in Sending PROVE ToSend(u)
  <2>1. /\ t.offset + Waiting(t) <= t.read /\ t.read <= Parts
        /\ \A i \in 1..Waiting(t) : t.mail[i].about = "part" /\ t.mail[i].part = t.read - Waiting(t) + i
        /\ t.thread = "gone" => t.mail[Len(t.mail)].about = "end"
        /\ t.offset + Waiting(t) = t.read => AsRead(t)
    BY <1>9 DEF FileOK, ToSend
  <2>t. t.offset \in Nat /\ t.read \in Nat BY DEF FileOK, TransferTypeOK
  <2>2. CASE t.thread = "gone" /\ Len(t.mail) = 1
    <3>1. Waiting(t) = 0 /\ Waiting(u) = 0 /\ u.mail = <<>> BY <1>0, <1>1, <1>l, <2>2, EmptySeq DEF Waiting
    <3> QED BY <1>1, <2>1, <2>t, <3>1 DEF ToSend, AsRead
  <2>3. CASE t.thread # "gone" \/ Len(t.mail) # 1
    <3>1. Waiting(u) = Waiting(t) - 1 /\ Waiting(t) \in Nat \ {0} /\ Waiting(t) <= Len(t.mail)
      <4>1. Len(u.mail) = Len(t.mail) - 1 BY <1>0, <1>l
      <4>2. t.thread = "gone" => u.mail # <<>>
        <5>1. Len(<<>>) = 0 OBVIOUS
        <5>2. t.thread = "gone" => Len(u.mail) # 0 BY <1>l, <2>3, <4>1
        <5> QED BY <5>1, <5>2
      <4> QED BY <1>1, <1>l, <2>3, <4>1, <4>2 DEF Waiting
    <3>2. u.offset + Waiting(u) < u.read /\ u.offset + Waiting(u) <= u.read /\ u.read <= Parts BY <1>1, <2>1, <2>t, <3>1, FileAssumption
    <3>3. ASSUME NEW i \in 1..Waiting(u) PROVE u.mail[i].about = "part" /\ u.mail[i].part = (u.read - Waiting(u)) + i
      <4>1. i + 1 \in 1..Waiting(t) /\ i \in 1..(Len(t.mail) - 1) BY <1>l, <3>1
      <4>2. u.mail[i] = t.mail[i + 1] BY <1>0, <1>l, <4>1
      <4>3. t.mail[i + 1].part = (t.read - Waiting(t)) + (i + 1) BY <2>1, <4>1
      <4>4. (t.read - Waiting(t)) + (i + 1) = (u.read - Waiting(u)) + i
        <5>1. \A a, w \in Int, k \in Int : (a - w) + (k + 1) = (a - (w - 1)) + k OBVIOUS
        <5>2. u.read = t.read /\ t.read \in Int /\ Waiting(t) \in Int /\ Waiting(u) = Waiting(t) - 1 /\ i \in Int
          BY <1>1, <2>t, <3>1
        <5> QED BY <5>1, <5>2
      <4>5. t.mail[i + 1].about = "part" BY <2>1, <4>1
      <4> QED BY <4>2, <4>3, <4>4, <4>5
    <3>4. ASSUME u.thread = "gone", u.mail # <<>> PROVE u.mail[Len(u.mail)].about = "end"
      <4>1. Len(t.mail) - 1 \in 1..(Len(t.mail) - 1) BY <1>1, <1>l, <2>3, <3>4
      <4>2. u.mail[Len(u.mail)] = t.mail[(Len(t.mail) - 1) + 1] BY <1>0, <1>l, <4>1
      <4>3. (Len(t.mail) - 1) + 1 = Len(t.mail) BY <1>l
      <4> QED BY <1>1, <2>1, <3>4, <4>2, <4>3
    <3>5. u.offset + Waiting(u) # u.read
      <4>1. u.offset \in Nat /\ u.read \in Nat /\ Waiting(u) \in Nat BY <1>1, <2>t, <3>1
      <4> QED BY <3>2, <4>1
    <3> QED BY <3>2, <3>3, <3>4, <3>5 DEF ToSend
  <2> QED BY <2>2, <2>3
<1>10. ToSend(u) BY <1>1, <1>9 DEF ToSend
<1> QED BY <1>0, <1>2, <1>l, <1>4, <1>5, <1>6, <1>7, <1>8, <1>10 DEF FileOK
\* ... a letter of the thread about an error, or its last one: the outcome
LEMMA OutcomePosted ==
  ASSUME NEW t, NEW u, NEW ok \in BOOLEAN, FileOK(t), Changes(t, u, Notes \cup {"mail", "outcomes", "thread", "file", "lost"}),
         Noted(t, u), t.thread \in Working, u.thread = "gone", u.outcomes = Append(t.outcomes, ok),
         u.mail = Append(t.mail, [about |-> "end", ok |-> ok]),
         t.outgoing => t.thread \in {"sending", "finishing"} /\ (ok => t.finished),
         ~t.outgoing /\ ok => u.file = Whole /\ t.received > 0,
         ~t.outgoing /\ "removed" \notin u.lost => u.file = t.file
  PROVE  FileOK(u)
<1>1. /\ u.outgoing = t.outgoing /\ u.proposal = t.proposal /\ u.entry = t.entry
      /\ u.handler = t.handler /\ u.started = t.started /\ u.stop = t.stop
      /\ u.hash = t.hash /\ u.queue = t.queue /\ u.received = t.received /\ u.offset = t.offset
      /\ u.from = t.from /\ u.asked = t.asked /\ u.answered = t.answered
      /\ u.read = t.read /\ u.wire = t.wire /\ u.finished = t.finished
      /\ DOMAIN u = DOMAIN t
  BY ZenonT(60) DEF FileOK, TransferTypeOK, Changes, Notes
<1>2. t.outcomes = <<>> /\ t.started /\ t.handler # "new" BY DEF FileOK, OneOutcome, Works, Working
<1>3. u.outcomes = <<ok>> /\ u.outcomes \in {<<TRUE>>, <<FALSE>>} /\ (u.outcomes = <<TRUE>> => ok)
  <2>1. \A x : Append(<<>>, x) = <<x>> OBVIOUS
  <2>2. u.outcomes = <<ok>> BY <1>2, <2>1
  <2>3. CASE ok = TRUE BY <2>2, <2>3
  <2>4. CASE ok = FALSE
    <3>1. <<FALSE>> # <<TRUE>> OBVIOUS
    <3> QED BY <2>2, <2>4, <3>1
  <2> QED BY <2>3, <2>4
<1>4. LettersOK(t.mail, t.started, t.thread, t.outcomes, t.outgoing) BY DEF FileOK, Letters
<1>5. ~Tells(t.mail, "end") /\ ~Tells(t.mail, "hash")
  <2>1. "gone" \notin Working BY DEF Working
  <2> QED BY <1>2, <1>4, <2>1 DEF LettersOK, Tells
<1> DEFINE e == [about |-> "end", ok |-> ok]
<1>6. e.about = "end" /\ e.ok = ok OBVIOUS
<1> HIDE DEF e
<1>7. /\ LettersOK(Append(t.mail, e), t.started, "gone", u.outcomes, t.outgoing)
      /\ Len(Append(t.mail, e)) = Len(t.mail) + 1 /\ Len(t.mail) \in Nat
      /\ \A i \in 1..(Len(t.mail) + 1) : Append(t.mail, e)[i] = IF i = Len(t.mail) + 1 THEN e ELSE t.mail[i]
      /\ \A about : Tells(Append(t.mail, e), about) <=> about = e.about \/ Tells(t.mail, about)
      /\ Append(t.mail, e) # <<>>
  <2>1. NewLetter(t.mail, e, t.started, "gone", u.outcomes, t.outgoing) BY <1>2, <1>3, <1>6 DEF NewLetter
  <2> QED BY <1>4, <1>5, <2>1, LetterSent
<1>8. u.mail = Append(t.mail, e) BY DEF e
<1>t. TransferTypeOK(u) BY <1>1, <1>3 DEF FileOK, TransferTypeOK, Noted
<1>l. Letters(u) BY <1>1, <1>7, <1>8 DEF Letters
<1>w. Works(u) BY <1>1, <1>2, <1>7, <1>8 DEF FileOK, Works, Working
<1>o. OneOutcome(u) BY <1>1, <1>2 DEF OneOutcome, Working
<1>r. Received(u)
  <2> SUFFICES ASSUME ~t.outgoing PROVE Received(u) BY <1>1 DEF Received
  <2>1. Received(t) /\ t.handler = "on" BY <1>2 DEF FileOK, Received, Working, TransferTypeOK
  <2>2. "removed" \notin t.lost BY DEF FileOK, OneOutcome, Working
  <2>3. u.outcomes = <<TRUE>> => u.file = Whole /\ u.received > 0 BY <1>1, <1>3
  <2> QED BY <1>1, <2>1, <2>2, <2>3 DEF Received
<1>a. Asking(u)
  <2>1. Asking(t) BY DEF FileOK
  <2>2. t.outgoing => t.thread # "waiting" OBVIOUS
  <2>3. Tells(u.mail, "ask") => Tells(t.mail, "ask") BY <1>6, <1>7, <1>8
  <2> QED BY <1>1, <2>1, <2>2, <2>3 DEF Asking
<1>s. Sent(u)
  <2>1. Sent(t) BY DEF FileOK
  <2>2. Tells(u.mail, "part") => Tells(t.mail, "part") BY <1>6, <1>7, <1>8
  <2>3. AllSent(u) = AllSent(t) /\ AsRead(u) = AsRead(t) BY <1>1 DEF AllSent, AsRead
  <2>4. t.outgoing /\ u.outcomes = <<TRUE>> => u.finished BY <1>1, <1>3
  <2> QED BY ZenonT(60), <1>1, <2>1, <2>2, <2>3, <2>4 DEF Sent, Sending
<1>n. ToSend(u)
  <2> SUFFICES ASSUME t.outgoing, ~t.stop PROVE ToSend(u) BY <1>1 DEF ToSend
  <2>1. ToSend(t) /\ t.thread \in Sending /\ t.thread # "gone" BY DEF FileOK, Sending
  <2>2. Waiting(u) = Len(t.mail) /\ Waiting(t) = Len(t.mail) BY <1>7, <1>8, <2>1 DEF Waiting
  <2>3. \A i \in 1..Len(t.mail) : u.mail[i] = t.mail[i] BY <1>7, <1>8
  <2>4. u.mail[Len(u.mail)].about = "end" BY <1>6, <1>7, <1>8
  <2>5. AsRead(u) = AsRead(t) BY <1>1 DEF AsRead
  <2> QED BY <1>1, <2>1, <2>2, <2>3, <2>4, <2>5 DEF ToSend
<1> QED BY <1>t, <1>l, <1>w, <1>o, <1>r, <1>a, <1>s, <1>n DEF FileOK
LEMMA ErrorPosted ==
  ASSUME NEW t, NEW u, FileOK(t), ~t.outgoing, t.thread \in Working, u = PostsError(t)
  PROVE  FileOK(u) /\ Changes(t, u, {"mail"})
<1> DEFINE e == [about |-> "error", ok |-> t.heard]
<1>0. e.about = "error" /\ e.ok = t.heard OBVIOUS
<1>8. u = [t EXCEPT !.mail = Append(t.mail, e)] BY DEF PostsError, Mailed
<1> HIDE DEF e
<1>1. /\ u.outgoing = t.outgoing /\ u.proposal = t.proposal /\ u.entry = t.entry
      /\ u.handler = t.handler /\ u.started = t.started /\ u.stop = t.stop /\ u.thread = t.thread
      /\ u.file = t.file /\ u.hash = t.hash /\ u.queue = t.queue /\ u.received = t.received /\ u.offset = t.offset
      /\ u.from = t.from /\ u.asked = t.asked /\ u.answered = t.answered
      /\ u.read = t.read /\ u.wire = t.wire /\ u.finished = t.finished /\ u.lost = t.lost /\ u.outcomes = t.outcomes
      /\ DOMAIN u = DOMAIN t /\ u.born = t.born /\ u.known = t.known /\ u.heard = t.heard
      /\ u.mail = Append(t.mail, e)
  BY <1>8 DEF FileOK, TransferTypeOK
<1>2. Changes(t, u, {"mail"}) BY <1>8 DEF Changes
<1>3. t.started /\ t.thread # "gone" /\ t.heard \in BOOLEAN /\ t.thread \in {"writing", "checking"}
  BY DEF FileOK, Works, Working, TransferTypeOK, Received
<1>4. LettersOK(t.mail, t.started, t.thread, t.outcomes, t.outgoing) BY DEF FileOK, Letters
<1>5. ~Tells(t.mail, "end") /\ ~Tells(t.mail, "hash") BY <1>3, <1>4 DEF LettersOK, Tells
<1>7. LettersOK(Append(t.mail, e), t.started, t.thread, t.outcomes, t.outgoing)
  <2>1. NewLetter(t.mail, e, t.started, t.thread, t.outcomes, t.outgoing) BY <1>0, <1>3 DEF NewLetter
  <2> QED BY <1>4, <1>5, <2>1, LetterSent
<1>t. TransferTypeOK(u) BY <1>1 DEF FileOK, TransferTypeOK
<1>l. Letters(u) BY <1>1, <1>7 DEF Letters
<1>w. Works(u)
  <2>1. t.handler # "new" BY <1>3 DEF FileOK, Works
  <2> QED BY <1>1, <1>3, <2>1 DEF FileOK, Works
<1>o. OneOutcome(u) BY <1>1 DEF FileOK, OneOutcome
<1>r. Received(u) BY <1>1 DEF FileOK, Received
<1> QED BY <1>1, <1>2, <1>t, <1>l, <1>w, <1>o, <1>r DEF FileOK, Asking, Sent, ToSend
\* ... the peer is asked
LEMMA AskPosted ==
  ASSUME NEW t, NEW u, FileOK(t), Changes(t, u, {"mail", "thread"}), t.thread = "asking", u.thread = "waiting",
         u.mail = Append(t.mail, [about |-> "ask"])
  PROVE  FileOK(u)
<1>1. /\ u.outgoing = t.outgoing /\ u.proposal = t.proposal /\ u.entry = t.entry
      /\ u.handler = t.handler /\ u.started = t.started /\ u.stop = t.stop
      /\ u.file = t.file /\ u.hash = t.hash /\ u.queue = t.queue /\ u.received = t.received /\ u.offset = t.offset
      /\ u.from = t.from /\ u.asked = t.asked /\ u.answered = t.answered
      /\ u.read = t.read /\ u.wire = t.wire /\ u.finished = t.finished /\ u.lost = t.lost /\ u.outcomes = t.outcomes
      /\ DOMAIN u = DOMAIN t /\ u.born = t.born /\ u.known = t.known /\ u.heard = t.heard
  BY ZenonT(60) DEF FileOK, TransferTypeOK, Changes
<1>2. t.started /\ t.outgoing /\ ~t.answered /\ ~t.asked /\ t.mail = <<>> /\ t.handler # "new"
  BY DEF FileOK, Works, Working, Received
<1>4. LettersOK(t.mail, t.started, t.thread, t.outcomes, t.outgoing) BY DEF FileOK, Letters
<1> DEFINE e == [about |-> "ask"]
<1>5. e.about = "ask" OBVIOUS
<1>6. u.mail = Append(t.mail, e) OBVIOUS
<1> HIDE DEF e
<1>7. /\ LettersOK(u.mail, t.started, "waiting", t.outcomes, t.outgoing) /\ Len(u.mail) = 1
      /\ \A about : Tells(u.mail, about) <=> about = "ask"
  <2>1. NewLetter(t.mail, e, t.started, "waiting", t.outcomes, t.outgoing) BY <1>2, <1>5 DEF NewLetter
  <2>2. \A about : ~Tells(t.mail, about) /\ Len(t.mail) = 0 BY <1>2 DEF Tells
  <2> QED BY <1>4, <1>5, <1>6, <2>1, <2>2, LetterSent
<1>t. TransferTypeOK(u) BY <1>1 DEF FileOK, TransferTypeOK, Working
<1>l. Letters(u) BY <1>1, <1>7 DEF Letters
<1>w. Works(u) BY <1>1, <1>2 DEF FileOK, Works, Working
<1>o. OneOutcome(u) BY <1>1 DEF FileOK, OneOutcome, Working
<1>r. Received(u) BY <1>1, <1>2 DEF Received
<1>a. Asking(u) BY <1>1, <1>2, <1>7 DEF Asking
<1>s. Sent(u)
  <2>1. Sent(t) BY DEF FileOK
  <2>2. ~Tells(u.mail, "part") BY <1>7
  <2>3. AllSent(u) = AllSent(t) /\ AsRead(u) = AsRead(t) BY <1>1 DEF AllSent, AsRead
  <2> QED BY ZenonT(60), <1>1, <2>1, <2>2, <2>3 DEF Sent, Sending
<1>n. ToSend(u) BY DEF ToSend, Sending
<1> QED BY <1>t, <1>l, <1>w, <1>o, <1>r, <1>a, <1>s, <1>n DEF FileOK
\* ... a part is read
LEMMA PartPosted ==
  ASSUME NEW t, NEW u, FileOK(t), Changes(t, u, {"mail", "read"}), t.thread = "sending", ~t.stop, t.read < Parts,
         u.read = t.read + 1, u.mail = Append(t.mail, [about |-> "part", part |-> t.read + 1])
  PROVE  FileOK(u)
<1>1. /\ u.outgoing = t.outgoing /\ u.proposal = t.proposal /\ u.entry = t.entry /\ u.thread = t.thread
      /\ u.handler = t.handler /\ u.started = t.started /\ u.stop = t.stop
      /\ u.file = t.file /\ u.hash = t.hash /\ u.queue = t.queue /\ u.received = t.received /\ u.offset = t.offset
      /\ u.from = t.from /\ u.asked = t.asked /\ u.answered = t.answered
      /\ u.wire = t.wire /\ u.finished = t.finished /\ u.lost = t.lost /\ u.outcomes = t.outcomes
      /\ DOMAIN u = DOMAIN t /\ u.born = t.born /\ u.known = t.known /\ u.heard = t.heard
  BY DEF FileOK, TransferTypeOK, Changes
<1>2. /\ t.started /\ t.outgoing /\ t.handler # "new" /\ t.outcomes = <<>> /\ ~Tells(t.mail, "ask") /\ ~t.asked
      /\ t.read \in Nat /\ t.offset \in Nat
  BY DEF FileOK, Works, Working, Received, Asking, OneOutcome, TransferTypeOK
<1>3. t.read + 1 \in Nat BY <1>2
<1>4. LettersOK(t.mail, t.started, t.thread, t.outcomes, t.outgoing) BY DEF FileOK, Letters
<1>5. ~Tells(t.mail, "end") /\ ~Tells(t.mail, "hash") BY <1>2, <1>4 DEF LettersOK, Tells
<1> DEFINE e == [about |-> "part", part |-> t.read + 1]
<1>6. e.about = "part" /\ e.part = t.read + 1 /\ u.mail = Append(t.mail, e) OBVIOUS
<1> HIDE DEF e
<1>7. /\ LettersOK(u.mail, t.started, t.thread, t.outcomes, t.outgoing) /\ Len(u.mail) = Len(t.mail) + 1 /\ Len(t.mail) \in Nat
      /\ \A i \in 1..(Len(t.mail) + 1) : u.mail[i] = IF i = Len(t.mail) + 1 THEN e ELSE t.mail[i]
      /\ \A about : Tells(u.mail, about) <=> about = "part" \/ Tells(t.mail, about)
  <2>1. NewLetter(t.mail, e, t.started, t.thread, t.outcomes, t.outgoing) BY <1>2, <1>3, <1>6 DEF NewLetter
  <2> QED BY <1>4, <1>5, <1>6, <2>1, LetterSent
<1>t. TransferTypeOK(u) BY <1>1, <1>3 DEF FileOK, TransferTypeOK
<1>l. Letters(u) BY <1>1, <1>7 DEF Letters
<1>w. Works(u) BY <1>1, <1>2 DEF FileOK, Works
<1>o. OneOutcome(u) BY <1>1 DEF FileOK, OneOutcome
<1>r. Received(u) BY <1>1, <1>2 DEF Received
<1>a. Asking(u) BY <1>1, <1>2, <1>7 DEF FileOK, Asking
<1>s. Sent(u)
  <2>1. Sent(t) BY DEF FileOK
  <2>3. AllSent(u) = AllSent(t) /\ AsRead(u) = AsRead(t) BY <1>1 DEF AllSent, AsRead
  <2> QED BY <1>1, <2>1, <2>3 DEF Sent, Sending
<1>n. ToSend(u)
  <2>1. /\ t.offset + Len(t.mail) <= t.read
        /\ \A i \in 1..Len(t.mail) : t.mail[i].about = "part" /\ t.mail[i].part = (t.read - Len(t.mail)) + i
        /\ t.offset + Len(t.mail) = t.read => AsRead(t)
    BY <1>2 DEF FileOK, ToSend, Sending, Waiting
  <2>2. Waiting(u) = Len(t.mail) + 1 BY <1>1, <1>7 DEF Waiting
  <2>3. u.offset + Waiting(u) <= u.read /\ u.read <= Parts BY <1>1, <1>2, <1>7, <2>1, <2>2, FileAssumption
  <2>4. u.offset + Waiting(u) = u.read => AsRead(t)
    <3>1. \A a, w, k \in Int : a + (w + 1) = k + 1 => a + w = k OBVIOUS
    <3>2. u.offset + Waiting(u) = u.read => t.offset + (Len(t.mail) + 1) = t.read + 1 BY <1>1, <2>2
    <3>3. t.offset \in Int /\ t.read \in Int /\ Len(t.mail) \in Int BY <1>2, <1>7
    <3> QED BY <2>1, <3>1, <3>2, <3>3
  <2>5. AsRead(u) = AsRead(t) BY <1>1 DEF AsRead
  <2>6. ASSUME NEW i \in 1..(Len(t.mail) + 1) PROVE u.mail[i].about = "part" /\ u.mail[i].part = (u.read - Waiting(u)) + i
    <3>1. \A a, w \in Int, k \in Int : (a - w) + k = ((a + 1) - (w + 1)) + k /\ ((a + 1) - (w + 1)) + (w + 1) = a + 1 OBVIOUS
    <3>2. i \in Int /\ t.read \in Int /\ Len(t.mail) \in Int BY <1>2, <1>7
    <3>3. CASE i = Len(t.mail) + 1
      <4>1. u.mail[i].about = "part" /\ u.mail[i].part = t.read + 1 BY <1>6, <1>7, <3>3
      <4> QED BY <2>2, <3>1, <3>2, <3>3, <4>1
    <3>4. CASE i # Len(t.mail) + 1
      <4>1. i \in 1..Len(t.mail) /\ u.mail[i] = t.mail[i] BY <1>7, <3>4
      <4>2. t.mail[i].part = (t.read - Len(t.mail)) + i /\ t.mail[i].about = "part" BY <2>1, <4>1
      <4> QED BY <2>2, <3>1, <3>2, <4>1, <4>2
    <3> QED BY <3>3, <3>4
  <2> QED BY <1>1, <2>2, <2>3, <2>4, <2>5, <2>6 DEF ToSend
<1> QED BY <1>t, <1>l, <1>w, <1>o, <1>r, <1>a, <1>s, <1>n DEF FileOK
\* One more element at the end of a sequence of a kind.
LEMMA Added ==
  ASSUME NEW S, NEW s \in Seq(S), NEW x \in S
  PROVE  /\ Append(s, x) \in Seq(S) /\ Len(Append(s, x)) = Len(s) + 1 /\ Len(s) \in Nat
         /\ \A k \in 1..(Len(s) + 1) : Append(s, x)[k] = IF k = Len(s) + 1 THEN x ELSE s[k]
OBVIOUS
\* ... a part is sent, after what was sent before
NextPart(t) == <<Head(t.mail).part, t.offset + 1>>
LEMMA PartSent ==
  ASSUME NEW t, NEW u, FileOK(t), Changes(t, u, {"mail", "offset", "wire"}), ~t.stop, t.mail # <<>>, Head(t.mail).about = "part",
         u.mail = Tail(t.mail), u.offset = t.offset + 1, u.wire = Append(t.wire, NextPart(t))
  PROVE  FileOK(u)
<1>1. /\ u.outgoing = t.outgoing /\ u.proposal = t.proposal /\ u.entry = t.entry /\ u.thread = t.thread
      /\ u.handler = t.handler /\ u.started = t.started /\ u.stop = t.stop
      /\ u.file = t.file /\ u.hash = t.hash /\ u.queue = t.queue /\ u.received = t.received
      /\ u.from = t.from /\ u.asked = t.asked /\ u.answered = t.answered /\ u.read = t.read
      /\ u.finished = t.finished /\ u.lost = t.lost /\ u.outcomes = t.outcomes
      /\ DOMAIN u = DOMAIN t /\ u.born = t.born /\ u.known = t.known /\ u.heard = t.heard
  BY DEF FileOK, TransferTypeOK, Changes
\* the letters are those of the opened mail
<1> DEFINE v == [t EXCEPT !.mail = Tail(@)]
<1>2. FileOK(v) /\ Changes(t, v, {"mail"}) /\ v.mail = Tail(t.mail) BY LetterOpened
<1>3. /\ v.outgoing = t.outgoing /\ v.thread = t.thread /\ v.started = t.started /\ v.stop = t.stop /\ v.offset = t.offset
      /\ v.asked = t.asked /\ v.answered = t.answered /\ v.read = t.read /\ v.outcomes = t.outcomes /\ v.wire = t.wire
      /\ v.handler = t.handler
  BY DEF FileOK, TransferTypeOK
<1> HIDE DEF v
<1>4. /\ LettersOK(t.mail, t.started, t.thread, t.outcomes, t.outgoing) /\ Len(t.mail) \in Nat \ {0}
      /\ Head(t.mail) = t.mail[1] /\ Tells(t.mail, "part") /\ Len(u.mail) = Len(t.mail) - 1
  <2>1. LettersOK(t.mail, t.started, t.thread, t.outcomes, t.outgoing) BY DEF FileOK, Letters
  <2> QED BY <2>1, LetterRead
<1>5. 1 \in DOMAIN t.mail BY <1>4, LetterRead
<1>6. t.outgoing /\ t.started /\ t.mail[1].part \in Nat BY <1>4, <1>5 DEF LettersOK
<1>7. t.thread \in Sending /\ Sent(t) BY <1>4, <1>6 DEF FileOK, Sent
<1>8. t.offset \in Nat /\ t.read \in Nat /\ t.from \in Nat /\ t.wire \in Seq(Nat \X Nat) /\ t.offset + 1 \in Nat
  BY DEF FileOK, TransferTypeOK
<1> DEFINE p == t.mail[1].part
           e == <<p, t.offset + 1>>
<1>9. e \in Nat \X Nat /\ e[1] = p /\ e[2] = t.offset + 1 BY <1>6, <1>8
<1>10. u.wire = Append(t.wire, e) BY <1>4 DEF NextPart
<1> HIDE DEF e, p
<1>11. /\ u.wire \in Seq(Nat \X Nat) /\ Len(u.wire) = Len(t.wire) + 1 /\ Len(t.wire) \in Nat
       /\ u.wire # <<>> /\ DOMAIN t.wire = 1..Len(t.wire) /\ DOMAIN u.wire = 1..(Len(t.wire) + 1)
       /\ \A k \in 1..(Len(t.wire) + 1) : u.wire[k] = IF k = Len(t.wire) + 1 THEN e ELSE t.wire[k]
  <2> DEFINE S == Nat \X Nat
             w == t.wire
             q == u.wire
  <2>0. w \in Seq(S) /\ e \in S BY <1>8, <1>9
  <2>5. q = Append(w, e) BY <1>10
  <2> HIDE DEF S, w, q
  <2>4. /\ Append(w, e) \in Seq(S) /\ Len(Append(w, e)) = Len(w) + 1 /\ Len(w) \in Nat
        /\ \A k \in 1..(Len(w) + 1) : Append(w, e)[k] = IF k = Len(w) + 1 THEN e ELSE w[k]
    BY ONLY <2>0, Added
  <2>6. /\ q \in Seq(S) /\ Len(q) = Len(w) + 1 /\ Len(w) \in Nat
        /\ \A k \in 1..(Len(w) + 1) : q[k] = IF k = Len(w) + 1 THEN e ELSE w[k]
    BY <2>4, <2>5
  <2>1. u.wire \in Seq(Nat \X Nat) /\ Len(u.wire) = Len(t.wire) + 1 /\ Len(t.wire) \in Nat BY <2>6 DEF S, w, q
  <2>2. \A k \in 1..(Len(t.wire) + 1) : u.wire[k] = IF k = Len(t.wire) + 1 THEN e ELSE t.wire[k] BY <2>6 DEF w, q
  <2>3. u.wire # <<>> /\ DOMAIN t.wire = 1..Len(t.wire) /\ DOMAIN u.wire = 1..(Len(t.wire) + 1)
    <3>1. DOMAIN w = 1..Len(w) BY <2>0
    <3>2. DOMAIN q = 1..(Len(w) + 1) BY <2>6
    <3>3. Len(<<>>) = 0 OBVIOUS
    <3>4. q # <<>> BY <2>6, <3>3
    <3> QED BY <3>1, <3>2, <3>4 DEF w, q
  <2> QED BY <2>1, <2>2, <2>3
\* where it goes, and which part it is when it ends the file or leaves none that waits
<1>12. t.offset = t.from + Len(t.wire) /\ \A k \in DOMAIN t.wire : t.wire[k][2] = t.from + k BY <1>6, <1>7 DEF Sent
<1>13. /\ t.offset + Waiting(t) <= t.read /\ t.read <= Parts
       /\ \A i \in 1..Waiting(t) : t.mail[i].part = (t.read - Waiting(t)) + i
       /\ t.offset + Waiting(t) = t.read => AsRead(t)
       /\ t.thread = "gone" => t.mail[Len(t.mail)].about = "end"
  BY <1>6, <1>7 DEF FileOK, ToSend
<1>14. Waiting(t) \in Nat \ {0} /\ 1 \in 1..Waiting(t)
  <2>1. CASE t.thread = "gone"
    <3>1. Len(t.mail) # 1 BY <1>4, <1>13, <2>1
    <3>2. Waiting(t) = Len(t.mail) - 1 BY <2>1 DEF Waiting
    <3>3. \A n \in Nat \ {0} : n # 1 => n - 1 \in Nat \ {0} /\ 1 \in 1..(n - 1) OBVIOUS
    <3>4. Len(t.mail) \in Nat \ {0} BY <1>4
    <3> QED BY <3>1, <3>2, <3>3, <3>4
  <2>2. CASE t.thread # "gone" BY <1>4, <2>2 DEF Waiting
  <2> QED BY <2>1, <2>2
<1>15. p = (t.read - Waiting(t)) + 1 BY <1>13, <1>14 DEF p
<1>16. ASSUME t.offset + Waiting(t) = t.read PROVE AsRead(u)
  <2>1. AsRead(t) /\ p = t.offset + 1 BY <1>8, <1>13, <1>14, <1>15, <1>16
  <2> SUFFICES ASSUME NEW k \in 1..(Len(t.wire) + 1) PROVE u.wire[k][1] = u.from + k BY <1>11 DEF AsRead
  <2>2. CASE k = Len(t.wire) + 1
    <3>1. u.wire[k][1] = t.offset + 1 BY <1>9, <1>11, <2>1, <2>2
    <3>2. \A a, b \in Int : (a + b) + 1 = a + (b + 1) OBVIOUS
    <3>3. t.from \in Int /\ Len(t.wire) \in Int BY <1>8, <1>11
    <3> QED BY <1>1, <1>12, <2>2, <3>1, <3>2, <3>3
  <2>3. CASE k # Len(t.wire) + 1
    <3>1. k \in DOMAIN t.wire /\ u.wire[k] = t.wire[k] BY <1>11, <2>3
    <3> QED BY <1>1, <2>1, <3>1 DEF AsRead
  <2> QED BY <2>2, <2>3
<1>17. t.offset + 1 = Parts => t.offset + Waiting(t) = t.read BY <1>8, <1>13, <1>14, FileAssumption
<1>t. TransferTypeOK(u) BY <1>1, <1>8, <1>11 DEF FileOK, TransferTypeOK
<1>l. Letters(u) BY <1>1, <1>2, <1>3 DEF FileOK, Letters
<1>w. Works(u)
  <2>1. Works(t) BY DEF FileOK
  <2>2. t.mail # <<>> /\ t.thread \notin {"none", "hashing", "asking"} BY <1>7 DEF Sending
  <2> QED BY <1>1, <1>6, <2>1, <2>2 DEF Works
<1>o. OneOutcome(u) BY <1>1 DEF FileOK, OneOutcome
<1>r. Received(u) BY <1>1, <1>6 DEF Received
<1>a. Asking(u) BY <1>1, <1>2, <1>3 DEF FileOK, Asking
<1>s. Sent(u)
  <2>1. u.offset = u.from + Len(u.wire) BY <1>1, <1>8, <1>11, <1>12
  <2>2. ASSUME NEW k \in 1..(Len(t.wire) + 1) PROVE u.wire[k][2] = u.from + k
    <3>1. CASE k = Len(t.wire) + 1
      <4>1. u.wire[k][2] = t.offset + 1 BY <1>9, <1>11, <3>1
      <4> QED BY <1>1, <1>8, <1>11, <1>12, <3>1, <4>1
    <3>2. CASE k # Len(t.wire) + 1
      <4>1. k \in DOMAIN t.wire /\ u.wire[k] = t.wire[k] BY <1>11, <3>2
      <4> QED BY <1>1, <1>12, <4>1
    <3> QED BY <3>1, <3>2
  <2>3. u.offset <= Parts BY <1>8, <1>13, <1>14, FileAssumption
  <2>4. AllSent(u) => AsRead(u)
    <3>1. AllSent(u) => t.offset + 1 = Parts BY <1>1, <1>8, <1>11, <1>12 DEF AllSent
    <3> QED BY <1>16, <1>17, <3>1
  <2>5. ~t.finished
    <3>1. t.finished => t.from + Len(t.wire) = Parts BY <1>6, <1>7 DEF Sent, AllSent
    <3>2. t.offset < Parts BY <1>8, <1>13, <1>14, FileAssumption
    <3> QED BY <1>8, <1>12, <3>1, <3>2, FileAssumption
  <2> QED BY <1>1, <1>6, <1>7, <1>11, <2>1, <2>2, <2>3, <2>4, <2>5 DEF Sent, Sending
<1>n. ToSend(u)
  <2>1. ToSend(v) BY <1>2 DEF FileOK
  <2>2. Waiting(u) = Waiting(v) /\ Waiting(u) = Waiting(t) - 1
    <3>1. Waiting(u) = Waiting(v) BY <1>1, <1>2, <1>3 DEF Waiting
    <3>2. t.thread = "gone" => u.mail # <<>>
      <4>1. t.thread = "gone" => Len(u.mail) # 0 BY <1>4, <1>13
      <4>2. Len(<<>>) = 0 OBVIOUS
      <4> QED BY <4>1, <4>2
    <3>3. Waiting(u) = Waiting(t) - 1 BY <1>1, <1>4, <3>2 DEF Waiting
    <3> QED BY <3>1, <3>3
  <2>3. u.offset + Waiting(u) = t.offset + Waiting(t) BY <1>8, <1>14, <2>2
  <2>4. \A i \in 1..Waiting(u) : u.mail[i].about = "part" /\ u.mail[i].part = u.read - Waiting(u) + i
    <3>1. v.outgoing /\ ~v.stop /\ v.thread \in Sending BY <1>3, <1>6, <1>7
    <3>2. \A i \in 1..Waiting(v) : v.mail[i].about = "part" /\ v.mail[i].part = v.read - Waiting(v) + i BY <2>1, <3>1 DEF ToSend
    <3> QED BY ZenonT(60), <1>1, <1>2, <1>3, <2>2, <3>2
  <2>5. u.thread = "gone" /\ u.mail # <<>> => u.mail[Len(u.mail)].about = "end"
    BY <1>1, <1>2, <1>3, <1>6, <1>7, <2>1 DEF ToSend
  <2>6. u.offset + Waiting(u) <= u.read /\ u.read <= Parts BY <1>1, <1>13, <2>3
  <2>7. u.offset + Waiting(u) = u.read => AsRead(u) BY <1>1, <1>16, <2>3
  <2> QED BY <2>4, <2>5, <2>6, <2>7 DEF ToSend
<1> QED BY <1>t, <1>l, <1>w, <1>o, <1>r, <1>a, <1>s, <1>n DEF FileOK
\* ... the hash is found, or not
LEMMA HashPosted ==
  ASSUME NEW t, NEW u, NEW ok \in BOOLEAN, FileOK(t), Changes(t, u, Notes \cup {"mail", "thread"}), Noted(t, u),
         t.thread = "hashing", u.thread = "none", u.mail = t.mail \/ u.mail = Append(t.mail, [about |-> "hash", ok |-> ok])
  PROVE  FileOK(u)
<1>1. /\ u.outgoing = t.outgoing /\ u.proposal = t.proposal /\ u.entry = t.entry
      /\ u.handler = t.handler /\ u.started = t.started /\ u.stop = t.stop
      /\ u.file = t.file /\ u.hash = t.hash /\ u.queue = t.queue /\ u.received = t.received /\ u.offset = t.offset
      /\ u.from = t.from /\ u.asked = t.asked /\ u.answered = t.answered
      /\ u.read = t.read /\ u.wire = t.wire /\ u.finished = t.finished /\ u.lost = t.lost /\ u.outcomes = t.outcomes
      /\ DOMAIN u = DOMAIN t
  BY DEF FileOK, TransferTypeOK, Changes, Notes
<1>2. ~t.started /\ t.outgoing /\ ~t.answered /\ ~t.asked /\ t.mail = <<>> /\ t.handler # "new"
  BY DEF FileOK, Works, Working, Received
<1>4. LettersOK(t.mail, t.started, t.thread, t.outcomes, t.outgoing) BY DEF FileOK, Letters
<1> DEFINE e == [about |-> "hash", ok |-> ok]
<1>5. e.about = "hash" /\ e.ok = ok OBVIOUS
<1>6. u.mail = t.mail \/ u.mail = Append(t.mail, e) OBVIOUS
<1> HIDE DEF e
<1>7. LettersOK(u.mail, t.started, "none", t.outcomes, t.outgoing) /\ \A about : Tells(u.mail, about) => about = "hash"
  <2>2. \A about : ~Tells(t.mail, about) BY <1>2 DEF Tells
  <2>3. CASE u.mail = t.mail
    <3>1. LettersOK(t.mail, t.started, "none", t.outcomes, t.outgoing) BY <1>2, <1>4 DEF LettersOK
    <3> QED BY <2>2, <2>3, <3>1
  <2>4. CASE u.mail = Append(t.mail, e)
    <3>1. NewLetter(t.mail, e, t.started, "none", t.outcomes, t.outgoing) BY <1>2, <1>5 DEF NewLetter
    <3> QED BY <1>4, <1>5, <2>2, <2>4, <3>1, LetterSent
  <2> QED BY <1>6, <2>3, <2>4
<1>t. TransferTypeOK(u) BY <1>1 DEF FileOK, TransferTypeOK, Noted
<1>l. Letters(u) BY <1>1, <1>7 DEF Letters
<1>w. Works(u) BY <1>1, <1>2 DEF FileOK, Works, Working
<1>o. OneOutcome(u) BY <1>1 DEF FileOK, OneOutcome, Working
<1>r. Received(u) BY <1>1, <1>2 DEF Received
<1>a. Asking(u) BY <1>1, <1>2, <1>7 DEF Asking
<1>s. Sent(u)
  <2>1. Sent(t) BY DEF FileOK
  <2>2. ~Tells(u.mail, "part") BY <1>7
  <2>3. AllSent(u) = AllSent(t) /\ AsRead(u) = AsRead(t) BY <1>1 DEF AllSent, AsRead
  <2> QED BY ZenonT(60), <1>1, <2>1, <2>2, <2>3 DEF Sent, Sending
<1>n. ToSend(u) BY DEF ToSend, Sending
<1> QED BY <1>t, <1>l, <1>w, <1>o, <1>r, <1>a, <1>s, <1>n DEF FileOK
\* ... the handler is told to stop, or stops with the last part
LEMMA StopTold ==
  ASSUME NEW t, NEW u, FileOK(t), Changes(t, u, Notes \cup {"stop", "queue", "finished"}), Noted(t, u), u.stop = TRUE,
         u.queue = t.queue \/ u.queue = Append(t.queue, <<0, TRUE>>), u.finished \in BOOLEAN,
         u.finished => t.finished \/ ~t.outgoing \/ (t.wire # <<>> /\ AllSent(t)), t.finished => u.finished
  PROVE  FileOK(u)
<1>1. /\ u.outgoing = t.outgoing /\ u.proposal = t.proposal /\ u.entry = t.entry /\ u.thread = t.thread
      /\ u.handler = t.handler /\ u.started = t.started /\ u.mail = t.mail
      /\ u.file = t.file /\ u.hash = t.hash /\ u.received = t.received /\ u.offset = t.offset
      /\ u.from = t.from /\ u.asked = t.asked /\ u.answered = t.answered
      /\ u.read = t.read /\ u.wire = t.wire /\ u.lost = t.lost /\ u.outcomes = t.outcomes
      /\ DOMAIN u = DOMAIN t
  BY DEF FileOK, TransferTypeOK, Changes, Notes
<1>2. IsSeq(t.queue) BY DEF FileOK, TransferTypeOK
<1>3. IsSeq(u.queue) /\ \A i \in DOMAIN u.queue : u.queue[i][1] = 0 \/ (i \in DOMAIN t.queue /\ u.queue[i] = t.queue[i])
  <2>1. CASE u.queue = t.queue BY <1>2, <2>1
  <2>2. CASE u.queue = Append(t.queue, <<0, TRUE>>)
    <3> DEFINE e == <<0, TRUE>>
               q == t.queue
    <3>1. IsSeq(q) /\ e[1] = 0 BY <1>2
    <3> HIDE DEF e, q
    <3>2. /\ IsSeq(Append(q, e)) /\ Len(Append(q, e)) = Len(q) + 1 /\ Len(q) \in Nat /\ DOMAIN q = 1..Len(q)
          /\ \A i \in 1..(Len(q) + 1) : Append(q, e)[i] = IF i = Len(q) + 1 THEN e ELSE q[i]
      BY <3>1, AppendIs, SeqDomain
    <3>3. DOMAIN Append(q, e) = 1..(Len(q) + 1) BY <3>2, SeqDomain
    <3>4. \A i \in DOMAIN Append(q, e) : Append(q, e)[i][1] = 0 \/ (i \in DOMAIN q /\ Append(q, e)[i] = q[i])
      BY <3>1, <3>2, <3>3
    <3> QED BY <2>2, <3>2, <3>4 DEF e, q
  <2> QED BY <2>1, <2>2
<1>t. TransferTypeOK(u) BY <1>1, <1>3 DEF FileOK, TransferTypeOK, Noted
<1>l. Letters(u) BY <1>1 DEF FileOK, Letters
<1>w. Works(u) BY <1>1 DEF FileOK, Works
<1>o. OneOutcome(u) BY <1>1 DEF FileOK, OneOutcome
<1>r. Received(u) BY ZenonT(60), <1>1, <1>3 DEF FileOK, Received
<1>s. Sent(u)
  <2>1. Sent(t) BY DEF FileOK
  <2>3. AllSent(u) = AllSent(t) /\ AsRead(u) = AsRead(t) BY <1>1 DEF AllSent, AsRead
  <2> QED BY ZenonT(60), <1>1, <2>1, <2>3 DEF Sent
<1> QED BY <1>1, <1>t, <1>l, <1>w, <1>o, <1>r, <1>s DEF FileOK, Asking, ToSend
\* ... the thread begins
LEMMA ThreadBegins ==
  ASSUME NEW t, NEW u, FileOK(t), Changes(t, u, {"started", "thread"}), t.handler = "on", t.thread = "none", t.mail = <<>>,
         u.started = TRUE, u.thread \in (IF t.outgoing THEN {"asking", "seeking"} ELSE {"writing"})
  PROVE  FileOK(u)
<1>1. /\ u.outgoing = t.outgoing /\ u.proposal = t.proposal /\ u.entry = t.entry /\ u.stop = t.stop
      /\ u.handler = t.handler /\ u.mail = t.mail /\ u.queue = t.queue
      /\ u.file = t.file /\ u.hash = t.hash /\ u.received = t.received /\ u.offset = t.offset
      /\ u.from = t.from /\ u.asked = t.asked /\ u.answered = t.answered
      /\ u.read = t.read /\ u.wire = t.wire /\ u.lost = t.lost /\ u.outcomes = t.outcomes /\ u.finished = t.finished
      /\ DOMAIN u = DOMAIN t /\ u.born = t.born /\ u.known = t.known /\ u.heard = t.heard
  BY DEF FileOK, TransferTypeOK, Changes
<1>2. ~t.started /\ ~t.asked /\ ~t.answered /\ t.outcomes = <<>> /\ "removed" \notin t.lost
  BY DEF FileOK, Works, OneOutcome, Working
<1>3. \A about : ~Tells(t.mail, about) BY DEF Tells
<1>4. u.thread \in Working BY DEF Working
<1>t. TransferTypeOK(u) BY <1>1, <1>4 DEF FileOK, TransferTypeOK
<1>l. Letters(u) BY <1>1 DEF FileOK, Letters, LettersOK
<1>w. Works(u) BY <1>1, <1>2, <1>4 DEF FileOK, Works
<1>o. OneOutcome(u) BY <1>1, <1>2 DEF OneOutcome
<1>r. Received(u) BY <1>1, <1>2 DEF FileOK, Received
<1>a. Asking(u) BY <1>1, <1>2, <1>3 DEF Asking
<1>s. Sent(u)
  <2>1. Sent(t) BY DEF FileOK
  <2>2. t.wire = <<>> BY <1>2 DEF FileOK, Works
  <2>3. t.outcomes # <<TRUE>> BY <1>2
  <2>4. u.thread \notin {"sending", "finishing", "gone"} BY <1>4 DEF Working
  <2>5. t.outgoing => u.thread \notin {"writing", "checking"} OBVIOUS
  <2> QED BY ZenonT(60), <1>1, <1>3, <2>1, <2>2, <2>3, <2>4, <2>5 DEF Sent, Sending
<1>n. ToSend(u) BY <1>1 DEF ToSend, Sending
<1> QED BY <1>t, <1>l, <1>w, <1>o, <1>r, <1>a, <1>s, <1>n DEF FileOK
\* ... the question is on its way, or answered
LEMMA AnswerTaken ==
  ASSUME NEW t, NEW u, FileOK(t), Changes(t, u, {"asked", "answered", "offset"}),
         t.outgoing, t.started, t.thread # "asking", u.asked \in BOOLEAN, u.answered \in BOOLEAN, u.offset \in Nat, u.offset <= Parts,
         ~t.stop => t.thread = "waiting" /\ ~Tells(t.mail, "ask") /\ ~(u.asked /\ u.answered),
         t.stop => u.offset = t.offset
  PROVE  FileOK(u)
<1>1. /\ u.outgoing = t.outgoing /\ u.proposal = t.proposal /\ u.entry = t.entry /\ u.thread = t.thread
      /\ u.handler = t.handler /\ u.started = t.started /\ u.stop = t.stop /\ u.mail = t.mail
      /\ u.file = t.file /\ u.hash = t.hash /\ u.queue = t.queue /\ u.received = t.received
      /\ u.from = t.from
      /\ u.read = t.read /\ u.wire = t.wire /\ u.finished = t.finished /\ u.lost = t.lost /\ u.outcomes = t.outcomes
      /\ DOMAIN u = DOMAIN t /\ u.born = t.born /\ u.known = t.known /\ u.heard = t.heard
  BY ZenonT(60) DEF FileOK, TransferTypeOK, Changes
<1>2. t.thread \notin {"none", "hashing", "asking"} BY DEF FileOK, Works, Working
<1>t. TransferTypeOK(u) BY <1>1 DEF FileOK, TransferTypeOK
<1>l. Letters(u) BY <1>1 DEF FileOK, Letters
<1>w. Works(u) BY <1>1, <1>2 DEF FileOK, Works
<1>o. OneOutcome(u) BY <1>1 DEF FileOK, OneOutcome
<1>r. Received(u) BY <1>1 DEF Received
<1>a. Asking(u) BY <1>1 DEF Asking
<1>s. Sent(u)
  <2>1. Sent(t) BY DEF FileOK
  <2>2. AllSent(u) = AllSent(t) /\ AsRead(u) = AsRead(t) BY <1>1 DEF AllSent, AsRead
  <2>3. t.thread \in Sending => u.offset = t.offset BY DEF Sending
  <2> QED BY ZenonT(60), <1>1, <2>1, <2>2, <2>3 DEF Sent
<1>n. ToSend(u)
  <2>1. ~t.stop => t.thread \notin Sending BY DEF Sending
  <2> QED BY <1>1, <2>1 DEF ToSend
<1> QED BY <1>t, <1>l, <1>w, <1>o, <1>r, <1>a, <1>s, <1>n DEF FileOK
\* ... the thread begins to send, from the offset that the peer asks for
LEMMA SendingBegins ==
  ASSUME NEW t, NEW u, FileOK(t), Changes(t, u, {"thread", "from", "read"}),
         t.thread = "seeking" \/ (t.thread = "waiting" /\ (t.answered \/ t.stop)),
         u.thread = "sending", u.from = t.offset, u.read = t.offset
  PROVE  FileOK(u)
<1>1. /\ u.outgoing = t.outgoing /\ u.proposal = t.proposal /\ u.entry = t.entry /\ u.offset = t.offset
      /\ u.handler = t.handler /\ u.started = t.started /\ u.stop = t.stop /\ u.mail = t.mail
      /\ u.file = t.file /\ u.hash = t.hash /\ u.queue = t.queue /\ u.received = t.received
      /\ u.asked = t.asked /\ u.answered = t.answered
      /\ u.wire = t.wire /\ u.finished = t.finished /\ u.lost = t.lost /\ u.outcomes = t.outcomes
      /\ DOMAIN u = DOMAIN t /\ u.born = t.born /\ u.known = t.known /\ u.heard = t.heard
  BY DEF FileOK, TransferTypeOK, Changes
<1>2. /\ t.outgoing /\ t.started /\ t.outcomes = <<>> /\ t.handler # "new" /\ "removed" \notin t.lost
      /\ t.wire = <<>> /\ ~Tells(t.mail, "part") /\ t.offset \in Nat /\ t.offset <= Parts /\ ~t.finished
  BY DEF FileOK, Received, Works, OneOutcome, Working, Sent, Sending, TransferTypeOK
<1>3. ~t.stop => ~t.asked /\ ~Tells(t.mail, "ask") BY <1>2 DEF FileOK, Asking
<1>4. LettersOK(t.mail, t.started, t.thread, t.outcomes, t.outgoing) /\ IsSeq(t.mail) BY DEF FileOK, Letters, LettersOK
<1>5. Len(t.mail) \in Nat /\ DOMAIN t.mail = 1..Len(t.mail) BY <1>4, SeqDomain
<1>6. ~t.stop => Len(t.mail) = 0
  <2>1. ASSUME ~t.stop, NEW i \in DOMAIN t.mail PROVE FALSE
    <3>1. t.mail[i].about \notin {"hash", "error", "end"} BY <1>2, <1>4 DEF LettersOK
    <3>2. t.mail[i].about \notin {"ask", "part"} BY <1>2, <1>3, <2>1 DEF Tells
    <3> QED BY <1>4, <3>1, <3>2 DEF LettersOK
  <2>2. Len(t.mail) # 0 => 1 \in DOMAIN t.mail BY <1>5
  <2> QED BY <2>1, <2>2
<1>t. TransferTypeOK(u) BY <1>1, <1>2 DEF FileOK, TransferTypeOK, Working
<1>l. Letters(u) BY <1>1, <1>2, <1>4 DEF Letters, LettersOK
<1>w. Works(u) BY <1>1, <1>2 DEF FileOK, Works, Working
<1>o. OneOutcome(u) BY <1>1, <1>2 DEF OneOutcome
<1>r. Received(u) BY <1>1, <1>2 DEF Received
<1>a. Asking(u) BY <1>1, <1>3 DEF FileOK, Asking
<1>7. Len(t.wire) = 0 /\ DOMAIN t.wire = {} BY <1>2
<1>8. AsRead(u) BY <1>1, <1>7 DEF AsRead
<1>s. Sent(u)
  <2>1. t.outcomes # <<TRUE>> BY <1>2
  <2>2. u.offset = u.from + Len(u.wire) BY <1>1, <1>2, <1>7
  <2>3. \A k \in DOMAIN u.wire : u.wire[k][2] = u.from + k BY <1>1, <1>7
  <2> QED BY <1>1, <1>2, <2>1, <2>2, <2>3 DEF Sent, Sending
<1>n. ToSend(u)
  <2>1. ~t.stop => Waiting(u) = 0 BY <1>1, <1>6 DEF Waiting
  <2> QED BY <1>1, <1>2, <1>8, <2>1 DEF ToSend
<1> QED BY <1>t, <1>l, <1>w, <1>o, <1>r, <1>a, <1>s, <1>n DEF FileOK
\* ... the thread has read it all
LEMMA SendingEnds ==
  ASSUME NEW t, NEW u, FileOK(t), Changes(t, u, Notes \cup {"thread"}), Noted(t, u), t.thread = "sending", u.thread = "finishing"
  PROVE  FileOK(u)
<1>1. /\ u.outgoing = t.outgoing /\ u.proposal = t.proposal /\ u.entry = t.entry /\ u.offset = t.offset
      /\ u.handler = t.handler /\ u.started = t.started /\ u.stop = t.stop /\ u.mail = t.mail
      /\ u.file = t.file /\ u.hash = t.hash /\ u.queue = t.queue /\ u.received = t.received
      /\ u.asked = t.asked /\ u.answered = t.answered /\ u.from = t.from /\ u.read = t.read
      /\ u.wire = t.wire /\ u.finished = t.finished /\ u.lost = t.lost /\ u.outcomes = t.outcomes
      /\ DOMAIN u = DOMAIN t
  BY DEF FileOK, TransferTypeOK, Changes, Notes
<1>2. t.outgoing /\ t.started /\ t.outcomes = <<>> /\ t.handler # "new"
  BY DEF FileOK, Received, Works, OneOutcome, Working
<1>3. AllSent(u) = AllSent(t) /\ AsRead(u) = AsRead(t) BY <1>1 DEF AllSent, AsRead
<1>t. TransferTypeOK(u) BY <1>1, <1>2 DEF FileOK, TransferTypeOK, Working, Noted
<1>l. Letters(u) BY <1>1 DEF FileOK, Letters, LettersOK
<1>w. Works(u) BY <1>1, <1>2 DEF FileOK, Works, Working
<1>o. OneOutcome(u) BY <1>1, <1>2 DEF FileOK, OneOutcome, Working
<1>r. Received(u) BY <1>1, <1>2 DEF Received
<1>a. Asking(u) BY <1>1 DEF FileOK, Asking
<1>s. Sent(u)
  <2>1. Sent(t) BY DEF FileOK
  <2> QED BY ZenonT(60), <1>1, <1>3, <2>1 DEF Sent, Sending
<1>n. ToSend(u)
  <2>1. ToSend(t) BY DEF FileOK
  <2>2. Waiting(u) = Waiting(t) BY <1>1 DEF Waiting
  <2> QED BY <1>1, <1>3, <2>1, <2>2 DEF ToSend, Sending
<1> QED BY <1>t, <1>l, <1>w, <1>o, <1>r, <1>a, <1>s, <1>n DEF FileOK
\* ... the handler begins
LEMMA HandlerBegins ==
  ASSUME NEW t, NEW u, FileOK(t), Changes(t, u, Notes \cup {"handler", "thread", "file", "hash", "offset", "entry"}), Noted(t, u),
         t.handler = "new", u.handler = "on", t.outgoing \/ t.outcomes # <<TRUE>>,
         t.outgoing => /\ u.thread \in {"none", "hashing"} /\ u.offset = t.offset
                       /\ u.file = t.file /\ u.hash = t.hash /\ u.entry = t.entry,
         ~t.outgoing => u.thread = "none" /\ u.file = t.entry /\ u.hash = t.entry /\ u.offset = Len(t.entry)
  PROVE  FileOK(u)
<1>1. /\ u.outgoing = t.outgoing /\ u.proposal = t.proposal
      /\ u.started = t.started /\ u.stop = t.stop /\ u.mail = t.mail /\ u.queue = t.queue /\ u.received = t.received
      /\ u.asked = t.asked /\ u.answered = t.answered /\ u.from = t.from /\ u.read = t.read
      /\ u.wire = t.wire /\ u.finished = t.finished /\ u.lost = t.lost /\ u.outcomes = t.outcomes
      /\ DOMAIN u = DOMAIN t
  BY ZenonT(60) DEF FileOK, TransferTypeOK, Changes, Notes
<1>2. t.thread = "none" /\ t.mail = <<>> /\ ~t.started /\ ~t.asked /\ ~t.answered /\ t.outcomes = <<>> /\ "removed" \notin t.lost
  BY DEF FileOK, Works, Working, OneOutcome
<1>3. u.thread \in {"none", "hashing"} /\ (~t.outgoing => u.offset \in Nat /\ u.offset < Parts)
  <2>1. ~t.outgoing => Len(t.entry) \in 0..(Parts - 1) BY DEF FileOK, Received
  <2>2. ~t.outgoing => u.offset \in Nat /\ u.offset < Parts BY <2>1, FileAssumption
  <2> QED BY <2>2
<1>4. \A about : ~Tells(u.mail, about) BY <1>1, <1>2 DEF Tells
<1>t. TransferTypeOK(u) BY <1>1, <1>3 DEF FileOK, TransferTypeOK, Noted
<1>l. Letters(u)
  <2>1. LettersOK(t.mail, t.started, t.thread, t.outcomes, t.outgoing) BY DEF FileOK, Letters
  <2> QED BY <1>1, <1>2, <2>1 DEF Letters, LettersOK
<1>w. Works(u) BY <1>1, <1>2, <1>3 DEF FileOK, Works, Working
<1>o. OneOutcome(u) BY <1>1, <1>2, <1>3 DEF OneOutcome, Working
<1>r. Received(u)
  <2>1. t.outcomes # <<TRUE>> BY <1>2
  <2>2. Received(t) BY DEF FileOK
  <2> QED BY <1>1, <1>3, <2>1, <2>2 DEF Received
<1>a. Asking(u) BY <1>1, <1>2, <1>4 DEF Asking
<1>s. Sent(u)
  <2>1. Sent(t) BY DEF FileOK
  <2>2. AllSent(u) = AllSent(t) /\ AsRead(u) = AsRead(t) BY <1>1 DEF AllSent, AsRead
  <2>3. u.thread \notin Sending /\ u.thread \notin {"writing", "checking"} /\ t.thread \notin Sending BY <1>2, <1>3 DEF Sending
  <2> QED BY <1>1, <1>4, <2>1, <2>2, <2>3 DEF Sent
<1>n. ToSend(u) BY <1>3 DEF ToSend, Sending
<1> QED BY <1>t, <1>l, <1>w, <1>o, <1>r, <1>a, <1>s, <1>n DEF FileOK
\* ... a chunk comes in, is written, and the last one
Writes(t, u) ==
  /\ Changes(t, u, {"file", "hash", "offset", "queue", "received", "thread"}) /\ ~t.outgoing /\ t.handler = "on"
  /\ IsSeq(u.queue) /\ u.received \in Nat /\ u.offset \in Nat /\ ("removed" \notin t.lost => u.file = u.hash)
  /\ u.thread = t.thread \/ (t.thread = "writing" /\ u.thread = "checking")
  /\ u.received = 0 => u.offset < Parts /\ \A i \in DOMAIN u.queue : u.queue[i][1] = 0
  /\ t.outcomes = <<TRUE>> => u.file = Whole /\ u.received > 0
LEMMA ReceiverGoesOn ==
  ASSUME NEW t, NEW u, FileOK(t), Writes(t, u)
  PROVE  FileOK(u)
<1>1. /\ u.outgoing = t.outgoing /\ u.proposal = t.proposal /\ u.entry = t.entry /\ u.handler = t.handler
      /\ u.started = t.started /\ u.stop = t.stop /\ u.mail = t.mail
      /\ u.asked = t.asked /\ u.answered = t.answered /\ u.from = t.from /\ u.read = t.read
      /\ u.wire = t.wire /\ u.finished = t.finished /\ u.lost = t.lost /\ u.outcomes = t.outcomes
      /\ DOMAIN u = DOMAIN t /\ u.born = t.born /\ u.known = t.known /\ u.heard = t.heard
  BY DEF FileOK, TransferTypeOK, Changes, Writes
<1>t. TransferTypeOK(u) BY <1>1 DEF FileOK, TransferTypeOK, Working, Writes
<1>l. Letters(u) BY <1>1 DEF FileOK, Letters, LettersOK, Writes
<1>w. Works(u) BY <1>1 DEF FileOK, Works, Working, Writes
<1>o. OneOutcome(u) BY <1>1 DEF FileOK, OneOutcome, Working, Writes
<1>r. Received(u) BY <1>1 DEF FileOK, Received, Writes
<1> QED BY <1>1, <1>t, <1>l, <1>w, <1>o, <1>r DEF FileOK, Asking, Sent, ToSend, Writes
\* The handler begins: the file is opened, its hash known or looked for, or nothing of it can be done.
LEMMA TransferBegun ==
  ASSUME FileOK(transfer), ForTheStream, OpensFile \/ KnowsHash \/ StartsHashing \/ CannotTransfer
  PROVE  FileOK(transfer') /\ transfer'.started = transfer.started /\ transfer'.born = transfer.born
         /\ transfer'.proposal = transfer.proposal /\ ~Tells(transfer'.mail, "hash")
         /\ (transfer'.thread = "hashing" => StartsHashing)
<1>1. life = "new"
  BY DEF OpensFile, KnowsHash, StartsHashing, CannotTransfer, CallInitialize, Calls
<1>2. transfer.handler = "new" BY <1>1 DEF ForTheStream
<1>3. /\ transfer.thread = "none" /\ transfer.outcomes = <<>> /\ transfer.outcomes # <<TRUE>> /\ transfer.mail = <<>>
      /\ ~Tells(transfer.mail, "hash")
  <2>1. transfer.thread = "none" /\ transfer.mail = <<>> BY <1>2 DEF FileOK, Works
  <2>2. transfer.outcomes = <<>> BY <1>2, <2>1 DEF FileOK, OneOutcome
  <2>3. <<>> # <<TRUE>> OBVIOUS
  <2> QED BY <2>1, <2>2, <2>3 DEF Tells
<1>4. CASE OpensFile
  <2>1. /\ Changes(transfer, transfer', Notes \cup {"handler", "file", "hash", "offset", "entry"}) /\ Noted(transfer, transfer')
        /\ transfer'.handler = "on" /\ transfer'.file = transfer.entry /\ transfer'.hash = transfer.entry
        /\ transfer'.offset = Len(transfer.entry) /\ ~transfer.outgoing /\ transfer'.thread = transfer.thread
        /\ transfer'.mail = transfer.mail /\ transfer'.started = transfer.started /\ transfer'.born = transfer.born
        /\ transfer'.proposal = transfer.proposal
    BY Zenon, <1>4 DEF OpensFile, Changes, Noted, Notes, FileOK, TransferTypeOK
  <2>2. Changes(transfer, transfer', Notes \cup {"handler", "thread", "file", "hash", "offset", "entry"}) BY <2>1 DEF Changes
  <2>3. FileOK(transfer') BY <1>2, <1>3, <2>1, <2>2, HandlerBegins
  <2> QED BY <1>3, <2>1, <2>3
<1>5. CASE KnowsHash
  <2>1. /\ Changes(transfer, transfer', Notes \cup {"handler"}) /\ Noted(transfer, transfer')
        /\ transfer'.handler = "on" /\ transfer.outgoing /\ transfer'.file = transfer.file /\ transfer'.hash = transfer.hash
        /\ transfer'.offset = transfer.offset /\ transfer'.entry = transfer.entry /\ transfer'.thread = transfer.thread
        /\ transfer'.mail = transfer.mail /\ transfer'.started = transfer.started /\ transfer'.born = transfer.born
        /\ transfer'.proposal = transfer.proposal
    BY <1>5 DEF KnowsHash, Changes, Noted, Notes, FileOK, TransferTypeOK
  <2>2. Changes(transfer, transfer', Notes \cup {"handler", "thread", "file", "hash", "offset", "entry"}) BY <2>1 DEF Changes
  <2>3. FileOK(transfer') BY <1>2, <1>3, <2>1, <2>2, HandlerBegins
  <2> QED BY <1>3, <2>1, <2>3
<1>7. CASE StartsHashing
  <2>1. /\ Changes(transfer, transfer', Notes \cup {"handler", "thread"}) /\ Noted(transfer, transfer')
        /\ transfer'.handler = "on" /\ transfer.outgoing /\ transfer'.file = transfer.file /\ transfer'.hash = transfer.hash
        /\ transfer'.offset = transfer.offset /\ transfer'.entry = transfer.entry /\ transfer'.thread = "hashing"
        /\ transfer'.mail = transfer.mail /\ transfer'.started = transfer.started /\ transfer'.born = transfer.born
        /\ transfer'.proposal = transfer.proposal
    BY <1>7 DEF StartsHashing, Changes, Noted, Notes, FileOK, TransferTypeOK
  <2>2. Changes(transfer, transfer', Notes \cup {"handler", "thread", "file", "hash", "offset", "entry"}) BY <2>1 DEF Changes
  <2>3. FileOK(transfer') BY <1>2, <1>3, <2>1, <2>2, HandlerBegins
  <2> QED BY <1>3, <1>7, <2>1, <2>3
<1>6. CASE CannotTransfer
  <2>1. /\ Changes(transfer, transfer', Notes \cup {"handler"}) /\ Noted(transfer, transfer')
        /\ transfer'.handler = "off" /\ transfer'.stop = transfer.stop /\ transfer'.outcomes = transfer.outcomes
        /\ transfer'.lost = transfer.lost /\ transfer'.entry = transfer.entry /\ transfer'.thread = transfer.thread
        /\ transfer'.mail = transfer.mail /\ transfer'.started = transfer.started /\ transfer'.born = transfer.born
        /\ transfer'.proposal = transfer.proposal /\ transfer.stop \in BOOLEAN
    BY <1>6 DEF CannotTransfer, Changes, Noted, Notes, FileOK, TransferTypeOK
  <2>2. Changes(transfer, transfer', Notes \cup {"handler", "entry", "lost", "stop", "outcomes"}) BY <2>1 DEF Changes
  <2>3. ~transfer.outgoing => transfer.file = <<>> BY <1>2 DEF FileOK, Received
  <2>4. FileOK(transfer') BY <1>3, <2>1, <2>2, <2>3, HandlerOff
  <2> QED BY <1>3, <2>1, <2>4
<1> QED BY <1>4, <1>5, <1>6, <1>7
\* The ways the handler takes an end.
LEMMA NotInitializedOK ==
  ASSUME NEW t, FileOK(t), NEW u, u = HandlerNotInitialized(t), ~t.started
  PROVE  FileOK(u) /\ Changes(t, u, Notes \cup {"handler", "entry", "lost", "stop", "outcomes"})
<1>1. CASE t.handler # "on" BY <1>1 DEF HandlerNotInitialized, On, Changes
<1>2. CASE t.handler = "on"
  <2>1. /\ u.handler = "off" /\ u.lost = (IF ~t.outgoing /\ t.file # <<>> THEN t.lost \cup {"forgot"} ELSE t.lost)
        /\ u.outcomes = t.outcomes /\ Noted(t, u) /\ Changes(t, u, Notes \cup {"handler", "lost", "stop"})
    BY <1>2 DEF HandlerNotInitialized, Terminated, On, Noted, Changes, Notes, FileOK, TransferTypeOK
  <2>2. Changes(t, u, Notes \cup {"handler", "entry", "lost", "stop", "outcomes"}) BY <2>1 DEF Changes
  <2>3. u.stop \in BOOLEAN /\ (t.stop => u.stop)
    <3>1. t.stop \in BOOLEAN /\ t.known \in BOOLEAN BY DEF FileOK, TransferTypeOK
    <3>2. u.stop = (t.stop \/ ~t.known) BY <1>2, Zenon DEF HandlerNotInitialized, Terminated, On, FileOK, TransferTypeOK
    <3> QED BY <3>1, <3>2
  <2>4. t.thread \in {"none", "hashing"} BY DEF FileOK, Works, TransferTypeOK
  <2>5. ~t.outgoing => t.thread = "none" BY <2>4 DEF FileOK, Received
  <2>6. "removed" \in u.lost <=> "removed" \in t.lost BY <2>1
  <2>7. ~t.outgoing /\ u.lost = {} => t.file = <<>> BY <2>1
  <2> QED BY <2>1, <2>2, <2>3, <2>5, <2>6, <2>7, HandlerOff
<1> QED BY <1>1, <1>2 DEF FileOK, TransferTypeOK
LEMMA EndedOK ==
  ASSUME NEW t, FileOK(t), NEW ok \in BOOLEAN, NEW u, u = Ended(t, ok), ~t.outgoing => t.thread \in {"none", "gone"},
         ok => t.outcomes = <<TRUE>>
  PROVE  FileOK(u) /\ Changes(t, u, Notes \cup {"handler", "entry", "lost", "stop", "outcomes"})
<1>0. /\ t.lost = t.lost /\ "removed" # "mismatch" /\ t.stop \in BOOLEAN /\ t.born \in BOOLEAN /\ t.known \in BOOLEAN
      /\ t.heard \in BOOLEAN
  BY DEF FileOK, TransferTypeOK
<1>1. CASE t.handler # "on" BY <1>1 DEF Ended, On, Changes
<1>2. CASE t.handler = "on" /\ (t.outgoing \/ ok)
  <2>1. u = Terminated(t) BY <1>2 DEF Ended, On
  <2>2. /\ u.handler = "off" /\ u.lost = t.lost /\ u.outcomes = t.outcomes /\ u.stop = t.stop /\ Noted(t, u)
        /\ Changes(t, u, Notes \cup {"handler", "entry", "lost", "stop", "outcomes"})
    BY <2>1, <1>0 DEF Terminated, Noted, Changes, Notes, FileOK, TransferTypeOK
  <2>3. ~t.outgoing => u.outcomes = <<TRUE>> BY <1>2, <2>2
  <2> QED BY <1>0, <2>2, <2>3, HandlerOff
<1>3. CASE t.handler = "on" /\ ~t.outgoing /\ ~ok /\ "removed" \in t.lost
  <2>1. u = [t EXCEPT !.lost = @ \cup {"mismatch"}] BY <1>3 DEF Ended, On
  <2>2. /\ u.lost = t.lost \cup {"mismatch"} /\ Noted(t, u) /\ Changes(t, u, Notes \cup {"lost"})
        /\ Changes(t, u, Notes \cup {"handler", "entry", "lost", "stop", "outcomes"})
    BY <2>1, <1>0 DEF Noted, Changes, Notes, FileOK, TransferTypeOK
  <2> QED BY <2>2, <1>3, NotesTaken
<1>4. CASE t.handler = "on" /\ ~t.outgoing /\ ~ok /\ "removed" \notin t.lost
  <2>1. u = Terminated([t EXCEPT !.entry = t.file]) BY <1>4 DEF Ended, On
  <2>2. /\ u.handler = "off" /\ u.lost = t.lost /\ u.outcomes = t.outcomes /\ u.stop = t.stop /\ Noted(t, u) /\ u.entry = t.file
        /\ Changes(t, u, Notes \cup {"handler", "entry", "lost", "stop", "outcomes"})
    BY ZenonT(60), <2>1, <1>0 DEF Terminated, Noted, Changes, Notes, FileOK, TransferTypeOK
  <2> QED BY <1>0, <2>2, HandlerOff
<1> QED BY <1>1, <1>2, <1>3, <1>4
\* What the stream need know of a step of the handler.
GoesOn(t, u) ==
  /\ u.started = t.started /\ u.proposal = t.proposal /\ (t.born => u.born)
  /\ t.handler = "new" => u.handler = "new"
  /\ u.thread = "hashing" => t.thread = "hashing"
  /\ Tells(u.mail, "hash") => Tells(t.mail, "hash") \/ t.thread = "hashing"
LEMMA EndsHereOK ==
  ASSUME NEW t, FileOK(t), NEW u, u = EndsHere(t, FALSE), t.handler = "on", ~t.started
  PROVE  FileOK(u) /\ Changes(t, u, Notes \cup {"handler", "entry", "lost", "stop", "outcomes"})
<1>1. t.thread \notin Working \cup {"gone"} /\ t.outcomes = <<>> /\ "removed" \notin t.lost /\ (~t.outgoing => t.thread = "none")
  BY DEF FileOK, Works, OneOutcome, Received, Working
<1>2. /\ t.stop \in BOOLEAN /\ t.born \in BOOLEAN /\ t.known \in BOOLEAN /\ t.heard \in BOOLEAN
  BY DEF FileOK, TransferTypeOK
<1>3. Append(t.outcomes, FALSE) = <<FALSE>>
  <2>1. Append(<<>>, FALSE) = <<FALSE>> OBVIOUS
  <2> QED BY <1>1, <2>1
<1> DEFINE v == [t EXCEPT !.outcomes = Append(t.outcomes, FALSE)]
<1>4. v.handler = "on" /\ v.outgoing = t.outgoing /\ v.lost = t.lost /\ v.file = t.file /\ v.outcomes = <<FALSE>>
      /\ v.stop = t.stop /\ Changes(t, v, {"outcomes"})
  BY <1>3 DEF FileOK, TransferTypeOK, Changes
<1>5. u = Ended(v, FALSE) BY DEF EndsHere
<1>d. DOMAIN v = DOMAIN t BY <1>4 DEF Changes
<1> HIDE DEF v
<1>6. u = (IF t.outgoing THEN Terminated(v) ELSE Terminated([v EXCEPT !.entry = t.file]))
  BY <1>1, <1>4, <1>5 DEF Ended, On
<1>7. /\ u.handler = "off" /\ u.outcomes = <<FALSE>> /\ u.lost = t.lost /\ u.stop = t.stop /\ (~t.outgoing => u.entry = t.file)
      /\ Changes(v, u, {"handler", "fd", "entry"})
  BY ZenonT(60), <1>4, <1>6, <1>d DEF Terminated, Changes, FileOK, TransferTypeOK
<1>8. Changes(t, u, Notes \cup {"handler", "entry", "lost", "stop", "outcomes"}) BY <1>4, <1>7 DEF Changes, Notes
<1>9. Noted(t, u)
  <2>1. v.born = t.born /\ v.known = t.known /\ v.heard = t.heard BY <1>4 DEF Changes, FileOK, TransferTypeOK
  <2>2. u.born = v.born /\ u.known = v.known /\ u.heard = v.heard BY <1>7, <1>d DEF Changes, FileOK, TransferTypeOK
  <2> QED BY <1>2, <2>1, <2>2 DEF Noted
<1> QED BY <1>1, <1>2, <1>7, <1>8, <1>9, HandlerOff
\* What ends the handler, or takes a note, is nothing that the stream need know.
LEMMA OnlyTheHandler ==
  ASSUME NEW t, NEW u, FileOK(t), Changes(t, u, Notes \cup {"handler", "entry", "lost", "stop", "outcomes", "queue", "finished"}),
         t.born => u.born, t.handler = "new" => u.handler = "new"
  PROVE  GoesOn(t, u)
<1>1. u.started = t.started /\ u.proposal = t.proposal /\ u.thread = t.thread /\ u.mail = t.mail
  BY DEF FileOK, TransferTypeOK, Changes, Notes
<1> QED BY <1>1 DEF GoesOn
LEMMA HashingGoesOn == ASSUME FileOK(transfer), Hashes PROVE FileOK(transfer') /\ GoesOn(transfer, transfer')
<1>1. transfer.thread = "hashing" BY DEF Hashes
<1>2. transfer.mail = <<>> /\ ~transfer.started /\ transfer.handler # "new" /\ transfer.born \in BOOLEAN /\ transfer.known \in BOOLEAN
      /\ transfer.heard \in BOOLEAN
  BY <1>1 DEF FileOK, Works, Working, TransferTypeOK
<1>3. PICK ok \in BOOLEAN :
        \/ transfer' = [transfer EXCEPT !.thread = "none", !.mail = Append(@, [about |-> "hash", ok |-> ok])]
        \/ transfer' = [transfer EXCEPT !.thread = "none", !.fd = "closed", !.mail = Append(@, [about |-> "hash", ok |-> ok])]
        \/ transfer' = [transfer EXCEPT !.thread = "none"]
  <2>1. \/ transfer' = Mailed([transfer EXCEPT !.thread = "none"], [about |-> "hash", ok |-> TRUE])
        \/ transfer' = Mailed([[transfer EXCEPT !.thread = "none"] EXCEPT !.fd = "closed"], [about |-> "hash", ok |-> FALSE])
        \/ transfer' = [transfer EXCEPT !.thread = "none"]
    BY DEF Hashes
  <2> DEFINE yes == [about |-> "hash", ok |-> TRUE]
             no == [about |-> "hash", ok |-> FALSE]
  <2>2. \/ transfer' = Mailed([transfer EXCEPT !.thread = "none"], yes)
        \/ transfer' = Mailed([[transfer EXCEPT !.thread = "none"] EXCEPT !.fd = "closed"], no)
        \/ transfer' = [transfer EXCEPT !.thread = "none"]
    BY <2>1
  <2> HIDE DEF yes, no
  <2>3. \/ transfer' = [transfer EXCEPT !.thread = "none", !.mail = Append(@, yes)]
        \/ transfer' = [transfer EXCEPT !.thread = "none", !.fd = "closed", !.mail = Append(@, no)]
        \/ transfer' = [transfer EXCEPT !.thread = "none"]
    BY <2>2 DEF Mailed, FileOK, TransferTypeOK
  <2> QED BY Zenon, <2>3 DEF yes, no
<1> DEFINE e == [about |-> "hash", ok |-> ok]
<1> HIDE DEF e
<1>4. /\ Changes(transfer, transfer', Notes \cup {"mail", "thread"}) /\ transfer'.thread = "none"
      /\ transfer'.mail = transfer.mail \/ transfer'.mail = Append(transfer.mail, e)
      /\ transfer'.born = transfer.born /\ transfer'.known = transfer.known /\ transfer'.heard = transfer.heard
      /\ transfer'.started = transfer.started /\ transfer'.proposal = transfer.proposal /\ transfer'.handler = transfer.handler
  <2>1. \/ transfer' = [transfer EXCEPT !.thread = "none", !.mail = Append(@, e)]
        \/ transfer' = [transfer EXCEPT !.thread = "none", !.fd = "closed", !.mail = Append(@, e)]
        \/ transfer' = [transfer EXCEPT !.thread = "none"]
    BY <1>3 DEF e
  <2> QED BY ZenonT(60), <2>1 DEF Changes, Notes, FileOK, TransferTypeOK
<1>5. FileOK(transfer') BY <1>1, <1>2, <1>4, HashPosted DEF Noted, e
<1> QED BY <1>1, <1>2, <1>4, <1>5 DEF GoesOn
LEMMA HashComes ==
  ASSUME FileOK(transfer), GotHash \/ GotNoHash PROVE FileOK(transfer') /\ GoesOn(transfer, transfer')
<1> DEFINE v == [transfer EXCEPT !.mail = Tail(@)]
<1>1. transfer.mail # <<>> /\ Head(transfer.mail).about = "hash" /\ v = Opened BY DEF GotHash, GotNoHash, Delivers, Opened
<1>2. FileOK(v) /\ Changes(transfer, v, {"mail"}) /\ v.mail = Tail(transfer.mail) BY <1>1, LetterOpened
<1>3. LettersOK(transfer.mail, transfer.started, transfer.thread, transfer.outcomes, transfer.outgoing) BY DEF FileOK, Letters
<1>4. Tells(transfer.mail, "hash") /\ \A about : Tells(v.mail, about) => Tells(transfer.mail, about) BY ZenonT(60), <1>1, <1>2, <1>3, LetterRead
<1>5. ~transfer.started BY <1>3, <1>4 DEF LettersOK, Tells
<1>6. /\ v.started = transfer.started /\ v.proposal = transfer.proposal /\ v.born = transfer.born /\ v.known = transfer.known
      /\ v.heard = transfer.heard /\ v.handler = transfer.handler /\ v.thread = transfer.thread /\ v.lost = transfer.lost
      /\ v.born \in BOOLEAN /\ v.heard \in BOOLEAN /\ DOMAIN v = DOMAIN transfer
  BY DEF FileOK, TransferTypeOK
<1>7. GoesOn(transfer, v) BY <1>4, <1>6 DEF GoesOn
<1> HIDE DEF v
<1>8. CASE transfer' = [v EXCEPT !.known = TRUE, !.good = TRUE]
  <2>1. Changes(v, transfer', Notes \cup {"lost"}) /\ Noted(v, transfer') /\ transfer'.lost = v.lost
    BY <1>2, <1>6, <1>8 DEF Changes, Notes, Noted, FileOK, TransferTypeOK
  <2>2. FileOK(transfer') BY <1>2, <2>1, NotesTaken
  <2>3. /\ transfer'.started = v.started /\ transfer'.proposal = v.proposal /\ transfer'.born = v.born
        /\ transfer'.handler = v.handler /\ transfer'.thread = v.thread /\ transfer'.mail = v.mail
    BY <1>2, <1>8 DEF FileOK, TransferTypeOK
  <2> QED BY <1>7, <2>2, <2>3 DEF GoesOn
<1>9. CASE transfer' = v BY <1>2, <1>7, <1>9
<1>10. CASE transfer' = HandlerNotInitialized([v EXCEPT !.known = TRUE])
  <2> DEFINE w == [v EXCEPT !.known = TRUE]
  <2>1. Changes(v, w, Notes \cup {"lost"}) /\ Noted(v, w) /\ w.lost = v.lost
    BY <1>2, <1>6 DEF Changes, Notes, Noted, FileOK, TransferTypeOK
  <2>2. FileOK(w) BY <1>2, <2>1, NotesTaken
  <2>3. /\ w.started = v.started /\ w.proposal = v.proposal /\ w.born = v.born
        /\ w.handler = v.handler /\ w.thread = v.thread /\ w.mail = v.mail
    BY <1>2 DEF FileOK, TransferTypeOK
  <2> HIDE DEF w
  <2>4. transfer' = HandlerNotInitialized(w) /\ ~w.started BY <1>5, <1>6, <1>10, <2>3 DEF w
  <2>5. FileOK(transfer') /\ Changes(w, transfer', Notes \cup {"handler", "entry", "lost", "stop", "outcomes"})
    BY <2>2, <2>4, NotInitializedOK
  <2>6. transfer'.born = w.born /\ (w.handler = "new" => transfer'.handler = "new")
    BY <2>2, <2>4 DEF HandlerNotInitialized, Terminated, On, FileOK, TransferTypeOK
  <2>7. Changes(w, transfer', Notes \cup {"handler", "entry", "lost", "stop", "outcomes", "queue", "finished"}) BY <2>5 DEF Changes
  <2>8. GoesOn(w, transfer') BY <2>2, <2>6, <2>7, OnlyTheHandler
  <2> QED BY <1>7, <2>3, <2>5, <2>8 DEF GoesOn
<1>11. GotHash => transfer' = [v EXCEPT !.known = TRUE, !.good = TRUE] BY <1>1 DEF GotHash
<1>12. GotNoHash => transfer' = v \/ transfer' = HandlerNotInitialized([v EXCEPT !.known = TRUE]) BY <1>1 DEF GotNoHash
<1> QED BY <1>8, <1>9, <1>10, <1>11, <1>12
\* The session's calls, and what becomes of the stream.
LEMMA SessionTold ==
  ASSUME MSRPInv, ForTheStream, FileOK(transfer), TransferNotInitialized \/ SessionWillStart \/ SessionDidFail \/ TransferWillEnd
  PROVE  FileOK(transfer') /\ GoesOn(transfer, transfer')
<1>0. /\ transfer.born \in BOOLEAN /\ transfer.known \in BOOLEAN /\ transfer.heard \in BOOLEAN /\ transfer.stop \in BOOLEAN
      /\ transfer.finished \in BOOLEAN
  BY DEF FileOK, TransferTypeOK
<1> DEFINE Free == Notes \cup {"handler", "entry", "lost", "stop", "outcomes"}
<1>1. CASE TransferNotInitialized
  <2>1. transfer' = HandlerNotInitialized(transfer) BY <1>1 DEF TransferNotInitialized
  <2>2. msrp.session = "none"
    BY <1>1 DEF TransferNotInitialized, NotInitialized, EndsUninitialized, Interrupted, Waits, MSRPInv, InOrder, EndsInOrder
  <2>3. ~transfer.started BY <2>2 DEF ForTheStream
  <2>4. FileOK(transfer') /\ Changes(transfer, transfer', Free) BY <2>1, <2>3, NotInitializedOK
  <2>5. transfer'.born = transfer.born /\ (transfer.handler = "new" => transfer'.handler = "new")
    BY <2>1 DEF HandlerNotInitialized, Terminated, On, FileOK, TransferTypeOK
  <2>6. Changes(transfer, transfer', Free \cup {"queue", "finished"}) BY <2>4 DEF Changes
  <2> QED BY <2>4, <2>5, <2>6, OnlyTheHandler
<1>2. CASE SessionWillStart
  <2>1. Changes(transfer, transfer', Notes \cup {"lost"}) /\ Noted(transfer, transfer') /\ transfer'.lost = transfer.lost
        /\ transfer'.born = TRUE /\ transfer'.handler = transfer.handler
    BY <1>0, <1>2 DEF SessionWillStart, Changes, Notes, Noted, FileOK, TransferTypeOK
  <2>2. Changes(transfer, transfer', Free \cup {"queue", "finished"}) BY <2>1 DEF Changes
  <2> QED BY <2>1, <2>2, NotesTaken, OnlyTheHandler
<1>3. CASE SessionDidFail
  <2> DEFINE w == [transfer EXCEPT !.sessionFailed = TRUE]
  <2>1. Changes(transfer, w, Notes \cup {"lost"}) /\ Noted(transfer, w) /\ w.lost = transfer.lost
        /\ w.born = transfer.born /\ w.handler = transfer.handler /\ w.started = transfer.started
    BY <1>0 DEF Changes, Notes, Noted, FileOK, TransferTypeOK
  <2>2. FileOK(w) BY <2>1, NotesTaken
  <2>3. ~transfer.started BY <1>3 DEF SessionDidFail, ForTheStream
  <2>4. transfer' = w \/ (w.handler = "on" /\ transfer' = EndsHere(w, FALSE)) BY <1>3 DEF SessionDidFail, On
  <2> HIDE DEF w
  <2>5. CASE transfer' = w
    <3>1. Changes(transfer, transfer', Free \cup {"queue", "finished"}) BY <2>1, <2>5 DEF Changes
    <3> QED BY <2>1, <2>2, <2>5, <3>1, OnlyTheHandler
  <2>6. CASE w.handler = "on" /\ transfer' = EndsHere(w, FALSE)
    <3>1. FileOK(transfer') /\ Changes(w, transfer', Free) BY <2>1, <2>2, <2>3, <2>6, EndsHereOK
    <3>2. Changes(transfer, transfer', Free \cup {"queue", "finished"}) BY <2>1, <3>1 DEF Changes, Notes
    <3>3. transfer'.born = w.born
      BY <2>2, <2>6 DEF EndsHere, Ended, Terminated, On, FileOK, TransferTypeOK
    <3> QED BY <2>1, <2>6, <3>1, <3>2, <3>3, OnlyTheHandler
  <2> QED BY <2>4, <2>5, <2>6
<1>4. CASE TransferWillEnd
  <2> DEFINE w == [transfer EXCEPT !.heard = FALSE]
  <2>1. Changes(transfer, w, Notes \cup {"lost"}) /\ Noted(transfer, w) /\ w.lost = transfer.lost
        /\ w.born = transfer.born /\ w.handler = transfer.handler /\ w.started = transfer.started /\ w.known = transfer.known
        /\ w.finished = transfer.finished /\ w.heard = FALSE
    BY <1>0 DEF Changes, Notes, Noted, FileOK, TransferTypeOK
  <2>2. FileOK(w) BY <2>1, NotesTaken
  <2>3. \/ transfer' = w
        \/ w.handler = "on" /\ w.started /\ transfer' = [w EXCEPT !.stop = TRUE, !.queue = Append(@, <<0, TRUE>>)]
        \/ w.handler = "on" /\ ~w.started /\ transfer' = EndsHere(w, FALSE)
        \/ transfer' = [w EXCEPT !.lost = IF w.proposal THEN @ \cup {"proposed"} ELSE @]
    BY <1>4 DEF TransferWillEnd, On
  <2> HIDE DEF w
  <2>5. CASE transfer' = w
    <3>1. Changes(transfer, transfer', Free \cup {"queue", "finished"}) BY <2>1, <2>5 DEF Changes
    <3> QED BY <2>1, <2>2, <2>5, <3>1, OnlyTheHandler
  <2>6. CASE w.handler = "on" /\ ~w.started /\ transfer' = EndsHere(w, FALSE)
    <3>1. FileOK(transfer') /\ Changes(w, transfer', Free) BY <2>1, <2>2, <2>6, EndsHereOK
    <3>2. Changes(transfer, transfer', Free \cup {"queue", "finished"}) BY <2>1, <3>1 DEF Changes, Notes
    <3>3. transfer'.born = w.born
      BY <2>2, <2>6 DEF EndsHere, Ended, Terminated, On, FileOK, TransferTypeOK
    <3> QED BY <2>1, <2>6, <3>1, <3>2, <3>3, OnlyTheHandler
  <2>7. CASE w.handler = "on" /\ w.started /\ transfer' = [w EXCEPT !.stop = TRUE, !.queue = Append(@, <<0, TRUE>>)]
    <3> DEFINE e == <<0, TRUE>>
    <3>0. transfer' = [w EXCEPT !.stop = TRUE, !.queue = Append(@, e)] BY <2>7
    <3> HIDE DEF e
    <3>1. /\ Changes(w, transfer', Notes \cup {"stop", "queue", "finished"}) /\ transfer'.stop = TRUE
          /\ transfer'.queue = Append(w.queue, e) /\ transfer'.finished = w.finished /\ transfer'.handler = w.handler
          /\ transfer'.born = w.born /\ transfer'.known = w.known /\ transfer'.heard = w.heard
      BY <3>0, <2>2 DEF Changes, FileOK, TransferTypeOK
    <3>2. FileOK(transfer') BY <1>0, <2>1, <2>2, <3>1, StopTold DEF e, Noted
    <3>3. Changes(transfer, transfer', Free \cup {"queue", "finished"}) BY <2>1, <3>1 DEF Changes, Notes
    <3> QED BY <2>1, <3>1, <3>2, <3>3, OnlyTheHandler
  <2>8. CASE transfer' = [w EXCEPT !.lost = IF w.proposal THEN @ \cup {"proposed"} ELSE @]
    <3>1. /\ Changes(w, transfer', Notes \cup {"lost"}) /\ Noted(w, transfer') /\ w.lost \subseteq transfer'.lost
          /\ "removed" \in transfer'.lost => "removed" \in w.lost
          /\ transfer'.born = w.born /\ transfer'.handler = w.handler
      BY <1>0, <2>1, <2>2, <2>8 DEF Changes, Noted, FileOK, TransferTypeOK
    <3>2. FileOK(transfer') BY <2>2, <3>1, NotesTaken
    <3>3. Changes(transfer, transfer', Free \cup {"queue", "finished"}) BY <2>1, <3>1 DEF Changes, Notes
    <3> QED BY <2>1, <3>1, <3>2, <3>3, OnlyTheHandler
  <2> QED BY <2>3, <2>5, <2>6, <2>7, <2>8
<1> QED BY <1>1, <1>2, <1>3, <1>4
LEMMA TransferBeginsToRun ==
  ASSUME MSRPInv, ForTheStream, ForTheHash, FileOK(transfer), TransferStarted
  PROVE  /\ FileOK(transfer') /\ transfer'.born = transfer.born /\ transfer'.proposal = transfer.proposal
         /\ transfer'.thread # "hashing" /\ ~Tells(transfer'.mail, "hash")
<1>1. msrp.greenlet = "start" /\ msrp.initialized /\ msrp.session = "none"
  BY DEF TransferStarted, Started, Waits, MSRPInv, InOrder
<1>2. ~transfer.started /\ transfer.thread # "hashing" /\ ~Tells(transfer.mail, "hash")
  BY <1>1 DEF ForTheStream, ForTheHash
<1>3. transfer.thread = "none" BY <1>2 DEF FileOK, Works, TransferTypeOK
<1>4. transfer.mail = <<>>
  <2>1. LettersOK(transfer.mail, transfer.started, transfer.thread, transfer.outcomes, transfer.outgoing) BY DEF FileOK, Letters
  <2>2. IsSeq(transfer.mail) BY <2>1 DEF LettersOK
  <2>3. ASSUME NEW i \in DOMAIN transfer.mail PROVE FALSE BY <1>2, <2>1 DEF LettersOK, Tells
  <2>4. Len(transfer.mail) \in Nat /\ DOMAIN transfer.mail = 1..Len(transfer.mail) /\ (transfer.mail = <<>> <=> Len(transfer.mail) = 0)
    BY <2>2, SeqDomain
  <2>5. Len(transfer.mail) # 0 => 1 \in DOMAIN transfer.mail BY <2>4
  <2> QED BY <2>3, <2>4, <2>5
<1>5. CASE transfer' = transfer BY <1>2, <1>5
<1>6. CASE transfer.handler = "on" /\ transfer' # transfer
  <2>1. transfer' = [transfer EXCEPT !.started = TRUE,
               !.thread = IF ~transfer.outgoing THEN "writing" ELSE IF transfer.asks THEN "asking" ELSE "seeking"]
    BY <1>6 DEF TransferStarted, On
  <2>2. /\ Changes(transfer, transfer', {"started", "thread"}) /\ transfer'.started = TRUE
        /\ transfer'.thread \in (IF transfer.outgoing THEN {"asking", "seeking"} ELSE {"writing"})
        /\ transfer'.mail = transfer.mail /\ transfer'.born = transfer.born /\ transfer'.proposal = transfer.proposal
    BY <2>1 DEF Changes, FileOK, TransferTypeOK
  <2> QED BY <1>2, <1>3, <1>4, <1>6, <2>2, ThreadBegins
<1> QED BY <1>5, <1>6 DEF TransferStarted, On
\* What does not touch a hash, nor what the stream need know.
HandlerOnly == {"handler", "entry", "lost", "stop", "outcomes", "queue", "finished", "file", "hash", "offset", "received", "asked", "answered",
          "from", "read", "wire", "thread", "mail", "reported", "fd"}
LEMMA PlainSteps ==
  ASSUME NEW t, NEW u, FileOK(t), Changes(t, u, HandlerOnly), u.handler = t.handler \/ t.handler = "on", u.thread # "hashing" \/ u.thread = t.thread,
         Tells(u.mail, "hash") => Tells(t.mail, "hash")
  PROVE  GoesOn(t, u)
<1>1. u.started = t.started /\ u.proposal = t.proposal /\ u.born = t.born BY DEF FileOK, TransferTypeOK, Changes, HandlerOnly
<1> QED BY <1>1 DEF GoesOn
LEMMA ErrorComes == ASSUME FileOK(transfer), GotError PROVE FileOK(transfer') /\ GoesOn(transfer, transfer')
<1>1. transfer.mail # <<>> /\ transfer' = [transfer EXCEPT !.mail = Tail(@)] BY DEF GotError, Delivers, Opened
<1>2. FileOK(transfer') /\ Changes(transfer, transfer', {"mail"}) /\ transfer'.mail = Tail(transfer.mail) BY <1>1, LetterOpened
<1>3. \A about : Tells(transfer'.mail, about) => Tells(transfer.mail, about) BY <1>1, <1>2, LetterRead DEF FileOK, Letters
<1>4. transfer'.handler = transfer.handler /\ transfer'.thread = transfer.thread BY <1>1 DEF FileOK, TransferTypeOK
<1>5. Changes(transfer, transfer', HandlerOnly) BY <1>2 DEF Changes, HandlerOnly
<1> QED BY <1>2, <1>3, <1>4, <1>5, PlainSteps
LEMMA EndComes == ASSUME FileOK(transfer), GotEnd PROVE FileOK(transfer') /\ GoesOn(transfer, transfer')
<1> DEFINE v == [transfer EXCEPT !.mail = Tail(@)]
           ok == Head(transfer.mail).ok
<1>1. transfer.mail # <<>> /\ Head(transfer.mail).about = "end" /\ transfer' = Ended(v, ok) BY DEF GotEnd, Delivers, Opened, Letter
<1>2. FileOK(v) /\ Changes(transfer, v, {"mail"}) /\ v.mail = Tail(transfer.mail) BY <1>1, LetterOpened
<1>3. LettersOK(transfer.mail, transfer.started, transfer.thread, transfer.outcomes, transfer.outgoing) BY DEF FileOK, Letters
<1>4. (\A about : Tells(v.mail, about) => Tells(transfer.mail, about)) /\ Head(transfer.mail) = transfer.mail[1]
      /\ Len(transfer.mail) \in Nat \ {0} /\ DOMAIN transfer.mail = 1..Len(transfer.mail)
  BY ZenonT(60), <1>1, <1>2, <1>3, LetterRead
<1>5. ok \in BOOLEAN /\ transfer.outcomes = <<ok>> /\ transfer.thread = "gone"
  <2>1. 1 \in DOMAIN transfer.mail BY <1>4
  <2> QED BY <1>1, <1>3, <1>4, <2>1 DEF LettersOK
<1>6. v.thread = "gone" /\ v.outcomes = <<ok>> /\ v.handler = transfer.handler /\ v.thread = transfer.thread
  BY <1>5 DEF FileOK, TransferTypeOK
<1> HIDE DEF v, ok
<1>7. ok => v.outcomes = <<TRUE>> BY <1>5, <1>6
<1>8. FileOK(transfer') /\ Changes(v, transfer', Notes \cup {"handler", "entry", "lost", "stop", "outcomes"})
  BY <1>1, <1>2, <1>5, <1>6, <1>7, EndedOK
<1>9. transfer'.born = v.born /\ (v.handler # "on" => transfer'.handler = v.handler)
  BY <1>1, <1>2 DEF Ended, Terminated, On, FileOK, TransferTypeOK
<1>10. transfer'.started = v.started /\ transfer'.proposal = v.proposal /\ transfer'.thread = v.thread /\ transfer'.mail = v.mail
  BY ZenonT(60), <1>2, <1>8 DEF Changes, Notes, FileOK, TransferTypeOK
<1>11. v.started = transfer.started /\ v.proposal = transfer.proposal /\ v.born = transfer.born
  BY <1>2 DEF Changes, FileOK, TransferTypeOK
<1>12. transfer.handler = "new" => transfer'.handler = "new" BY <1>6, <1>9
<1> QED BY <1>2, <1>4, <1>6, <1>8, <1>9, <1>10, <1>11, <1>12 DEF GoesOn
\* What a receiver does.
LEMMA ChunkComes ==
  ASSUME FileOK(transfer), NEW p \in 1..Parts, NEW sound \in BOOLEAN, ReceiveChunk(p, sound)
  PROVE  FileOK(transfer') /\ GoesOn(transfer, transfer')
<1> DEFINE e == <<p, sound>>
           first == transfer.received = 0 /\ p = 1
           q == transfer.queue
<1>1. /\ ~transfer.outgoing /\ transfer.handler = "on" /\ transfer.received \in Nat /\ transfer.offset \in Nat /\ IsSeq(q)
      /\ "removed" \notin transfer.lost => transfer.file = transfer.hash
  BY DEF ReceiveChunk, On, FileOK, TransferTypeOK, Received
<1>2. transfer.outcomes = <<TRUE>> => transfer.received > 0 /\ transfer.file = Whole BY <1>1 DEF FileOK, Received
<1>3. IsSeq(Append(q, e)) BY <1>1, AppendIs
<1> HIDE DEF e, first, q
<1>4. transfer' = [(IF first THEN [transfer EXCEPT !.file = <<>>, !.hash = <<>>, !.offset = 0] ELSE transfer)
                     EXCEPT !.received = @ + 1, !.queue = Append(@, e)]
  BY DEF ReceiveChunk, first, e
<1>5. PICK n \in Nat : n = transfer.received + 1 /\ n > 0 /\ n # 0 BY <1>1
<1>6. transfer' = [(IF first THEN [transfer EXCEPT !.file = <<>>, !.hash = <<>>, !.offset = 0] ELSE transfer)
                     EXCEPT !.received = n, !.queue = Append(@, e)]
  <2>1. CASE first
    <3>1. [transfer EXCEPT !.file = <<>>, !.hash = <<>>, !.offset = 0].received = transfer.received BY DEF FileOK, TransferTypeOK
    <3> QED BY <1>4, <1>5, <2>1, <3>1
  <2>2. CASE ~first BY <1>4, <1>5, <2>2
  <2> QED BY <2>1, <2>2
<1>7. CASE first
  <2>1. transfer' = [transfer EXCEPT !.file = <<>>, !.hash = <<>>, !.offset = 0, !.received = n, !.queue = Append(@, e)]
    BY <1>6, <1>7 DEF FileOK, TransferTypeOK
  <2>2. /\ Changes(transfer, transfer', {"file", "hash", "offset", "queue", "received"}) /\ transfer'.file = transfer'.hash
        /\ transfer'.offset = 0 /\ transfer'.received = n /\ transfer'.queue = Append(q, e) /\ transfer'.thread = transfer.thread
        /\ transfer'.handler = transfer.handler /\ transfer'.mail = transfer.mail
    BY <2>1 DEF Changes, FileOK, TransferTypeOK, q
  <2>3. transfer.outcomes # <<TRUE>>
    <3>1. ~(transfer.received > 0) BY <1>7 DEF first
    <3> QED BY <1>2, <3>1
  <2>4. Changes(transfer, transfer', {"file", "hash", "offset", "queue", "received", "thread"}) /\ Changes(transfer, transfer', HandlerOnly)
    BY <2>2 DEF Changes, HandlerOnly
  <2>5w. Writes(transfer, transfer')
    <3>1. transfer.outcomes = <<TRUE>> => transfer'.file = Whole /\ transfer'.received > 0 BY <2>3
    <3>2. transfer'.received \in Nat /\ transfer'.received # 0 /\ transfer'.offset \in Nat BY <1>5, <2>2
    <3>3. IsSeq(transfer'.queue) BY <1>3, <2>2
    <3> QED BY <1>1, <2>2, <2>4, <3>1, <3>2, <3>3 DEF Writes
  <2>5. FileOK(transfer') BY <2>5w, ReceiverGoesOn
  <2> QED BY <2>2, <2>4, <2>5, PlainSteps
<1>8. CASE ~first
  <2>1. transfer' = [transfer EXCEPT !.received = n, !.queue = Append(@, e)] BY <1>6, <1>8
  <2>2. /\ Changes(transfer, transfer', {"queue", "received"}) /\ transfer'.file = transfer.file /\ transfer'.hash = transfer.hash
        /\ transfer'.offset = transfer.offset /\ transfer'.received = n /\ transfer'.queue = Append(q, e)
        /\ transfer'.thread = transfer.thread /\ transfer'.handler = transfer.handler /\ transfer'.mail = transfer.mail
        /\ transfer'.lost = transfer.lost /\ transfer'.outcomes = transfer.outcomes /\ transfer'.entry = transfer.entry
        /\ transfer'.outgoing = transfer.outgoing /\ transfer'.started = transfer.started
    BY <2>1 DEF Changes, FileOK, TransferTypeOK, q
  <2>3. Changes(transfer, transfer', {"file", "hash", "offset", "queue", "received", "thread"}) /\ Changes(transfer, transfer', HandlerOnly)
    BY <2>2 DEF Changes, HandlerOnly
  <2>4w. Writes(transfer, transfer') BY <1>1, <1>2, <1>3, <1>5, <2>2, <2>3 DEF Writes
  <2>4. FileOK(transfer') BY <2>4w, ReceiverGoesOn
  <2> QED BY <2>2, <2>3, <2>4, PlainSteps
<1> QED BY <1>7, <1>8
LEMMA LastPosted ==
  ASSUME NEW t, FileOK(t), t.thread \in Working, NEW ok \in BOOLEAN, NEW u, u = Posts(t, ok),
         t.outgoing => t.thread \in {"sending", "finishing"} /\ (ok => t.finished),
         ~t.outgoing /\ ok => t.file = Whole /\ t.received > 0
  PROVE  FileOK(u) /\ GoesOn(t, u)
<1> DEFINE e == [about |-> "end", ok |-> ok]
<1>0. u = Mailed([t EXCEPT !.outcomes = Append(@, ok), !.thread = "gone", !.fd = "closed"], e) BY DEF Posts
<1> HIDE DEF e
<1>1. /\ Changes(t, u, {"outcomes", "thread", "fd", "mail"}) /\ u.outcomes = Append(t.outcomes, ok) /\ u.thread = "gone"
      /\ u.mail = Append(t.mail, e) /\ u.file = t.file /\ u.lost = t.lost /\ u.handler = t.handler /\ u.started = t.started
      /\ u.born = t.born /\ u.known = t.known /\ u.heard = t.heard
  BY ZenonT(60), <1>0 DEF Mailed, Changes, FileOK, TransferTypeOK
<1>2. Changes(t, u, Notes \cup {"mail", "outcomes", "thread", "file", "lost"}) /\ Changes(t, u, HandlerOnly) BY <1>1 DEF Changes, Notes, HandlerOnly
<1>3. Noted(t, u) BY <1>1 DEF Noted, FileOK, TransferTypeOK
<1>4. FileOK(u) BY <1>1, <1>2, <1>3, OutcomePosted DEF e
<1>5. u.started BY <1>1 DEF FileOK, Works
<1>6. ~Tells(u.mail, "hash") BY <1>4, <1>5 DEF FileOK, Letters, LettersOK, Tells
<1> QED BY <1>1, <1>2, <1>4, <1>6, PlainSteps
LEMMA ChunkGoes == ASSUME FileOK(transfer), WriteChunk PROVE FileOK(transfer') /\ GoesOn(transfer, transfer')
<1> DEFINE q == transfer.queue
           part == Head(q)
<1>1. /\ transfer.thread = "writing" /\ q # <<>> /\ IsSeq(q) /\ transfer.received \in Nat /\ transfer.offset \in Nat
      /\ transfer.born \in BOOLEAN /\ transfer.known \in BOOLEAN /\ transfer.heard \in BOOLEAN
  BY DEF WriteChunk, FileOK, TransferTypeOK
<1>2. ~transfer.outgoing BY <1>1 DEF FileOK, Sent
<1>3. /\ transfer.outcomes = <<>> /\ transfer.outcomes # <<TRUE>> /\ "removed" \notin transfer.lost /\ transfer.handler = "on"
      /\ transfer.file = transfer.hash /\ transfer.started
  <2>1. transfer.outcomes = <<>> /\ "removed" \notin transfer.lost /\ transfer.started
    BY <1>1 DEF FileOK, OneOutcome, Works, Working
  <2>2. transfer.handler = "on" /\ transfer.file = transfer.hash BY <1>1, <1>2, <2>1 DEF FileOK, Works, Received, TransferTypeOK
  <2>3. <<>> # <<TRUE>> OBVIOUS
  <2> QED BY <2>1, <2>2, <2>3
<1>4. transfer.received = 0 => transfer.offset < Parts /\ \A i \in DOMAIN q : q[i][1] = 0 BY <1>2 DEF FileOK, Received
<1>5. /\ IsSeq(Tail(q)) /\ Len(q) \in Nat \ {0} /\ Len(Tail(q)) = Len(q) - 1 /\ part = q[1]
      /\ \A i \in 1..(Len(q) - 1) : Tail(q)[i] = q[i + 1]
      /\ DOMAIN q = 1..Len(q)
  BY <1>1, WithoutFirst, SeqDomain
<1>6. DOMAIN Tail(q) = 1..(Len(q) - 1) BY <1>5, SeqDomain
<1>7. transfer.received = 0 => (\A i \in DOMAIN Tail(q) : Tail(q)[i][1] = 0) /\ part[1] = 0
  <2>1. \A i \in 1..(Len(q) - 1) : i + 1 \in DOMAIN q BY <1>5
  <2>2. 1 \in DOMAIN q BY <1>5
  <2> QED BY <1>4, <1>5, <1>6, <2>1, <2>2
<1> DEFINE v == [transfer EXCEPT !.queue = Tail(q)]
<1>8. /\ Changes(transfer, v, {"queue"}) /\ v.queue = Tail(q) /\ v.thread = transfer.thread /\ v.handler = transfer.handler
      /\ v.mail = transfer.mail /\ v.file = transfer.file /\ v.hash = transfer.hash /\ v.offset = transfer.offset
      /\ v.received = transfer.received /\ v.outgoing = transfer.outgoing /\ v.outcomes = transfer.outcomes
      /\ v.born = transfer.born /\ v.known = transfer.known /\ v.heard = transfer.heard /\ v.lost = transfer.lost
      /\ v.started = transfer.started /\ DOMAIN v = DOMAIN transfer
  BY DEF Changes, FileOK, TransferTypeOK
<1>9. Changes(transfer, v, {"file", "hash", "offset", "queue", "received", "thread"}) BY <1>8 DEF Changes
<1>10w. Writes(transfer, v) BY <1>1, <1>2, <1>3, <1>4, <1>5, <1>7, <1>8, <1>9 DEF Writes
<1>10. FileOK(v) BY <1>10w, ReceiverGoesOn
<1>11. \/ part[1] = 0 /\ transfer' = [v EXCEPT !.thread = "checking"]
       \/ part[1] # 0 /\ transfer' = [v EXCEPT !.file = Append(@, part), !.hash = Append(@, part), !.offset = @ + 1,
                                               !.thread = IF part[1] = Parts THEN "checking" ELSE @]
       \/ transfer' = Posts(PostsError(v), FALSE)
  BY DEF WriteChunk
<1> HIDE DEF v, q, part
<1>12. CASE part[1] = 0 /\ transfer' = [v EXCEPT !.thread = "checking"]
  <2>1. /\ Changes(transfer, transfer', {"file", "hash", "offset", "queue", "received", "thread"}) /\ Changes(transfer, transfer', HandlerOnly)
    BY <1>8, <1>12 DEF Changes, HandlerOnly, FileOK, TransferTypeOK
  <2>2. /\ transfer'.queue = Tail(q) /\ transfer'.thread = "checking" /\ transfer'.file = transfer.file
        /\ transfer'.hash = transfer.hash /\ transfer'.offset = transfer.offset /\ transfer'.received = transfer.received
        /\ transfer'.handler = transfer.handler /\ transfer'.mail = transfer.mail
    BY <1>8, <1>12 DEF FileOK, TransferTypeOK
  <2>3w. Writes(transfer, transfer') BY <1>1, <1>2, <1>3, <1>4, <1>5, <1>7, <2>1, <2>2 DEF Writes
  <2>3. FileOK(transfer') BY <2>3w, ReceiverGoesOn
  <2> QED BY <1>3, <2>1, <2>2, <2>3, PlainSteps
<1>13. CASE part[1] # 0 /\ transfer' = [v EXCEPT !.file = Append(@, part), !.hash = Append(@, part), !.offset = @ + 1,
                                               !.thread = IF part[1] = Parts THEN "checking" ELSE @]
  <2>0. PICK n \in Nat : n = transfer.offset + 1 BY <1>1
  <2>a. transfer' = [v EXCEPT !.file = Append(@, part), !.hash = Append(@, part), !.offset = n,
                              !.thread = IF part[1] = Parts THEN "checking" ELSE @]
    BY <1>8, <1>13, <2>0
  <2>1. /\ Changes(transfer, transfer', {"file", "hash", "offset", "queue", "received", "thread"}) /\ Changes(transfer, transfer', HandlerOnly)
    BY <1>8, <2>a DEF Changes, HandlerOnly, FileOK, TransferTypeOK
  <2>2. /\ transfer'.queue = Tail(q) /\ transfer'.thread \in {"checking", transfer.thread} /\ transfer'.file = transfer'.hash
        /\ transfer'.offset = n /\ transfer'.received = transfer.received
        /\ transfer'.handler = transfer.handler /\ transfer'.mail = transfer.mail
    BY <1>3, <1>8, <2>a DEF FileOK, TransferTypeOK
  <2>3. transfer.received # 0 BY <1>7, <1>13
  <2>4w. Writes(transfer, transfer') BY <1>1, <1>2, <1>3, <1>5, <2>0, <2>1, <2>2, <2>3 DEF Writes
  <2>4. FileOK(transfer') BY <2>4w, ReceiverGoesOn
  <2> QED BY <1>1, <1>3, <2>1, <2>2, <2>4, PlainSteps
<1>14. CASE transfer' = Posts(PostsError(v), FALSE)
  <2> DEFINE w == PostsError(v)
  <2>1. FileOK(w) /\ Changes(v, w, {"mail"}) BY <1>1, <1>2, <1>8, <1>10, ErrorPosted DEF Working
  <2>2. w.thread = "writing" /\ ~w.outgoing /\ w.file = transfer.file BY <1>1, <1>2, <1>8, <2>1 DEF Changes, FileOK, TransferTypeOK
  <2>3. ~Tells(w.mail, "hash")
    <3>1. w.started BY <2>2, <2>1 DEF FileOK, Works, Working
    <3> QED BY <2>1, <3>1 DEF FileOK, Letters, LettersOK, Tells
  <2> HIDE DEF w
  <2>4. FileOK(transfer') /\ GoesOn(w, transfer')
    <3>1. transfer' = Posts(w, FALSE) BY <1>14 DEF w
    <3>2. w.thread \in Working BY <2>2 DEF Working
    <3> QED BY <2>1, <2>2, <3>1, <3>2, LastPosted
  <2>5. GoesOn(transfer, w)
    <3>1. w.handler = transfer.handler /\ w.thread = transfer.thread BY <1>8, <2>1 DEF Changes, FileOK, TransferTypeOK
    <3>2. Changes(transfer, w, HandlerOnly) BY <1>8, <2>1 DEF Changes, HandlerOnly
    <3> QED BY <2>3, <3>1, <3>2, PlainSteps
  <2>6. ~Tells(transfer'.mail, "hash")
    <3>1. transfer'.started BY <1>3, <2>4, <2>5 DEF GoesOn
    <3> QED BY <2>4, <3>1 DEF FileOK, Letters, LettersOK, Tells
  <2> QED BY <1>1, <2>2, <2>4, <2>5, <2>6 DEF GoesOn
<1> QED BY <1>11, <1>12, <1>13, <1>14
LEMMA FileChecked == ASSUME FileOK(transfer), CheckFile PROVE FileOK(transfer') /\ GoesOn(transfer, transfer')
<1>1. transfer.thread = "checking" /\ transfer.thread \in Working BY DEF CheckFile, Working
<1>2. /\ ~transfer.outgoing /\ transfer.started /\ transfer.received \in Nat /\ transfer.offset \in Nat
      /\ transfer.file = transfer.hash /\ (transfer.offset = Parts => transfer.received > 0)
  <2>1. ~transfer.outgoing /\ transfer.started /\ "removed" \notin transfer.lost /\ transfer.received \in Nat /\ transfer.offset \in Nat
    BY <1>1 DEF FileOK, Sent, Works, OneOutcome, TransferTypeOK
  <2>2. transfer.file = transfer.hash /\ (transfer.received = 0 => transfer.offset < Parts) BY <2>1 DEF FileOK, Received
  <2>3. transfer.offset = Parts => transfer.received # 0 BY <2>1, <2>2, FileAssumption
  <2> QED BY <2>1, <2>2, <2>3
<1>3. CASE transfer' = Posts(transfer, FALSE) BY <1>1, <1>2, <1>3, LastPosted
<1>4. CASE transfer.hash = Whole /\ transfer.offset = Parts /\ transfer' = Posts(transfer, TRUE) BY <1>1, <1>2, <1>4, LastPosted
<1>5. CASE transfer' = Posts([transfer EXCEPT !.file = <<>>, !.lost = @ \cup {"removed"}], FALSE)
  <2> DEFINE e == [about |-> "end", ok |-> FALSE]
             v == [transfer EXCEPT !.file = <<>>, !.lost = @ \cup {"removed"}]
  <2>0. transfer' = Mailed([v EXCEPT !.outcomes = Append(@, FALSE), !.thread = "gone", !.fd = "closed"], e) BY <1>5 DEF Posts
  <2>v. /\ Changes(transfer, v, {"file", "lost"}) /\ v.lost = transfer.lost \cup {"removed"} /\ v.outcomes = transfer.outcomes
        /\ v.mail = transfer.mail /\ DOMAIN v = DOMAIN transfer /\ v.handler = transfer.handler /\ v.started = transfer.started
        /\ v.born = transfer.born /\ v.known = transfer.known /\ v.heard = transfer.heard
    BY DEF Changes, FileOK, TransferTypeOK
  <2> HIDE DEF e, v
  <2>1. /\ Changes(v, transfer', {"outcomes", "thread", "fd", "mail"}) /\ transfer'.outcomes = Append(transfer.outcomes, FALSE)
        /\ transfer'.thread = "gone" /\ transfer'.mail = Append(transfer.mail, e) /\ transfer'.lost = transfer.lost \cup {"removed"}
        /\ transfer'.handler = transfer.handler /\ transfer'.started = transfer.started
        /\ transfer'.born = transfer.born /\ transfer'.known = transfer.known /\ transfer'.heard = transfer.heard
    BY <2>0, <2>v DEF Mailed, Changes, FileOK, TransferTypeOK
  <2>2. Changes(transfer, transfer', Notes \cup {"mail", "outcomes", "thread", "file", "lost"}) /\ Changes(transfer, transfer', HandlerOnly)
    BY <2>v, <2>1 DEF Changes, Notes, HandlerOnly
  <2>3. Noted(transfer, transfer') BY <2>1 DEF Noted, FileOK, TransferTypeOK
  <2>4. FileOK(transfer') BY <1>1, <1>2, <2>1, <2>2, <2>3, OutcomePosted DEF e
  <2>5. ~Tells(transfer'.mail, "hash") BY <1>2, <2>1, <2>4 DEF FileOK, Letters, LettersOK, Tells
  <2> QED BY <2>1, <2>2, <2>4, <2>5, PlainSteps
<1>6. \/ transfer' = Posts(transfer, FALSE)
      \/ transfer.hash = Whole /\ transfer.offset = Parts /\ transfer' = Posts(transfer, TRUE)
      \/ transfer' = Posts([transfer EXCEPT !.file = <<>>, !.lost = @ \cup {"removed"}], FALSE)
  BY DEF CheckFile
<1> QED BY <1>3, <1>4, <1>5, <1>6
\* What a sender does: it asks and is answered,
LEMMA NoHashOnceStarted == ASSUME NEW t, FileOK(t), t.started PROVE ~Tells(t.mail, "hash")
BY DEF FileOK, Letters, LettersOK, Tells
LEMMA OffsetAsked ==
  ASSUME FileOK(transfer), AskOffset \/ OffsetAnswer \/ SeekOffset PROVE FileOK(transfer') /\ GoesOn(transfer, transfer')
<1>1. CASE AskOffset
  <2> DEFINE e == [about |-> "ask"]
  <2>1. transfer.thread = "asking" /\ transfer' = Mailed([transfer EXCEPT !.thread = "waiting"], e) BY <1>1 DEF AskOffset
  <2> HIDE DEF e
  <2>2. /\ Changes(transfer, transfer', {"mail", "thread"}) /\ transfer'.thread = "waiting"
        /\ transfer'.mail = Append(transfer.mail, e) /\ transfer'.handler = transfer.handler /\ transfer'.started = transfer.started
    BY <2>1 DEF Mailed, Changes, FileOK, TransferTypeOK
  <2>3. FileOK(transfer') BY <2>1, <2>2, AskPosted DEF e
  <2>4. ~Tells(transfer'.mail, "hash") /\ Changes(transfer, transfer', HandlerOnly)
    BY <2>1, <2>2, <2>3, NoHashOnceStarted DEF Changes, HandlerOnly, FileOK, Works, Working
  <2> QED BY <2>2, <2>3, <2>4, PlainSteps
<1>2. CASE OffsetAnswer
  <2>1. PICK offset \in 0..Parts :
          transfer' = [transfer EXCEPT !.asked = FALSE, !.answered = TRUE, !.offset = IF transfer.stop THEN @ ELSE offset]
    BY Zenon, <1>2 DEF OffsetAnswer
  <2>2. /\ transfer.asked /\ transfer.outgoing /\ transfer.started /\ transfer.thread # "asking"
        /\ transfer.offset \in Nat /\ transfer.offset <= Parts
    BY Zenon, <1>2 DEF OffsetAnswer, FileOK, Works, Sent, TransferTypeOK
  <2>3. ~transfer.stop => transfer.thread = "waiting" /\ ~Tells(transfer.mail, "ask") BY <2>2 DEF FileOK, Asking
  <2>4. /\ Changes(transfer, transfer', {"asked", "answered", "offset"}) /\ transfer'.asked = FALSE /\ transfer'.answered = TRUE
        /\ transfer'.offset = (IF transfer.stop THEN transfer.offset ELSE offset)
        /\ transfer'.mail = transfer.mail /\ transfer'.thread = transfer.thread /\ transfer'.handler = transfer.handler
    BY <2>1 DEF Changes, FileOK, TransferTypeOK
  <2>5. transfer'.offset \in Nat /\ transfer'.offset <= Parts BY <2>2, <2>4, FileAssumption
  <2>6. FileOK(transfer') BY <2>2, <2>3, <2>4, <2>5, AnswerTaken
  <2>7. Changes(transfer, transfer', HandlerOnly) BY <2>4 DEF Changes, HandlerOnly
  <2> QED BY <2>4, <2>6, <2>7, PlainSteps
<1>3. CASE SeekOffset
  <2>1. /\ Changes(transfer, transfer', {"thread", "from", "read"}) /\ transfer'.thread = "sending"
        /\ transfer'.from = transfer.offset /\ transfer'.read = transfer.offset
        /\ transfer'.mail = transfer.mail /\ transfer'.handler = transfer.handler
    BY <1>3 DEF SeekOffset, Changes, FileOK, TransferTypeOK
  <2>2. FileOK(transfer') BY <1>3, <2>1, SendingBegins DEF SeekOffset
  <2>3. Changes(transfer, transfer', HandlerOnly) BY <2>1 DEF Changes, HandlerOnly
  <2> QED BY <2>1, <2>2, <2>3, PlainSteps
<1> QED BY <1>1, <1>2, <1>3
LEMMA AskGoes == ASSUME FileOK(transfer), SendsAsk PROVE FileOK(transfer') /\ GoesOn(transfer, transfer')
<1> DEFINE v == [transfer EXCEPT !.mail = Tail(@)]
<1>1. transfer.mail # <<>> /\ Head(transfer.mail).about = "ask" /\ v = Opened BY DEF SendsAsk, Delivers, Opened
<1>2. FileOK(v) /\ Changes(transfer, v, {"mail"}) /\ v.mail = Tail(transfer.mail) BY <1>1, LetterOpened
<1>3. LettersOK(transfer.mail, transfer.started, transfer.thread, transfer.outcomes, transfer.outgoing) BY DEF FileOK, Letters
<1>4. /\ Tells(transfer.mail, "ask") /\ \A about : Tells(v.mail, about) => Tells(transfer.mail, about)
      /\ DOMAIN v.mail = 1..(Len(transfer.mail) - 1) /\ Len(transfer.mail) \in Nat
  BY <1>1, <1>2, <1>3, LetterRead
<1>5. transfer.started /\ transfer.outgoing BY <1>3, <1>4 DEF LettersOK, Tells
<1>6. transfer.thread # "asking" BY <1>1 DEF FileOK, Works
<1>7. ~transfer.stop => transfer.thread = "waiting" /\ ~transfer.asked /\ ~transfer.answered /\ Len(transfer.mail) = 1
  BY <1>4, <1>5 DEF FileOK, Asking
<1>8. ~transfer.stop => ~Tells(v.mail, "ask") BY <1>4, <1>7 DEF Tells
<1>9. /\ v.started = transfer.started /\ v.outgoing = transfer.outgoing /\ v.thread = transfer.thread /\ v.stop = transfer.stop
      /\ v.asked = transfer.asked /\ v.answered = transfer.answered /\ v.offset = transfer.offset /\ v.handler = transfer.handler
      /\ v.asked \in BOOLEAN /\ v.answered \in BOOLEAN /\ v.offset \in Nat
  BY DEF FileOK, TransferTypeOK
<1>10. v.offset <= Parts BY <1>5, <1>9 DEF FileOK, Sent
<1>11. \/ transfer.stop /\ transfer' = [v EXCEPT !.answered = TRUE]
       \/ ~transfer.stop /\ transfer' = [v EXCEPT !.asked = TRUE]
       \/ transfer' = v
  BY <1>1 DEF SendsAsk
<1>12. GoesOn(transfer, v)
  <2>1. Changes(transfer, v, HandlerOnly) BY <1>2 DEF Changes, HandlerOnly
  <2> QED BY <1>4, <1>9, <2>1, PlainSteps
<1> HIDE DEF v
<1>13. CASE transfer' = v BY <1>2, <1>12, <1>13
<1>14. CASE \/ transfer.stop /\ transfer' = [v EXCEPT !.answered = TRUE]
            \/ ~transfer.stop /\ transfer' = [v EXCEPT !.asked = TRUE]
  <2>1. /\ Changes(v, transfer', {"asked", "answered", "offset"}) /\ transfer'.offset = v.offset
        /\ transfer'.asked \in BOOLEAN /\ transfer'.answered \in BOOLEAN
        /\ ~transfer.stop => transfer'.answered = v.answered
        /\ transfer'.mail = v.mail /\ transfer'.thread = v.thread /\ transfer'.handler = v.handler
    BY ZenonT(60), <1>2, <1>9, <1>14 DEF Changes, FileOK, TransferTypeOK
  <2>2. FileOK(transfer') BY <1>2, <1>5, <1>6, <1>7, <1>8, <1>9, <1>10, <2>1, AnswerTaken
  <2>3. Changes(v, transfer', HandlerOnly) BY <2>1 DEF Changes, HandlerOnly
  <2>4. GoesOn(v, transfer') BY <1>2, <2>1, <2>3, PlainSteps
  <2> QED BY <1>12, <2>1, <2>2, <2>4 DEF GoesOn
<1> QED BY <1>11, <1>13, <1>14
\* ... it reads and sends,
LEMMA PartRead == ASSUME FileOK(transfer), ReadPart PROVE FileOK(transfer') /\ GoesOn(transfer, transfer')
<1>1. transfer.thread = "sending" /\ transfer.thread \in Working /\ transfer.started /\ transfer.outgoing /\ transfer.read \in Nat
  BY DEF ReadPart, Working, FileOK, Works, Received, TransferTypeOK
<1>0. transfer.born \in BOOLEAN /\ transfer.known \in BOOLEAN /\ transfer.heard \in BOOLEAN BY DEF FileOK, TransferTypeOK
<1>2. CASE transfer' = Posts(transfer, FALSE) BY <1>1, <1>2, LastPosted
<1>3. CASE ~transfer.stop /\ transfer' = [transfer EXCEPT !.thread = "finishing", !.fd = "closed"]
  <2>1. /\ Changes(transfer, transfer', {"thread", "fd"}) /\ transfer'.thread = "finishing"
        /\ transfer'.mail = transfer.mail /\ transfer'.handler = transfer.handler
        /\ transfer'.born = transfer.born /\ transfer'.known = transfer.known /\ transfer'.heard = transfer.heard
    BY <1>3 DEF Changes, FileOK, TransferTypeOK
  <2>2. Changes(transfer, transfer', Notes \cup {"thread"}) /\ Changes(transfer, transfer', HandlerOnly) BY <2>1 DEF Changes, Notes, HandlerOnly
  <2>3. FileOK(transfer') BY <1>0, <1>1, <2>1, <2>2, SendingEnds DEF Noted
  <2> QED BY <2>1, <2>2, <2>3, PlainSteps
<1>4. CASE /\ ~transfer.stop /\ transfer.read < Parts
           /\ transfer' = Mailed([transfer EXCEPT !.read = @ + 1], [about |-> "part", part |-> transfer.read + 1])
  <2>1. PICK n \in Nat : n = transfer.read + 1 BY <1>1
  <2> DEFINE e == [about |-> "part", part |-> n]
  <2>2. transfer' = Mailed([transfer EXCEPT !.read = n], e) BY <1>4, <2>1
  <2> HIDE DEF e
  <2>3. /\ Changes(transfer, transfer', {"mail", "read"}) /\ transfer'.read = n /\ transfer'.mail = Append(transfer.mail, e)
        /\ transfer'.thread = transfer.thread /\ transfer'.handler = transfer.handler /\ transfer'.started = transfer.started
    BY <2>2 DEF Mailed, Changes, FileOK, TransferTypeOK
  <2>4. transfer'.mail = Append(transfer.mail, [about |-> "part", part |-> transfer.read + 1]) BY <2>1, <2>3 DEF e
  <2>5. FileOK(transfer') BY <1>1, <1>4, <2>1, <2>3, <2>4, PartPosted
  <2>6. ~Tells(transfer'.mail, "hash") BY <1>1, <2>3, <2>5, NoHashOnceStarted
  <2>7. Changes(transfer, transfer', HandlerOnly) BY <2>3 DEF Changes, HandlerOnly
  <2> QED BY <2>3, <2>5, <2>6, <2>7, PlainSteps
<1> QED BY <1>2, <1>3, <1>4 DEF ReadPart
LEMMA PartGoes == ASSUME FileOK(transfer), SendsPart PROVE FileOK(transfer') /\ GoesOn(transfer, transfer')
<1> DEFINE v == [transfer EXCEPT !.mail = Tail(@)]
<1>1. transfer.mail # <<>> /\ Head(transfer.mail).about = "part" /\ v = Opened BY DEF SendsPart, Delivers, Opened
<1>2. FileOK(v) /\ Changes(transfer, v, {"mail"}) /\ v.mail = Tail(transfer.mail) BY <1>1, LetterOpened
<1>3. LettersOK(transfer.mail, transfer.started, transfer.thread, transfer.outcomes, transfer.outgoing) BY DEF FileOK, Letters
<1>4. Tells(transfer.mail, "part") /\ \A about : Tells(v.mail, about) => Tells(transfer.mail, about) BY <1>1, <1>2, <1>3, LetterRead
<1>5. transfer.started /\ transfer.offset \in Nat BY <1>3, <1>4 DEF LettersOK, Tells, FileOK, TransferTypeOK
<1>6. v.handler = transfer.handler /\ v.thread = transfer.thread BY DEF FileOK, TransferTypeOK
<1>7. CASE transfer' = v
  <2>1. Changes(transfer, v, HandlerOnly) BY <1>2 DEF Changes, HandlerOnly
  <2> QED BY <1>2, <1>4, <1>6, <1>7, <2>1, PlainSteps
<1>8. CASE /\ ~transfer.stop
           /\ transfer' = [v EXCEPT !.offset = @ + 1, !.wire = Append(@, <<Letter.part, transfer.offset + 1>>)]
  <2>1. PICK n \in Nat : n = transfer.offset + 1 BY <1>5
  <2> DEFINE e == <<Letter.part, n>>
  <2>2. v.offset = transfer.offset /\ v.wire = transfer.wire BY DEF FileOK, TransferTypeOK
  <2> HIDE DEF v
  <2>3. transfer' = [v EXCEPT !.offset = n, !.wire = Append(@, e)] BY <1>8, <2>1, <2>2
  <2> HIDE DEF e
  <2>4. /\ Changes(v, transfer', {"offset", "wire"}) /\ transfer'.offset = n /\ transfer'.wire = Append(transfer.wire, e)
        /\ transfer'.mail = v.mail /\ transfer'.thread = v.thread /\ transfer'.handler = v.handler
    BY <1>2, <2>2, <2>3 DEF Changes, FileOK, TransferTypeOK
  <2>5. Changes(transfer, transfer', {"mail", "offset", "wire"}) /\ Changes(transfer, transfer', HandlerOnly)
    BY <1>2, <2>4 DEF Changes, HandlerOnly
  <2>6. transfer'.wire = Append(transfer.wire, NextPart(transfer)) BY <2>1, <2>4 DEF e, Letter, NextPart
  <2>8. transfer'.mail = Tail(transfer.mail) /\ transfer'.offset = transfer.offset + 1 BY <1>2, <2>1, <2>4
  <2>7. FileOK(transfer') BY <1>1, <1>8, <2>5, <2>6, <2>8, PartSent
  <2> QED BY <1>2, <1>4, <1>6, <2>4, <2>5, <2>7, PlainSteps
<1> QED BY <1>1, <1>7, <1>8 DEF SendsPart
\* ... and takes the reports.
LEMMA ReportComes ==
  ASSUME FileOK(transfer), NEW i \in 1..Parts, Report(i) PROVE FileOK(transfer') /\ GoesOn(transfer, transfer')
<1>0. /\ transfer.born \in BOOLEAN /\ transfer.known \in BOOLEAN /\ transfer.heard \in BOOLEAN /\ transfer.finished \in BOOLEAN
      /\ transfer.from \in Nat /\ transfer.offset \in Nat /\ transfer.wire \in Seq(Nat \X Nat)
  BY DEF FileOK, TransferTypeOK
<1>1. i \in DOMAIN transfer.wire BY DEF Report
<1>2. DOMAIN transfer.wire = 1..Len(transfer.wire) /\ Len(transfer.wire) \in Nat /\ transfer.wire # <<>> /\ i \in Int /\ i <= Len(transfer.wire)
  <2>1. DOMAIN transfer.wire = 1..Len(transfer.wire) /\ Len(transfer.wire) \in Nat BY <1>0
  <2>2. DOMAIN <<>> = {} OBVIOUS
  <2> QED BY <1>1, <2>1, <2>2
<1>3. transfer.outgoing /\ transfer.started BY <1>2 DEF FileOK, Works
<1>4. /\ transfer.wire[i][2] = transfer.from + i /\ transfer.offset <= Parts
      /\ transfer.thread \in Sending /\ transfer.offset = transfer.from + Len(transfer.wire)
  BY <1>1, <1>2, <1>3 DEF FileOK, Sent
<1>5. transfer.wire[i][2] = Parts => AllSent(transfer)
  <2>1. transfer.from + i = Parts => transfer.from + Len(transfer.wire) = Parts BY <1>0, <1>2, <1>4, FileAssumption
  <2> QED BY <1>4, <2>1 DEF AllSent
<1> DEFINE r == transfer.reported \cup {i}
           v == [transfer EXCEPT !.reported = r]
<1>6. \/ transfer.wire[i][2] = Parts /\ transfer' = [v EXCEPT !.finished = TRUE, !.stop = TRUE]
      \/ transfer' = v
      \/ transfer' = [v EXCEPT !.stop = TRUE]
  BY DEF Report
<1> HIDE DEF r
<1>7. /\ Changes(transfer, transfer', {"reported", "finished", "stop"}) /\ transfer'.queue = transfer.queue
      /\ transfer'.mail = transfer.mail /\ transfer'.thread = transfer.thread /\ transfer'.handler = transfer.handler
      /\ transfer'.born = transfer.born /\ transfer'.known = transfer.known /\ transfer'.heard = transfer.heard
      /\ transfer'.lost = transfer.lost
  BY ZenonT(60), <1>6 DEF Changes, FileOK, TransferTypeOK
<1>8. Noted(transfer, transfer') BY <1>0, <1>7 DEF Noted
<1>9. GoesOn(transfer, transfer')
  <2>1. Changes(transfer, transfer', Notes \cup {"handler", "entry", "lost", "stop", "outcomes", "queue", "finished"})
    BY <1>7 DEF Changes, Notes
  <2> QED BY <1>7, <2>1, OnlyTheHandler
<1>10. CASE transfer' = v
  <2>1. Changes(transfer, v, Notes \cup {"lost"}) BY DEF Changes, Notes, FileOK, TransferTypeOK
  <2> QED BY <1>7, <1>8, <1>9, <1>10, <2>1, NotesTaken
<1>11. CASE transfer' # v
  <2>1. /\ transfer'.stop = TRUE /\ transfer'.finished \in BOOLEAN /\ (transfer.finished => transfer'.finished)
        /\ transfer'.finished => transfer.finished \/ AllSent(transfer)
    BY ZenonT(60), <1>0, <1>5, <1>6, <1>11 DEF FileOK, TransferTypeOK
  <2>2. Changes(transfer, transfer', Notes \cup {"stop", "queue", "finished"}) BY <1>7 DEF Changes, Notes
  <2> QED BY <1>2, <1>7, <1>8, <1>9, <2>1, <2>2, StopTold
<1> QED BY <1>10, <1>11
LEMMA SendingFinished == ASSUME FileOK(transfer), FinishSending PROVE FileOK(transfer') /\ GoesOn(transfer, transfer')
<1>1. transfer.thread = "finishing" /\ transfer.thread \in Working /\ transfer.finished \in BOOLEAN
      /\ transfer' = Posts(transfer, transfer.finished)
  BY DEF FinishSending, Working, FileOK, TransferTypeOK
<1>2. transfer.outgoing BY <1>1 DEF FileOK, Received
<1> QED BY <1>1, <1>2, LastPosted
\* What the session sees makes nothing new again.
LEMMA NotNewAgain == ASSUME [Contract!Next]_life PROVE life' = "new" => life = "new"
BY DEF Contract!Next, Contract!Initialize, Contract!Initialized, Contract!NotInitialized, Contract!Start, Contract!Started,
   Contract!Fails, Contract!Deactivate, Contract!End, Contract!Becomes
\* A stream of an open or lost connection fails, or has nothing to say.
LEMMA FailureTold ==
  ASSUME MSRPInv, msrp.session # "none", Tell("DidFail") \/ Silent, msrp' = msrp
  PROVE  MSRPInv' /\ [Contract!Next]_life
<1>0. life \in {"on", "failed", "leaving", "over"} BY DEF MSRPInv, AsTheSessionKnows
<1>1. CASE life' = life
  BY <1>1 DEF MSRPInv, MSRPTypeOK, AsTheSessionKnows, InOrder, EndsInOrder
<1>2. CASE life' # life
  <2>1. life' = "failed" /\ life \in {"on", "failed"} BY <1>0, <1>2 DEF Tell, Silent, Over
  <2>2. life = "on" BY <1>2, <2>1
  <2>3. msrp.jobs = <<>> /\ msrp.greenlet = "none" /\ ~(msrp.jobs \in WithEnd \/ msrp.ending # "no")
    BY <2>2 DEF MSRPInv, AsTheSessionKnows
  <2>4. AsTheSessionKnows' BY <2>1, <2>3 DEF AsTheSessionKnows
  <2>5. MSRPTypeOK' /\ InOrder' /\ EndsInOrder' BY <2>1 DEF MSRPInv, MSRPTypeOK, InOrder, EndsInOrder
  <2>6. Contract!Next BY <2>1, <2>2 DEF Contract!Next, Contract!Fails, Contract!Becomes
  <2> QED BY <2>4, <2>5, <2>6 DEF MSRPInv
<1> QED BY <1>1, <1>2
\* A start comes of a start.
OtherSteps ==
  \/ DoInitialize \/ DoDeactivate \/ DoEnd \/ Resuming \/ Initialized \/ NotInitialized \/ Started \/ NotStarted
  \/ WillEnd \/ EndsUninitialized \/ Interrupted \/ Closes \/ Forgets \/ ConnectionLost
ToStart == msrp.jobs \in Starts \/ msrp.greenlet = "start"
LEMMA StartsComeFrom == ASSUME MSRPInv, OtherSteps, ToStart' PROVE ToStart
<1> DEFINE Types == [jobs : Jobs, greenlet : Green, initialized : BOOLEAN, done : BOOLEAN,
                     connector : {"none", "prepared", "failed"}, session : {"none", "open", "lost", "closed"}, shutting : BOOLEAN,
                     ending : {"no", "interrupting", "closing", "forgetting", "over"}, captured : BOOLEAN]
<1>0. msrp \in Types BY DEF MSRPInv, MSRPTypeOK, Jobs
<1>1. CASE DoInitialize
  <2>1. msrp.jobs = <<>> BY <1>1 DEF DoInitialize, CallInitialize, Calls, MSRPInv, AsTheSessionKnows
  <2>2. msrp' = [msrp EXCEPT !.jobs = <<"initialize">>] BY <1>1, <2>1, JobsGo DEF DoInitialize, Later
  <2> QED BY <1>0, <2>2, JobsKinds DEF ToStart
<1>2. CASE DoEnd
  <2>1. life = "leaving" /\ msrp' = [msrp EXCEPT !.jobs = Append(@, "end")] BY <1>2 DEF DoEnd, CallEnd, Calls, Later
  <2>2. msrp.jobs \notin WithEnd BY <2>1 DEF MSRPInv, AsTheSessionKnows
  <2>3. msrp.jobs = <<>> \/ msrp.jobs = <<"initialize">> \/ msrp.jobs = <<"start">> BY <1>0, <2>2, JobsKinds DEF Jobs
  <2>4. msrp.jobs = <<"start">> => ToStart BY JobsKinds DEF ToStart
  <2>5. ASSUME msrp.jobs = <<>> \/ msrp.jobs = <<"initialize">> PROVE msrp'.jobs \notin Starts
    BY <1>0, <2>1, <2>5, JobsGo, JobsKinds
  <2>6. msrp'.greenlet = msrp.greenlet BY <1>0, <2>1
  <2> QED BY <2>3, <2>4, <2>5, <2>6 DEF ToStart
<1>3. CASE DoDeactivate \/ ConnectionLost \/ Closes \/ Forgets \/ Interrupted \/ Initialized \/ NotInitialized \/ Started \/ NotStarted
           \/ GreenletDies
  <2>1. msrp'.jobs = msrp.jobs /\ msrp'.greenlet \in {"none", msrp.greenlet}
    BY <1>0, <1>3 DEF DoDeactivate, ConnectionLost, Closes, Forgets, Interrupted, Initialized, NotInitialized, Prepared, Started,
       NotStarted, GreenletDies
  <2> QED BY <2>1 DEF ToStart
<1>4. CASE RunInitialize \/ RunStart \/ Interrupts \/ WillEnd \/ EndsUninitialized
  <2>1. msrp.jobs # <<>> /\ msrp.jobs \in Jobs /\ msrp'.jobs = Tail(msrp.jobs)
    BY <1>0, <1>4 DEF RunInitialize, RunStart, Interrupts, WillEnd, EndsUninitialized, Takes, Rest, Ending
  <2>2. Head(msrp.jobs) \in {"initialize", "start", "end"}
    BY <1>4 DEF RunInitialize, RunStart, Interrupts, WillEnd, EndsUninitialized, Takes
  <2>3. msrp'.jobs \notin Starts BY <2>1, <2>2, JobsBegin, JobsKinds
  <2>4. msrp'.greenlet = "start" => Head(msrp.jobs) = "start" \/ msrp.greenlet = "start"
    BY <1>0, <1>4 DEF RunInitialize, RunStart, Interrupts, WillEnd, EndsUninitialized, Takes, Ending
  <2> QED BY <2>1, <2>3, <2>4, JobsBegin DEF ToStart
<1> QED BY <1>1, <1>2, <1>3, <1>4 DEF OtherSteps, Resuming
\* A stream that waits for the hash of its file waits on, or ends.
WaitsForHash ==
  /\ ~msrp.initialized /\ msrp.greenlet = "none" /\ msrp.jobs \in OnlyEnd /\ msrp.ending \in {"no", "over"}
  /\ life \in {"init", "leaving", "over"}
LEMMA WaitingStays == ASSUME MSRPInv, WaitsForHash, MSRPSteps PROVE WaitsForHash'
<1> DEFINE Types == [jobs : Jobs, greenlet : Green, initialized : BOOLEAN, done : BOOLEAN,
                     connector : {"none", "prepared", "failed"}, session : {"none", "open", "lost", "closed"}, shutting : BOOLEAN,
                     ending : {"no", "interrupting", "closing", "forgetting", "over"}, captured : BOOLEAN]
<1>0. msrp \in Types BY DEF MSRPInv, MSRPTypeOK, Jobs
<1>a. msrp.session = "none" BY DEF WaitsForHash, MSRPInv, InOrder
<1>b. ASSUME msrp.jobs # <<>> PROVE Head(msrp.jobs) \notin {"initialize", "start"}
  BY <1>b, JobsBegin, JobsKinds DEF WaitsForHash, Jobs
<1>1. ~DoInitialize /\ ~DoStart BY DEF DoInitialize, CallInitialize, DoStart, CallStart, Calls, WaitsForHash
<1>2. CASE DoDeactivate
  BY <1>0, <1>2 DEF DoDeactivate, CallDeactivate, Calls, WaitsForHash
<1>3. CASE DoEnd
  <2>1. life = "leaving" /\ life' = "over" /\ msrp' = [msrp EXCEPT !.jobs = Append(@, "end")]
    BY <1>3 DEF DoEnd, CallEnd, Calls, Later
  <2>2. msrp.jobs = <<>> BY <2>1, JobsKinds DEF WaitsForHash, MSRPInv, AsTheSessionKnows
  <2>3. msrp'.jobs = <<"end">> BY <1>0, <2>1, <2>2, JobsGo
  <2> QED BY <1>0, <2>1, <2>3, JobsKinds DEF WaitsForHash
<1>4. CASE EndsUninitialized
  <2>1. msrp.jobs # <<>> /\ Head(msrp.jobs) = "end" /\ msrp' = Ending("over")
    BY <1>4 DEF EndsUninitialized, Takes
  <2>2. msrp.jobs = <<"end">> BY <2>1 DEF WaitsForHash, OnlyEnd
  <2>3. Tail(msrp.jobs) = <<>> BY <2>1, <2>2, JobsBegin DEF WaitsForHash, Jobs
  <2>4. life = "over" BY <2>2, JobsKinds DEF MSRPInv, AsTheSessionKnows
  <2>5. life' = "over" BY <1>4, <2>4 DEF EndsUninitialized, Tell, Over
  <2>6. msrp' = [msrp EXCEPT !.jobs = <<>>, !.done = TRUE, !.ending = "over", !.captured = msrp.session = "open"]
    BY <2>1, <2>3 DEF Ending, Rest
  <2> QED BY <1>0, <2>5, <2>6, JobsKinds DEF WaitsForHash
<1>5. ~Resuming BY <1>b DEF Resuming, RunInitialize, RunStart, Interrupts, GreenletDies, Takes, Waits, WaitsForHash
<1>6. ~Initialized /\ ~NotInitialized /\ ~Started /\ ~NotStarted /\ ~WillEnd /\ ~Interrupted /\ ~Closes /\ ~Forgets
  BY DEF Initialized, NotInitialized, Started, NotStarted, WillEnd, Interrupted, Closes, Forgets, Waits, WaitsForHash
<1>7. ~ConnectionLost BY <1>a DEF ConnectionLost
<1> QED BY <1>1, <1>2, <1>3, <1>4, <1>5, <1>6, <1>7 DEF MSRPSteps
\* The steps of the handler and its thread that say nothing to the session,
FileAlone ==
  \/ Hashes \/ GotEnd \/ SessionWillStart \/ SessionDidFail \/ Receives
  \/ AskOffset \/ OffsetAnswer \/ SeekOffset \/ ReadPart \/ FinishSending
LEMMA FileAloneGoesOn == ASSUME TransferInv, FileAlone PROVE TransferInv' /\ [Contract!Next]_life
<1>1. FileOK(transfer) /\ MSRPInv /\ ForTheStream /\ ForTheHash BY DEF TransferInv
<1>2. UNCHANGED <<life, msrp>>
  <2>1. WriteChunk => StreamKept BY Zenon DEF WriteChunk
  <2>a. CheckFile => StreamKept BY DEF CheckFile
  <2>b. ASSUME NEW p \in 1..Parts, NEW sound \in BOOLEAN, ReceiveChunk(p, sound) PROVE StreamKept BY <2>b DEF ReceiveChunk
  <2>2. Hashes \/ GotEnd \/ SessionWillStart \/ SessionDidFail => StreamKept
    BY DEF Hashes, GotEnd, SessionWillStart, SessionDidFail
  <2>3. (AskOffset => StreamKept) /\ (OffsetAnswer => StreamKept) /\ (SeekOffset => StreamKept)
    BY Zenon DEF AskOffset, OffsetAnswer, SeekOffset
  <2>c. (ReadPart => StreamKept) /\ (FinishSending => StreamKept) BY Zenon DEF ReadPart, FinishSending
  <2>4. StreamKept => UNCHANGED <<life, msrp>> BY DEF StreamKept, userVars
  <2> QED BY <2>1, <2>2, <2>3, <2>4, <2>a, <2>b, <2>c DEF FileAlone, Receives
<1>3. Receives => FileOK(transfer') /\ GoesOn(transfer, transfer') BY <1>1, ChunkComes, ChunkGoes, FileChecked DEF Receives
<1>4. FileOK(transfer') /\ GoesOn(transfer, transfer')
  BY <1>1, <1>3, HashingGoesOn, EndComes, SessionTold, OffsetAsked, PartRead, SendingFinished DEF FileAlone
<1>5. MSRPInv' BY <1>1, <1>2 DEF MSRPInv, MSRPTypeOK, AsTheSessionKnows, InOrder, EndsInOrder
<1>6. ForTheStream' BY <1>1, <1>2, <1>4 DEF ForTheStream, GoesOn
<1>7. ForTheHash' BY <1>1, <1>2, <1>4 DEF ForTheHash, GoesOn
<1> QED BY <1>2, <1>4, <1>5, <1>6, <1>7 DEF TransferInv
\* ... and those that may tell it of a failure.
FileFails == GotError \/ SendsAsk \/ SendsPart \/ \E i \in 1..Parts : Report(i)
LEMMA FileFailsSoundly == ASSUME TransferInv, FileFails PROVE TransferInv' /\ [Contract!Next]_life
<1>1. FileOK(transfer) /\ MSRPInv /\ ForTheStream /\ ForTheHash BY DEF TransferInv
<1>2. msrp' = msrp /\ (Tell("DidFail") \/ Silent)
  <2>1. GotError => msrp' = msrp /\ (Tell("DidFail") \/ Silent) BY DEF GotError
  <2>2. SendsAsk => msrp' = msrp /\ (Tell("DidFail") \/ Silent) BY DEF SendsAsk
  <2>3. SendsPart => msrp' = msrp /\ (Tell("DidFail") \/ Silent) BY DEF SendsPart
  <2>4. (\E i \in 1..Parts : Report(i)) => msrp' = msrp /\ (Tell("DidFail") \/ Silent) BY DEF Report
  <2> QED BY <2>1, <2>2, <2>3, <2>4 DEF FileFails
<1>3. FileOK(transfer') /\ GoesOn(transfer, transfer') BY <1>1, ErrorComes, AskGoes, PartGoes, ReportComes DEF FileFails
<1>4. transfer.started
  <2>1. Letters(transfer) /\ Works(transfer) BY <1>1 DEF FileOK
  <2>2. ASSUME GotError \/ SendsAsk \/ SendsPart PROVE transfer.started
    <3>1. transfer.mail # <<>> /\ Head(transfer.mail).about # "hash" BY <2>2 DEF GotError, SendsAsk, SendsPart, Delivers
    <3>2. Head(transfer.mail) = transfer.mail[1] /\ 1 \in DOMAIN transfer.mail BY <2>1, <3>1, LetterRead DEF Letters
    <3> QED BY <2>1, <3>1, <3>2 DEF Letters, LettersOK
  <2>3. ASSUME NEW i \in 1..Parts, Report(i) PROVE transfer.started
    <3>1. i \in DOMAIN transfer.wire BY <2>3 DEF Report
    <3>2. transfer.wire # <<>> BY <3>1
    <3> QED BY <2>1, <3>2 DEF Works
  <2> QED BY <2>2, <2>3 DEF FileFails
<1>5. msrp.session # "none" BY <1>1, <1>4 DEF ForTheStream
<1>6. MSRPInv' /\ [Contract!Next]_life BY <1>1, <1>2, <1>5, FailureTold
<1>7. ForTheStream' BY <1>1, <1>2, <1>3, <1>6, NotNewAgain DEF ForTheStream, GoesOn
<1>8. transfer.thread # "hashing" /\ ~Tells(transfer.mail, "hash")
  BY <1>1, <1>4, NoHashOnceStarted DEF FileOK, Works, Working
<1>9. ForTheHash' BY <1>3, <1>8 DEF ForTheHash, GoesOn
<1> QED BY <1>3, <1>6, <1>7, <1>9 DEF TransferInv
\* The hash that the stream waits for: it initialises then, unless it has ended, or fails.
LEMMA HashAnswers == ASSUME TransferInv, GotHash \/ GotNoHash PROVE TransferInv' /\ [Contract!Next]_life
<1> DEFINE Types == [jobs : Jobs, greenlet : Green, initialized : BOOLEAN, done : BOOLEAN,
                     connector : {"none", "prepared", "failed"}, session : {"none", "open", "lost", "closed"}, shutting : BOOLEAN,
                     ending : {"no", "interrupting", "closing", "forgetting", "over"}, captured : BOOLEAN]
<1>1. FileOK(transfer) /\ MSRPInv /\ ForTheStream /\ ForTheHash BY DEF TransferInv
<1>2. msrp \in Types BY <1>1 DEF MSRPInv, MSRPTypeOK, Jobs
<1>3. FileOK(transfer') /\ GoesOn(transfer, transfer') BY <1>1, HashComes
<1>4. transfer.mail # <<>> /\ Head(transfer.mail).about = "hash" BY DEF GotHash, GotNoHash, Delivers
<1>5. Tells(transfer.mail, "hash") /\ Tail(transfer.mail) = <<>> BY <1>1, <1>4, LetterRead DEF FileOK, Letters
<1>6. WaitsForHash BY <1>1, <1>5 DEF ForTheHash, WaitsForHash
<1>7. transfer.thread # "hashing" BY <1>1, <1>4 DEF FileOK, Works
<1>8. transfer'.thread # "hashing" BY <1>3, <1>7 DEF GoesOn
<1>9. transfer'.mail = <<>>
  <2>1. Opened.mail = <<>> /\ Opened = [transfer EXCEPT !.mail = <<>>] /\ DOMAIN transfer = DOMAIN Opened
    BY <1>1, <1>5 DEF Opened, FileOK, TransferTypeOK
  <2>2. CASE GotHash BY <2>1, <2>2 DEF GotHash
  <2>3. CASE GotNoHash
    <3>1. ASSUME NEW t, t.mail = <<>>, DOMAIN t = DOMAIN transfer PROVE HandlerNotInitialized(t).mail = <<>>
      BY <3>1, <1>1 DEF HandlerNotInitialized, Terminated, FileOK, TransferTypeOK
    <3> DEFINE t == [Opened EXCEPT !.known = TRUE]
    <3>2. t.mail = <<>> /\ DOMAIN t = DOMAIN transfer BY <2>1
    <3>3. HandlerNotInitialized(t).mail = <<>> BY <3>1, <3>2
    <3>4. transfer' = Opened \/ transfer' = HandlerNotInitialized(t) BY <2>3 DEF GotNoHash
    <3> QED BY <2>1, <3>3, <3>4
  <2> QED BY <2>2, <2>3
<1>10. ForTheHash' BY <1>8, <1>9 DEF ForTheHash, Tells
<1>a. ASSUME life' = life, msrp' = msrp PROVE MSRPInv' /\ [Contract!Next]_life
  BY <1>1, <1>a DEF MSRPInv, MSRPTypeOK, AsTheSessionKnows, InOrder, EndsInOrder
<1>b. CASE GotHash /\ ~msrp.done
  <2>1. life' = life /\ msrp' = [msrp EXCEPT !.jobs = Append(@, "initialize")] BY <1>b DEF GotHash, Later, userVars
  <2>2. msrp.jobs = <<>> \/ msrp.jobs = <<"end">> BY <1>6 DEF WaitsForHash, OnlyEnd
  <2>3. msrp'.jobs \in {<<"initialize">>, <<"end", "initialize">>} BY <1>2, <2>1, <2>2, JobsGo
  <2>4. PICK q \in {<<"initialize">>, <<"end", "initialize">>} : msrp' = [msrp EXCEPT !.jobs = q] BY <1>2, <2>1, <2>3
  <2>5. q \in Jobs /\ q \in Beginnings /\ q \notin Starts \cup OnlyEnd /\ (q = <<"initialize">> \/ q \in WithEnd) BY JobsKinds DEF Jobs
  <2>6. q \in WithEnd => msrp.jobs \in WithEnd
    <3>1. msrp.jobs = <<>> => q = <<"initialize">> BY <1>2, <2>1, <2>4, JobsGo
    <3> QED BY <2>2, <3>1, JobsKinds
  <2>7. life \in {"init", "leaving", "over"} /\ ~msrp.initialized /\ msrp.greenlet = "none" /\ msrp.ending = "no" /\ ~msrp.done
        /\ msrp.session = "none"
    BY <1>b, <1>1, <1>6 DEF WaitsForHash, MSRPInv, EndsInOrder, InOrder
  <2> HIDE DEF Types
  <2>8. msrp' \in Types BY <1>2, <2>4, <2>5 DEF Types
  <2>9. MSRPTypeOK' BY <1>1, <2>1, <2>8 DEF MSRPInv, MSRPTypeOK, Jobs, Types
  <2>10. AsTheSessionKnows' BY <1>1, <1>2, <2>1, <2>4, <2>5, <2>6, <2>7 DEF MSRPInv, AsTheSessionKnows, Types
  <2>11. InOrder' BY <1>2, <2>4, <2>5, <2>7 DEF InOrder, Types
  <2>12. EndsInOrder' BY <1>2, <2>4, <2>7 DEF EndsInOrder, Types
  <2>13. ForTheStream' BY <1>1, <1>2, <1>3, <2>1, <2>4, <2>5, <2>7 DEF ForTheStream, GoesOn, Types
  <2> QED BY <1>3, <1>10, <2>1, <2>9, <2>10, <2>11, <2>12, <2>13 DEF TransferInv, MSRPInv
<1>c. CASE GotNoHash /\ ~msrp.done
  <2>1. msrp' = msrp /\ life' = IF life = "init" THEN "failed" ELSE life
    BY <1>c, <1>6 DEF GotNoHash, Tell, Over, WaitsForHash
  <2>2. life = "init" => msrp.jobs = <<>> /\ msrp.ending = "no"
    BY <1>1, <1>6, JobsKinds DEF WaitsForHash, MSRPInv, AsTheSessionKnows
  <2>3. MSRPTypeOK' BY <1>1, <2>1 DEF MSRPInv, MSRPTypeOK
  <2>4. AsTheSessionKnows' BY <1>1, <1>6, <2>1, <2>2, JobsKinds DEF MSRPInv, AsTheSessionKnows, InOrder, WaitsForHash
  <2>5. InOrder' /\ EndsInOrder' BY <1>1, <2>1 DEF MSRPInv, InOrder, EndsInOrder
  <2>6. [Contract!Next]_life BY <2>1 DEF Contract!Next, Contract!NotInitialized, Contract!Becomes
  <2>7. ForTheStream' BY <1>1, <1>3, <2>1 DEF ForTheStream, GoesOn
  <2> QED BY <1>3, <1>10, <2>3, <2>4, <2>5, <2>6, <2>7 DEF TransferInv, MSRPInv
<1>d. CASE msrp.done
  <2>1. life' = life /\ msrp' = msrp BY <1>d DEF GotHash, GotNoHash, Silent, userVars
  <2>2. ForTheStream' BY <1>1, <1>3, <2>1 DEF ForTheStream, GoesOn
  <2> QED BY <1>3, <1>10, <1>a, <2>1, <2>2 DEF TransferInv
<1> QED BY <1>b, <1>c, <1>d
\* The handler begins with initialize(), and a stream that cannot transfer fails at once.
LEMMA TransferInitializes ==
  ASSUME TransferInv, OpensFile \/ KnowsHash \/ StartsHashing \/ CannotTransfer PROVE TransferInv' /\ [Contract!Next]_life
<1>1. FileOK(transfer) /\ MSRPInv /\ ForTheStream BY DEF TransferInv
<1>2. /\ FileOK(transfer') /\ transfer'.started = transfer.started /\ transfer'.born = transfer.born
      /\ transfer'.proposal = transfer.proposal /\ ~Tells(transfer'.mail, "hash")
      /\ (transfer'.thread = "hashing" => StartsHashing)
  BY <1>1, TransferBegun
<1>3. life = "new"
  BY DEF OpensFile, KnowsHash, StartsHashing, CannotTransfer, CallInitialize, Calls
<1>4. msrp.jobs = <<>> /\ ~msrp.initialized /\ msrp.greenlet = "none" /\ msrp.ending = "no" /\ msrp.session = "none"
  BY <1>1, <1>3 DEF MSRPInv, AsTheSessionKnows, InOrder
<1>5. CASE StartsHashing \/ CannotTransfer
  <2>1. msrp' = msrp BY <1>5 DEF StartsHashing, CannotTransfer
  <2>2. life' = "init" \/ (CannotTransfer /\ life' = "failed")
    BY <1>3, <1>5 DEF StartsHashing, CannotTransfer, CallInitialize, Calls, Tell, Over
  <2>3. MSRPInv'
    BY <1>1, <1>4, <2>1, <2>2, JobsKinds DEF MSRPInv, MSRPTypeOK, AsTheSessionKnows, InOrder, EndsInOrder
  <2>4. [Contract!Next]_life BY <1>3, <2>2 DEF Contract!Next, Contract!Initialize, Contract!Becomes
  <2>5. ForTheStream' BY <1>1, <1>2, <2>1, <2>2 DEF ForTheStream
  <2>6. ForTheHash'
    <3>1. CASE life' = "init" BY <1>2, <1>4, <2>1, <3>1, JobsKinds DEF ForTheHash
    <3>2. CASE CannotTransfer
      <4>1. transfer' = [transfer EXCEPT !.handler = "off", !.heard = TRUE, !.known = TRUE] BY <3>2 DEF CannotTransfer
      <4>2. transfer.handler = "new" /\ transfer.thread = "none" BY <1>1, <1>3 DEF ForTheStream, FileOK, Works
      <4>3. transfer'.thread = "none" BY <1>1, <4>1, <4>2 DEF FileOK, TransferTypeOK
      <4> QED BY <1>2, <4>3 DEF ForTheHash
    <3> QED BY <2>2, <3>1, <3>2
  <2> QED BY <1>2, <2>3, <2>4, <2>5, <2>6 DEF TransferInv
<1>6. CASE OpensFile \/ KnowsHash
  <2>1. DoInitialize BY <1>6 DEF OpensFile, KnowsHash, DoInitialize
  <2>2. MSRPInv' /\ [Contract!Next]_life BY <1>1, <2>1, MSRPGoesOnSoundly DEF MSRPSteps
  <2>3. msrp' = [msrp EXCEPT !.jobs = <<"initialize">>] /\ life' = "init"
    BY <2>1, <1>4, JobsGo DEF DoInitialize, Later, CallInitialize, Calls
  <2>4. <<"initialize">> \notin Starts /\ <<"initialize">> # <<>>
    BY JobsKinds
  <2>5. msrp'.jobs = <<"initialize">> /\ msrp'.greenlet = "none" /\ msrp'.session = "none"
    BY <1>1, <1>4, <2>3 DEF MSRPInv, MSRPTypeOK
  <2>6. ForTheStream' BY <1>1, <1>2, <1>4, <2>3, <2>4, <2>5 DEF ForTheStream
  <2>7. ~StartsHashing BY <1>4, <2>4, <2>5 DEF StartsHashing
  <2>8. ForTheHash' BY <1>2, <2>7 DEF ForTheHash
  <2> QED BY <1>2, <2>2, <2>6, <2>8 DEF TransferInv
<1> QED BY <1>5, <1>6
\* The steps of the stream that every kind takes.
StreamGoes == TransferNotInitialized \/ TransferStart \/ TransferStarted \/ TransferWillEnd \/ TransferKeeps
LEMMA StreamGoesOn == ASSUME TransferInv, StreamGoes PROVE TransferInv' /\ [Contract!Next]_life
<1>1. FileOK(transfer) /\ MSRPInv /\ ForTheStream /\ ForTheHash BY DEF TransferInv
<1>2. MSRPSteps
  BY DEF StreamGoes, TransferNotInitialized, TransferStart, TransferStarted, TransferWillEnd, TransferKeeps, MSRPSteps
<1>3. MSRPInv' /\ [Contract!Next]_life /\ (msrp.session # "none" => msrp'.session # "none")
  BY <1>1, <1>2, MSRPGoesOnSoundly, MSRPMovesOn
<1>4. WaitsForHash => WaitsForHash' BY <1>1, <1>2, WaitingStays
<1>5. life' = "new" => life = "new" BY <1>3, NotNewAgain
<1>6. CASE TransferStarted
  <2>1. /\ FileOK(transfer') /\ transfer'.born = transfer.born /\ transfer'.proposal = transfer.proposal
        /\ transfer'.thread # "hashing" /\ ~Tells(transfer'.mail, "hash")
    BY <1>1, <1>6, TransferBeginsToRun
  <2>2. msrp.greenlet = "start" /\ msrp'.session = "open"
    BY <1>1, <1>6 DEF TransferStarted, Started, Waits, MSRPInv, MSRPTypeOK
  <2>3. life # "new" BY <1>1, <2>2 DEF MSRPInv, AsTheSessionKnows
  <2>4. transfer.proposal \/ transfer.born BY <1>1, <2>2 DEF ForTheStream
  <2>5. ForTheStream' BY <1>5, <2>1, <2>2, <2>3, <2>4 DEF ForTheStream
  <2>6. ForTheHash' BY <2>1 DEF ForTheHash
  <2> QED BY <1>3, <2>1, <2>5, <2>6 DEF TransferInv
<1>7. ASSUME FileOK(transfer'), GoesOn(transfer, transfer'), OtherSteps \/ TransferStart PROVE TransferInv'
  <2>1. ToStart' => transfer.proposal \/ transfer.born
    <3>1. OtherSteps /\ ToStart' => ToStart BY <1>1, StartsComeFrom
    <3> QED BY <1>1, <1>7, <3>1 DEF TransferStart, ForTheStream, ToStart
  <2>2. ForTheStream' BY <1>1, <1>3, <1>5, <1>7, <2>1 DEF ForTheStream, GoesOn, ToStart
  <2>3. ForTheHash' BY <1>1, <1>4, <1>7 DEF ForTheHash, GoesOn, WaitsForHash
  <2> QED BY <1>3, <1>7, <2>2, <2>3 DEF TransferInv
<1>8. CASE TransferNotInitialized \/ TransferWillEnd
  <2>1. OtherSteps BY <1>8 DEF TransferNotInitialized, TransferWillEnd, OtherSteps
  <2> QED BY <1>1, <1>3, <1>7, <1>8, <2>1, SessionTold
<1>9. CASE TransferStart \/ TransferKeeps
  <2>1. transfer' = transfer BY <1>9 DEF TransferStart, TransferKeeps, TransferKept
  <2>2. OtherSteps \/ TransferStart BY <1>9 DEF TransferKeeps, OtherSteps
  <2>3. GoesOn(transfer, transfer') BY <2>1 DEF GoesOn
  <2> QED BY <1>1, <1>3, <1>7, <2>1, <2>2, <2>3
<1> QED BY <1>6, <1>8, <1>9 DEF StreamGoes
\* What the invariant says of the outcome.
LEMMA OneOutcomeAtMost == ASSUME NEW q \in {<<>>, <<TRUE>>, <<FALSE>>} PROVE Len(q) <= 1
<1>1. Len(<<>>) = 0 /\ Len(<<TRUE>>) = 1 /\ Len(<<FALSE>>) = 1 OBVIOUS
<1>2. Len(q) = 0 \/ Len(q) = 1 BY Zenon, <1>1
<1> QED BY <1>2
LEMMA AsSent ==
  ASSUME NEW t, FileOK(t), t.outgoing, t.outcomes = <<TRUE>>
  PROVE  /\ t.wire # <<>> /\ t.wire[Len(t.wire)][2] = Parts
         /\ \A i \in DOMAIN t.wire : t.wire[i] = <<t.from + i, t.from + i>>
<1>1. t.wire # <<>> /\ AllSent(t) /\ AsRead(t) /\ \A k \in DOMAIN t.wire : t.wire[k][2] = t.from + k
  BY DEF FileOK, Sent
<1>2. t.wire \in Seq(Nat \X Nat) BY DEF FileOK, TransferTypeOK
<1>3. Len(t.wire) \in DOMAIN t.wire BY <1>1, <1>2
<1>4. t.wire[Len(t.wire)][2] = Parts BY <1>1, <1>3 DEF AllSent
<1>5. ASSUME NEW i \in DOMAIN t.wire PROVE t.wire[i] = <<t.from + i, t.from + i>>
  <2>1. t.wire[i] \in Nat \X Nat BY <1>2
  <2>2. t.wire[i] = <<t.wire[i][1], t.wire[i][2]>> BY <2>1
  <2> QED BY <1>1, <2>2 DEF AsRead
<1> QED BY <1>1, <1>4, <1>5
LEMMA OutcomeOK == ASSUME FileOK(transfer) PROVE TransferOutcome
<1>1. transfer.outcomes \in {<<>>, <<TRUE>>, <<FALSE>>} /\ Received(transfer) BY DEF FileOK, TransferTypeOK
<1>2. Len(transfer.outcomes) <= 1 BY <1>1, OneOutcomeAtMost
<1> QED BY <1>1, <1>2, AsSent DEF TransferOutcome, Received
\* A transfer begins with nothing sent, nothing told, and perhaps the beginning of the file.
LEMMA TransferBegins == ASSUME UserInit, MSRPInit, TransferInit PROVE TransferInv
<1>2. PICK outgoing, proposal, asks \in BOOLEAN, entry \in {<<>>, Beginning} :
    transfer =
      [outgoing |-> outgoing, proposal |-> proposal, asks |-> asks, entry |-> entry,
       handler |-> "new", heard |-> FALSE, known |-> FALSE, good |-> FALSE,
       started |-> FALSE, born |-> FALSE, sessionFailed |-> FALSE,
       thread |-> "none", mail |-> <<>>, stop |-> FALSE, outcomes |-> <<>>, lost |-> {},
       fd |-> "none", file |-> <<>>, hash |-> <<>>, queue |-> <<>>, received |-> 0,
       offset |-> 0, from |-> 0, asked |-> FALSE, answered |-> FALSE, read |-> 0,
       wire |-> <<>>, reported |-> {}, finished |-> FALSE]
  BY DEF TransferInit
<1>3. Parts \in Nat \ {0} BY FileAssumption
<1>4. Len(entry) \in 0..(Parts - 1)
  <2>1. Len(<<>>) = 0 OBVIOUS
  <2>2. ASSUME NEW n \in Nat PROVE Len([p \in 1..n |-> Sound(p)]) = n OBVIOUS
  <2>3. Len(Beginning) = Parts - 1 BY <1>3, <2>2 DEF Beginning
  <2> QED BY <1>2, <1>3, <2>1, <2>3
<1>5. IsSeq(<<>>) /\ DOMAIN <<>> = {} /\ <<>> \in Seq(Nat \X Nat) BY Empty
<1>6. ~Tells(<<>>, "ask") /\ ~Tells(<<>>, "hash") /\ ~Tells(<<>>, "part") BY <1>5 DEF Tells
<1>7. <<>> # <<TRUE>> OBVIOUS
<1>a. /\ transfer.outcomes = <<>> /\ transfer.thread = "none" /\ transfer.lost = {} /\ transfer.mail = <<>> /\ transfer.wire = <<>>
      /\ transfer.file = <<>> /\ transfer.hash = <<>> /\ transfer.queue = <<>> /\ transfer.handler = "new"
      /\ transfer.offset = 0 /\ transfer.received = 0 /\ transfer.entry = entry
      /\ ~transfer.asked /\ ~transfer.answered /\ ~transfer.finished
  BY <1>2
<1>8. TransferTypeOK(transfer) BY <1>2, <1>5 DEF TransferTypeOK, Working
<1>9. Letters(transfer) BY <1>2, <1>5 DEF Letters, LettersOK
<1>10. Works(transfer) BY <1>2 DEF Works, Working
<1>11. OneOutcome(transfer) BY <1>a, <1>7 DEF OneOutcome, Working
<1>12. Received(transfer) BY <1>a, <1>3, <1>4, <1>5, <1>7 DEF Received
<1>13. Asking(transfer) BY <1>a, <1>6 DEF Asking
<1>14. Sent(transfer) BY <1>a, <1>3, <1>5, <1>6, <1>7 DEF Sent, Sending
<1>15. ToSend(transfer) BY <1>2 DEF ToSend, Sending
<1>16. FileOK(transfer) BY <1>8, <1>9, <1>10, <1>11, <1>12, <1>13, <1>14, <1>15 DEF FileOK
<1>17. ForTheStream BY <1>2, JobsKinds DEF ForTheStream, UserInit, MSRPInit
<1>18. ForTheHash BY <1>2, <1>6 DEF ForTheHash
<1> QED BY <1>16, <1>17, <1>18, MSRPBegins DEF TransferInv
\* Every step of a transfer keeps the invariant, and the session sees what it relies on.
LEMMA TransferGoesOnSoundly == ASSUME TransferInv, TransferNext PROVE TransferInv' /\ [Contract!Next]_life
<1>1. \/ OpensFile \/ KnowsHash \/ StartsHashing \/ CannotTransfer \/ GotHash \/ GotNoHash
      \/ FileAlone \/ FileFails \/ StreamGoes
  BY DEF TransferNext, Sends, FileAlone, FileFails, StreamGoes
<1> QED BY <1>1, TransferInitializes, HashAnswers, FileAloneGoesOn, FileFailsSoundly, StreamGoesOn
LEMMA TransferStays == ASSUME TransferInv, UNCHANGED <<life, msrp, transfer>> PROVE TransferInv'
BY DEF TransferInv, MSRPInv, MSRPTypeOK, AsTheSessionKnows, InOrder, EndsInOrder, ForTheStream, ForTheHash
(***************************************************************************)
(* Screen sharing.                                                         *)
(***************************************************************************)
\* the threads run once there is a connection
ScreenInv ==
  /\ MSRPInv /\ DOMAIN screen = {"handler", "watching", "threads", "data", "socket"}
  /\ screen.threads # {} => msrp.session # "none"
LEMMA ScreenBegins == ASSUME UserInit, MSRPInit, ScreenInit PROVE ScreenInv
<1>1. PICK h \in {"internal", "viewer", "server"} :
        screen = [handler |-> h, watching |-> FALSE, threads |-> {}, data |-> FALSE,
                  socket |-> IF h = "viewer" THEN "listening" ELSE "none"]
  BY DEF ScreenInit
<1>2. screen.threads = {} /\ DOMAIN screen = {"handler", "watching", "threads", "data", "socket"} BY <1>1
<1> QED BY <1>2, MSRPBegins DEF ScreenInv
LEMMA ScreenStays == ASSUME ScreenInv, UNCHANGED <<life, msrp, screen>> PROVE ScreenInv'
BY DEF ScreenInv, MSRPInv, MSRPTypeOK, AsTheSessionKnows, InOrder, EndsInOrder
\* A step of the screen changes it; the connection comes first.
LEMMA ScreenGoesOnSoundly == ASSUME ScreenInv, ScreenNext PROVE ScreenInv' /\ [Contract!Next]_life
<1>0. MSRPInv /\ DOMAIN screen = {"handler", "watching", "threads", "data", "socket"}
      /\ (screen.threads # {} => msrp.session # "none")
  BY DEF ScreenInv
<1>1. CASE ScreenKeeps
  <2>1. MSRPSteps BY <1>1 DEF ScreenKeeps, MSRPSteps
  <2>2. screen' = screen BY <1>1 DEF ScreenKeeps, ScreenKept
  <2> QED BY <1>0, <2>1, <2>2, MSRPGoesOnSoundly, MSRPMovesOn DEF ScreenInv
<1>2. CASE ScreenInitialized \/ ScreenWillEnd
  <2>1. MSRPSteps BY <1>2 DEF ScreenInitialized, ScreenWillEnd, MSRPSteps
  <2>2. screen'.threads \in {{}, screen.threads} /\ DOMAIN screen' = DOMAIN screen
    BY <1>0, <1>2 DEF ScreenInitialized, ScreenWillEnd
  <2> QED BY <1>0, <2>1, <2>2, MSRPGoesOnSoundly, MSRPMovesOn DEF ScreenInv
<1>3. CASE ScreenStarted
  <2>1. MSRPSteps /\ Started BY <1>3 DEF ScreenStarted, MSRPSteps
  <2>2. msrp'.session = "open" BY <1>0, <2>1 DEF Started, MSRPInv, MSRPTypeOK
  <2>3. DOMAIN screen' = DOMAIN screen BY <1>0, <1>3 DEF ScreenStarted
  <2> QED BY <1>0, <2>1, <2>2, <2>3, MSRPGoesOnSoundly DEF ScreenInv
<1>4. CASE ScreenConnectionLost
  <2>1. msrp.session = "open" /\ msrp' = [msrp EXCEPT !.session = "lost"] /\ life' = life /\ screen' = screen
    BY <1>4 DEF ScreenConnectionLost, ScreenKept, userVars
  <2>2. MSRPTypeOK' BY <1>0, <2>1 DEF MSRPInv, MSRPTypeOK
  <2>3. AsTheSessionKnows' BY <1>0, <2>1 DEF MSRPInv, MSRPTypeOK, AsTheSessionKnows
  <2>4. InOrder' BY <1>0, <2>1 DEF MSRPInv, MSRPTypeOK, InOrder
  <2>5. EndsInOrder' BY <1>0, <2>1 DEF MSRPInv, MSRPTypeOK, EndsInOrder
  <2>6. msrp'.session # "none" BY <1>0, <2>1 DEF MSRPInv, MSRPTypeOK
  <2> QED BY <1>0, <2>1, <2>2, <2>3, <2>4, <2>5, <2>6 DEF ScreenInv, MSRPInv
<1>5. ASSUME screen.threads # {}, Tell("DidFail") \/ Silent, msrp' = msrp, DOMAIN screen' = DOMAIN screen
      PROVE  ScreenInv' /\ [Contract!Next]_life
  BY <1>0, <1>5, FailureTold DEF ScreenInv
<1>6. CASE ReaderReads
  <2>1. screen.threads # {} /\ Silent /\ msrp' = msrp /\ DOMAIN screen' = DOMAIN screen
    BY <1>0, <1>6 DEF ReaderReads, Alive, Silent, userVars
  <2> QED BY <1>5, <2>1
<1>7. CASE CarrierFails("reader") \/ CarrierFails("writer")
  <2>1. screen.threads # {} /\ (Tell("DidFail") \/ Silent) /\ msrp' = msrp /\ DOMAIN screen' = DOMAIN screen
    BY <1>0, <1>7 DEF CarrierFails, Alive, Without, TellsFailure, LinkKept
  <2> QED BY <1>5, <2>1
<1>8. CASE ProgramConnects \/ ProgramMissing
  <2>1. screen.threads # {} /\ (Tell("DidFail") \/ Silent) /\ msrp' = msrp
    BY <1>8 DEF ProgramConnects, ProgramMissing, Alive, TellsFailure, LinkKept, Silent, userVars
  <2>2. DOMAIN screen' = DOMAIN screen BY <1>0, <1>8 DEF ProgramConnects, ProgramMissing, Without
  <2> QED BY <1>5, <2>1, <2>2
<1>9. CASE ProgramTakes \/ ProgramCloses
  <2>1. screen.threads # {} /\ (Tell("DidFail") \/ Silent) /\ msrp' = msrp
    BY <1>9 DEF ProgramTakes, ProgramCloses, Alive, TellsFailure, LinkKept
  <2>2. DOMAIN screen' = DOMAIN screen BY <1>0, <1>9 DEF ProgramTakes, ProgramCloses, Without
  <2> QED BY <1>5, <2>1, <2>2
<1> QED BY <1>1, <1>2, <1>3, <1>4, <1>6, <1>7, <1>8, <1>9 DEF ScreenNext
(***************************************************************************)
(* RTP.  Until the session has heard of a transport, one thing is under    *)
(* way at most: the lookup, the transport, or a handler that has looked    *)
(* and not acted yet; after it, ICE and its handler.  HoldInv is about a   *)
(* behaviour without slips: what a re-INVITE has offered, what the stream  *)
(* has been asked for and the bridge agree in every phase of it.           *)
(***************************************************************************)
RTPStates == {"NULL", "INITIALIZING", "INITIALIZED", "WAIT_ICE", "ESTABLISHED", "ENDED"}
RTPs ==
  [media : {"audio", "video"}, state : RTPStates, tryIce : BOOLEAN, ice : {"NULL", "IN_USE", "FAILED"},
   initialized : BOOLEAN, done : BOOLEAN, servers : Nat, lookup : BOOLEAN, waiting : BOOLEAN,
   doing : {"none", "init", "next", "start"}, transport : BOOLEAN, encryption : BOOLEAN,
   direction : SUBSET BothWays, onLocal : BOOLEAN, onRemote : BOOLEAN, request : {"none", "hold", "unhold"},
   bridged : BOOLEAN, rec : {"none", "waiting", "active"}, recBridged : BOOLEAN,
   timer : {"none", "queued", "running"}, recorded : BOOLEAN]
Talks ==
  [connected : BOOLEAN, on : BOOLEAN, wanted : BOOLEAN,
   exchange : {"none", "hold", "unhold", "peer", "holdDone", "unholdDone", "peerDone", "broken"},
   offer : SUBSET BothWays, holds : Nat, offers : Nat]
RTPTypeOK == rtp \in RTPs /\ talk \in Talks

\* what is under way towards a transport
Seeks(r) == r.lookup \/ r.waiting \/ r.doing \in {"init", "next"}
OneAtATime(r, l) ==
  /\ ~(r.lookup /\ r.waiting) /\ ((r.lookup \/ r.waiting) => r.doing = "none")
  /\ Seeks(r) => l \in {"init", "leaving", "over"} /\ r.state # "WAIT_ICE"
  /\ r.state = "WAIT_ICE" => l \in {"starting", "leaving", "over"} /\ r.doing = "none"
  /\ r.doing = "start" => l \in {"starting", "leaving", "over"}
RTPControl == RTPTypeOK /\ OneAtATime(rtp, life)

Going == life \notin {"failed", "leaving", "over"} /\ slips = {}
Heard(r) == r.bridged \/ (r.media = "video" /\ r.onRemote)
Early(r, t, l) ==
  l \in {"new", "init", "ready"} =>
    /\ r.state # "ESTABLISHED" /\ r.direction = BothWays /\ (r.media = "video" <=> r.bridged)
    /\ t.offer = BothWays
Believed(r) ==
  /\ (r.onLocal <=> "recv" \notin r.direction) /\ (r.onRemote <=> "send" \notin r.direction)
  /\ r.request = "hold" => ~r.onLocal
  /\ r.request = "unhold" => r.onLocal
  /\ r.rec = "active" => (r.recBridged <=> ~r.onLocal /\ ~r.onRemote)
Agreed(r, t, l) ==
  /\ l \in {"starting", "on"} => r.state \in {"WAIT_ICE", "ESTABLISHED"}
  /\ t.connected => l = "on" /\ r.state = "ESTABLISHED"
  /\ t.exchange # "none" \/ t.on => t.connected
  /\ t.on => ~t.wanted
  /\ t.wanted /\ t.connected => t.exchange # "none"
  /\ t.exchange # "broken"
AtRest(r, t, l) ==
  t.exchange \in {"none", "peer", "peerDone"} =>
    /\ t.on => ~r.bridged /\ (r.onLocal \/ r.request = "hold")
    /\ t.wanted => r.request = "hold" /\ (r.media = "audio" => ~r.bridged)
    /\ ~t.on /\ ~t.wanted => r.request = "none" /\ ~r.onLocal /\ (l \in {"starting", "on"} => Heard(r))
    /\ t.exchange = "peer" /\ r.request = "none" => ("recv" \in t.offer <=> ~r.onLocal)
AsksHold(r, t) ==
  /\ t.exchange = "hold" =>
       /\ ~t.on /\ ~r.onLocal /\ "recv" \notin t.offer
       /\ t.wanted => r.request = "hold" /\ (r.media = "audio" => ~r.bridged)
       /\ ~t.wanted => r.request = "none" /\ r.bridged
  /\ t.exchange = "holdDone" =>
       ~t.on /\ r.onLocal /\ (t.wanted => ~r.bridged)
AsksUnhold(r, t) ==
  /\ t.exchange = "unhold" =>
       /\ t.on /\ "recv" \in t.offer
       /\ r.request = "unhold" \/ (r.request = "none" /\ ~r.onLocal /\ Heard(r))
  /\ t.exchange = "unholdDone" =>
       t.on /\ ~r.onLocal /\ r.request = "none" /\ Heard(r)
HoldOK(r, t, l) ==
  Early(r, t, l) /\ Believed(r) /\ Agreed(r, t, l) /\ AtRest(r, t, l) /\ AsksHold(r, t) /\ AsksUnhold(r, t)
HoldInv == Going => HoldOK(rtp, talk, life)
RTPInv == RTPControl /\ HoldInv
\* what the calls of the session about hold leave alone
SameWay(r, u) ==
  /\ u.lookup = r.lookup /\ u.waiting = r.waiting /\ u.doing = r.doing /\ u.state = r.state /\ u.media = r.media
SameCourse(r, u) ==
  /\ u.direction = r.direction /\ u.onLocal = r.onLocal /\ u.onRemote = r.onRemote
  /\ u.rec = r.rec /\ u.recBridged = r.recBridged
LEMMA HeldIs ==
  ASSUME NEW r \in RTPs, NEW u, u = HeldBy(r)
  PROVE  /\ u \in RTPs /\ SameWay(r, u) /\ SameCourse(r, u)
         /\ r.onLocal \/ r.request = "hold" => u = r
         /\ ~(r.onLocal \/ r.request = "hold") =>
              u.request = "hold" /\ (u.bridged <=> r.bridged /\ (r.state # "ESTABLISHED" \/ r.direction = {}))
<1>1. CASE r.onLocal \/ r.request = "hold"
  <2>1. u = r BY <1>1 DEF HeldBy
  <2> QED BY <1>1, <2>1 DEF SameWay, SameCourse
<1>2. CASE ~(r.onLocal \/ r.request = "hold")
  <2> DEFINE b == IF r.state = "ESTABLISHED" /\ r.direction # {} THEN FALSE ELSE r.bridged
  <2>1. r.bridged \in BOOLEAN BY DEF RTPs
  <2>2. b \in BOOLEAN /\ (b <=> r.bridged /\ (r.state # "ESTABLISHED" \/ r.direction = {})) BY <2>1
  <2>3. u = [r EXCEPT !.request = "hold", !.bridged = b] BY <1>2, Zenon DEF HeldBy
  <2> HIDE DEF b
  <2>4. u \in RTPs BY <2>2, <2>3 DEF RTPs
  <2>5. u.request = "hold" /\ u.bridged = b BY <2>3 DEF RTPs
  <2>6. SameWay(r, u) /\ SameCourse(r, u) BY <2>3 DEF RTPs, SameWay, SameCourse
  <2> QED BY <1>2, <2>2, <2>4, <2>5, <2>6
<1> QED BY <1>1, <1>2
LEMMA UnheldIs ==
  ASSUME NEW r \in RTPs, NEW u, u = UnheldBy(r)
  PROVE  /\ u \in RTPs /\ SameWay(r, u) /\ SameCourse(r, u)
         /\ (~r.onLocal /\ r.request # "hold") \/ r.request = "unhold" => u = r
         /\ r.request = "hold" =>
              u.request = "none" /\ (u.bridged <=> r.bridged \/ r.state = "ESTABLISHED")
         /\ r.request = "none" /\ r.onLocal => u.request = "unhold" /\ u.bridged = r.bridged
<1>1. CASE (~r.onLocal /\ r.request # "hold") \/ r.request = "unhold"
  <2>1. u = r BY <1>1 DEF UnheldBy
  <2> QED BY <1>1, <2>1 DEF SameWay, SameCourse
<1>2. CASE ~((~r.onLocal /\ r.request # "hold") \/ r.request = "unhold")
  <2> DEFINE q == IF r.request = "hold" THEN "none" ELSE "unhold"
             b == r.bridged \/ (r.state = "ESTABLISHED" /\ r.request = "hold")
  <2>1. q \in {"none", "unhold"} /\ (r.request = "hold" => q = "none") /\ (r.request # "hold" => q = "unhold") OBVIOUS
  <2>2. b \in BOOLEAN /\ (b <=> r.bridged \/ (r.state = "ESTABLISHED" /\ r.request = "hold")) OBVIOUS
  <2>3. u = [r EXCEPT !.request = q, !.bridged = b] BY <1>2, Zenon DEF UnheldBy
  <2>4. r.bridged \in BOOLEAN /\ r.request \in {"none", "hold", "unhold"} BY DEF RTPs
  <2> HIDE DEF q, b
  <2>5. u \in RTPs BY <2>1, <2>2, <2>3 DEF RTPs
  <2>6. u.request = q /\ u.bridged = b BY <2>3 DEF RTPs
  <2>7. SameWay(r, u) /\ SameCourse(r, u) BY <2>3 DEF RTPs, SameWay, SameCourse
  <2>8. r.request # "hold" => b = r.bridged BY <2>2, <2>4
  <2> QED BY <1>2, <2>1, <2>2, <2>4, <2>5, <2>6, <2>7, <2>8
<1> QED BY <1>1, <1>2
\* what the stream does with a direction
Checked(r, d, first, u) ==
  /\ SameWay(r, u) /\ u.direction = d /\ u.request = r.request
  /\ u.onLocal <=> (IF d = {} THEN r.onLocal ELSE d = {"send"})
  /\ u.onRemote <=> "send" \notin d
  /\ r.media = "audio" =>
       (u.bridged <=> \/ r.bridged
                      \/ /\ first \/ r.onLocal \/ r.direction = {}
                         /\ d # {} /\ ~u.onLocal /\ r.request # "hold")
  /\ r.media # "audio" =>
       (u.bridged <=> /\ r.bridged \/ (~u.onLocal /\ ~u.onRemote /\ (r.onLocal \/ r.onRemote))
                      /\ ~u.onLocal /\ ~u.onRemote)
  /\ u.rec = "active" => (u.recBridged <=> ~u.onLocal /\ ~u.onRemote)
LEMMA CheckHoldIs ==
  ASSUME NEW r \in RTPs, NEW d \in SUBSET BothWays, NEW first \in BOOLEAN, NEW u, u = CheckHold(r, d, first)
  PROVE  u \in RTPs /\ Checked(r, d, first, u)
<1> DEFINE l == IF d = {} THEN r.onLocal ELSE d = {"send"}
           m == "send" \notin d
           resumes == IF r.media = "audio"
                      THEN /\ first \/ r.onLocal \/ r.direction = {}
                           /\ d # {} /\ ~l /\ r.request # "hold"
                      ELSE ~l /\ ~m /\ (r.onLocal \/ r.onRemote)
           b == (r.bridged \/ resumes) /\ ~(r.media # "audio" /\ (l \/ m))
           c == IF r.rec = "waiting" THEN "active" ELSE r.rec
           e == c = "active" /\ ~l /\ ~m
           v == [r EXCEPT !.direction = d, !.onLocal = l, !.onRemote = m, !.bridged = b, !.rec = c]
<1>1. u = Recorded(v) BY Zenon DEF CheckHold, Audio
<1>2. r.onLocal \in BOOLEAN /\ r.bridged \in BOOLEAN /\ r.onRemote \in BOOLEAN /\ r.rec \in {"none", "waiting", "active"} BY DEF RTPs
<1>3. l \in BOOLEAN BY <1>2
<1>4. m \in BOOLEAN OBVIOUS
<1>5. b \in BOOLEAN BY Zenon
<1>6. c \in {"none", "waiting", "active"} BY <1>2
<1>7. e \in BOOLEAN BY Zenon
<1>8. r.media = "audio" => (b <=> \/ r.bridged
                                 \/ /\ first \/ r.onLocal \/ r.direction = {}
                                    /\ d # {} /\ ~l /\ r.request # "hold")
  BY Zenon
<1>9. r.media # "audio" => (b <=> /\ r.bridged \/ (~l /\ ~m /\ (r.onLocal \/ r.onRemote))
                                 /\ ~l /\ ~m)
  BY Zenon
<1>10. /\ l <=> (IF d = {} THEN r.onLocal ELSE d = {"send"})
       /\ m <=> "send" \notin d
       /\ c = "active" => (e <=> ~l /\ ~m)
  BY Zenon
<1>11. v = [[r EXCEPT !.direction = d, !.onLocal = l] EXCEPT !.onRemote = m, !.bridged = b, !.rec = c] BY Zenon
<1>0. v = [r EXCEPT !.direction = d, !.onLocal = l, !.onRemote = m, !.bridged = b, !.rec = c] BY Zenon
<1>12. e = (c = "active" /\ ~l /\ ~m) BY Zenon
<1> HIDE DEF l, m, b, c, e, v
<1>13. v \in RTPs
  <2> DEFINE w == [r EXCEPT !.direction = d, !.onLocal = l]
  <2>1. w \in RTPs BY <1>3 DEF RTPs
  <2> DEFINE x == [w EXCEPT !.onRemote = m, !.bridged = b]
  <2>2. v = [x EXCEPT !.rec = c] BY <1>11, Zenon
  <2> HIDE DEF w
  <2>3. x \in RTPs BY <1>4, <1>5, <2>1 DEF RTPs
  <2> HIDE DEF x
  <2> QED BY <1>6, <2>2, <2>3 DEF RTPs
<1>14. v.rec = c /\ v.onLocal = l /\ v.onRemote = m /\ v.bridged = b /\ v.direction = d BY <1>0 DEF RTPs
<1>15. SameWay(r, v) /\ v.request = r.request BY <1>0 DEF RTPs, SameWay
<1>16. u = [v EXCEPT !.recBridged = e] BY <1>1, <1>12, <1>14, Zenon DEF Recorded
<1>17. u \in RTPs BY <1>7, <1>13, <1>16 DEF RTPs
<1>18. /\ u.rec = c /\ u.onLocal = l /\ u.onRemote = m /\ u.bridged = b /\ u.direction = d /\ u.recBridged = e
       /\ u.request = v.request /\ SameWay(v, u)
  BY <1>13, <1>14, <1>16 DEF RTPs, SameWay
<1>19. SameWay(r, u) /\ u.request = r.request BY <1>15, <1>18 DEF SameWay
<1>20. /\ r.media = "audio" =>
            (u.bridged <=> \/ r.bridged
                           \/ /\ first \/ r.onLocal \/ r.direction = {}
                              /\ d # {} /\ ~u.onLocal /\ r.request # "hold")
       /\ r.media # "audio" =>
            (u.bridged <=> /\ r.bridged \/ (~u.onLocal /\ ~u.onRemote /\ (r.onLocal \/ r.onRemote))
                           /\ ~u.onLocal /\ ~u.onRemote)
  BY <1>8, <1>9, <1>18, Zenon
<1>21. /\ u.onLocal <=> (IF d = {} THEN r.onLocal ELSE d = {"send"})
       /\ u.onRemote <=> "send" \notin d
  BY <1>10, <1>18
<1>22. u.rec = "active" => (u.recBridged <=> ~u.onLocal /\ ~u.onRemote)
  BY <1>3, <1>4, <1>7, <1>10, <1>18
<1> QED BY <1>17, <1>18, <1>19, <1>20, <1>21, <1>22, Zenon DEF Checked
\* What the session notes is what the contract allows.
LEMMA LifeMoves ==
  ASSUME \/ life' = life
         \/ life = "new" /\ life' \in {"init", "failed"}
         \/ life = "init" /\ life' \in {"ready", "failed"}
         \/ life = "ready" /\ life' \in {"starting", "on"}
         \/ life = "starting" /\ life' \in {"on", "failed"}
         \/ life = "on" /\ life' = "failed"
         \/ life \in {"init", "ready", "starting", "on", "failed"} /\ life' = "leaving"
         \/ life = "leaving" /\ life' = "over"
  PROVE  [Contract!Next]_life
BY DEF Contract!Next, Contract!Becomes, Contract!Initialize, Contract!Initialized, Contract!NotInitialized,
       Contract!Start, Contract!Started, Contract!Fails, Contract!Deactivate, Contract!End
LEMMA ToldAs ==
  /\ Tell("DidInitialize") => life' = IF Over THEN life ELSE "ready"
  /\ Tell("DidStart") => life' = IF Over THEN life ELSE "on"
  /\ Tell("DidNotInitialize") => life' = IF Over THEN life ELSE "failed"
  /\ Tell("DidFail") => life' = IF Over THEN life ELSE "failed"
BY DEF Tell, Over
\* A step that keeps what is under way keeps its place.
LEMMA WayKept ==
  ASSUME NEW r, NEW u, NEW l, NEW k, OneAtATime(r, l), SameWay(r, u),
         k = l \/ k \in {"leaving", "over"}
  PROVE  OneAtATime(u, k)
BY DEF OneAtATime, SameWay, Seeks
LEMMA NextServer ==
  ASSUME NEW r \in RTPs, TryNext(r), life \in {"init", "leaving", "over"},
         ~r.lookup, ~r.waiting, r.doing = "none", r.state # "WAIT_ICE"
  PROVE  /\ rtp' \in RTPs /\ OneAtATime(rtp', life') /\ [Contract!Next]_life
         /\ slips' = slips /\ (life' = life \/ life' \in {"failed", "leaving", "over"})
         /\ rtp'.media = r.media /\ SameCourse(r, rtp') /\ rtp'.request = r.request /\ rtp'.bridged = r.bridged
         /\ rtp'.state # "ESTABLISHED" \/ rtp'.state = r.state
<1>1. ASSUME NEW left \in Nat, NEW w \in BOOLEAN, rtp' = [r EXCEPT !.servers = left, !.waiting = w], Quiet
      PROVE  /\ rtp' \in RTPs /\ OneAtATime(rtp', life') /\ [Contract!Next]_life
             /\ slips' = slips /\ life' = life
             /\ rtp'.media = r.media /\ SameCourse(r, rtp') /\ rtp'.request = r.request /\ rtp'.bridged = r.bridged
             /\ rtp'.state = r.state
  <2>1. rtp' \in RTPs BY <1>1 DEF RTPs
  <2>2. /\ ~rtp'.lookup /\ rtp'.doing = "none" /\ rtp'.state = r.state
        /\ rtp'.media = r.media /\ SameCourse(r, rtp') /\ rtp'.request = r.request /\ rtp'.bridged = r.bridged
    BY <1>1 DEF RTPs, SameCourse
  <2>3. life' = life /\ slips' = slips BY <1>1 DEF Quiet
  <2> QED BY <2>1, <2>2, <2>3, LifeMoves DEF OneAtATime, Seeks
<1>2. CASE r.servers > 0 /\ Quiet /\ \E left \in 0..(r.servers - 1) :
              \/ rtp' = [r EXCEPT !.servers = left, !.waiting = TRUE]
              \/ rtp' = [r EXCEPT !.servers = left]
  <2>1. PICK left \in 0..(r.servers - 1) :
              \/ rtp' = [r EXCEPT !.servers = left, !.waiting = TRUE]
              \/ rtp' = [r EXCEPT !.servers = left]
    BY <1>2, Zenon
  <2>2. r.servers \in Nat BY DEF RTPs
  <2>3. left \in Nat BY <2>2
  <2>4. CASE rtp' = [r EXCEPT !.servers = left, !.waiting = TRUE] BY <1>1, <1>2, <2>3, <2>4, Zenon
  <2>5. CASE rtp' = [r EXCEPT !.servers = left]
    <3>1. rtp' = [r EXCEPT !.servers = left, !.waiting = FALSE] BY <2>5 DEF RTPs
    <3> QED BY <1>1, <1>2, <2>3, <3>1, Zenon
  <2> QED BY <2>1, <2>4, <2>5, Zenon
<1>3. CASE rtp' = [r EXCEPT !.servers = 0, !.state = "ENDED", !.encryption = FALSE]
           /\ Tell("DidNotInitialize") /\ UNCHANGED slips
  <2>1. rtp' \in RTPs BY <1>3 DEF RTPs, RTPStates
  <2>2. /\ ~rtp'.lookup /\ rtp'.doing = "none" /\ rtp'.state = "ENDED" /\ ~rtp'.waiting
        /\ rtp'.media = r.media /\ SameCourse(r, rtp') /\ rtp'.request = r.request /\ rtp'.bridged = r.bridged
    BY <1>3 DEF RTPs, SameCourse
  <2>3. Tell("DidNotInitialize") BY <1>3
  <2>4. life' = IF Over THEN life ELSE "failed" BY <2>3, ToldAs
  <2> QED BY <1>3, <2>1, <2>2, <2>4, LifeMoves DEF OneAtATime, Seeks, Over
<1> QED BY <1>2, <1>3, Zenon DEF TryNext
\* What leaves the direction, the requests and the bridge alone keeps what is known of them.
LEMMA CourseKept ==
  ASSUME RTPControl, HoldInv, talk' = talk, slips \subseteq slips', rtp'.media = rtp.media, SameCourse(rtp, rtp'),
         rtp'.request = rtp.request, rtp'.bridged = rtp.bridged,
         \/ life' = life /\ \/ rtp'.state = rtp.state
                            \/ rtp.state = "WAIT_ICE" /\ rtp'.state = "ESTABLISHED"
                            \/ life \notin {"starting", "on"} /\ rtp'.state # "ESTABLISHED"
         \/ life \in {"new", "init"} /\ life' \in {"init", "ready"} /\ rtp'.state # "ESTABLISHED"
         \/ life = "starting" /\ life' = "on" /\ rtp'.state = rtp.state
         \/ life' \in {"failed", "leaving", "over"}
  PROVE  HoldInv'
<1> SUFFICES ASSUME Going' PROVE HoldOK(rtp', talk', life') BY DEF HoldInv
<1>1. HoldOK(rtp, talk, life) /\ life' \notin {"failed", "leaving", "over"} BY DEF HoldInv, Going
<1>2. rtp.state = "WAIT_ICE" => life \in {"starting", "leaving", "over"} BY DEF RTPControl, OneAtATime
<1>3. Early(rtp', talk', life') BY <1>1, <1>2 DEF HoldOK, Early, SameCourse
<1>4. Believed(rtp') BY <1>1 DEF HoldOK, Believed, SameCourse
<1>5. Agreed(rtp', talk', life') BY <1>1, <1>2 DEF HoldOK, Agreed
<1>6. Heard(rtp') <=> Heard(rtp) BY DEF Heard, SameCourse
<1>7. AtRest(rtp', talk', life')
  <2>1. life' \in {"starting", "on"} => life \in {"starting", "on"} BY <1>1
  <2> QED BY <1>1, <1>6, <2>1 DEF HoldOK, AtRest, SameCourse
<1>8. AsksHold(rtp', talk') BY <1>1 DEF HoldOK, AsksHold, SameCourse
<1>9. AsksUnhold(rtp', talk') BY <1>1, <1>6 DEF HoldOK, AsksUnhold, SameCourse
<1> QED BY <1>3, <1>4, <1>5, <1>7, <1>8, <1>9 DEF HoldOK
LEMMA TransportGoesOn ==
  ASSUME RTPControl, HoldInv,
         RTPInitialize \/ RTPInitializeFails \/ LookupEnds \/ LookupActs
           \/ TransportDidFail \/ TransportFailureActs \/ TransportDidInitialize
  PROVE  RTPControl' /\ HoldInv' /\ [Contract!Next]_life
<1>0. rtp \in RTPs /\ talk \in Talks /\ OneAtATime(rtp, life) BY DEF RTPControl, RTPTypeOK
<1>00. OneAtATime(rtp, life) /\ rtp.doing \in {"none", "init", "next", "start"} BY <1>0 DEF RTPs
<1>1. ASSUME talk' = talk, slips' = slips, rtp' \in RTPs, OneAtATime(rtp', life'), [Contract!Next]_life,
             rtp'.media = rtp.media /\ SameCourse(rtp, rtp') /\ rtp'.request = rtp.request /\ rtp'.bridged = rtp.bridged,
             \/ life' = life /\ (rtp'.state = rtp.state \/ (life \notin {"starting", "on"} /\ rtp'.state # "ESTABLISHED"))
             \/ life \in {"new", "init"} /\ life' \in {"init", "ready"} /\ rtp'.state # "ESTABLISHED"
             \/ life' \in {"failed", "leaving", "over"}
      PROVE  RTPControl' /\ HoldInv' /\ [Contract!Next]_life
  <2>1. HoldInv' BY <1>1, CourseKept
  <2> QED BY <1>0, <1>1, <2>1 DEF RTPControl, RTPTypeOK
<1>2. CASE RTPInitialize
  <2>1. talk' = talk /\ life = "new" /\ life' = "init" /\ slips' = slips
    <3>1. CallInitialize /\ talk' = talk BY <1>2, Zenon DEF RTPInitialize, TalkKept
    <3> QED BY <3>1 DEF CallInitialize, Calls
  <2>2. ~rtp.lookup /\ ~rtp.waiting /\ rtp.doing = "none"
    BY <1>00, <2>1 DEF OneAtATime, Seeks
  <2>3. CASE rtp' = [rtp EXCEPT !.state = "INITIALIZING", !.lookup = TRUE]
    <3>1. rtp' \in RTPs BY <1>0, <2>3 DEF RTPs, RTPStates
    <3>2. /\ ~rtp'.waiting /\ rtp'.doing = "none" /\ rtp'.state = "INITIALIZING"
          /\ rtp'.media = rtp.media /\ SameCourse(rtp, rtp') /\ rtp'.request = rtp.request /\ rtp'.bridged = rtp.bridged
      BY <1>0, <2>2, <2>3 DEF RTPs, SameCourse
    <3> QED BY <1>1, <2>1, <3>1, <3>2, LifeMoves DEF OneAtATime, Seeks
  <2>4. CASE \E servers \in IF rtp.tryIce THEN 1..(MaxServers + 1) ELSE {1} :
               rtp' = [rtp EXCEPT !.state = "INITIALIZING", !.servers = servers - 1, !.waiting = TRUE]
    <3>1. PICK servers \in IF rtp.tryIce THEN 1..(MaxServers + 1) ELSE {1} :
               rtp' = [rtp EXCEPT !.state = "INITIALIZING", !.servers = servers - 1, !.waiting = TRUE]
      BY <2>4, Zenon
    <3> DEFINE n == servers - 1
    <3>2. n \in Nat OBVIOUS
    <3>3. rtp' = [rtp EXCEPT !.state = "INITIALIZING", !.servers = n, !.waiting = TRUE] BY <3>1, Zenon
    <3> HIDE DEF n
    <3>4. rtp' \in RTPs BY <1>0, <3>2, <3>3 DEF RTPs, RTPStates
    <3>5. /\ ~rtp'.lookup /\ rtp'.doing = "none" /\ rtp'.state = "INITIALIZING"
          /\ rtp'.media = rtp.media /\ SameCourse(rtp, rtp') /\ rtp'.request = rtp.request /\ rtp'.bridged = rtp.bridged
      BY <1>0, <2>2, <3>3 DEF RTPs, SameCourse
    <3> QED BY <1>1, <2>1, <3>4, <3>5, LifeMoves DEF OneAtATime, Seeks
  <2> QED BY <1>2, <2>3, <2>4, Zenon DEF RTPInitialize
<1>3. CASE RTPInitializeFails
  <2>1. /\ talk' = talk /\ life = "new" /\ Tell("DidNotInitialize") /\ slips' = slips
        /\ rtp' = [rtp EXCEPT !.state = "ENDED", !.encryption = FALSE]
    BY <1>3 DEF RTPInitializeFails, TalkKept
  <2>2. life' = "failed" BY <2>1, ToldAs DEF Over
  <2>3. rtp' \in RTPs BY <1>0, <2>1 DEF RTPs, RTPStates
  <2>4. /\ rtp'.lookup = rtp.lookup /\ rtp'.waiting = rtp.waiting /\ rtp'.doing = rtp.doing /\ rtp'.state = "ENDED"
        /\ rtp'.media = rtp.media /\ SameCourse(rtp, rtp') /\ rtp'.request = rtp.request /\ rtp'.bridged = rtp.bridged
    BY <1>0, <2>1 DEF RTPs, SameCourse
  <2>5. OneAtATime(rtp', life') BY <1>00, <2>1, <2>2, <2>4 DEF OneAtATime, Seeks
  <2> QED BY <1>1, <2>1, <2>2, <2>3, <2>4, <2>5, LifeMoves
<1>4. CASE LookupEnds
  <2> DEFINE w == IF rtp.state = "ENDED" THEN rtp.doing ELSE "init"
  <2>1. talk' = talk /\ Quiet /\ rtp.lookup BY <1>4, Zenon DEF LookupEnds, TalkKept
  <2>2. life' = life /\ slips' = slips BY <2>1 DEF Quiet
  <2>3. rtp' = [rtp EXCEPT !.lookup = FALSE, !.doing = w] BY <1>4, Zenon DEF LookupEnds
  <2>5. w \in {"none", "init"} BY <1>00, <2>1 DEF OneAtATime, Seeks
  <2> HIDE DEF w
  <2>6. rtp' \in RTPs BY <1>0, <2>3, <2>5 DEF RTPs
  <2>7. /\ ~rtp'.lookup /\ rtp'.waiting = rtp.waiting /\ rtp'.doing = w /\ rtp'.state = rtp.state
        /\ rtp'.media = rtp.media /\ SameCourse(rtp, rtp') /\ rtp'.request = rtp.request /\ rtp'.bridged = rtp.bridged
    BY <1>0, <2>3 DEF RTPs, SameCourse
  <2>8. OneAtATime(rtp', life') BY <1>00, <2>1, <2>2, <2>5, <2>7 DEF OneAtATime, Seeks
  <2> QED BY <1>1, <2>1, <2>2, <2>6, <2>7, <2>8, LifeMoves
<1>5. ASSUME NEW r, talk' = talk, TryNext(r), r \in RTPs, ~r.lookup, ~r.waiting, r.doing = "none", r.state = rtp.state,
             life \in {"init", "leaving", "over"}, rtp.state # "WAIT_ICE",
             r.media = rtp.media /\ SameCourse(rtp, r) /\ r.request = rtp.request /\ r.bridged = rtp.bridged
      PROVE  RTPControl' /\ HoldInv' /\ [Contract!Next]_life
  <2>1. /\ rtp' \in RTPs /\ OneAtATime(rtp', life') /\ [Contract!Next]_life
        /\ slips' = slips /\ (life' = life \/ life' \in {"failed", "leaving", "over"})
        /\ rtp'.media = r.media /\ SameCourse(r, rtp') /\ rtp'.request = r.request /\ rtp'.bridged = r.bridged
        /\ rtp'.state # "ESTABLISHED" \/ rtp'.state = r.state
    BY <1>5, NextServer
  <2>2. rtp'.media = rtp.media /\ SameCourse(rtp, rtp') /\ rtp'.request = rtp.request /\ rtp'.bridged = rtp.bridged
    BY <1>5, <2>1 DEF SameCourse
  <2> QED BY <1>1, <1>5, <2>1, <2>2
<1>6. CASE TransportDidFail
  <2> DEFINE w == IF rtp.state = "ENDED" THEN rtp.doing ELSE "next"
  <2>1. talk' = talk /\ Quiet /\ rtp.waiting BY <1>6, Zenon DEF TransportDidFail, TalkKept
  <2>2. life' = life /\ slips' = slips BY <2>1 DEF Quiet
  <2>3. rtp' = [rtp EXCEPT !.waiting = FALSE, !.doing = w] BY <1>6, Zenon DEF TransportDidFail
  <2>5. w \in {"none", "next"} BY <1>00, <2>1 DEF OneAtATime, Seeks
  <2> HIDE DEF w
  <2>6. rtp' \in RTPs BY <1>0, <2>3, <2>5 DEF RTPs
  <2>7. /\ ~rtp'.waiting /\ rtp'.lookup = rtp.lookup /\ rtp'.doing = w /\ rtp'.state = rtp.state
        /\ rtp'.media = rtp.media /\ SameCourse(rtp, rtp') /\ rtp'.request = rtp.request /\ rtp'.bridged = rtp.bridged
    BY <1>0, <2>3 DEF RTPs, SameCourse
  <2>8. OneAtATime(rtp', life') BY <1>00, <2>1, <2>2, <2>5, <2>7 DEF OneAtATime, Seeks
  <2> QED BY <1>1, <2>1, <2>2, <2>6, <2>7, <2>8, LifeMoves
<1>7. CASE LookupActs
  <2>1. talk' = talk /\ rtp.doing = "init" BY <1>7, Zenon DEF LookupActs, TalkKept
  <2>2. PICK servers \in 1..(MaxServers + 1) : TryNext([rtp EXCEPT !.doing = "none", !.servers = servers])
    BY <1>7, Zenon DEF LookupActs
  <2> DEFINE r == [rtp EXCEPT !.doing = "none", !.servers = servers]
  <2>3. servers \in Nat OBVIOUS
  <2>4. r \in RTPs BY <1>0, <2>3 DEF RTPs
  <2>5. /\ r.lookup = rtp.lookup /\ r.waiting = rtp.waiting /\ r.doing = "none" /\ r.state = rtp.state
        /\ r.media = rtp.media /\ SameCourse(rtp, r) /\ r.request = rtp.request /\ r.bridged = rtp.bridged
    BY <1>0 DEF RTPs, SameCourse
  <2>6. ~rtp.lookup /\ ~rtp.waiting /\ life \in {"init", "leaving", "over"} /\ rtp.state # "WAIT_ICE"
    BY <1>00, <2>1 DEF OneAtATime, Seeks
  <2>7. TryNext(r) BY <2>2
  <2> HIDE DEF r
  <2> QED BY <1>5, <2>1, <2>7, <2>4, <2>5, <2>6, Zenon
<1>8. CASE TransportFailureActs
  <2> DEFINE r == [rtp EXCEPT !.doing = "none"]
  <2>1. talk' = talk /\ rtp.doing = "next" /\ TryNext(r) BY <1>8, Zenon DEF TransportFailureActs, TalkKept
  <2>4. r \in RTPs BY <1>0 DEF RTPs
  <2>5. /\ r.lookup = rtp.lookup /\ r.waiting = rtp.waiting /\ r.doing = "none" /\ r.state = rtp.state
        /\ r.media = rtp.media /\ SameCourse(rtp, r) /\ r.request = rtp.request /\ r.bridged = rtp.bridged
    BY <1>0 DEF RTPs, SameCourse
  <2>6. ~rtp.lookup /\ ~rtp.waiting /\ life \in {"init", "leaving", "over"} /\ rtp.state # "WAIT_ICE"
    BY <1>00, <2>1 DEF OneAtATime, Seeks
  <2> HIDE DEF r
  <2> QED BY <1>5, <2>1, <2>4, <2>5, <2>6, Zenon
<1>9. CASE TransportDidInitialize
  <2>1. talk' = talk /\ rtp.waiting BY <1>9, Zenon DEF TransportDidInitialize, TalkKept
  <2>2. ~rtp.lookup /\ rtp.doing = "none" /\ life \in {"init", "leaving", "over"} /\ rtp.state # "WAIT_ICE"
    BY <1>00, <2>1 DEF OneAtATime, Seeks
  <2>3. CASE rtp' = [rtp EXCEPT !.waiting = FALSE] /\ Quiet
    <3>1. life' = life /\ slips' = slips BY <2>3 DEF Quiet
    <3>2. rtp' \in RTPs BY <1>0, <2>3 DEF RTPs
    <3>3. /\ rtp'.lookup = rtp.lookup /\ ~rtp'.waiting /\ rtp'.doing = rtp.doing /\ rtp'.state = rtp.state
          /\ rtp'.media = rtp.media /\ SameCourse(rtp, rtp') /\ rtp'.request = rtp.request /\ rtp'.bridged = rtp.bridged
      BY <1>0, <2>3 DEF RTPs, SameCourse
    <3> QED BY <1>1, <2>1, <2>2, <3>1, <3>2, <3>3, LifeMoves DEF OneAtATime, Seeks
  <2>4. CASE /\ Tell("DidInitialize") /\ UNCHANGED slips
             /\ rtp' = [rtp EXCEPT !.waiting = FALSE, !.initialized = TRUE, !.state = "INITIALIZED", !.transport = TRUE]
    <3>1. Tell("DidInitialize") /\ slips' = slips BY <2>4
    <3>2. life' = IF life \in {"leaving", "over"} THEN life ELSE "ready" BY <3>1, ToldAs DEF Over
    <3>3. rtp' \in RTPs BY <1>0, <2>4 DEF RTPs, RTPStates
    <3>4. /\ rtp'.lookup = rtp.lookup /\ ~rtp'.waiting /\ rtp'.doing = rtp.doing /\ rtp'.state = "INITIALIZED"
          /\ rtp'.media = rtp.media /\ SameCourse(rtp, rtp') /\ rtp'.request = rtp.request /\ rtp'.bridged = rtp.bridged
      BY <1>0, <2>4 DEF RTPs, SameCourse
    <3> QED BY <1>1, <2>1, <2>2, <3>1, <3>2, <3>3, <3>4, LifeMoves DEF OneAtATime, Seeks
  <2>5. CASE /\ Tell("DidNotInitialize") /\ UNCHANGED slips
             /\ rtp' = [rtp EXCEPT !.waiting = FALSE, !.state = "ENDED", !.encryption = FALSE]
    <3>1. Tell("DidNotInitialize") /\ slips' = slips BY <2>5
    <3>2. life' = IF life \in {"leaving", "over"} THEN life ELSE "failed" BY <3>1, ToldAs DEF Over
    <3>3. rtp' \in RTPs BY <1>0, <2>5 DEF RTPs, RTPStates
    <3>4. /\ rtp'.lookup = rtp.lookup /\ ~rtp'.waiting /\ rtp'.doing = rtp.doing /\ rtp'.state = "ENDED"
          /\ rtp'.media = rtp.media /\ SameCourse(rtp, rtp') /\ rtp'.request = rtp.request /\ rtp'.bridged = rtp.bridged
      BY <1>0, <2>5 DEF RTPs, SameCourse
    <3> QED BY <1>1, <2>1, <2>2, <3>1, <3>2, <3>3, <3>4, LifeMoves DEF OneAtATime, Seeks
  <2> QED BY <1>9, <2>3, <2>4, <2>5, Zenon DEF TransportDidInitialize
<1> QED BY <1>2, <1>3, <1>4, <1>6, <1>7, <1>8, <1>9, Zenon
LEMMA KeyframesAre ==
  ASSUME NEW r \in RTPs, NEW u, u = Keyframes(r)
  PROVE  u \in RTPs /\ SameWay(r, u) /\ SameCourse(r, u) /\ u.request = r.request /\ u.bridged = r.bridged
<1>1. CASE Audio(r)
  <2>1. u = r BY <1>1 DEF Keyframes
  <2> QED BY <2>1 DEF SameWay, SameCourse
<1>2. CASE ~Audio(r)
  <2> DEFINE m == IF r.timer = "none" THEN "queued" ELSE r.timer
  <2>1. m \in {"none", "queued", "running"} BY DEF RTPs
  <2>2. u = [r EXCEPT !.timer = m] BY <1>2, Zenon DEF Keyframes
  <2> HIDE DEF m
  <2>3. u \in RTPs BY <2>1, <2>2 DEF RTPs
  <2> QED BY <2>2, <2>3 DEF RTPs, SameWay, SameCourse
<1> QED BY <1>1, <1>2
\* A direction that is no slip: a hold is one that has been offered, and no direction at all is one on hold.
LEMMA OddWaysAre ==
  ASSUME NEW d \in SUBSET BothWays, OddWays(d) \subseteq {}
  PROVE  /\ "recv" \in talk.offer => "recv" \in d
         /\ d = {} => rtp.onLocal
<1>1. d = {} \/ d = {"send"} \/ "recv" \in d BY DEF BothWays
<1>2. ~(d = {"send"} /\ "recv" \in talk.offer) BY DEF OddWays
<1>3. ~(d = {} /\ (~rtp.onLocal \/ "recv" \in talk.offer)) BY DEF OddWays
<1> QED BY <1>1, <1>2, <1>3
LEMMA NotesSlipsIs == ASSUME NEW s, NotesSlips(s) PROVE slips \subseteq slips' /\ (slips' = {} => slips = {} /\ s \subseteq {})
BY DEF NotesSlips
\* The stream starts with what has been negotiated.
LEMMA StartsSoundly ==
  ASSUME NEW r \in RTPs, NEW t \in Talks, NEW u \in RTPs, NEW v \in RTPs, NEW d \in SUBSET BothWays, NEW l,
         HoldOK(r, t, "ready"), "recv" \in d, u = CheckHold(r, d, TRUE), l \in {"starting", "on"},
         v.state \in {"WAIT_ICE", "ESTABLISHED"}, v.media = u.media, SameCourse(u, v), v.request = u.request,
         v.bridged = u.bridged
  PROVE  HoldOK(v, t, l)
<1>0. Checked(r, d, TRUE, u) BY CheckHoldIs
<1>1. /\ v.direction = d /\ ~v.onLocal /\ v.request = r.request /\ v.media = r.media
      /\ v.onRemote <=> "send" \notin d
      /\ v.rec = "active" => (v.recBridged <=> ~v.onLocal /\ ~v.onRemote)
  <2>1. d # {} /\ d # {"send"} OBVIOUS
  <2>2. /\ u.direction = d /\ ~u.onLocal /\ u.request = r.request /\ u.media = r.media
        /\ u.onRemote <=> "send" \notin d
        /\ u.rec = "active" => (u.recBridged <=> ~u.onLocal /\ ~u.onRemote)
    BY <1>0, <2>1 DEF Checked, SameWay
  <2> QED BY <2>2 DEF SameCourse
<1>2. /\ r.media = "audio" => (v.bridged <=> r.bridged \/ r.request # "hold")
      /\ r.media # "audio" =>
           (v.bridged <=> /\ r.bridged \/ (~v.onRemote /\ (r.onLocal \/ r.onRemote))
                          /\ ~v.onRemote)
  <2>1. u.bridged = v.bridged /\ u.onRemote = v.onRemote /\ ~u.onLocal BY <1>1 DEF SameCourse
  <2>2. r.media = "audio" =>
              (u.bridged <=> \/ r.bridged
                             \/ /\ TRUE \/ r.onLocal \/ r.direction = {}
                                /\ d # {} /\ ~u.onLocal /\ r.request # "hold")
    BY <1>0 DEF Checked
  <2>3. r.media # "audio" =>
              (u.bridged <=> /\ r.bridged \/ (~u.onLocal /\ ~u.onRemote /\ (r.onLocal \/ r.onRemote))
                             /\ ~u.onLocal /\ ~u.onRemote)
    BY <1>0 DEF Checked
  <2> QED BY <2>1, <2>2, <2>3
<1>3. r.media \in {"audio", "video"} BY DEF RTPs
<1>4. /\ r.media = "video" <=> r.bridged
      /\ t.offer = BothWays
  BY DEF HoldOK, Early
<1>5. ~t.connected /\ t.exchange = "none" /\ ~t.on BY DEF HoldOK, Agreed
<1>6. r.request = "hold" \/ r.request = "none"
  BY <1>5 DEF HoldOK, AtRest
<1>7. Believed(v) BY <1>1, <1>6 DEF Believed
<1>8. Early(v, t, l) BY DEF Early
<1>9. Agreed(v, t, l) BY <1>5 DEF Agreed
<1>10. AtRest(v, t, l)
  <2>1. t.wanted => r.request = "hold" /\ (r.media = "audio" => ~r.bridged) BY <1>5 DEF HoldOK, AtRest
  <2>2. ~t.wanted => r.request = "none" BY <1>5 DEF HoldOK, AtRest
  <2>3. ~t.wanted => Heard(v) BY <1>1, <1>2, <1>3, <1>4, <2>2 DEF Heard
  <2>4. t.wanted => v.request = "hold" /\ (v.media = "audio" => ~v.bridged) BY <1>1, <1>2, <2>1
  <2> QED BY <1>1, <1>5, <2>2, <2>3, <2>4 DEF AtRest
<1>11. AsksHold(v, t) BY <1>5 DEF AsksHold
<1>12. AsksUnhold(v, t) BY <1>5 DEF AsksUnhold
<1> QED BY <1>7, <1>8, <1>9, <1>10, <1>11, <1>12 DEF HoldOK
LEMMA RTPStarts == ASSUME RTPControl, HoldInv, RTPStart PROVE RTPControl' /\ HoldInv' /\ [Contract!Next]_life
<1>0. rtp \in RTPs /\ talk \in Talks /\ OneAtATime(rtp, life) BY DEF RTPControl, RTPTypeOK
<1>1. life = "ready" /\ talk' = talk BY Zenon DEF RTPStart, TalkKept
<1>2. PICK d \in SUBSET BothWays :
       \/ /\ rtp.tryIce /\ rtp.ice = "NULL" /\ Starting /\ NotesSlips(OddWays(d))
          /\ rtp' = [CheckHold(rtp, d, TRUE) EXCEPT !.state = "WAIT_ICE"]
       \/ /\ ~rtp.tryIce /\ Tell("DidStart") /\ NotesSlips(OddWays(d))
          /\ rtp' = Keyframes([CheckHold(rtp, d, TRUE) EXCEPT !.state = "ESTABLISHED"])
       \/ /\ RecorderRaises /\ Starting /\ NotesSlips({"recorder"})
          /\ rtp' = [CheckHold(rtp, d, TRUE) EXCEPT !.rec = "none"]
  BY Zenon DEF RTPStart
<1> DEFINE r == CheckHold(rtp, d, TRUE)
<1>3. r \in RTPs /\ Checked(rtp, d, TRUE, r) BY <1>0, CheckHoldIs
<1>4. SameWay(rtp, r) BY <1>3 DEF Checked
<1>5. ~Seeks(rtp) /\ rtp.doing # "start" /\ rtp.state # "WAIT_ICE" BY <1>0, <1>1 DEF OneAtATime
<1>6. ~r.lookup /\ ~r.waiting /\ r.doing = "none"
  <2>1. r.doing \in {"none", "init", "next", "start"} BY <1>3 DEF RTPs
  <2> QED BY <1>4, <1>5, <2>1 DEF SameWay, Seeks
<1>7. r = CheckHold(rtp, d, TRUE) OBVIOUS
<1> HIDE DEF r
<1>8. ASSUME rtp' \in RTPs, rtp'.state \in {"WAIT_ICE", "ESTABLISHED"}, rtp'.media = r.media, SameCourse(r, rtp'),
             rtp'.request = r.request, rtp'.bridged = r.bridged, rtp'.lookup = r.lookup, rtp'.waiting = r.waiting,
             rtp'.doing = r.doing, NotesSlips(OddWays(d)), life' \in {"starting", "on"},
             rtp'.state = "WAIT_ICE" => life' = "starting"
      PROVE  RTPControl' /\ HoldInv' /\ [Contract!Next]_life
  <2>1. OneAtATime(rtp', life') BY <1>6, <1>8 DEF OneAtATime, Seeks
  <2>2. RTPControl' BY <1>0, <1>1, <1>8, <2>1 DEF RTPControl, RTPTypeOK
  <2>3. ASSUME Going' PROVE HoldOK(rtp', talk', life')
    <3>1. slips' = {} BY <2>3 DEF Going
    <3>2. slips = {} /\ OddWays(d) \subseteq {} BY <1>8, <3>1, NotesSlipsIs
    <3>3. HoldOK(rtp, talk, "ready") BY <1>1, <3>2 DEF HoldInv, Going
    <3>4. "recv" \in talk.offer BY <3>3 DEF HoldOK, Early, BothWays
    <3>5. "recv" \in d BY <3>2, <3>4, OddWaysAre
    <3>6. HoldOK(rtp', talk, life') BY <1>0, <1>3, <1>7, <1>8, <3>3, <3>5, StartsSoundly
    <3> QED BY <1>1, <3>6
  <2> QED BY <1>1, <1>8, <2>2, <2>3, LifeMoves DEF HoldInv
<1>9. CASE Starting /\ NotesSlips(OddWays(d)) /\ rtp' = [r EXCEPT !.state = "WAIT_ICE"]
  <2>1. life' = "starting" BY <1>9 DEF Starting
  <2>2. rtp' \in RTPs BY <1>3, <1>9 DEF RTPs, RTPStates
  <2>3. /\ rtp'.state = "WAIT_ICE" /\ rtp'.media = r.media /\ SameCourse(r, rtp') /\ rtp'.request = r.request
        /\ rtp'.bridged = r.bridged /\ rtp'.lookup = r.lookup /\ rtp'.waiting = r.waiting /\ rtp'.doing = r.doing
    BY <1>3, <1>9 DEF RTPs, SameCourse
  <2> QED BY <1>8, <1>9, <2>1, <2>2, <2>3
<1>10. CASE Tell("DidStart") /\ NotesSlips(OddWays(d)) /\ rtp' = Keyframes([r EXCEPT !.state = "ESTABLISHED"])
  <2>1. life' = "on" BY <1>1, <1>10, ToldAs DEF Over
  <2> DEFINE v == [r EXCEPT !.state = "ESTABLISHED"]
  <2>2. v \in RTPs BY <1>3 DEF RTPs, RTPStates
  <2>3. /\ v.state = "ESTABLISHED" /\ v.media = r.media /\ SameCourse(r, v) /\ v.request = r.request
        /\ v.bridged = r.bridged /\ v.lookup = r.lookup /\ v.waiting = r.waiting /\ v.doing = r.doing
    BY <1>3 DEF RTPs, SameCourse
  <2>4. rtp' = Keyframes(v) BY <1>10
  <2> HIDE DEF v
  <2>5. /\ rtp' \in RTPs /\ SameWay(v, rtp') /\ SameCourse(v, rtp') /\ rtp'.request = v.request /\ rtp'.bridged = v.bridged
    BY <2>2, <2>4, KeyframesAre
  <2>6. /\ rtp'.state = "ESTABLISHED" /\ rtp'.media = r.media /\ SameCourse(r, rtp') /\ rtp'.request = r.request
        /\ rtp'.bridged = r.bridged /\ rtp'.lookup = r.lookup /\ rtp'.waiting = r.waiting /\ rtp'.doing = r.doing
    BY <2>3, <2>5 DEF SameWay, SameCourse
  <2> QED BY <1>8, <1>10, <2>1, <2>5, <2>6
<1>11. CASE Starting /\ NotesSlips({"recorder"}) /\ rtp' = [r EXCEPT !.rec = "none"]
  <2>1. life' = "starting" BY <1>11 DEF Starting
  <2>2. rtp' \in RTPs BY <1>3, <1>11 DEF RTPs
  <2>3. rtp'.lookup = r.lookup /\ rtp'.waiting = r.waiting /\ rtp'.doing = r.doing /\ rtp'.state = r.state
    BY <1>3, <1>11 DEF RTPs
  <2>4. rtp'.state # "WAIT_ICE" BY <1>4, <1>5, <2>3 DEF SameWay
  <2>5. OneAtATime(rtp', life') BY <1>6, <2>3, <2>4 DEF OneAtATime, Seeks
  <2>6. slips' # {} BY <1>11 DEF NotesSlips
  <2>7. RTPControl' BY <1>0, <1>1, <2>2, <2>5 DEF RTPControl, RTPTypeOK
  <2> QED BY <1>1, <2>1, <2>6, <2>7, LifeMoves DEF HoldInv, Going
<1> QED BY <1>2, <1>7, <1>9, <1>10, <1>11, Zenon
LEMMA RTPRuns ==
  ASSUME RTPControl, HoldInv, ICEEnds \/ ICETells \/ SendKeyframes \/ RTPDeactivate \/ RTPEnd
  PROVE  RTPControl' /\ HoldInv' /\ [Contract!Next]_life
<1>0. rtp \in RTPs /\ talk \in Talks /\ OneAtATime(rtp, life) BY DEF RTPControl, RTPTypeOK
<1>1. ASSUME talk' = talk, rtp' \in RTPs, OneAtATime(rtp', life'), [Contract!Next]_life, HoldInv'
      PROVE  RTPControl' /\ HoldInv' /\ [Contract!Next]_life
  BY <1>0, <1>1 DEF RTPControl, RTPTypeOK
<1>2. life' \in {"leaving", "over"} => HoldInv' BY DEF HoldInv, Going
<1>3. CASE ICEEnds
  <2>1. rtp.state = "WAIT_ICE" /\ Quiet /\ talk' = talk BY <1>3, Zenon DEF ICEEnds, TalkKept
  <2>2. PICK ice \in {"IN_USE", "FAILED"} :
          rtp' = Keyframes([rtp EXCEPT !.ice = ice, !.state = "ESTABLISHED", !.doing = "start"])
    BY <1>3, Zenon DEF ICEEnds
  <2>3. life' = life /\ slips' = slips BY <2>1 DEF Quiet
  <2>4. ~rtp.lookup /\ ~rtp.waiting /\ life \in {"starting", "leaving", "over"} BY <1>0, <2>1 DEF OneAtATime, Seeks
  <2> DEFINE v == [rtp EXCEPT !.ice = ice, !.state = "ESTABLISHED", !.doing = "start"]
  <2>5. v \in RTPs BY <1>0 DEF RTPs, RTPStates
  <2>6. /\ v.state = "ESTABLISHED" /\ v.media = rtp.media /\ SameCourse(rtp, v) /\ v.request = rtp.request
        /\ v.bridged = rtp.bridged /\ v.lookup = rtp.lookup /\ v.waiting = rtp.waiting /\ v.doing = "start"
    BY <1>0 DEF RTPs, SameCourse
  <2>7. rtp' = Keyframes(v) BY <2>2
  <2> HIDE DEF v
  <2>8. /\ rtp' \in RTPs /\ SameWay(v, rtp') /\ SameCourse(v, rtp') /\ rtp'.request = v.request /\ rtp'.bridged = v.bridged
    BY <2>5, <2>7, KeyframesAre
  <2>9. /\ rtp'.state = "ESTABLISHED" /\ rtp'.media = rtp.media /\ SameCourse(rtp, rtp') /\ rtp'.request = rtp.request
        /\ rtp'.bridged = rtp.bridged /\ rtp'.lookup = rtp.lookup /\ rtp'.waiting = rtp.waiting /\ rtp'.doing = "start"
    BY <2>6, <2>8 DEF SameWay, SameCourse
  <2>10. HoldInv' BY <2>1, <2>3, <2>9, CourseKept
  <2>11. OneAtATime(rtp', life') BY <2>3, <2>4, <2>9 DEF OneAtATime, Seeks
  <2> QED BY <1>1, <2>1, <2>3, <2>8, <2>10, <2>11, LifeMoves
<1>4. CASE ICETells
  <2>1. /\ rtp.doing = "start" /\ talk' = talk /\ Tell("DidStart") /\ slips' = slips
        /\ rtp' = [rtp EXCEPT !.doing = "none"]
    BY <1>4, Zenon DEF ICETells, TalkKept
  <2>2. rtp.state # "WAIT_ICE" /\ ~rtp.lookup /\ ~rtp.waiting /\ life \in {"starting", "leaving", "over"}
    BY <1>0, <2>1 DEF OneAtATime
  <2>3. Tell("DidStart") BY <2>1
  <2>4. life' = IF life \in {"leaving", "over"} THEN life ELSE "on" BY <2>3, ToldAs DEF Over
  <2>5. rtp' \in RTPs BY <1>0, <2>1 DEF RTPs
  <2>6. /\ rtp'.state = rtp.state /\ rtp'.media = rtp.media /\ SameCourse(rtp, rtp') /\ rtp'.request = rtp.request
        /\ rtp'.bridged = rtp.bridged /\ rtp'.lookup = rtp.lookup /\ rtp'.waiting = rtp.waiting /\ rtp'.doing = "none"
    BY <1>0, <2>1 DEF RTPs, SameCourse
  <2>7. HoldInv' BY <2>1, <2>2, <2>4, <2>6, CourseKept
  <2>8. OneAtATime(rtp', life') BY <2>2, <2>6 DEF OneAtATime, Seeks
  <2> QED BY <1>1, <2>1, <2>2, <2>4, <2>5, <2>7, <2>8, LifeMoves
<1>5. CASE SendKeyframes
  <2>1. /\ talk' = talk /\ life' = life /\ slips \subseteq slips'
        /\ rtp' = [rtp EXCEPT !.timer = "running"]
    BY <1>5 DEF SendKeyframes, TalkKept, NotesSlips
  <2>2. rtp' \in RTPs BY <1>0, <2>1 DEF RTPs
  <2>3. SameWay(rtp, rtp') /\ SameCourse(rtp, rtp') /\ rtp'.request = rtp.request /\ rtp'.bridged = rtp.bridged
    BY <1>0, <2>1 DEF RTPs, SameWay, SameCourse
  <2>4. rtp'.media = rtp.media /\ rtp'.state = rtp.state BY <2>3 DEF SameWay
  <2>5. HoldInv' BY <2>1, <2>3, <2>4, CourseKept
  <2>6. OneAtATime(rtp', life') BY <1>0, <2>1, <2>3, WayKept
  <2> QED BY <1>1, <2>1, <2>2, <2>5, <2>6, LifeMoves
<1>6. CASE RTPDeactivate
  <2>1. CallDeactivate /\ talk' = talk
        /\ rtp' = IF Audio(rtp) THEN [rtp EXCEPT !.bridged = FALSE, !.recBridged = FALSE] ELSE rtp
    BY <1>6, Zenon DEF RTPDeactivate, TalkKept
  <2>2. life \in {"init", "ready", "starting", "on", "failed"} /\ life' = "leaving"
    BY <2>1 DEF CallDeactivate, Calls
  <2>3. rtp' \in RTPs BY <1>0, <2>1 DEF RTPs
  <2>4. SameWay(rtp, rtp') BY <1>0, <2>1 DEF RTPs, SameWay
  <2>5. OneAtATime(rtp', life') BY <1>0, <2>2, <2>4, WayKept
  <2> QED BY <1>1, <1>2, <2>1, <2>2, <2>3, <2>5, LifeMoves
<1>7. CASE RTPEnd
  <2> DEFINE m == IF rtp.timer = "running" THEN "none" ELSE rtp.timer
  <2>1. talk' = talk /\ life = "leaving" /\ life' = "over" BY <1>7, Zenon DEF RTPEnd, TalkKept
  <2>2. CASE rtp.state = "ENDED" \/ rtp.done
    <3>1. rtp' = rtp BY <1>7, <2>2, Zenon DEF RTPEnd
    <3>2. OneAtATime(rtp', life') BY <1>0, <2>1, <3>1, WayKept DEF SameWay
    <3> QED BY <1>0, <1>1, <1>2, <2>1, <3>1, <3>2, LifeMoves
  <2>3. CASE ~(rtp.state = "ENDED" \/ rtp.done)
    <3>1. rtp' = [rtp EXCEPT !.done = TRUE, !.state = "ENDED", !.transport = FALSE,
                             !.encryption = FALSE, !.rec = "none", !.recBridged = FALSE,
                             !.timer = m]
      BY <1>7, <2>3, Zenon DEF RTPEnd
    <3>2. m \in {"none", "queued", "running"} BY <1>0 DEF RTPs
    <3> HIDE DEF m
    <3> DEFINE v == [rtp EXCEPT !.done = TRUE, !.state = "ENDED", !.transport = FALSE]
    <3>3. v \in RTPs BY <1>0 DEF RTPs, RTPStates
    <3>4. v.lookup = rtp.lookup /\ v.waiting = rtp.waiting /\ v.doing = rtp.doing /\ v.state = "ENDED"
      BY <1>0 DEF RTPs
    <3> DEFINE w == [v EXCEPT !.encryption = FALSE, !.rec = "none"]
    <3>5. rtp' = [w EXCEPT !.recBridged = FALSE, !.timer = m] BY <3>1, Zenon
    <3> HIDE DEF v
    <3>6. w \in RTPs BY <3>3 DEF RTPs
    <3>7. w.lookup = rtp.lookup /\ w.waiting = rtp.waiting /\ w.doing = rtp.doing /\ w.state = "ENDED"
      BY <3>3, <3>4 DEF RTPs
    <3> HIDE DEF w
    <3>8. rtp' \in RTPs BY <3>2, <3>5, <3>6 DEF RTPs
    <3>9. rtp'.lookup = rtp.lookup /\ rtp'.waiting = rtp.waiting /\ rtp'.doing = rtp.doing /\ rtp'.state = "ENDED"
      BY <3>5, <3>6, <3>7 DEF RTPs
    <3>10. OneAtATime(rtp', life') BY <1>0, <2>1, <3>9 DEF OneAtATime, Seeks
    <3> QED BY <1>1, <1>2, <2>1, <3>8, <3>10, LifeMoves
  <2> QED BY <2>2, <2>3
<1> QED BY <1>3, <1>4, <1>5, <1>6, <1>7, Zenon
LEMMA WayGoesOn ==
  ASSUME RTPControl, rtp' \in RTPs, talk' \in Talks, SameWay(rtp, rtp'), life' = life
  PROVE  RTPControl' /\ [Contract!Next]_life
<1>1. OneAtATime(rtp', life') BY WayKept DEF RTPControl
<1> QED BY <1>1, LifeMoves DEF RTPControl, RTPTypeOK
LEMMA RecordingKept ==
  ASSUME HoldInv, talk' = talk, slips' = slips, life' = life, SameWay(rtp, rtp'), rtp'.direction = rtp.direction,
         rtp'.onLocal = rtp.onLocal, rtp'.onRemote = rtp.onRemote, rtp'.request = rtp.request, rtp'.bridged = rtp.bridged,
         rtp'.rec = "active" => (rtp'.recBridged <=> ~rtp.onLocal /\ ~rtp.onRemote)
  PROVE  HoldInv'
<1> SUFFICES ASSUME Going' PROVE HoldOK(rtp', talk', life') BY DEF HoldInv
<1>1. HoldOK(rtp, talk, life) BY DEF HoldInv, Going
<1>2. rtp'.state = rtp.state /\ rtp'.media = rtp.media BY DEF SameWay
<1>3. Early(rtp', talk', life') BY <1>1, <1>2 DEF HoldOK, Early
<1>4. Believed(rtp') BY <1>1 DEF HoldOK, Believed
<1>5. Agreed(rtp', talk', life') BY <1>1, <1>2 DEF HoldOK, Agreed
<1>6. Heard(rtp') <=> Heard(rtp) BY <1>2 DEF Heard
<1>7. AtRest(rtp', talk', life') BY <1>1, <1>2, <1>6 DEF HoldOK, AtRest
<1>8. AsksHold(rtp', talk') BY <1>1, <1>2 DEF HoldOK, AsksHold
<1>9. AsksUnhold(rtp', talk') BY <1>1, <1>6 DEF HoldOK, AsksUnhold
<1> QED BY <1>3, <1>4, <1>5, <1>7, <1>8, <1>9 DEF HoldOK
LEMMA RecordedIs ==
  ASSUME NEW r \in RTPs, NEW u, u = Recorded(r)
  PROVE  /\ u \in RTPs /\ SameWay(r, u) /\ u.request = r.request /\ u.bridged = r.bridged
         /\ u.direction = r.direction /\ u.onLocal = r.onLocal /\ u.onRemote = r.onRemote
         /\ u.rec = "active" => (u.recBridged <=> ~r.onLocal /\ ~r.onRemote)
<1> DEFINE e == r.rec = "active" /\ ~r.onLocal /\ ~r.onRemote
<1>1. u = [r EXCEPT !.recBridged = e] BY Zenon DEF Recorded
<1>2. e \in BOOLEAN /\ (e <=> r.rec = "active" /\ ~r.onLocal /\ ~r.onRemote) BY Zenon
<1> HIDE DEF e
<1>3. u \in RTPs BY <1>1, <1>2 DEF RTPs
<1>4. /\ SameWay(r, u) /\ u.request = r.request /\ u.bridged = r.bridged
      /\ u.direction = r.direction /\ u.onLocal = r.onLocal /\ u.onRemote = r.onRemote
      /\ u.rec = r.rec /\ u.recBridged = e
  BY <1>1 DEF RTPs, SameWay
<1> QED BY <1>2, <1>3, <1>4
LEMMA RecordingGoesOn ==
  ASSUME RTPControl, HoldInv, StartRecording \/ StopRecording
  PROVE  RTPControl' /\ HoldInv' /\ [Contract!Next]_life
<1>0. rtp \in RTPs /\ talk \in Talks BY DEF RTPControl, RTPTypeOK
<1>1. ASSUME talk' = talk, life' = life, slips' = slips, rtp' \in RTPs, SameWay(rtp, rtp'), rtp'.direction = rtp.direction,
             rtp'.onLocal = rtp.onLocal, rtp'.onRemote = rtp.onRemote, rtp'.request = rtp.request, rtp'.bridged = rtp.bridged,
             rtp'.rec = "active" => (rtp'.recBridged <=> ~rtp.onLocal /\ ~rtp.onRemote)
      PROVE  RTPControl' /\ HoldInv' /\ [Contract!Next]_life
  BY <1>0, <1>1, WayGoesOn, RecordingKept
<1>2. CASE StartRecording
  <2>1. talk' = talk /\ Quiet BY <1>2, Zenon DEF StartRecording, TalkKept
  <2>2. life' = life /\ slips' = slips BY <2>1 DEF Quiet
  <2>3. CASE rtp' = Recorded([[rtp EXCEPT !.recorded = TRUE] EXCEPT !.rec = "active"])
    <3> DEFINE v == [[rtp EXCEPT !.recorded = TRUE] EXCEPT !.rec = "active"]
    <3>1. v \in RTPs BY <1>0 DEF RTPs
    <3>2. /\ SameWay(rtp, v) /\ v.request = rtp.request /\ v.bridged = rtp.bridged
          /\ v.direction = rtp.direction /\ v.onLocal = rtp.onLocal /\ v.onRemote = rtp.onRemote
      BY <1>0 DEF RTPs, SameWay
    <3>3. rtp' = Recorded(v) BY <2>3
    <3> HIDE DEF v
    <3>4. /\ rtp' \in RTPs /\ SameWay(v, rtp') /\ rtp'.request = v.request /\ rtp'.bridged = v.bridged
          /\ rtp'.direction = v.direction /\ rtp'.onLocal = v.onLocal /\ rtp'.onRemote = v.onRemote
          /\ rtp'.rec = "active" => (rtp'.recBridged <=> ~v.onLocal /\ ~v.onRemote)
      BY <3>1, <3>3, RecordedIs
    <3>5. SameWay(rtp, rtp') BY <3>2, <3>4 DEF SameWay
    <3> QED BY <1>1, <2>1, <2>2, <3>2, <3>4, <3>5
  <2>4. CASE rtp' = [[rtp EXCEPT !.recorded = TRUE] EXCEPT !.rec = "waiting"]
    <3>1. rtp' \in RTPs BY <1>0, <2>4 DEF RTPs
    <3>2. /\ SameWay(rtp, rtp') /\ rtp'.request = rtp.request /\ rtp'.bridged = rtp.bridged
          /\ rtp'.direction = rtp.direction /\ rtp'.onLocal = rtp.onLocal /\ rtp'.onRemote = rtp.onRemote
          /\ rtp'.rec = "waiting"
      BY <1>0, <2>4 DEF RTPs, SameWay
    <3> QED BY <1>1, <2>1, <2>2, <3>1, <3>2
  <2> QED BY <1>2, <2>3, <2>4, Zenon DEF StartRecording
<1>3. CASE StopRecording
  <2>1. talk' = talk /\ Quiet /\ rtp' = [rtp EXCEPT !.rec = "none", !.recBridged = FALSE]
    BY <1>3 DEF StopRecording, TalkKept
  <2>2. life' = life /\ slips' = slips BY <2>1 DEF Quiet
  <2>3. rtp' \in RTPs BY <1>0, <2>1 DEF RTPs
  <2>4. /\ SameWay(rtp, rtp') /\ rtp'.request = rtp.request /\ rtp'.bridged = rtp.bridged
        /\ rtp'.direction = rtp.direction /\ rtp'.onLocal = rtp.onLocal /\ rtp'.onRemote = rtp.onRemote
        /\ rtp'.rec = "none"
    BY <1>0, <2>1 DEF RTPs, SameWay
  <2> QED BY <1>1, <2>1, <2>2, <2>3, <2>4
<1> QED BY <1>2, <1>3
\* What is offered lets the peer send exactly if the stream does not hold.
LEMMA OfferIs ==
  ASSUME NEW r \in RTPs
  PROVE  /\ OfferDirection(r) \in SUBSET BothWays
         /\ "recv" \in OfferDirection(r) <=> ~(r.request = "hold" \/ (r.request = "none" /\ r.onLocal))
BY DEF OfferDirection, BothWays
LEMMA AnswerIs ==
  ASSUME NEW r \in RTPs
  PROVE  AnswerDirection(r) \in SUBSET BothWays /\ ("recv" \in AnswerDirection(r) <=> "recv" \in r.direction)
BY DEF AnswerDirection, BothWays
Phases == {"none", "hold", "unhold", "peer", "holdDone", "unholdDone", "peerDone", "broken"}
LEMMA SendsOfferIs ==
  ASSUME NEW r \in RTPs, NEW t \in Talks, NEW what \in {"hold", "unhold", "peer"}, SendsOffer(r, t, what)
  PROVE  /\ rtp' = r /\ talk' \in Talks /\ talk'.connected = t.connected /\ talk'.on = t.on /\ talk'.wanted = t.wanted
         /\ talk'.exchange = what /\ talk'.offer = OfferDirection(r)
<1>1. talk' = [t EXCEPT !.exchange = what, !.offer = OfferDirection(r)] /\ rtp' = r BY DEF SendsOffer
<1>2. OfferDirection(r) \in SUBSET BothWays BY OfferIs
<1> DEFINE d == OfferDirection(r)
<1> HIDE DEF d
<1> QED BY <1>1, <1>2 DEF Talks
LEMMA ExchangeIs == ASSUME NEW t \in Talks PROVE t.exchange \in Phases BY DEF Talks, Phases
\* As hold() begins, a stream that is not on hold is in its bridge.
LEMMA BridgedBeforeHold ==
  ASSUME NEW r \in RTPs, NEW t \in Talks, NEW l \in {"ready", "starting", "on"}, HoldOK(r, t, l), ~t.on, ~t.wanted,
         ~r.onLocal, r.request # "hold", r.state = "ESTABLISHED", r.media = "audio"
  PROVE  r.bridged
<1>1. l # "ready" BY DEF HoldOK, Early
<1>2. CASE t.exchange \in {"none", "peer", "peerDone"}
  BY <1>1, <1>2 DEF HoldOK, AtRest, Heard
<1>3. CASE t.exchange = "hold" BY <1>3 DEF HoldOK, AsksHold
<1>4. CASE t.exchange = "holdDone" BY <1>4 DEF HoldOK, AsksHold
<1>5. CASE t.exchange \in {"unhold", "unholdDone"} BY <1>5 DEF HoldOK, AsksUnhold
<1>6. t.exchange # "broken" BY DEF HoldOK, Agreed
<1> QED BY <1>2, <1>3, <1>4, <1>5, <1>6, ExchangeIs DEF Phases
LEMMA HoldsSoundly ==
  ASSUME NEW r \in RTPs, NEW t \in Talks, NEW u, NEW v \in Talks, NEW l \in {"ready", "starting", "on"},
         HoldOK(r, t, l), ~t.on, ~t.wanted, u = HeldBy(r),
         ~(r.onLocal /\ r.bridged), ~(r.media = "audio" /\ r.state = "WAIT_ICE"),
         v.wanted, v.connected = t.connected, v.on = t.on,
         IF t.connected /\ t.exchange = "none" THEN v.exchange = "hold" /\ v.offer = OfferDirection(u)
                                               ELSE v.exchange = t.exchange /\ v.offer = t.offer
  PROVE  HoldOK(u, v, l)
<1>1. /\ u \in RTPs /\ SameWay(r, u) /\ SameCourse(r, u)
      /\ r.onLocal \/ r.request = "hold" => u = r
      /\ ~(r.onLocal \/ r.request = "hold") =>
           u.request = "hold" /\ (u.bridged <=> r.bridged /\ (r.state # "ESTABLISHED" \/ r.direction = {}))
  BY HeldIs
<1>2. u.media = r.media /\ u.state = r.state /\ u.direction = r.direction /\ u.onLocal = r.onLocal /\ u.onRemote = r.onRemote
      /\ u.rec = r.rec /\ u.recBridged = r.recBridged
  BY <1>1 DEF SameWay, SameCourse
<1>3. r.media \in {"audio", "video"} /\ t.exchange \in Phases BY ExchangeIs DEF RTPs
<1>4. Believed(r) /\ Agreed(r, t, l) /\ Early(r, t, l) BY DEF HoldOK
<1>5. t.exchange # "unhold" /\ t.exchange # "unholdDone" BY DEF HoldOK, AsksUnhold
<1>6. ASSUME r.onLocal PROVE t.exchange = "holdDone" /\ u = r /\ ~r.bridged
  <2>1. t.exchange \notin {"none", "peer", "peerDone"} BY <1>6 DEF HoldOK, AtRest
  <2>2. t.exchange # "hold" BY <1>6 DEF HoldOK, AsksHold
  <2>3. t.exchange # "broken" BY <1>4 DEF Agreed
  <2> QED BY <1>1, <1>3, <1>5, <1>6, <2>1, <2>2, <2>3 DEF Phases
<1>7. ASSUME ~r.onLocal PROVE r.request = "none" /\ u.request = "hold" /\ (r.state # "ESTABLISHED" => u.bridged = r.bridged)
                              /\ (u.media = "audio" => ~u.bridged) /\ r.direction # {}
  <2>1. t.exchange # "holdDone" BY <1>7 DEF HoldOK, AsksHold
  <2>2. t.exchange \in {"none", "peer", "peerDone"} => r.request = "none" BY DEF HoldOK, AtRest
  <2>3. t.exchange = "hold" => r.request = "none" BY DEF HoldOK, AsksHold
  <2>4. t.exchange # "broken" BY <1>4 DEF Agreed
  <2>5. r.request = "none" BY <1>3, <1>5, <2>1, <2>2, <2>3, <2>4 DEF Phases
  <2>6. r.direction # {} BY <1>4, <1>7 DEF Believed
  <2>7. u.request = "hold" /\ (u.bridged <=> r.bridged /\ r.state # "ESTABLISHED") BY <1>1, <1>7, <2>5, <2>6
  <2>8. u.bridged \in BOOLEAN /\ r.bridged \in BOOLEAN BY <1>1 DEF RTPs
  <2>9. r.state # "ESTABLISHED" /\ r.media = "audio" => ~r.bridged
    <3>1. l \in {"starting", "on"} => r.state \in {"WAIT_ICE", "ESTABLISHED"} BY <1>4 DEF Agreed
    <3>2. l = "ready" /\ r.media = "audio" => ~r.bridged BY <1>4 DEF Early
    <3> QED BY <3>1, <3>2
  <2> QED BY <1>2, <2>5, <2>6, <2>7, <2>8, <2>9
<1>8. Believed(u)
  <2>1. CASE r.onLocal BY <1>4, <1>6, <2>1
  <2>2. CASE ~r.onLocal BY <1>2, <1>4, <1>7, <2>2 DEF Believed
  <2> QED BY <2>1, <2>2
<1>9. Early(u, v, l)
  <2> SUFFICES ASSUME l = "ready" PROVE Early(u, v, l) BY DEF Early
  <2>1. r.state # "ESTABLISHED" /\ r.direction = BothWays /\ (r.media = "video" <=> r.bridged) /\ t.offer = BothWays
    BY <1>4 DEF Early
  <2>2. ~r.onLocal BY <1>4, <2>1 DEF Believed, BothWays
  <2>3. ~t.connected BY <1>4 DEF Agreed
  <2> QED BY <1>2, <1>7, <2>1, <2>2, <2>3 DEF Early
<1>10. Agreed(u, v, l)
  <2>1. t.connected => l = "on" /\ r.state = "ESTABLISHED" BY <1>4 DEF Agreed
  <2>2. (t.exchange # "none" => t.connected) /\ t.exchange # "broken" BY <1>4 DEF Agreed
  <2>3. l \in {"starting", "on"} => r.state \in {"WAIT_ICE", "ESTABLISHED"} BY <1>4 DEF Agreed
  <2> QED BY <1>2, <2>1, <2>2, <2>3 DEF Agreed
<1>11. AtRest(u, v, l)
  <2>1. CASE r.onLocal BY <1>6, <2>1 DEF AtRest
  <2>2. CASE ~r.onLocal BY <1>2, <1>7, <2>2 DEF AtRest
  <2> QED BY <2>1, <2>2
<1>12. AsksHold(u, v)
  <2>1. CASE r.onLocal BY <1>6, <2>1 DEF AsksHold
  <2>2. CASE ~r.onLocal
    <3>1. t.exchange # "holdDone" BY <2>2 DEF HoldOK, AsksHold
    <3>2. t.exchange = "hold" => "recv" \notin t.offer BY DEF HoldOK, AsksHold
    <3>3. "recv" \notin OfferDirection(u) BY <1>1, <1>7, <2>2, OfferIs
    <3> QED BY <1>2, <1>7, <2>2, <3>1, <3>2, <3>3 DEF AsksHold
  <2> QED BY <2>1, <2>2
<1>13. AsksUnhold(u, v) BY <1>5 DEF AsksUnhold
<1> QED BY <1>8, <1>9, <1>10, <1>11, <1>12, <1>13 DEF HoldOK
LEMMA UnholdsSoundly ==
  ASSUME NEW r \in RTPs, NEW t \in Talks, NEW u, NEW v \in Talks, NEW l \in {"ready", "starting", "on"},
         HoldOK(r, t, l), t.on \/ t.wanted, u = UnheldBy(r),
         ~(r.state = "WAIT_ICE" /\ ~r.bridged), t.exchange \notin {"peer", "peerDone"},
         ~v.wanted, v.connected = t.connected, v.on = t.on,
         IF t.connected /\ t.exchange = "none" THEN v.exchange = "unhold" /\ v.offer = OfferDirection(u)
                                               ELSE v.exchange = t.exchange /\ v.offer = t.offer
  PROVE  HoldOK(u, v, l)
<1>1. /\ u \in RTPs /\ SameWay(r, u) /\ SameCourse(r, u)
      /\ (~r.onLocal /\ r.request # "hold") \/ r.request = "unhold" => u = r
      /\ r.request = "hold" =>
           u.request = "none" /\ (u.bridged <=> r.bridged \/ r.state = "ESTABLISHED")
      /\ r.request = "none" /\ r.onLocal => u.request = "unhold" /\ u.bridged = r.bridged
  BY UnheldIs
<1>2. u.media = r.media /\ u.state = r.state /\ u.direction = r.direction /\ u.onLocal = r.onLocal /\ u.onRemote = r.onRemote
      /\ u.rec = r.rec /\ u.recBridged = r.recBridged
  BY <1>1 DEF SameWay, SameCourse
<1>3. t.exchange \in Phases /\ r.request \in {"none", "hold", "unhold"} BY ExchangeIs DEF RTPs
<1>4. Believed(r) /\ Agreed(r, t, l) /\ Early(r, t, l) BY DEF HoldOK
<1>5. u.request # "hold" BY <1>1, <1>3
<1>6. r.request = "hold" => ~r.onLocal /\ u.request = "none" /\ (u.bridged <=> r.bridged \/ r.state = "ESTABLISHED")
  BY <1>1, <1>4 DEF Believed
<1>7. r.request # "hold" /\ r.onLocal => u.request = "unhold" /\ u.bridged = r.bridged BY <1>1, <1>3
<1>8. r.request # "hold" /\ ~r.onLocal => u = r /\ r.request = "none"
  BY <1>1, <1>3, <1>4 DEF Believed
<1>9. Believed(u) BY <1>2, <1>4, <1>6, <1>7, <1>8 DEF Believed
<1>10. Early(u, v, l)
  <2> SUFFICES ASSUME l = "ready" PROVE Early(u, v, l) BY DEF Early
  <2>1. r.state # "ESTABLISHED" /\ r.direction = BothWays /\ (r.media = "video" <=> r.bridged) /\ t.offer = BothWays
    BY <1>4 DEF Early
  <2>2. ~r.onLocal BY <1>4, <2>1 DEF Believed, BothWays
  <2>3. ~t.connected BY <1>4 DEF Agreed
  <2>4. u.bridged <=> r.bridged BY <1>6, <1>8, <2>1, <2>2
  <2> QED BY <1>2, <2>1, <2>3, <2>4 DEF Early
<1>11. Agreed(u, v, l)
  <2>1. t.connected => l = "on" /\ r.state = "ESTABLISHED" BY <1>4 DEF Agreed
  <2>2. (t.exchange # "none" \/ t.on => t.connected) /\ t.exchange # "broken" BY <1>4 DEF Agreed
  <2>3. l \in {"starting", "on"} => r.state \in {"WAIT_ICE", "ESTABLISHED"} BY <1>4 DEF Agreed
  <2> QED BY <1>2, <2>1, <2>2, <2>3 DEF Agreed
<1>12. CASE ~t.connected
  <2>1. t.wanted /\ ~t.on /\ t.exchange = "none" /\ v.exchange = "none" BY <1>4, <1>12 DEF Agreed
  <2>2. r.request = "hold" BY <2>1 DEF HoldOK, AtRest
  <2>3. l \in {"starting", "on"} => Heard(u)
    <3>1. l \in {"starting", "on"} => r.state \in {"WAIT_ICE", "ESTABLISHED"} BY <1>4 DEF Agreed
    <3>2. r.state \in {"WAIT_ICE", "ESTABLISHED"} => u.bridged BY <1>6, <2>2
    <3> QED BY <3>1, <3>2 DEF Heard
  <2>4. AtRest(u, v, l) BY <1>2, <1>6, <2>1, <2>2, <2>3 DEF AtRest
  <2>5. AsksHold(u, v) BY <2>1 DEF AsksHold
  <2>6. AsksUnhold(u, v) BY <2>1 DEF AsksUnhold
  <2> QED BY <1>9, <1>10, <1>11, <2>4, <2>5, <2>6 DEF HoldOK
<1>13. CASE t.connected /\ t.exchange = "none"
  <2>1. t.on /\ v.exchange = "unhold" /\ r.state = "ESTABLISHED" BY <1>4, <1>13 DEF Agreed
  <2>2. r.onLocal \/ r.request = "hold" BY <1>13, <2>1 DEF HoldOK, AtRest
  <2>3. "recv" \in v.offer
    <3>1. u.request = "unhold" \/ ~u.onLocal BY <1>2, <1>6, <1>7, <2>2
    <3>2. "recv" \in OfferDirection(u) BY <1>1, <1>5, <3>1, OfferIs
    <3> QED BY <1>13, <3>2
  <2>4. u.request = "unhold" \/ (u.request = "none" /\ ~u.onLocal /\ Heard(u))
    BY <1>2, <1>6, <1>7, <2>1, <2>2 DEF Heard
  <2>5. AtRest(u, v, l) BY <2>1 DEF AtRest
  <2>6. AsksHold(u, v) BY <2>1 DEF AsksHold
  <2>7. AsksUnhold(u, v) BY <2>1, <2>3, <2>4 DEF AsksUnhold
  <2> QED BY <1>9, <1>10, <1>11, <2>5, <2>6, <2>7 DEF HoldOK
<1>14. CASE t.exchange \in {"hold", "holdDone"}
  <2>1. v.exchange = t.exchange /\ v.offer = t.offer BY <1>14
  <2>2. ~t.on /\ t.wanted BY <1>14 DEF HoldOK, AsksHold
  <2>3. r.state = "ESTABLISHED" BY <1>4, <1>14 DEF Agreed
  <2>4. t.exchange = "hold" => u.request = "none" /\ u.bridged /\ ~u.onLocal /\ "recv" \notin v.offer
    <3>1. t.exchange = "hold" => ~r.onLocal /\ "recv" \notin t.offer /\ r.request = "hold" BY <2>2 DEF HoldOK, AsksHold
    <3> QED BY <1>2, <1>6, <2>1, <2>3, <3>1
  <2>5. t.exchange = "holdDone" => u.onLocal BY <1>2 DEF HoldOK, AsksHold
  <2>6. AtRest(u, v, l) BY <1>14, <2>1 DEF AtRest
  <2>7. AsksHold(u, v) BY <2>1, <2>2, <2>4, <2>5 DEF AsksHold
  <2>8. AsksUnhold(u, v) BY <1>14, <2>1 DEF AsksUnhold
  <2> QED BY <1>9, <1>10, <1>11, <2>6, <2>7, <2>8 DEF HoldOK
<1>15. CASE t.exchange \in {"unhold", "unholdDone"}
  <2>1. v.exchange = t.exchange /\ v.offer = t.offer BY <1>15
  <2>2. t.on BY <1>15 DEF HoldOK, AsksUnhold
  <2>3. r.request = "unhold" \/ (r.request = "none" /\ ~r.onLocal) BY <1>15 DEF HoldOK, AsksUnhold
  <2>4. u = r BY <1>1, <2>3
  <2>5. AtRest(u, v, l) BY <1>15, <2>1 DEF AtRest
  <2>6. AsksHold(u, v) BY <1>15, <2>1 DEF AsksHold
  <2>7. AsksUnhold(u, v) BY <2>1, <2>2, <2>4 DEF HoldOK, AsksUnhold
  <2> QED BY <1>9, <1>10, <1>11, <2>5, <2>6, <2>7 DEF HoldOK
<1>16. t.exchange # "broken" BY <1>4 DEF Agreed
<1> QED BY <1>3, <1>12, <1>13, <1>14, <1>15, <1>16 DEF Phases
\* What has been negotiated of an offer.
LEMMA NegotiatesSoundly ==
  ASSUME NEW r \in RTPs, NEW t \in Talks, NEW u, NEW w \in RTPs, NEW v \in Talks, NEW d \in SUBSET BothWays,
         HoldOK(r, t, "on"), d \subseteq t.offer, u = CheckHold(r, d, FALSE),
         w.request = "none", SameCourse(u, w), w.bridged = u.bridged, w.media = u.media, w.state = u.state,
         r.state = "ESTABLISHED", "recv" \in t.offer => "recv" \in d, d = {} => r.onLocal,
         t.exchange = "peer" => r.request = "none",
         v.connected = t.connected, v.on = t.on, v.wanted = t.wanted, v.offer = t.offer,
         \/ t.exchange = "hold" /\ v.exchange = "holdDone"
         \/ t.exchange = "unhold" /\ v.exchange = "unholdDone"
         \/ t.exchange = "peer" /\ v.exchange = "peerDone"
  PROVE  HoldOK(w, v, "on")
<1>0. u \in RTPs /\ Checked(r, d, FALSE, u) BY CheckHoldIs
<1>1. Believed(r) /\ Agreed(r, t, "on") BY DEF HoldOK
<1>2. w.direction = d /\ (w.onLocal <=> "recv" \notin d) /\ (w.onRemote <=> "send" \notin d)
  <2>1. u.direction = d /\ (u.onLocal <=> (IF d = {} THEN r.onLocal ELSE d = {"send"})) /\ (u.onRemote <=> "send" \notin d)
    BY <1>0 DEF Checked
  <2>2. d = {} \/ d = {"send"} \/ "recv" \in d BY DEF BothWays
  <2>3. CASE d = {}
    <3>1. r.onLocal /\ "recv" \notin d BY <2>3
    <3>2. u.onLocal BY <2>1, <2>3, <3>1
    <3> QED BY <2>1, <3>1, <3>2 DEF SameCourse
  <2>4. CASE d = {"send"}
    <3>1. "recv" \notin d /\ d # {} BY <2>4
    <3>2. u.onLocal BY <2>1, <2>4, <3>1
    <3> QED BY <2>1, <3>1, <3>2 DEF SameCourse
  <2>5. CASE "recv" \in d
    <3>1. d # {} /\ d # {"send"} BY <2>5
    <3>2. ~u.onLocal BY <2>1, <3>1
    <3> QED BY <2>1, <2>5, <3>2 DEF SameCourse
  <2> QED BY <2>2, <2>3, <2>4, <2>5
<1>3. w.media = r.media /\ w.state = r.state BY <1>0 DEF Checked, SameWay
<1>4. r.media \in {"audio", "video"} BY DEF RTPs
<1>5. w.rec = "active" => (w.recBridged <=> ~w.onLocal /\ ~w.onRemote)
  <2>1. u.rec = "active" => (u.recBridged <=> ~u.onLocal /\ ~u.onRemote) BY <1>0 DEF Checked
  <2> QED BY <2>1 DEF SameCourse
<1>6. r.media = "audio" => (w.bridged <=> r.bridged \/ ((r.onLocal \/ r.direction = {}) /\ d # {} /\ ~w.onLocal /\ r.request # "hold"))
  <2>1. r.media = "audio" =>
          (u.bridged <=> \/ r.bridged
                         \/ /\ FALSE \/ r.onLocal \/ r.direction = {}
                            /\ d # {} /\ ~u.onLocal /\ r.request # "hold")
    BY <1>0 DEF Checked
  <2>2. u.onLocal = w.onLocal BY DEF SameCourse
  <2> QED BY <2>1, <2>2
<1>7. r.media = "video" => (w.bridged <=> (r.bridged \/ (r.onLocal \/ r.onRemote)) /\ ~w.onLocal /\ ~w.onRemote)
  <2>1. r.media = "video" =>
          (u.bridged <=> /\ r.bridged \/ (~u.onLocal /\ ~u.onRemote /\ (r.onLocal \/ r.onRemote))
                         /\ ~u.onLocal /\ ~u.onRemote)
    BY <1>0 DEF Checked
  <2>2. u.onLocal = w.onLocal /\ u.onRemote = w.onRemote BY DEF SameCourse
  <2> QED BY <2>1, <2>2
<1>8. Believed(w) BY <1>2, <1>5 DEF Believed
<1>9. Early(w, v, "on") BY DEF Early
<1>10. Agreed(w, v, "on") BY <1>1, <1>3 DEF Agreed
<1>11. w.onLocal => (w.bridged => r.bridged /\ r.media = "audio") BY <1>4, <1>6, <1>7
<1>12. CASE t.exchange = "hold"
  <2>1. ~t.on /\ "recv" \notin t.offer /\ (t.wanted => (r.media = "audio" => ~r.bridged))
    BY <1>12 DEF HoldOK, AsksHold
  <2>2. w.onLocal BY <1>2, <2>1
  <2>3. t.wanted => ~w.bridged BY <1>4, <1>11, <2>1, <2>2
  <2>4. v.exchange = "holdDone" BY <1>12
  <2>5. AtRest(w, v, "on") BY <2>4 DEF AtRest
  <2>6. AsksHold(w, v) BY <2>1, <2>2, <2>3, <2>4 DEF AsksHold
  <2>7. AsksUnhold(w, v) BY <2>4 DEF AsksUnhold
  <2> QED BY <1>8, <1>9, <1>10, <2>5, <2>6, <2>7 DEF HoldOK
<1>13. CASE t.exchange = "unhold"
  <2>1. t.on /\ "recv" \in t.offer /\ (r.request = "unhold" \/ (r.request = "none" /\ ~r.onLocal /\ Heard(r)))
    BY <1>13 DEF HoldOK, AsksUnhold
  <2>2. "recv" \in d /\ ~w.onLocal BY <1>2, <2>1
  <2>3. r.request = "unhold" => r.onLocal
    <3>1. Believed(r) BY <1>1
    <3> QED BY <3>1 DEF Believed
  <2>4. r.media = "audio" => w.bridged
    <3>1. CASE r.request = "unhold" BY <1>6, <2>2, <2>3, <3>1
    <3>2. CASE r.request = "none" /\ Heard(r) BY <1>6, <3>2 DEF Heard
    <3> QED BY <2>1, <3>1, <3>2
  <2>5. r.media = "video" => w.bridged \/ w.onRemote
    <3>1. CASE r.request = "unhold" BY <1>7, <2>2, <2>3, <3>1
    <3>2. CASE r.request = "none" /\ Heard(r) BY <1>7, <2>2, <3>2 DEF Heard
    <3> QED BY <2>1, <3>1, <3>2
  <2>6. Heard(w) BY <1>3, <1>4, <2>4, <2>5 DEF Heard
  <2>7. v.exchange = "unholdDone" BY <1>13
  <2>8. AtRest(w, v, "on") BY <2>7 DEF AtRest
  <2>9. AsksHold(w, v) BY <2>7 DEF AsksHold
  <2>10. AsksUnhold(w, v) BY <2>1, <2>2, <2>6, <2>7 DEF AsksUnhold
  <2> QED BY <1>8, <1>9, <1>10, <2>8, <2>9, <2>10 DEF HoldOK
<1>14. CASE t.exchange = "peer"
  <2>1. r.request = "none" /\ v.exchange = "peerDone" BY <1>14
  <2>2. /\ t.on => ~r.bridged /\ r.onLocal
        /\ ~t.wanted
        /\ ~t.on => ~r.onLocal /\ Heard(r)
        /\ "recv" \in t.offer <=> ~r.onLocal
    BY <1>14, <2>1 DEF HoldOK, AtRest
  <2>3. t.on => w.onLocal /\ ~w.bridged BY <1>2, <1>11, <2>2
  <2>4. ~t.on => ~w.onLocal /\ Heard(w)
    <3>1. ~t.on => ~w.onLocal BY <1>2, <2>2
    <3>2. ~t.on /\ r.media = "audio" => w.bridged BY <1>6, <2>2 DEF Heard
    <3>3. ~t.on /\ r.media = "video" => w.bridged \/ w.onRemote BY <1>7, <2>2, <3>1 DEF Heard
    <3> QED BY <1>3, <1>4, <3>1, <3>2, <3>3 DEF Heard
  <2>5. AtRest(w, v, "on") BY <2>1, <2>2, <2>3, <2>4 DEF AtRest
  <2>6. AsksHold(w, v) BY <2>1 DEF AsksHold
  <2>7. AsksUnhold(w, v) BY <2>1 DEF AsksUnhold
  <2> QED BY <1>8, <1>9, <1>10, <2>5, <2>6, <2>7 DEF HoldOK
<1> QED BY <1>12, <1>13, <1>14
\* hold(), as a step
LEMMA HoldActs == ASSUME RTPControl, HoldInv, Hold PROVE RTPControl' /\ HoldInv' /\ [Contract!Next]_life
<1>0. rtp \in RTPs /\ talk \in Talks BY DEF RTPControl, RTPTypeOK
<1> DEFINE h == talk.holds + 1
<1>1. h \in Nat BY <1>0 DEF Talks
<1> HIDE DEF h
<1> DEFINE t == [talk EXCEPT !.holds = h, !.wanted = TRUE]
           s == (IF rtp.onLocal /\ rtp.bridged THEN {"again"} ELSE {})
                \cup (IF Audio(rtp) /\ rtp.state = "WAIT_ICE" THEN {"early"} ELSE {})
           u == HeldBy(rtp)
<1>2. /\ life \in {"ready", "starting", "on"} /\ ~talk.on /\ ~talk.wanted /\ life' = life /\ NotesSlips(s)
      /\ \/ HoldRaises(rtp) /\ talk' = t /\ rtp' = rtp
         \/ ~HoldRaises(rtp) /\ talk.connected /\ NoExchange /\ SendsOffer(u, [talk EXCEPT !.holds = h, !.wanted = TRUE], "hold")
         \/ ~HoldRaises(rtp) /\ ~(talk.connected /\ NoExchange) /\ rtp' = u /\ talk' = t
  BY ZenonT(60) DEF Hold, h, NoExchange
<1>3. /\ t \in Talks /\ t.wanted /\ t.connected = talk.connected /\ t.on = talk.on /\ t.exchange = talk.exchange
      /\ t.offer = talk.offer
  BY <1>0, <1>1 DEF Talks
<1>4. u \in RTPs /\ SameWay(rtp, u) BY <1>0, HeldIs
<1>5. SameWay(rtp, rtp) BY DEF SameWay
<1>6. s \subseteq {} => ~(rtp.onLocal /\ rtp.bridged) /\ ~(rtp.media = "audio" /\ rtp.state = "WAIT_ICE") BY DEF Audio
<1>7. u = HeldBy(rtp) OBVIOUS
<1> HIDE DEF s, t, u
<1>8. Going' => HoldOK(rtp, talk, life) /\ s \subseteq {}
  <2> SUFFICES ASSUME Going' PROVE HoldOK(rtp, talk, life) /\ s \subseteq {} OBVIOUS
  <2>1. slips = {} /\ s \subseteq {} BY <1>2, NotesSlipsIs DEF Going
  <2> QED BY <1>2, <2>1 DEF HoldInv, Going
<1>9. CASE HoldRaises(rtp) /\ talk' = t /\ rtp' = rtp
  <2>1. /\ rtp.media = "audio" /\ u # rtp /\ rtp.state = "ESTABLISHED" /\ ~rtp.bridged
    BY <1>7, <1>9 DEF HoldRaises, Audio
  <2>2. ~rtp.onLocal /\ rtp.request # "hold" BY <1>0, <1>7, <2>1, HeldIs
  <2>3. ~Going' BY <1>0, <1>2, <1>8, <2>1, <2>2, BridgedBeforeHold
  <2> QED BY <1>0, <1>2, <1>3, <1>5, <1>9, <2>3, WayGoesOn DEF HoldInv
<1>10. CASE talk.connected /\ NoExchange /\ SendsOffer(u, t, "hold")
  <2>1. /\ rtp' = u /\ talk' \in Talks /\ talk'.connected = t.connected /\ talk'.on = t.on /\ talk'.wanted = t.wanted
        /\ talk'.exchange = "hold" /\ talk'.offer = OfferDirection(u)
    BY <1>3, <1>4, <1>10, SendsOfferIs
  <2>2. talk.exchange = "none" BY <1>10 DEF NoExchange
  <2>3. Going' => HoldOK(u, talk', life)
    BY <1>0, <1>2, <1>3, <1>6, <1>7, <1>8, <1>10, <2>1, <2>2, HoldsSoundly
  <2>4. HoldInv' BY <1>2, <2>1, <2>3 DEF HoldInv
  <2> QED BY <1>2, <1>4, <2>1, <2>4, WayGoesOn
<1>11. CASE ~(talk.connected /\ NoExchange) /\ rtp' = u /\ talk' = t
  <2>1. ~(talk.connected /\ talk.exchange = "none") BY <1>11 DEF NoExchange
  <2>2. Going' => HoldOK(u, t, life)
    BY <1>0, <1>2, <1>3, <1>6, <1>7, <1>8, <2>1, HoldsSoundly
  <2>3. HoldInv' BY <1>2, <1>11, <2>2 DEF HoldInv
  <2> QED BY <1>2, <1>3, <1>4, <1>11, <2>3, WayGoesOn
<1>12. \/ HoldRaises(rtp) /\ talk' = t /\ rtp' = rtp
       \/ talk.connected /\ NoExchange /\ SendsOffer(u, t, "hold")
       \/ ~(talk.connected /\ NoExchange) /\ rtp' = u /\ talk' = t
  BY <1>2, Zenon DEF t
<1> QED BY <1>9, <1>10, <1>11, <1>12, Zenon
LEMMA UnholdActs == ASSUME RTPControl, HoldInv, Unhold PROVE RTPControl' /\ HoldInv' /\ [Contract!Next]_life
<1>0. rtp \in RTPs /\ talk \in Talks BY DEF RTPControl, RTPTypeOK
<1> DEFINE h == talk.holds + 1
<1>1. h \in Nat BY <1>0 DEF Talks
<1> HIDE DEF h
<1> DEFINE t == [talk EXCEPT !.holds = h, !.wanted = FALSE]
           s == (IF rtp.state = "WAIT_ICE" /\ ~rtp.bridged THEN {"early"} ELSE {})
                \cup (IF IsOver("peer") THEN {"forgotten"} ELSE {})
           u == UnheldBy(rtp)
<1>2. /\ life \in {"ready", "starting", "on"} /\ (talk.on \/ talk.wanted) /\ life' = life /\ NotesSlips(s)
      /\ \/ talk.connected /\ NoExchange /\ SendsOffer(u, [talk EXCEPT !.holds = h, !.wanted = FALSE], "unhold")
         \/ ~(talk.connected /\ NoExchange) /\ rtp' = u /\ talk' = t
  BY ZenonT(60) DEF Unhold, h, NoExchange
<1>3. /\ t \in Talks /\ ~t.wanted /\ t.connected = talk.connected /\ t.on = talk.on /\ t.exchange = talk.exchange
      /\ t.offer = talk.offer
  BY <1>0, <1>1 DEF Talks
<1>4. u \in RTPs /\ SameWay(rtp, u) BY <1>0, UnheldIs
<1>6. s \subseteq {} => ~(rtp.state = "WAIT_ICE" /\ ~rtp.bridged) /\ talk.exchange \notin {"peer", "peerDone"}
  BY DEF IsOver, Done
<1>7. u = UnheldBy(rtp) OBVIOUS
<1> HIDE DEF s, t, u
<1>8. Going' => HoldOK(rtp, talk, life) /\ s \subseteq {}
  <2> SUFFICES ASSUME Going' PROVE HoldOK(rtp, talk, life) /\ s \subseteq {} OBVIOUS
  <2>1. slips = {} /\ s \subseteq {} BY <1>2, NotesSlipsIs DEF Going
  <2> QED BY <1>2, <2>1 DEF HoldInv, Going
<1>10. CASE talk.connected /\ NoExchange /\ SendsOffer(u, t, "unhold")
  <2>1. /\ rtp' = u /\ talk' \in Talks /\ talk'.connected = t.connected /\ talk'.on = t.on /\ talk'.wanted = t.wanted
        /\ talk'.exchange = "unhold" /\ talk'.offer = OfferDirection(u)
    BY <1>3, <1>4, <1>10, SendsOfferIs
  <2>2. talk.exchange = "none" BY <1>10 DEF NoExchange
  <2>3. Going' => HoldOK(u, talk', life)
    BY <1>0, <1>2, <1>3, <1>6, <1>7, <1>8, <1>10, <2>1, <2>2, UnholdsSoundly
  <2>4. HoldInv' BY <1>2, <2>1, <2>3 DEF HoldInv
  <2> QED BY <1>2, <1>4, <2>1, <2>4, WayGoesOn
<1>11. CASE ~(talk.connected /\ NoExchange) /\ rtp' = u /\ talk' = t
  <2>1. ~(talk.connected /\ talk.exchange = "none") BY <1>11 DEF NoExchange
  <2>2. Going' => HoldOK(u, t, life)
    BY <1>0, <1>2, <1>3, <1>6, <1>7, <1>8, <2>1, UnholdsSoundly
  <2>3. HoldInv' BY <1>2, <1>11, <2>2 DEF HoldInv
  <2> QED BY <1>2, <1>3, <1>4, <1>11, <2>3, WayGoesOn
<1>12. \/ talk.connected /\ NoExchange /\ SendsOffer(u, t, "unhold")
       \/ ~(talk.connected /\ NoExchange) /\ rtp' = u /\ talk' = t
  BY <1>2, Zenon DEF t
<1> QED BY <1>10, <1>11, <1>12, Zenon
LEMMA ConnectActs == ASSUME RTPControl, HoldInv, Connects PROVE RTPControl' /\ HoldInv' /\ [Contract!Next]_life
<1>0. rtp \in RTPs /\ talk \in Talks BY DEF RTPControl, RTPTypeOK
<1> DEFINE t == [talk EXCEPT !.connected = TRUE]
<1>1. /\ life = "on" /\ rtp.state = "ESTABLISHED" /\ ~talk.connected /\ Quiet
      /\ \/ t.wanted /\ SendsOffer(rtp, t, "hold")
         \/ ~t.wanted /\ talk' = t /\ rtp' = rtp
  BY Zenon DEF Connects, Established
<1>2. life' = life /\ slips' = slips BY <1>1 DEF Quiet
<1>3. /\ t \in Talks /\ t.connected /\ t.on = talk.on /\ t.wanted = talk.wanted /\ t.exchange = talk.exchange
      /\ t.offer = talk.offer
  BY <1>0 DEF Talks
<1> HIDE DEF t
<1>4. SameWay(rtp, rtp) BY DEF SameWay
<1>5. ASSUME Going' PROVE HoldOK(rtp, talk, life) /\ talk.exchange = "none" /\ ~talk.on
  <2>1. HoldOK(rtp, talk, life) BY <1>2, <1>5 DEF HoldInv, Going
  <2>2. Agreed(rtp, talk, life) BY <2>1 DEF HoldOK
  <2> QED BY <1>1, <2>1, <2>2 DEF Agreed
<1>6. CASE t.wanted /\ SendsOffer(rtp, t, "hold")
  <2>1. /\ rtp' = rtp /\ talk' \in Talks /\ talk'.connected = t.connected /\ talk'.on = t.on /\ talk'.wanted = t.wanted
        /\ talk'.exchange = "hold" /\ talk'.offer = OfferDirection(rtp)
    BY <1>0, <1>3, <1>6, SendsOfferIs
  <2>2. ASSUME Going' PROVE HoldOK(rtp, talk', life)
    <3>1. HoldOK(rtp, talk, life) /\ talk.exchange = "none" /\ ~talk.on BY <1>5, <2>2
    <3>2. rtp.request = "hold" /\ (rtp.media = "audio" => ~rtp.bridged)
      BY <1>3, <1>6, <3>1 DEF HoldOK, AtRest
    <3>3. Early(rtp, talk', life) /\ Believed(rtp) BY <1>1, <3>1 DEF HoldOK, Early
    <3>4. ~rtp.onLocal BY <3>2, <3>3 DEF Believed
    <3>5. Agreed(rtp, talk', life) BY <1>1, <1>3, <2>1, <3>1 DEF HoldOK, Agreed
    <3>6. AtRest(rtp, talk', life) BY <2>1 DEF AtRest
    <3>7. "recv" \notin talk'.offer BY <1>0, <2>1, <3>2, OfferIs
    <3>8. AsksHold(rtp, talk') BY <1>3, <1>6, <2>1, <3>1, <3>2, <3>4, <3>7 DEF AsksHold
    <3>9. AsksUnhold(rtp, talk') BY <2>1 DEF AsksUnhold
    <3> QED BY <3>3, <3>5, <3>6, <3>8, <3>9 DEF HoldOK
  <2>3. HoldInv' BY <1>2, <2>1, <2>2 DEF HoldInv
  <2> QED BY <1>0, <1>2, <1>4, <2>1, <2>3, WayGoesOn
<1>7. CASE ~t.wanted /\ talk' = t /\ rtp' = rtp
  <2>1. ASSUME Going' PROVE HoldOK(rtp, t, life)
    <3>1. HoldOK(rtp, talk, life) /\ talk.exchange = "none" /\ ~talk.on BY <1>5, <2>1
    <3>2. Early(rtp, t, life) /\ Believed(rtp) BY <1>1, <3>1 DEF HoldOK, Early
    <3>3. Agreed(rtp, t, life) BY <1>1, <1>3, <1>7, <3>1 DEF HoldOK, Agreed
    <3>4. AtRest(rtp, t, life) BY <1>3, <3>1 DEF HoldOK, AtRest
    <3>5. AsksHold(rtp, t) /\ AsksUnhold(rtp, t) BY <1>3, <3>1 DEF HoldOK, AsksHold, AsksUnhold
    <3> QED BY <3>2, <3>3, <3>4, <3>5 DEF HoldOK
  <2>2. HoldInv' BY <1>2, <1>7, <2>1 DEF HoldInv
  <2> QED BY <1>0, <1>2, <1>3, <1>4, <1>7, <2>2, WayGoesOn
<1> QED BY <1>1, <1>6, <1>7, Zenon
LEMMA PeerOffersSoundly ==
  ASSUME NEW r \in RTPs, NEW t \in Talks, NEW v, HoldOK(r, t, "on"), t.exchange = "none",
         r.state = "ESTABLISHED", t.connected,
         v.exchange = "peer", v.connected = t.connected, v.on = t.on, v.wanted = t.wanted,
         r.request = "none" => ("recv" \in v.offer <=> ~r.onLocal)
  PROVE  HoldOK(r, v, "on")
<1>1. Early(r, v, "on") /\ Believed(r) BY DEF HoldOK, Early
<1>2. Agreed(r, v, "on") BY DEF HoldOK, Agreed
<1>3. AtRest(r, v, "on") BY DEF HoldOK, AtRest
<1>4. AsksHold(r, v) BY DEF AsksHold
<1>5. AsksUnhold(r, v) BY DEF AsksUnhold
<1> QED BY <1>1, <1>2, <1>3, <1>4, <1>5 DEF HoldOK
LEMMA PeerActs == ASSUME RTPControl, HoldInv, PeerOffers PROVE RTPControl' /\ HoldInv' /\ [Contract!Next]_life
<1>0. rtp \in RTPs /\ talk \in Talks BY DEF RTPControl, RTPTypeOK
<1> DEFINE h == talk.offers + 1
<1>1. h \in Nat BY <1>0 DEF Talks
<1> HIDE DEF h
<1> DEFINE t == [talk EXCEPT !.offers = h]
           r == IF Audio(rtp) /\ rtp.direction = {} /\ ~rtp.onLocal THEN CheckHold(rtp, BothWays, FALSE) ELSE rtp
<1>2. /\ life = "on" /\ rtp.state = "ESTABLISHED" /\ talk.connected /\ talk.exchange = "none" /\ Quiet
      /\ \/ talk' = [t EXCEPT !.exchange = "peer", !.offer = AnswerDirection(rtp)] /\ rtp' = rtp
         \/ SendsOffer(r, t, "peer")
  BY ZenonT(60) DEF PeerOffers, Established, NoExchange, h
<1>3. life' = life /\ slips' = slips BY <1>2 DEF Quiet
<1>4. /\ t \in Talks /\ t.connected = talk.connected /\ t.on = talk.on /\ t.wanted = talk.wanted
  BY <1>0, <1>1 DEF Talks
<1>5. r \in RTPs /\ SameWay(rtp, r)
  <2>1. CASE r = rtp BY <1>0, <2>1 DEF SameWay
  <2>2. CASE r = CheckHold(rtp, BothWays, FALSE)
    <3>1. r \in RTPs /\ Checked(rtp, BothWays, FALSE, r) BY <1>0, <2>2, CheckHoldIs
    <3> QED BY <3>1 DEF Checked
  <2> QED BY <2>1, <2>2
<1>6. SameWay(rtp, rtp) BY DEF SameWay
<1>7. ~(rtp.direction = {} /\ ~rtp.onLocal) => r = rtp OBVIOUS
<1> HIDE DEF t, r
<1>8. ASSUME Going' PROVE HoldOK(rtp, talk, "on") /\ r = rtp
  <2>1. HoldOK(rtp, talk, "on") BY <1>2, <1>3, <1>8 DEF HoldInv, Going
  <2>2. Believed(rtp) BY <2>1 DEF HoldOK
  <2>3. rtp.direction = {} => rtp.onLocal BY <2>2 DEF Believed
  <2> QED BY <1>7, <2>1, <2>3
<1>9. CASE talk' = [t EXCEPT !.exchange = "peer", !.offer = AnswerDirection(rtp)] /\ rtp' = rtp
  <2> DEFINE d == AnswerDirection(rtp)
  <2>1. d \in SUBSET BothWays /\ ("recv" \in d <=> "recv" \in rtp.direction) BY <1>0, AnswerIs
  <2>2. talk' = [t EXCEPT !.exchange = "peer", !.offer = d] BY <1>9
  <2> HIDE DEF d
  <2>3. /\ talk' \in Talks /\ talk'.connected = talk.connected /\ talk'.on = talk.on /\ talk'.wanted = talk.wanted
        /\ talk'.exchange = "peer" /\ talk'.offer = d
    BY <1>4, <2>1, <2>2 DEF Talks
  <2>4. ASSUME Going' PROVE HoldOK(rtp, talk', "on")
    <3>1. HoldOK(rtp, talk, "on") BY <1>8, <2>4
    <3>2. Believed(rtp) BY <3>1 DEF HoldOK
    <3>3. "recv" \in talk'.offer <=> ~rtp.onLocal BY <2>1, <2>3, <3>2 DEF Believed
    <3> QED BY <1>0, <1>2, <2>3, <3>1, <3>3, PeerOffersSoundly
  <2>5. HoldInv' BY <1>2, <1>3, <1>9, <2>4 DEF HoldInv
  <2> QED BY <1>0, <1>3, <1>6, <1>9, <2>3, <2>5, WayGoesOn
<1>10. CASE SendsOffer(r, t, "peer")
  <2>1. /\ rtp' = r /\ talk' \in Talks /\ talk'.connected = t.connected /\ talk'.on = t.on /\ talk'.wanted = t.wanted
        /\ talk'.exchange = "peer" /\ talk'.offer = OfferDirection(r)
    BY <1>4, <1>5, <1>10, SendsOfferIs
  <2>2. ASSUME Going' PROVE HoldOK(r, talk', "on")
    <3>1. HoldOK(rtp, talk, "on") /\ r = rtp BY <1>8, <2>2
    <3>2. rtp.request = "none" => ("recv" \in talk'.offer <=> ~rtp.onLocal) BY <1>0, <2>1, <3>1, OfferIs
    <3> QED BY <1>0, <1>2, <1>4, <2>1, <3>1, <3>2, PeerOffersSoundly
  <2>3. HoldInv' BY <1>2, <1>3, <2>1, <2>2 DEF HoldInv
  <2> QED BY <1>3, <1>5, <2>1, <2>3, WayGoesOn
<1> QED BY <1>2, <1>9, <1>10, Zenon DEF r
LEMMA UpdateActs == ASSUME RTPControl, HoldInv, SDPUpdate PROVE RTPControl' /\ HoldInv' /\ [Contract!Next]_life
<1>0. rtp \in RTPs /\ talk \in Talks BY DEF RTPControl, RTPTypeOK
<1>1. life = "on" /\ rtp.state = "ESTABLISHED" /\ talk.exchange \in {"hold", "unhold", "peer"}
  BY Zenon DEF SDPUpdate, Established
<1>2. CASE \E d \in SUBSET talk.offer : Negotiated(d) /\ talk' = [talk EXCEPT !.exchange = Done[talk.exchange]]
  <2>1. PICK d \in SUBSET talk.offer : Negotiated(d) /\ talk' = [talk EXCEPT !.exchange = Done[talk.exchange]]
    BY <1>2, Zenon
  <2>2. talk.offer \in SUBSET BothWays BY <1>0 DEF Talks
  <2>3. d \in SUBSET BothWays /\ d \subseteq talk.offer BY <2>2
  <2> DEFINE u == CheckHold(rtp, d, FALSE)
             e == Done[talk.exchange]
             s == (IF talk.exchange = "peer" /\ rtp.request # "none" THEN {"erased"} ELSE {}) \cup OddWays(d)
  <2>4. /\ talk.exchange = "hold" => e = "holdDone"
        /\ talk.exchange = "unhold" => e = "unholdDone"
        /\ talk.exchange = "peer" => e = "peerDone"
    BY DEF Done
  <2>5. u \in RTPs /\ SameWay(rtp, u)
    <3>1. u \in RTPs /\ Checked(rtp, d, FALSE, u) BY <1>0, <2>3, CheckHoldIs
    <3> QED BY <3>1 DEF Checked
  <2>6. rtp' = [u EXCEPT !.request = "none"] /\ life' = life /\ NotesSlips(s) BY <2>1, Zenon DEF Negotiated
  <2>7. talk' = [talk EXCEPT !.exchange = e] BY <2>1
  <2>8. s \subseteq {} => (talk.exchange = "peer" => rtp.request = "none") /\ OddWays(d) \subseteq {} OBVIOUS
  <2>9. u = CheckHold(rtp, d, FALSE) OBVIOUS
  <2> HIDE DEF u, e, s
  <2>10. /\ rtp' \in RTPs /\ rtp'.request = "none" /\ SameCourse(u, rtp') /\ rtp'.bridged = u.bridged /\ rtp'.media = u.media
         /\ rtp'.state = u.state /\ SameWay(u, rtp')
    BY <2>5, <2>6 DEF RTPs, SameCourse, SameWay
  <2>11. SameWay(rtp, rtp') BY <2>5, <2>10 DEF SameWay
  <2>12. e \in {"holdDone", "unholdDone", "peerDone"} BY <1>1, <2>4
  <2>13. /\ talk' \in Talks /\ talk'.connected = talk.connected /\ talk'.on = talk.on /\ talk'.wanted = talk.wanted
         /\ talk'.offer = talk.offer /\ talk'.exchange = e
    BY <1>0, <2>7, <2>12 DEF Talks
  <2>14. ASSUME Going' PROVE HoldOK(rtp', talk', "on")
    <3>1. slips = {} /\ s \subseteq {} BY <2>6, <2>14, NotesSlipsIs DEF Going
    <3>2. HoldOK(rtp, talk, "on") BY <1>1, <3>1 DEF HoldInv, Going
    <3>3. ("recv" \in talk.offer => "recv" \in d) /\ (d = {} => rtp.onLocal) BY <2>3, <2>8, <3>1, OddWaysAre
    <3> QED BY <1>0, <1>1, <2>3, <2>4, <2>8, <2>9, <2>10, <2>13, <3>1, <3>2, <3>3, NegotiatesSoundly
  <2>15. HoldInv' BY <1>1, <2>6, <2>14 DEF HoldInv
  <2> QED BY <2>6, <2>10, <2>11, <2>13, <2>15, WayGoesOn
<1>3. CASE talk' = [talk EXCEPT !.exchange = "broken"] /\ rtp' = rtp /\ life' = life /\ NotesSlips({"recorder"})
  <2>1. talk' \in Talks BY <1>0, <1>3 DEF Talks
  <2>2. slips' # {} BY <1>3 DEF NotesSlips
  <2>3. SameWay(rtp, rtp) BY DEF SameWay
  <2> QED BY <1>0, <1>3, <2>1, <2>2, <2>3, WayGoesOn DEF HoldInv, Going
<1>4. CASE /\ talk' = [talk EXCEPT !.exchange = "broken"] /\ rtp' = [rtp EXCEPT !.state = "ENDED", !.recBridged = FALSE]
           /\ Tell("DidFail")
  <2>1. talk' \in Talks BY <1>0, <1>4 DEF Talks
  <2>2. rtp' \in RTPs BY <1>0, <1>4 DEF RTPs, RTPStates
  <2>3. rtp'.lookup = rtp.lookup /\ rtp'.waiting = rtp.waiting /\ rtp'.doing = rtp.doing /\ rtp'.state = "ENDED"
    BY <1>0, <1>4 DEF RTPs
  <2>4. life' = "failed" BY <1>1, <1>4, ToldAs DEF Over
  <2>5. OneAtATime(rtp', life') BY <1>1, <2>3, <2>4 DEF RTPControl, OneAtATime, Seeks
  <2> QED BY <1>1, <2>1, <2>2, <2>4, <2>5, LifeMoves DEF RTPControl, RTPTypeOK, HoldInv, Going
<1> QED BY <1>2, <1>3, <1>4, ZenonT(60) DEF SDPUpdate
LEMMA HoldEndActs == ASSUME RTPControl, HoldInv, HoldEnds PROVE RTPControl' /\ HoldInv' /\ [Contract!Next]_life
<1>0. rtp \in RTPs /\ talk \in Talks BY DEF RTPControl, RTPTypeOK
<1> DEFINE t == [talk EXCEPT !.on = TRUE]
           u == UnheldBy(rtp)
<1>1. /\ life = "on" /\ rtp.state = "ESTABLISHED" /\ talk.exchange \in {"hold", "holdDone"} /\ life' = life
      /\ NotesSlips(IF talk.exchange = "hold" /\ rtp.bridged THEN {"refused"} ELSE {})
  BY DEF HoldEnds, Established, IsOver, Done
<1>2. ASSUME Going' PROVE HoldOK(rtp, talk, "on") /\ ~(talk.exchange = "hold" /\ rtp.bridged)
  <2>1. slips = {} /\ ~(talk.exchange = "hold" /\ rtp.bridged) BY <1>1, <1>2 DEF Going, NotesSlips
  <2> QED BY <1>1, <2>1 DEF HoldInv, Going
<1>3. CASE talk.wanted /\ talk' = [talk EXCEPT !.on = TRUE, !.wanted = FALSE, !.exchange = "none"] /\ rtp' = rtp
  <2>1. /\ talk' \in Talks /\ talk'.on /\ ~talk'.wanted /\ talk'.exchange = "none" /\ talk'.connected = talk.connected
        /\ talk'.offer = talk.offer
    BY <1>0, <1>3 DEF Talks
  <2>2. ASSUME Going' PROVE HoldOK(rtp, talk', "on")
    <3>1. HoldOK(rtp, talk, "on") /\ ~(talk.exchange = "hold" /\ rtp.bridged) BY <1>2, <2>2
    <3>2. Early(rtp, talk', "on") /\ Believed(rtp) BY <3>1 DEF HoldOK, Early
    <3>3. talk.connected BY <1>1, <3>1 DEF HoldOK, Agreed
    <3>4. Agreed(rtp, talk', "on") BY <1>1, <2>1, <3>3 DEF Agreed
    <3>5. ~rtp.bridged /\ (rtp.onLocal \/ rtp.request = "hold") BY <1>1, <1>3, <3>1 DEF HoldOK, AsksHold
    <3>6. AtRest(rtp, talk', "on") BY <2>1, <3>5 DEF AtRest
    <3>7. AsksHold(rtp, talk') BY <2>1 DEF AsksHold
    <3>8. AsksUnhold(rtp, talk') BY <2>1 DEF AsksUnhold
    <3> QED BY <3>2, <3>4, <3>6, <3>7, <3>8 DEF HoldOK
  <2>3. HoldInv' BY <1>1, <1>3, <2>2 DEF HoldInv
  <2>4. SameWay(rtp, rtp) BY DEF SameWay
  <2> QED BY <1>0, <1>1, <1>3, <2>1, <2>3, <2>4, WayGoesOn
<1>4. CASE ~talk.wanted /\ SendsOffer(u, t, "unhold")
  <2>1. /\ u \in RTPs /\ SameWay(rtp, u) /\ SameCourse(rtp, u)
        /\ (~rtp.onLocal /\ rtp.request # "hold") \/ rtp.request = "unhold" => u = rtp
        /\ rtp.request = "none" /\ rtp.onLocal => u.request = "unhold" /\ u.bridged = rtp.bridged
    BY <1>0, UnheldIs
  <2>2. t \in Talks /\ t.on /\ t.connected = talk.connected /\ t.wanted = talk.wanted BY <1>0 DEF Talks
  <2> HIDE DEF t, u
  <2>3. /\ rtp' = u /\ talk' \in Talks /\ talk'.connected = t.connected /\ talk'.on = t.on /\ talk'.wanted = t.wanted
        /\ talk'.exchange = "unhold" /\ talk'.offer = OfferDirection(u)
    BY <1>4, <2>1, <2>2, SendsOfferIs
  <2>4. ASSUME Going' PROVE HoldOK(u, talk', "on")
    <3>1. HoldOK(rtp, talk, "on") /\ ~(talk.exchange = "hold" /\ rtp.bridged) BY <1>2, <2>4
    <3>2. Believed(rtp) /\ talk.connected BY <1>1, <3>1 DEF HoldOK, Agreed
    <3>3. talk.exchange = "holdDone" /\ rtp.onLocal BY <1>1, <1>4, <3>1 DEF HoldOK, AsksHold
    <3>4. rtp.request \in {"none", "unhold"}
      <4>1. rtp.request \in {"none", "hold", "unhold"} BY <1>0 DEF RTPs
      <4> QED BY <3>2, <3>3, <4>1 DEF Believed
    <3>5. u.request = "unhold" /\ u.onLocal BY <2>1, <3>3, <3>4 DEF SameCourse
    <3>6. Believed(u) BY <2>1, <3>2, <3>5 DEF Believed, SameCourse
    <3>7. Early(u, talk', "on") BY DEF Early
    <3>8. Agreed(u, talk', "on") BY <1>1, <1>4, <2>1, <2>2, <2>3, <3>2 DEF Agreed, SameWay
    <3>9. AtRest(u, talk', "on") BY <2>3 DEF AtRest
    <3>10. AsksHold(u, talk') BY <2>3 DEF AsksHold
    <3>11. "recv" \in talk'.offer BY <2>1, <2>3, <3>5, OfferIs
    <3>12. AsksUnhold(u, talk') BY <2>2, <2>3, <3>5, <3>11 DEF AsksUnhold
    <3> QED BY <3>6, <3>7, <3>8, <3>9, <3>10, <3>12 DEF HoldOK
  <2>5. HoldInv' BY <1>1, <2>3, <2>4 DEF HoldInv
  <2> QED BY <1>1, <2>1, <2>3, <2>5, WayGoesOn
<1> QED BY <1>3, <1>4, ZenonT(60) DEF HoldEnds
LEMMA OtherEndsAct ==
  ASSUME RTPControl, HoldInv, UnholdEnds \/ PeerEnds
  PROVE  RTPControl' /\ HoldInv' /\ [Contract!Next]_life
<1>0. rtp \in RTPs /\ talk \in Talks BY DEF RTPControl, RTPTypeOK
<1>1. SameWay(rtp, rtp) BY DEF SameWay
<1>2. CASE UnholdEnds
  <2>1. /\ life = "on" /\ rtp.state = "ESTABLISHED" /\ talk.exchange \in {"unhold", "unholdDone"} /\ life' = life
        /\ NotesSlips(IF talk.exchange = "unhold" THEN {"refused"} ELSE {})
    BY <1>2 DEF UnholdEnds, Established, IsOver, Done
  <2>2. ASSUME Going' PROVE HoldOK(rtp, talk, "on") /\ talk.exchange = "unholdDone" /\ ~talk.wanted
    <3>1. slips = {} /\ talk.exchange # "unhold" BY <2>1, <2>2 DEF Going, NotesSlips
    <3>2. HoldOK(rtp, talk, "on") BY <2>1, <3>1 DEF HoldInv, Going
    <3>3. talk.on BY <2>1, <3>2 DEF HoldOK, AsksUnhold
    <3> QED BY <2>1, <3>1, <3>2, <3>3 DEF HoldOK, Agreed
  <2>3. CASE talk' = [talk EXCEPT !.on = FALSE, !.exchange = "broken"] /\ rtp' = rtp /\ talk.wanted
    <3>1. talk' \in Talks BY <1>0, <2>3 DEF Talks
    <3>2. HoldInv' BY <2>2, <2>3 DEF HoldInv
    <3> QED BY <1>0, <1>1, <2>1, <2>3, <3>1, <3>2, WayGoesOn
  <2>4. CASE SendsOffer(HeldBy(rtp), [talk EXCEPT !.on = FALSE], "hold") /\ talk.wanted
    <3> DEFINE u == HeldBy(rtp)
               t == [talk EXCEPT !.on = FALSE]
    <3>1. u \in RTPs /\ SameWay(rtp, u) BY <1>0, HeldIs
    <3>2. t \in Talks BY <1>0 DEF Talks
    <3>3. SendsOffer(u, t, "hold") BY <2>4
    <3> HIDE DEF u, t
    <3>4. rtp' = u /\ talk' \in Talks BY <3>1, <3>2, <3>3, SendsOfferIs
    <3>5. HoldInv' BY <2>2, <2>4 DEF HoldInv
    <3> QED BY <2>1, <3>1, <3>4, <3>5, WayGoesOn
  <2>5. CASE talk' = [talk EXCEPT !.on = FALSE, !.exchange = "none"] /\ rtp' = rtp
    <3>1. /\ talk' \in Talks /\ ~talk'.on /\ talk'.wanted = talk.wanted /\ talk'.exchange = "none"
          /\ talk'.connected = talk.connected
      BY <1>0, <2>5 DEF Talks
    <3>2. ASSUME Going' PROVE HoldOK(rtp, talk', "on")
      <4>1. HoldOK(rtp, talk, "on") /\ talk.exchange = "unholdDone" /\ ~talk.wanted BY <2>2, <3>2
      <4>2. Believed(rtp) BY <4>1 DEF HoldOK
      <4>3. Early(rtp, talk', "on") BY DEF Early
      <4>4. Agreed(rtp, talk', "on") BY <2>1, <3>1, <4>1 DEF Agreed
      <4>5. rtp.request = "none" /\ ~rtp.onLocal /\ Heard(rtp) BY <4>1 DEF HoldOK, AsksUnhold
      <4>6. AtRest(rtp, talk', "on") BY <3>1, <4>1, <4>5 DEF AtRest
      <4>7. AsksHold(rtp, talk') BY <3>1 DEF AsksHold
      <4>8. AsksUnhold(rtp, talk') BY <3>1 DEF AsksUnhold
      <4> QED BY <4>2, <4>3, <4>4, <4>6, <4>7, <4>8 DEF HoldOK
    <3>3. HoldInv' BY <2>1, <2>5, <3>2 DEF HoldInv
    <3> QED BY <1>0, <1>1, <2>1, <2>5, <3>1, <3>3, WayGoesOn
  <2> QED BY <1>2, <2>3, <2>4, <2>5, ZenonT(60) DEF UnholdEnds
<1>3. CASE PeerEnds
  <2>1. /\ life = "on" /\ rtp.state = "ESTABLISHED" /\ talk.exchange \in {"peer", "peerDone"} /\ life' = life /\ rtp' = rtp
        /\ NotesSlips(IF talk.wanted THEN {"forgotten"} ELSE {}) /\ talk' = [talk EXCEPT !.exchange = "none"]
    BY <1>3 DEF PeerEnds, Established, IsOver, Done
  <2>2. /\ talk' \in Talks /\ talk'.on = talk.on /\ talk'.wanted = talk.wanted /\ talk'.exchange = "none"
        /\ talk'.connected = talk.connected
    BY <1>0, <2>1 DEF Talks
  <2>3. ASSUME Going' PROVE HoldOK(rtp, talk', "on")
    <3>1. slips = {} /\ ~talk.wanted BY <2>1, <2>3 DEF Going, NotesSlips
    <3>2. HoldOK(rtp, talk, "on") BY <2>1, <3>1 DEF HoldInv, Going
    <3>3. Believed(rtp) BY <3>2 DEF HoldOK
    <3>4. Early(rtp, talk', "on") BY DEF Early
    <3>5. Agreed(rtp, talk', "on") BY <2>1, <2>2, <3>1, <3>2 DEF HoldOK, Agreed
    <3>6. AtRest(rtp, talk', "on") BY <2>1, <2>2, <3>1, <3>2 DEF HoldOK, AtRest
    <3>7. AsksHold(rtp, talk') BY <2>2 DEF AsksHold
    <3>8. AsksUnhold(rtp, talk') BY <2>2 DEF AsksUnhold
    <3> QED BY <3>3, <3>4, <3>5, <3>6, <3>7, <3>8 DEF HoldOK
  <2>4. HoldInv' BY <2>1, <2>3 DEF HoldInv
  <2> QED BY <1>0, <1>1, <2>1, <2>2, <2>4, WayGoesOn
<1> QED BY <1>2, <1>3
LEMMA RTPGoesOnSoundly == ASSUME RTPInv, RTPNext PROVE RTPInv' /\ [Contract!Next]_life
<1>1. RTPControl /\ HoldInv BY DEF RTPInv
<1>2. RTPControl' /\ HoldInv' /\ [Contract!Next]_life
  BY <1>1, TransportGoesOn, RTPStarts, RTPRuns, RecordingGoesOn, ConnectActs, HoldActs, UnholdActs, PeerActs, UpdateActs,
     HoldEndActs, OtherEndsAct, Zenon
  DEF RTPNext
<1> QED BY <1>2 DEF RTPInv
LEMMA RTPBegins == ASSUME UserInit, RTPInit PROVE RTPInv
<1>1. life = "new" /\ slips = {} BY DEF UserInit
<1>2. PICK media \in {"audio", "video"}, tryIce \in BOOLEAN :
       rtp = [media |-> media, state |-> "NULL", tryIce |-> tryIce, ice |-> "NULL",
              initialized |-> FALSE, done |-> FALSE, servers |-> 0, lookup |-> FALSE,
              waiting |-> FALSE, doing |-> "none", transport |-> FALSE, encryption |-> TRUE,
              direction |-> BothWays, onLocal |-> FALSE, onRemote |-> FALSE, request |-> "none",
              bridged |-> media = "video", rec |-> "none", recBridged |-> FALSE,
              timer |-> "none", recorded |-> FALSE]
  BY Zenon DEF RTPInit
<1> DEFINE b == media = "video"
<1>3. b \in BOOLEAN /\ (b <=> media = "video") BY Zenon
<1>4. rtp = [media |-> media, state |-> "NULL", tryIce |-> tryIce, ice |-> "NULL",
              initialized |-> FALSE, done |-> FALSE, servers |-> 0, lookup |-> FALSE,
              waiting |-> FALSE, doing |-> "none", transport |-> FALSE, encryption |-> TRUE,
              direction |-> BothWays, onLocal |-> FALSE, onRemote |-> FALSE, request |-> "none",
              bridged |-> b, rec |-> "none", recBridged |-> FALSE,
              timer |-> "none", recorded |-> FALSE]
  BY <1>2
<1> HIDE DEF b
<1>5. rtp \in RTPs BY <1>3, <1>4 DEF RTPs, RTPStates
<1>6. /\ rtp.media = media /\ rtp.state = "NULL" /\ ~rtp.lookup /\ ~rtp.waiting /\ rtp.doing = "none"
      /\ rtp.direction = BothWays /\ ~rtp.onLocal /\ ~rtp.onRemote /\ rtp.request = "none" /\ rtp.bridged = b
      /\ rtp.rec = "none"
  BY <1>4
<1>7. talk = [connected |-> FALSE, on |-> FALSE, wanted |-> FALSE, exchange |-> "none", offer |-> BothWays, holds |-> 0, offers |-> 0]
  BY Zenon DEF RTPInit
<1>8. talk \in Talks BY <1>7 DEF Talks
<1>9. ~talk.connected /\ ~talk.on /\ ~talk.wanted /\ talk.exchange = "none" /\ talk.offer = BothWays BY <1>7
<1>10. RTPControl BY <1>1, <1>5, <1>6, <1>8 DEF RTPControl, RTPTypeOK, OneAtATime, Seeks
<1>11. Early(rtp, talk, life) BY <1>1, <1>3, <1>6, <1>9 DEF Early
<1>12. Believed(rtp) BY <1>6 DEF Believed, BothWays
<1>13. Agreed(rtp, talk, life) BY <1>1, <1>9 DEF Agreed
<1>14. AtRest(rtp, talk, life) BY <1>1, <1>6, <1>9 DEF AtRest
<1>15. AsksHold(rtp, talk) BY <1>9 DEF AsksHold
<1>16. AsksUnhold(rtp, talk) BY <1>9 DEF AsksUnhold
<1>17. HoldOK(rtp, talk, life) BY <1>11, <1>12, <1>13, <1>14, <1>15, <1>16 DEF HoldOK
<1> QED BY <1>10, <1>17 DEF RTPInv, HoldInv
LEMMA RTPStays == ASSUME RTPInv, UNCHANGED <<life, slips, rtp, talk>> PROVE RTPInv'
BY DEF RTPInv, RTPControl, RTPTypeOK, OneAtATime, HoldInv, Going, HoldOK, Early, Believed, Agreed, AtRest, AsksHold, AsksUnhold, Heard
LEMMA HoldKept == ASSUME RTPInv PROVE HoldIsKept
<1> SUFFICES ASSUME Established, talk.connected, NoExchange, ~talk.wanted, slips = {}
             PROVE  /\ talk.on => ~rtp.bridged
                    /\ ~talk.on => rtp.bridged \/ rtp.direction = {} \/ (~Audio(rtp) /\ rtp.onRemote)
                    /\ rtp.rec = "active" => (rtp.recBridged <=> ~(rtp.onLocal \/ rtp.onRemote))
  BY Zenon DEF HoldIsKept
<1>1. HoldOK(rtp, talk, life) /\ life = "on" /\ talk.exchange = "none"
  BY DEF RTPInv, HoldInv, Going, Established, NoExchange
<1>2. /\ talk.on => ~rtp.bridged
      /\ ~talk.on => Heard(rtp)
  BY <1>1 DEF HoldOK, AtRest
<1>3. rtp.rec = "active" => (rtp.recBridged <=> ~rtp.onLocal /\ ~rtp.onRemote) BY <1>1 DEF HoldOK, Believed
<1>4. Heard(rtp) => rtp.bridged \/ (~Audio(rtp) /\ rtp.onRemote) BY DEF Heard, Audio
<1> QED BY <1>2, <1>3, <1>4
=============================================================================
