---------------------------- MODULE SequenceFacts ----------------------------
(***************************************************************************)
(* Sequences whose elements need no type: commands that carry whatever was *)
(* published, calls that carry what the engine has told.                   *)
(***************************************************************************)
EXTENDS SequenceTheorems, TLAPS

\* a sequence of whatever there is in it
IsSeq(s) == \E S : s \in Seq(S)

\* Two sequences, one after the other.
LEMMA Joined ==
  ASSUME NEW s, NEW t, IsSeq(s), IsSeq(t)
  PROVE  /\ IsSeq(s \o t) /\ Len(s) \in Nat /\ Len(t) \in Nat /\ Len(s \o t) = Len(s) + Len(t)
         /\ \A i \in 1..(Len(s) + Len(t)) : (s \o t)[i] = IF i <= Len(s) THEN s[i] ELSE t[i - Len(s)]
         /\ t = <<>> => s \o t = s
         /\ s \o t = <<>> => s = <<>> /\ t = <<>>
<1>1. PICK S, T : s \in Seq(S) /\ t \in Seq(T) BY DEF IsSeq
<1>2. s \in Seq(S \cup T) /\ t \in Seq(S \cup T) BY <1>1, SeqMonotonic
<1>3. s \o t \in Seq(S \cup T) BY <1>2
<1>4. Len(s) \in Nat /\ Len(t) \in Nat BY <1>2
<1>5. t = <<>> => s \o t = s BY <1>2, ConcatEmptySeq
<1>6. s \o t = <<>> => s = <<>> /\ t = <<>> BY <1>2, ConcatEqualIffEmpty
<1>7. Len(s \o t) = Len(s) + Len(t) BY <1>2
<1>8. \A i \in 1..(Len(s) + Len(t)) : (s \o t)[i] = IF i <= Len(s) THEN s[i] ELSE t[i - Len(s)]
  BY <1>2, ConcatProperties, Zenon
<1>9. IsSeq(s \o t) BY <1>3 DEF IsSeq
<1> QED BY <1>4, <1>5, <1>6, <1>7, <1>8, <1>9, Zenon
\* A sequence without its first element.
LEMMA WithoutFirst ==
  ASSUME NEW s, IsSeq(s), s # <<>>
  PROVE  /\ IsSeq(Tail(s)) /\ Len(s) \in Nat \ {0} /\ Len(Tail(s)) = Len(s) - 1 /\ Head(s) = s[1]
         /\ \A i \in 1..(Len(s) - 1) : Tail(s)[i] = s[i + 1]
         /\ Tail(s) = <<>> <=> Len(s) = 1
<1>1. PICK S : s \in Seq(S) BY DEF IsSeq
<1>2. Tail(s) \in Seq(S) BY <1>1
<1>3. IsSeq(Tail(s)) BY <1>2 DEF IsSeq
<1>4. Len(s) \in Nat \ {0} BY <1>1, EmptySeq
<1>5. Head(s) = s[1] OBVIOUS
<1>6. Len(Tail(s)) = Len(s) - 1 /\ \A i \in 1..Len(Tail(s)) : Tail(s)[i] = s[i + 1]
  BY <1>1, HeadTailProperties, Zenon
<1>7. Tail(s) = <<>> <=> Len(s) = 1
  <2>1. Tail(s) = <<>> => Len(Tail(s)) = 0 BY EmptySeq
  <2>2. Tail(s) # <<>> => Len(Tail(s)) # 0 BY <1>2, EmptySeq
  <2> QED BY <2>1, <2>2, <1>4, <1>6
<1> QED BY <1>3, <1>4, <1>5, <1>6, <1>7
\* A sequence of one element, and the empty one.
LEMMA One ==
  ASSUME NEW e
  PROVE  IsSeq(<<e>>) /\ Len(<<e>>) = 1 /\ <<e>>[1] = e /\ <<e>> # <<>>
<1>1. <<e>> \in Seq({e}) OBVIOUS
<1> QED BY <1>1 DEF IsSeq
LEMMA Empty == IsSeq(<<>>) /\ Len(<<>>) = 0
<1>1. <<>> \in Seq({}) OBVIOUS
<1> QED BY <1>1 DEF IsSeq
\* One more at the end.
LEMMA OneMore ==
  ASSUME NEW s, NEW e, IsSeq(s)
  PROVE  IsSeq(Append(s, e))
<1>1. PICK S : s \in Seq(S) BY DEF IsSeq
<1>2. s \in Seq(S \cup {e}) BY <1>1, SeqMonotonic
<1>3. Append(s, e) \in Seq(S \cup {e}) BY <1>2
<1> QED BY <1>3 DEF IsSeq
\* What waits in two sequences, one for the other: one passes from the second to the first.
LEMMA OnePasses ==
  ASSUME NEW S, NEW s \in Seq(S), NEW t \in Seq(S), t # <<>>
  PROVE  Append(s, Head(t)) \o Tail(t) = s \o t
<1> DEFINE u == Append(s, Head(t)) \o Tail(t)
           v == s \o t
<1>1. Len(t) \in Nat \ {0} /\ Tail(t) \in Seq(S) /\ Head(t) = t[1] /\ Head(t) \in S
  BY EmptySeq
<1>2. Append(s, Head(t)) \in Seq(S) /\ Len(Append(s, Head(t))) = Len(s) + 1
  BY <1>1
<1>3. Len(Tail(t)) = Len(t) - 1 /\ \A i \in 1..(Len(t) - 1) : Tail(t)[i] = t[i + 1]
  BY <1>1
<1>4. u \in Seq(S) /\ v \in Seq(S) BY <1>1, <1>2
<1>5. Len(u) = Len(v) BY <1>1, <1>2, <1>3
<1>6. \A i \in 1..Len(v) : u[i] = v[i]
  <2> SUFFICES ASSUME NEW i \in 1..Len(v) PROVE u[i] = v[i] OBVIOUS
  <2>1. CASE i <= Len(s) BY <2>1, <1>1, <1>2
  <2>2. CASE i = Len(s) + 1 BY <2>2, <1>1, <1>2
  <2>3. CASE i > Len(s) + 1 BY <2>3, <1>1, <1>2, <1>3
  <2> QED BY <2>1, <2>2, <2>3, <1>1
<1> HIDE DEF u, v
<1>7. u = v BY <1>4, <1>5, <1>6, SeqEqual
<1> QED BY <1>7 DEF u, v
\* ... one leaves,
LEMMA FirstLeaves ==
  ASSUME NEW S, NEW s \in Seq(S), NEW t \in Seq(S), s # <<>>
  PROVE  Tail(s) \o t = Tail(s \o t) /\ s \o t # <<>> /\ (s \o t)[1] = Head(s)
<1> DEFINE u == Tail(s) \o t
           v == Tail(s \o t)
<1>1. Len(s) \in Nat \ {0} /\ Tail(s) \in Seq(S) /\ Head(s) = s[1] /\ Len(t) \in Nat
  BY EmptySeq
<1>2. s \o t \in Seq(S) /\ Len(s \o t) = Len(s) + Len(t) BY <1>1
<1>3. s \o t # <<>> BY <1>1, <1>2, EmptySeq
<1>4. (s \o t)[1] = Head(s) BY <1>1
<1>5. u \in Seq(S) /\ v \in Seq(S) BY <1>1, <1>2, <1>3
<1>6. Len(Tail(s)) = Len(s) - 1 /\ \A i \in 1..(Len(s) - 1) : Tail(s)[i] = s[i + 1]
  BY <1>1
<1>7. Len(v) = Len(s) + Len(t) - 1 /\ \A i \in 1..(Len(s) + Len(t) - 1) : v[i] = (s \o t)[i + 1]
  BY <1>1, <1>2, <1>3
<1>8. Len(u) = Len(v) BY <1>1, <1>6, <1>7
<1>9. \A i \in 1..Len(v) : u[i] = v[i]
  <2> SUFFICES ASSUME NEW i \in 1..Len(v) PROVE u[i] = v[i] OBVIOUS
  <2>1. CASE i <= Len(s) - 1 BY <2>1, <1>1, <1>6, <1>7
  <2>2. CASE i > Len(s) - 1 BY <2>2, <1>1, <1>6, <1>7
  <2> QED BY <2>1, <2>2, <1>1, <1>7
<1> HIDE DEF u, v
<1>10. u = v BY <1>5, <1>8, <1>9, SeqEqual
<1> QED BY <1>3, <1>4, <1>10 DEF u, v
\* ... and one comes.
LEMMA LastComes ==
  ASSUME NEW S, NEW s \in Seq(S), NEW t \in Seq(S), NEW e \in S
  PROVE  s \o Append(t, e) = Append(s \o t, e)
<1> DEFINE u == s \o Append(t, e)
           v == Append(s \o t, e)
<1>1. Append(t, e) \in Seq(S) /\ s \o t \in Seq(S) /\ Len(s) \in Nat /\ Len(t) \in Nat OBVIOUS
<1>2. u \in Seq(S) /\ v \in Seq(S) BY <1>1
<1>3. Len(u) = Len(v) BY <1>1
<1>4. \A i \in 1..Len(v) : u[i] = v[i] BY <1>1
<1> HIDE DEF u, v
<1>5. u = v BY <1>2, <1>3, <1>4, SeqEqual
<1> QED BY <1>5 DEF u, v

\* Of what is in L there is at most one in a sequence, or none.
AtMostOne(s, L) == \A i, j \in DOMAIN s : s[i] \in L /\ s[j] \in L => i = j
NoneOf(s, L) == \A i \in DOMAIN s : s[i] \notin L

\* One more at the end: it may be the only one.
LEMMA OnlyOneCame ==
  ASSUME NEW S, NEW s \in Seq(S), NEW e \in S, NEW L
  PROVE  /\ NoneOf(s, L) => AtMostOne(Append(s, e), L)
         /\ AtMostOne(s, L) /\ e \notin L => AtMostOne(Append(s, e), L)
         /\ NoneOf(s, L) /\ e \notin L => NoneOf(Append(s, e), L)
         /\ ~NoneOf(s, L) => ~NoneOf(Append(s, e), L)
<1>1. /\ Len(s) \in Nat /\ DOMAIN Append(s, e) = 1..(Len(s) + 1) /\ DOMAIN s = 1..Len(s)
      /\ \A i \in 1..(Len(s) + 1) : Append(s, e)[i] = IF i = Len(s) + 1 THEN e ELSE s[i]
  OBVIOUS
<1> QED BY <1>1 DEF AtMostOne, NoneOf
\* The first leaves: if it was the one there is none left.
LEMMA OnlyOneLeft ==
  ASSUME NEW S, NEW s \in Seq(S), s # <<>>, NEW L
  PROVE  /\ AtMostOne(s, L) => AtMostOne(Tail(s), L)
         /\ NoneOf(s, L) => NoneOf(Tail(s), L)
         /\ AtMostOne(s, L) /\ Head(s) \in L => NoneOf(Tail(s), L)
         /\ ~NoneOf(Tail(s), L) => ~NoneOf(s, L)
<1>1. /\ Len(s) \in Nat \ {0} /\ DOMAIN Tail(s) = 1..(Len(s) - 1) /\ DOMAIN s = 1..Len(s) /\ Head(s) = s[1]
      /\ \A i \in 1..(Len(s) - 1) : Tail(s)[i] = s[i + 1]
  BY EmptySeq
<1> QED BY <1>1 DEF AtMostOne, NoneOf
=============================================================================
