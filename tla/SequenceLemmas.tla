--------------------------- MODULE SequenceLemmas ---------------------------
(***************************************************************************)
(* What a sequence that is used as a queue holds after an element is       *)
(* appended or its head is taken, and that it goes on holding each element *)
(* at most once.                                                           *)
(***************************************************************************)
EXTENDS Integers, Sequences, TLAPS

In(s, x) == \E i \in DOMAIN s : s[i] = x
Distinct(s) == \A i, j \in DOMAIN s : s[i] = s[j] => i = j

\* A sequence over S stays one when an element of S is appended.
LEMMA AppendType ==
    ASSUME NEW S, NEW s \in Seq(S), NEW e \in S
    PROVE  Append(s, e) \in Seq(S)
OBVIOUS

\* The elements of a sequence over S are in S.
LEMMA MemberType ==
    ASSUME NEW S, NEW s \in Seq(S), NEW i \in DOMAIN s
    PROVE  s[i] \in S
OBVIOUS

\* Append adds its element, and keeps the elements distinct if it is new.
LEMMA InAppend ==
    ASSUME NEW S, NEW s \in Seq(S), NEW e \in S
    PROVE  /\ \A x : In(Append(s, e), x) <=> In(s, x) \/ x = e
           /\ Distinct(s) /\ ~In(s, e) => Distinct(Append(s, e))
<1>1. /\ Len(Append(s, e)) = Len(s) + 1 /\ Len(s) \in Nat
      /\ DOMAIN s = 1 .. Len(s) /\ DOMAIN Append(s, e) = 1 .. Len(s) + 1
      /\ \A i \in 1 .. Len(s) : Append(s, e)[i] = s[i]
      /\ Append(s, e)[Len(s) + 1] = e
  OBVIOUS
<1>2. \A i : i \in 1 .. Len(s) + 1 <=> i \in 1 .. Len(s) \/ i = Len(s) + 1
  BY <1>1
<1>3. Len(s) + 1 \notin 1 .. Len(s)
  BY <1>1
<1>4. ASSUME NEW x PROVE In(Append(s, e), x) <=> In(s, x) \/ x = e
  BY <1>1, <1>2, Zenon DEF In
<1>5. Distinct(s) /\ ~In(s, e) => Distinct(Append(s, e))
  BY <1>1, <1>2, <1>3, Zenon DEF In, Distinct
<1> QED
  BY <1>4, <1>5

\* Taking the head takes that element, once and for all if elements are distinct.
LEMMA InTail ==
    ASSUME NEW S, NEW s \in Seq(S), s # <<>>
    PROVE  /\ \A x : In(s, x) <=> In(Tail(s), x) \/ x = Head(s)
           /\ Distinct(s) => Distinct(Tail(s)) /\ ~In(Tail(s), Head(s))
           /\ Head(s) \in S /\ Tail(s) \in Seq(S)
<1>1. /\ Len(s) \in Nat /\ Len(s) >= 1 /\ Len(Tail(s)) = Len(s) - 1
      /\ DOMAIN s = 1 .. Len(s) /\ DOMAIN Tail(s) = 1 .. Len(s) - 1
      /\ Head(s) = s[1] /\ Tail(s) \in Seq(S) /\ s[1] \in S
  OBVIOUS
<1>2. \A i \in 1 .. Len(s) - 1 : Tail(s)[i] = s[i + 1] /\ i + 1 \in 1 .. Len(s) /\ i + 1 # 1
  BY <1>1
<1>3. \A i \in 1 .. Len(s) : i = 1 \/ \E j \in 1 .. Len(s) - 1 : i = j + 1
  <2> SUFFICES ASSUME NEW i \in 1 .. Len(s), i # 1 PROVE \E j \in 1 .. Len(s) - 1 : i = j + 1
    OBVIOUS
  <2>1. i - 1 \in 1 .. Len(s) - 1 /\ i = (i - 1) + 1
    BY <1>1
  <2> QED
    BY <2>1
<1>4. 1 \in 1 .. Len(s)
  BY <1>1
<1>5. ASSUME NEW x PROVE In(s, x) <=> In(Tail(s), x) \/ x = Head(s)
  <2>1. ASSUME NEW i \in 1 .. Len(s), s[i] = x PROVE In(Tail(s), x) \/ x = Head(s)
    <3>1. CASE i = 1
      BY <1>1, <2>1, <3>1
    <3>2. CASE i # 1
      <4>1. PICK j \in 1 .. Len(s) - 1 : i = j + 1
        BY <1>3, <3>2
      <4> QED
        BY <1>1, <1>2, <2>1, <4>1 DEF In
    <3> QED
      BY <3>1, <3>2
  <2>2. In(Tail(s), x) \/ x = Head(s) => In(s, x)
    BY <1>1, <1>2, <1>4, Zenon DEF In
  <2> QED
    BY <1>1, <2>1, <2>2 DEF In
<1>6. Distinct(s) => Distinct(Tail(s))
  <2> SUFFICES ASSUME Distinct(s), NEW i \in 1 .. Len(s) - 1, NEW j \in 1 .. Len(s) - 1,
                      Tail(s)[i] = Tail(s)[j]
               PROVE  i = j
    BY <1>1 DEF Distinct
  <2>1. i + 1 = j + 1
    BY <1>1, <1>2 DEF Distinct
  <2> QED
    BY <2>1
<1>7. Distinct(s) => ~In(Tail(s), Head(s))
  BY <1>1, <1>2, <1>4, Zenon DEF In, Distinct
<1> QED
  BY <1>1, <1>5, <1>6, <1>7
=============================================================================
