------------------------------ MODULE DataFacts -----------------------------
(***************************************************************************)
(* Induction on the natural numbers, told of a set and not of a predicate, *)
(* as the prover cannot be handed a predicate; that a recursion from step  *)
(* to step defines a function; and the parts of a sequence.                *)
(***************************************************************************)
EXTENDS SequencesExt, Integers, WellFoundedInduction, NaturalsInduction, FiniteSetTheorems,
  FunctionTheorems, SequenceTheorems, TLAPS

LEMMA SetInduction ==
  ASSUME NEW S, 0 \in S, \A n \in S \cap Nat : n + 1 \in S
  PROVE  Nat \subseteq S
<1> DEFINE Left == Nat \ S
<1> SUFFICES ASSUME Left # {} PROVE FALSE
  OBVIOUS
<1>1. PICK m \in Left : \A k \in Left : <<k, m>> \notin OpToRel(<, Nat)
  <2>1. Left \subseteq Nat
    OBVIOUS
  <2> HIDE DEF Left
  <2> QED
    BY <2>1, NatLessThanWellFounded, WFMin
<1>2. m - 1 \in Nat
  OBVIOUS
<1>3. <<m - 1, m>> \in OpToRel(<, Nat)
  BY <1>2 DEF OpToRel
<1>4. m - 1 \in S \cap Nat
  BY <1>1, <1>2, <1>3
<1>5. (m - 1) + 1 \in S
  BY <1>4
<1> QED
  BY <1>2, <1>5

\* There is a function that begins with base and goes on as next says.
LEMMA Recursion ==
  ASSUME NEW base \in Nat, NEW next \in [Nat \X Nat -> Nat], NEW n \in Nat
  PROVE  \E f \in [0..n -> Nat] : f[0] = base /\ \A i \in 1..n : f[i] = next[<<i, f[i - 1]>>]
<1> DEFINE Is(f, m) == f[0] = base /\ \A i \in 1..m : f[i] = next[<<i, f[i - 1]>>]
           Reached == {m \in Nat : \E f \in [0..m -> Nat] : Is(f, m)}
<1>1. 0 \in Reached
  <2>1. [i \in 0..0 |-> base] \in [0..0 -> Nat] /\ Is([i \in 0..0 |-> base], 0)
    OBVIOUS
  <2> QED
    BY <2>1
<1>2. \A m \in Reached \cap Nat : m + 1 \in Reached
  <2> TAKE m \in Reached \cap Nat
  <2>0. PICK f \in [0..m -> Nat] : Is(f, m)
    OBVIOUS
  <2> DEFINE g == [i \in 0..(m + 1) |-> IF i = m + 1 THEN next[<<m + 1, f[m]>>] ELSE f[i]]
  <2>1. f[m] \in Nat /\ next[<<m + 1, f[m]>>] \in Nat
    OBVIOUS
  <2>2. g \in [0..(m + 1) -> Nat]
    BY <2>1
  <2>3. \A i \in 0..m : g[i] = f[i] /\ i # m + 1
    OBVIOUS
  <2>4. g[m + 1] = next[<<m + 1, g[m]>>]
    <3>1. g[m + 1] = next[<<m + 1, f[m]>>]
      OBVIOUS
    <3>2. g[m] = f[m]
      BY <2>3
    <3> QED
      BY <3>1, <3>2
  <2>5. ASSUME NEW i \in 1..m PROVE g[i] = next[<<i, g[i - 1]>>]
    <3>1. i \in 0..m /\ i - 1 \in 0..m
      OBVIOUS
    <3>2. g[i] = f[i] /\ g[i - 1] = f[i - 1]
      BY <2>3, <3>1
    <3>3. f[i] = next[<<i, f[i - 1]>>]
      BY <2>0
    <3> QED
      BY <3>2, <3>3
  <2>6. g[0] = base
    BY <2>0, <2>3
  <2> HIDE DEF g
  <2>7. ASSUME NEW i \in 1..(m + 1) PROVE g[i] = next[<<i, g[i - 1]>>]
    <3>1. CASE i = m + 1
      <4>1. i - 1 = m
        BY <3>1
      <4> QED
        BY <2>4, <3>1, <4>1
    <3>2. CASE i # m + 1
      <4>1. i \in 1..m
        BY <3>2
      <4> QED
        BY <2>5, <4>1
    <3> QED
      BY <3>1, <3>2
  <2> HIDE DEF Is
  <2>8. Is(g, m + 1)
    BY <2>6, <2>7 DEF Is
  <2> QED
    BY <2>2, <2>8
<1> HIDE DEF Reached
<1>3. Nat \subseteq Reached
  BY <1>1, <1>2, SetInduction
<1> QED
  BY <1>3 DEF Reached

\* A function that begins with a natural number and does not leave them from one step to the next.
LEMMA RecursionStays ==
  ASSUME NEW n \in Nat, NEW f, f[0] \in Nat, \A i \in 1..n : f[i - 1] \in Nat => f[i] \in Nat
  PROVE  \A i \in 0..n : f[i] \in Nat
<1> DEFINE Good == {m \in Nat : m <= n => f[m] \in Nat}
<1>1. 0 \in Good
  OBVIOUS
<1>2. ASSUME NEW m \in Good \cap Nat PROVE m + 1 \in Good
  <2> SUFFICES ASSUME m + 1 <= n PROVE f[m + 1] \in Nat
    OBVIOUS
  <2>1. m + 1 \in 1..n /\ (m + 1) - 1 = m /\ f[m] \in Nat
    OBVIOUS
  <2> QED
    BY <2>1
<1> HIDE DEF Good
<1>3. Nat \subseteq Good
  BY <1>1, <1>2, SetInduction
<1> QED
  BY <1>3 DEF Good

\* Some of the natural numbers have a least.
LEMMA LeastOfNats ==
  ASSUME NEW S \in SUBSET Nat, S # {}
  PROVE  \E x \in S : \A y \in S : x <= y
<1> DEFINE HasLeast == \E x \in S : \A y \in S : x <= y
           Above == {n \in Nat : HasLeast \/ \A y \in S : n <= y}
<1>1. 0 \in Above
  OBVIOUS
<1>2. ASSUME NEW n \in Above \cap Nat PROVE n + 1 \in Above
  <2>1. CASE HasLeast
    <3> HIDE DEF HasLeast
    <3> QED
      BY <2>1
  <2>2. CASE ~HasLeast
    <3>1. \A y \in S : n <= y
      <4> HIDE DEF HasLeast
      <4> QED
        BY <2>2
    <3>2. n \notin S
      BY <2>2, <3>1
    <3>3. \A y \in S : n + 1 <= y
      BY <3>1, <3>2
    <3> HIDE DEF HasLeast
    <3> QED
      BY <3>3
  <2> QED
    BY <2>1, <2>2
<1>3. Nat \subseteq Above
  <2> HIDE DEF Above
  <2> QED
    BY <1>1, <1>2, SetInduction
<1>4. PICK m \in S : TRUE
  OBVIOUS
<1>5. HasLeast
  <2> HIDE DEF HasLeast, Above
  <2>1. m \in Nat /\ m + 1 \in Nat /\ ~(m + 1 <= m)
    BY <1>4
  <2>2. m + 1 \in Above
    BY <1>3, <2>1
  <2> QED
    BY <1>4, <2>1, <2>2 DEF Above
<1> QED
  BY <1>5

-----------------------------------------------------------------------------
(* Sequences.                                                               *)

LEMMA SeqPrefixIs ==
  ASSUME NEW Part, NEW s \in Seq(Part), NEW t \in Seq(Part)
  PROVE  IsPrefix(s, t) <=> Len(s) <= Len(t) /\ \A i \in 1..Len(s) : s[i] = t[i]
<1>1. Len(s) \in Nat /\ Len(t) \in Nat /\ s \in [1..Len(s) -> Part] /\ t \in [1..Len(t) -> Part]
  BY LenProperties
<1>2. ASSUME Len(s) <= Len(t)
      PROVE  /\ SubSeq(s, 1, Len(s)) \in Seq(Part) /\ Len(SubSeq(s, 1, Len(s))) = Len(s)
             /\ \A i \in 1..Len(s) : SubSeq(s, 1, Len(s))[i] = s[i]
             /\ SubSeq(t, 1, Len(s)) \in Seq(Part) /\ Len(SubSeq(t, 1, Len(s))) = Len(s)
             /\ \A i \in 1..Len(s) : SubSeq(t, 1, Len(s))[i] = t[i]
  BY <1>1, <1>2
<1>3. ASSUME Len(s) <= Len(t), \A i \in 1..Len(s) : s[i] = t[i]
      PROVE  SubSeq(s, 1, Len(s)) = SubSeq(t, 1, Len(s))
  BY <1>2, <1>3, SeqEqual
<1> QED
  BY <1>2, <1>3 DEF IsPrefix

LEMMA SeqJoinIs ==
  ASSUME NEW Part, NEW s \in Seq(Part), NEW t \in Seq(Part)
  PROVE  /\ s \o t \in Seq(Part)
         /\ Len(s) \in Nat /\ Len(t) \in Nat /\ Len(s \o t) = Len(s) + Len(t)
         /\ \A i \in 1..Len(s) : (s \o t)[i] = s[i]
         /\ \A i \in 1..Len(t) : (s \o t)[Len(s) + i] = t[i]
<1>1. Len(s) \in Nat /\ Len(t) \in Nat
  BY LenProperties
<1> QED
  BY <1>1, ConcatProperties

\* What is left of a sequence after its beginning.
LEMMA SeqCutIs ==
  ASSUME NEW Part, NEW s \in Seq(Part), NEW t \in Seq(Part)
  PROVE  IsPrefix(s, s \o t) /\ SubSeq(s \o t, Len(s) + 1, Len(s \o t)) = t
<1> DEFINE whole == s \o t
           cut == SubSeq(whole, Len(s) + 1, Len(whole))
<1>1. /\ whole \in Seq(Part) /\ Len(s) \in Nat /\ Len(t) \in Nat /\ Len(whole) = Len(s) + Len(t)
      /\ \A i \in 1..Len(s) : whole[i] = s[i]
      /\ \A i \in 1..Len(t) : whole[Len(s) + i] = t[i]
  BY SeqJoinIs
<1> HIDE DEF whole
<1>2. IsPrefix(s, whole)
  BY <1>1, SeqPrefixIs
<1>3. \A i \in (Len(s) + 1)..Len(whole) : whole[i] \in Part
  BY <1>1, LenProperties
<1>4. /\ cut \in Seq(Part)
      /\ Len(cut) = IF Len(s) + 1 <= Len(whole) THEN Len(whole) - (Len(s) + 1) + 1 ELSE 0
      /\ \A i \in 1..(Len(whole) - (Len(s) + 1) + 1) : cut[i] = whole[(Len(s) + 1) + i - 1]
  <2> DEFINE from == Len(s) + 1
             to == Len(whole)
  <2>1. from \in Int /\ to \in Int /\ \A i \in from..to : whole[i] \in Part
    BY <1>1, <1>3
  <2> HIDE DEF from, to
  <2>2. /\ SubSeq(whole, from, to) \in Seq(Part)
        /\ Len(SubSeq(whole, from, to)) = IF from <= to THEN to - from + 1 ELSE 0
        /\ \A i \in 1..(to - from + 1) : SubSeq(whole, from, to)[i] = whole[from + i - 1]
    BY <2>1, SubSeqProperties
  <2> QED
    BY <2>2 DEF from, to
<1> HIDE DEF cut
<1>5. Len(cut) = Len(t)
  BY <1>1, <1>4
<1>6. \A i \in 1..Len(t) : cut[i] = t[i]
  <2> SUFFICES ASSUME NEW i \in 1..Len(t) PROVE cut[i] = t[i]
    OBVIOUS
  <2>1. i \in 1..(Len(whole) - (Len(s) + 1) + 1) /\ (Len(s) + 1) + i - 1 = Len(s) + i
    BY <1>1
  <2> QED
    BY <1>1, <1>4, <2>1
<1>7. cut = t
  BY <1>4, <1>5, <1>6, SeqEqual
<1> QED
  BY <1>2, <1>7 DEF cut, whole

\* The beginning of a sequence.
LEMMA SeqFrontIs ==
  ASSUME NEW Part, NEW s \in Seq(Part), NEW n \in 0..Len(s)
  PROVE  /\ SubSeq(s, 1, n) \in Seq(Part)
         /\ Len(SubSeq(s, 1, n)) = n
         /\ \A i \in 1..n : SubSeq(s, 1, n)[i] = s[i]
<1>1. Len(s) \in Nat /\ \A i \in 1..n : s[i] \in Part
  BY LenProperties
<1>2. /\ SubSeq(s, 1, n) \in Seq(Part)
      /\ Len(SubSeq(s, 1, n)) = IF 1 <= n THEN n - 1 + 1 ELSE 0
      /\ \A i \in 1..(n - 1 + 1) : SubSeq(s, 1, n)[i] = s[1 + i - 1]
  BY <1>1, SubSeqProperties
<1> QED
  BY <1>1, <1>2

\* SetToSeq has each element of a finite set once.
LEMMA SetToSeqIs ==
  ASSUME NEW S, IsFiniteSet(S)
  PROVE  /\ SetToSeq(S) \in Seq(S)
         /\ \A i, j \in 1..Len(SetToSeq(S)) : SetToSeq(S)[i] = SetToSeq(S)[j] => i = j
         /\ \A x \in S : \E i \in 1..Len(SetToSeq(S)) : SetToSeq(S)[i] = x
<1> DEFINE n == Cardinality(S)
           s == SetToSeq(S)
<1>1. n \in Nat /\ ExistsBijection(1..n, S)
  BY FS_CardinalityType
<1>2. PICK f : f \in Injection(1..n, S)
  BY <1>1 DEF ExistsBijection, Bijection
<1>3. f \in [1..n -> S] /\ IsInjective(f)
  BY <1>2 DEF Injection
<1>4. s = CHOOSE g \in [1..n -> S] : IsInjective(g)
  BY DEF SetToSeq
<1> HIDE DEF n, s
<1>5. s \in [1..n -> S] /\ IsInjective(s)
  BY <1>3, <1>4
<1>6. s \in Injection(1..n, S)
  BY <1>5 DEF Injection
<1>7. IsFiniteSet(1..n) /\ Cardinality(1..n) = n
  <2>1. IsFiniteSet(1..n) /\ Cardinality(1..n) = IF 1 > n THEN 0 ELSE n - 1 + 1
    BY <1>1, FS_Interval
  <2> QED
    BY <1>1, <2>1
<1>8. s \in Surjection(1..n, S)
  BY <1>6, <1>7, FS_Injection DEF n
<1>9. s \in Seq(S) /\ Len(s) = n
  BY <1>1, <1>5
<1>10. DOMAIN s = 1..n
  BY <1>5
<1> QED
  BY <1>5, <1>8, <1>9, <1>10 DEF s, IsInjective, Surjection
=============================================================================
