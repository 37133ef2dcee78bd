--------------------------- MODULE SelectionProofs ---------------------------
(***************************************************************************)
(* What Nth and Pick of Selection return.                                  *)
(*                                                                         *)
(* None of it takes an induction: the rank of a member, that is the number *)
(* of smaller ones, is an injection of S into 0 .. Cardinality(S) - 1, and *)
(* an injection between finite sets of one cardinality is onto.            *)
(***************************************************************************)
EXTENDS Selection, FiniteSetTheorems, TLAPS

\* How many members of S stand before x.
Rank(S, x) == Cardinality({j \in S : j < x})

\* A member's rank is below the cardinality.
LEMMA RankRange ==
    ASSUME NEW S, S \subseteq Nat, IsFiniteSet(S), NEW x \in S
    PROVE  /\ Cardinality(S) \in Nat
           /\ Rank(S, x) \in 0 .. Cardinality(S) - 1
<1> DEFINE B == {j \in S : j < x}
<1>1. Cardinality(S) \in Nat
  BY FS_CardinalityType
<1>2. B \in SUBSET S /\ x \notin B /\ B # S
  OBVIOUS
<1>3. IsFiniteSet(B) /\ Cardinality(B) <= Cardinality(S) /\ (Cardinality(S) = Cardinality(B) => S = B)
  BY <1>2, FS_Subset
<1>4. Cardinality(B) \in Nat
  BY <1>3, FS_CardinalityType
<1> HIDE DEF B
<1>5. Cardinality(B) \in 0 .. Cardinality(S) - 1
  BY <1>1, <1>2, <1>3, <1>4
<1> QED BY <1>1, <1>5 DEF Rank, B

\* Rank is strictly monotonic.
LEMMA RankMonotonic ==
    ASSUME NEW S, S \subseteq Nat, IsFiniteSet(S), NEW x \in S, NEW y \in S, x < y
    PROVE  Rank(S, x) < Rank(S, y)
<1> DEFINE B == {j \in S : j < x}
           C == {j \in S : j < y}
<1>1. B \in SUBSET C /\ x \in C /\ x \notin B /\ C \in SUBSET S
  <2>1. \A j \in S : j \in Nat
    OBVIOUS
  <2>2. \A j \in S : j < x => j < y
    BY <2>1
  <2>3. ~(x < x)
    BY <2>1
  <2> QED BY <2>2, <2>3
<1>2. IsFiniteSet(C)
  BY <1>1, FS_Subset
<1>3. IsFiniteSet(B) /\ Cardinality(B) <= Cardinality(C) /\ (Cardinality(C) = Cardinality(B) => C = B)
  BY <1>1, <1>2, FS_Subset
<1>4. Cardinality(B) \in Nat /\ Cardinality(C) \in Nat
  BY <1>2, <1>3, FS_CardinalityType
<1> HIDE DEF B, C
<1>5. Cardinality(B) < Cardinality(C)
  BY <1>1, <1>3, <1>4
<1> QED BY <1>5 DEF Rank, B, C

\* Two members of one rank are one.
LEMMA RankInjective ==
    ASSUME NEW S, S \subseteq Nat, IsFiniteSet(S), NEW x \in S, NEW y \in S,
           Rank(S, x) = Rank(S, y)
    PROVE  x = y
<1>1. x \in Nat /\ y \in Nat
  OBVIOUS
<1>2. Cardinality(S) \in Nat /\ Rank(S, x) \in 0 .. Cardinality(S) - 1
  BY RankRange
<1>3. Rank(S, x) \in Nat
  BY <1>2
<1>4. x < y => Rank(S, x) < Rank(S, y)
  BY RankMonotonic
<1>5. y < x => Rank(S, y) < Rank(S, x)
  BY RankMonotonic
<1> QED BY <1>1, <1>3, <1>4, <1>5

\* Every rank below the cardinality is some member's.
LEMMA RankOnto ==
    ASSUME NEW S, S \subseteq Nat, IsFiniteSet(S), NEW r \in 0 .. Cardinality(S) - 1
    PROVE  \E x \in S : Rank(S, x) = r
<1> DEFINE n == Cardinality(S)
           T == 0 .. n - 1
           f == [x \in S |-> Rank(S, x)]
<1>1. n \in Nat
  BY FS_CardinalityType
<1>2. IsFiniteSet(T) /\ Cardinality(T) = n
  <2>1. n - 1 \in Int /\ (0 > n - 1 <=> n = 0)
    BY <1>1
  <2> QED BY <1>1, <2>1, FS_Interval
<1>3. f \in Injection(S, T)
  <2>1. \A x \in S : Rank(S, x) \in T
    BY RankRange
  <2>2. \A x, y \in S : Rank(S, x) = Rank(S, y) => x = y
    BY RankInjective
  <2> QED BY <2>1, <2>2 DEF Injection, IsInjective
<1>4. f \in Surjection(S, T)
  BY <1>2, <1>3, FS_Injection
<1>5. \E x \in S : f[x] = r
  BY <1>4 DEF Surjection
<1> QED BY <1>5

\* Nth returns a member, the one of rank k - 1.
LEMMA NthIn ==
    ASSUME NEW S, S \subseteq Nat, IsFiniteSet(S), NEW k \in 1 .. Cardinality(S)
    PROVE  Nth(S, k) \in S /\ Rank(S, Nth(S, k)) = k - 1
<1>1. Cardinality(S) \in Nat
  BY FS_CardinalityType
<1>2. k - 1 \in 0 .. Cardinality(S) - 1
  BY <1>1
<1>3. \E x \in S : Rank(S, x) = k - 1
  BY <1>2, RankOnto
<1> QED BY <1>3 DEF Nth, Rank

\* Nth is strictly monotonic in k.
LEMMA NthMonotonic ==
    ASSUME NEW S, S \subseteq Nat, IsFiniteSet(S),
           NEW k \in 1 .. Cardinality(S), NEW l \in 1 .. Cardinality(S), k < l
    PROVE  Nth(S, k) < Nth(S, l)
<1> DEFINE a == Nth(S, k)
           b == Nth(S, l)
<1>1. a \in S /\ b \in S /\ Rank(S, a) = k - 1 /\ Rank(S, b) = l - 1
  BY NthIn
<1>2. a # b
  BY <1>1
<1>3. ~(b < a)
  <2> SUFFICES ASSUME b < a PROVE FALSE
    OBVIOUS
  <2>1. Rank(S, b) < Rank(S, a)
    BY <1>1, RankMonotonic
  <2> QED BY <1>1, <2>1, FS_CardinalityType
<1> HIDE DEF a, b
<1>4. a < b
  BY <1>1, <1>2, <1>3
<1> QED BY <1>4 DEF a, b

\* Every member is some Nth.
LEMMA NthOnto ==
    ASSUME NEW S, S \subseteq Nat, IsFiniteSet(S), NEW x \in S
    PROVE  \E k \in 1 .. Cardinality(S) : Nth(S, k) = x
<1> DEFINE k == Rank(S, x) + 1
<1>1. Cardinality(S) \in Nat /\ Rank(S, x) \in 0 .. Cardinality(S) - 1
  BY RankRange
<1>2. k \in 1 .. Cardinality(S) /\ k - 1 = Rank(S, x)
  BY <1>1
<1>3. Nth(S, k) \in S /\ Rank(S, Nth(S, k)) = Rank(S, x)
  BY <1>2, NthIn
<1>4. Nth(S, k) = x
  BY <1>3, RankInjective
<1> QED BY <1>2, <1>4

\* Pick(s, chosen) is a sequence of the chosen elements, all of them.
LEMMA PickType ==
    ASSUME NEW T, NEW s \in Seq(T), NEW chosen, chosen \subseteq DOMAIN s
    PROVE  /\ IsFiniteSet(chosen) /\ Cardinality(chosen) \in Nat
           /\ Cardinality(chosen) <= Len(s)
           /\ Pick(s, chosen) \in Seq(T)
           /\ Len(Pick(s, chosen)) = Cardinality(chosen)
           /\ DOMAIN Pick(s, chosen) = 1 .. Cardinality(chosen)
           /\ \A k \in DOMAIN Pick(s, chosen) :
                 Nth(chosen, k) \in chosen /\ Pick(s, chosen)[k] = s[Nth(chosen, k)]
           /\ \A k, l \in DOMAIN Pick(s, chosen) : k < l => Nth(chosen, k) < Nth(chosen, l)
           /\ \A i \in chosen : \E k \in DOMAIN Pick(s, chosen) : Nth(chosen, k) = i
<1>1. DOMAIN s = 1 .. Len(s) /\ Len(s) \in Nat
  OBVIOUS
<1>2. IsFiniteSet(DOMAIN s) /\ Cardinality(DOMAIN s) = Len(s)
  <2>1. ~(1 > Len(s)) \/ Len(s) = 0
    BY <1>1
  <2> QED BY <1>1, <2>1, FS_Interval
<1>3. IsFiniteSet(chosen) /\ Cardinality(chosen) <= Len(s)
  BY <1>2, FS_Subset
<1>4. Cardinality(chosen) \in Nat /\ chosen \subseteq Nat
  BY <1>1, <1>3, FS_CardinalityType
<1>5. \A k \in 1 .. Cardinality(chosen) : Nth(chosen, k) \in chosen
  BY <1>3, <1>4, NthIn
<1>6. Pick(s, chosen) \in [1 .. Cardinality(chosen) -> T]
  BY <1>5 DEF Pick
<1>7. Pick(s, chosen) \in Seq(T) /\ Len(Pick(s, chosen)) = Cardinality(chosen)
  BY <1>4, <1>6
<1>8. DOMAIN Pick(s, chosen) = 1 .. Cardinality(chosen)
  BY <1>6
<1>9. \A k \in DOMAIN Pick(s, chosen) : Pick(s, chosen)[k] = s[Nth(chosen, k)]
  BY DEF Pick
<1>10. \A k, l \in 1 .. Cardinality(chosen) : k < l => Nth(chosen, k) < Nth(chosen, l)
  BY <1>3, <1>4, NthMonotonic
<1>11. \A i \in chosen : \E k \in 1 .. Cardinality(chosen) : Nth(chosen, k) = i
  BY <1>3, <1>4, NthOnto
<1> QED BY <1>3, <1>4, <1>5, <1>7, <1>8, <1>9, <1>10, <1>11
=============================================================================
