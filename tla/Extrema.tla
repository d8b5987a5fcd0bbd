------------------------------- MODULE Extrema -------------------------------
(***************************************************************************)
(* What Min and Max of FiniteSetsExt are, for the sets of operation        *)
(* numbers and units that the passes take them of, and how the members of  *)
(* such a set are counted.                                                 *)
(***************************************************************************)
EXTENDS Integers, FiniteSetsExt, FiniteSetTheorems, WellFoundedInduction, TLAPS

(* A nonempty set of naturals has a minimum, and Min is it. *)
LEMMA MinIsLeast ==
  ASSUME NEW S \in SUBSET Nat, S # {}
  PROVE  Min(S) \in S /\ \A x \in S : Min(S) <= x
<1>1. PICK x \in S : \A y \in S : ~(<<y, x>> \in OpToRel(<, Nat))
  BY NatLessThanWellFounded, WFMin
<1>2. \A m, k \in Nat : <<k, m>> \notin OpToRel(<, Nat) => m <= k
  BY DEF OpToRel
<1>3. \E z \in S : \A y \in S : z <= y
  BY <1>1, <1>2
<1>4. QED BY <1>3 DEF Min

(* So has a nonempty set of naturals up to n a maximum, and Max is it. *)
LEMMA MaxIsGreatest ==
  ASSUME NEW n \in Nat, NEW S \in SUBSET (1 .. n), S # {}
  PROVE  Max(S) \in S /\ \A x \in S : x <= Max(S)
<1> DEFINE Mirror == {n - x : x \in S}
<1>1. \A x \in S : x \in 1 .. n /\ n - x \in Nat
  BY SMT
<1>2. Mirror \in SUBSET Nat /\ Mirror # {}
  BY <1>1
<1>3. Min(Mirror) \in Mirror /\ \A y \in Mirror : Min(Mirror) <= y
  <2> HIDE DEF Mirror
  <2>1. QED BY <1>2, MinIsLeast
<1>4. PICK x \in S : Min(Mirror) = n - x
  BY <1>3
<1>5. \A y \in S : n - x <= n - y
  BY <1>3, <1>4
<1>6. \E z \in S : \A y \in S : z >= y
  BY <1>1, <1>5
<1>7. QED BY <1>6 DEF Max

-----------------------------------------------------------------------------
(* The members up to a number: a finite set. *)
UpTo(S, i) == {k \in S : k <= i}

LEMMA UpToFinite ==
  ASSUME NEW n \in Nat, NEW S \in SUBSET (1 .. n), NEW i
  PROVE  /\ IsFiniteSet(S) /\ Cardinality(S) \in Nat
         /\ IsFiniteSet(UpTo(S, i)) /\ Cardinality(UpTo(S, i)) \in Nat
         /\ Cardinality(UpTo(S, i)) <= Cardinality(S)
         /\ \A k \in S : k \in 1 .. n /\ k \in Nat
<1>1. IsFiniteSet(1 .. n)
  BY FS_Interval
<1>2. IsFiniteSet(S)
  BY <1>1, FS_Subset
<1>3. UpTo(S, i) \subseteq S
  BY DEF UpTo
<1>4. \A k \in S : k \in 1 .. n /\ k \in Nat
  OBVIOUS
<1>5. QED BY <1>2, <1>3, <1>4, FS_Subset, FS_CardinalityType

(* The members up to a member are as many as its place among them. *)
LEMMA CountsRise ==
  ASSUME NEW n \in Nat, NEW S \in SUBSET (1 .. n)
  PROVE  /\ Cardinality(S) \in Nat
         /\ \A i \in S : Cardinality(UpTo(S, i)) \in 1 .. Cardinality(S)
         /\ \A i \in S, j \in S : i < j =>
              Cardinality(UpTo(S, i)) < Cardinality(UpTo(S, j))
<1>1. Cardinality(S) \in Nat /\ \A k \in S : k \in Nat
  BY UpToFinite
<1>2. ASSUME NEW i \in S
      PROVE  Cardinality(UpTo(S, i)) \in 1 .. Cardinality(S)
  <2>1. /\ IsFiniteSet(UpTo(S, i)) /\ Cardinality(UpTo(S, i)) \in Nat
        /\ Cardinality(UpTo(S, i)) <= Cardinality(S)
    BY UpToFinite
  <2>2. i <= i
    BY <1>1
  <2>3. i \in UpTo(S, i)
    BY <2>2 DEF UpTo
  <2>4. Cardinality(UpTo(S, i)) # 0
    BY <2>1, <2>3, FS_EmptySet
  <2>5. QED BY <1>1, <2>1, <2>4
<1>3. ASSUME NEW i \in S, NEW j \in S, i < j
      PROVE  Cardinality(UpTo(S, i)) < Cardinality(UpTo(S, j))
  <2>1. UpTo(S, i) \subseteq UpTo(S, j)
    <3>1. \A k \in S : k <= i => k <= j
      BY <1>1, <1>3
    <3>2. QED BY <3>1 DEF UpTo
  <2>2. j <= j /\ ~ j <= i
    BY <1>1, <1>3
  <2>3. UpTo(S, i) # UpTo(S, j)
    <3>1. j \in UpTo(S, j) /\ j \notin UpTo(S, i)
      BY <2>2 DEF UpTo
    <3>2. QED BY <3>1
  <2>4. IsFiniteSet(UpTo(S, j)) /\ Cardinality(UpTo(S, j)) \in Nat /\ Cardinality(UpTo(S, i)) \in Nat
    BY UpToFinite
  <2>5. /\ Cardinality(UpTo(S, i)) <= Cardinality(UpTo(S, j))
        /\ Cardinality(UpTo(S, i)) = Cardinality(UpTo(S, j)) => UpTo(S, i) = UpTo(S, j)
    BY ONLY <2>1, <2>4, FS_Subset
  <2>6. QED BY <2>3, <2>4, <2>5
<1>4. QED BY <1>1, <1>2, <1>3

(* Every place among them is some member's. *)
LEMMA CountReached ==
  ASSUME NEW n \in Nat, NEW S \in SUBSET (1 .. n), NEW c \in 1 .. Cardinality(S)
  PROVE  \E i \in S : Cardinality(UpTo(S, i)) = c
<1>1. Cardinality(S) \in Nat /\ c \in Nat /\ c >= 1 /\ c <= Cardinality(S)
  <2>1. Cardinality(S) \in Nat
    BY CountsRise
  <2>2. QED BY <2>1
<1>2. \A i \in S : i \in Nat /\ i \in 1 .. n /\ Cardinality(UpTo(S, i)) \in Nat
  BY UpToFinite
<1>3. PICK late : late = {i \in S : Cardinality(UpTo(S, i)) >= c}
  OBVIOUS
<1>4. late # {}
  <2>1. S # {}
    BY <1>1, FS_EmptySet
  <2>2. Max(S) \in S /\ \A k \in S : k <= Max(S)
    BY <2>1, MaxIsGreatest
  <2>3. UpTo(S, Max(S)) = S
    BY <2>2 DEF UpTo
  <2>4. QED BY <1>1, <1>3, <2>2, <2>3
<1>5. PICK i \in late : \A k \in late : i <= k
  <2>1. late \in SUBSET Nat
    BY <1>2, <1>3
  <2>2. QED BY <1>4, <2>1, MinIsLeast
<1>6. PICK before : before = {k \in S : k < i}
  OBVIOUS
<1>7. i \in S /\ i \in Nat /\ i \in 1 .. n /\ Cardinality(UpTo(S, i)) >= c
  BY <1>2, <1>3
<1>8. before \in SUBSET (1 .. n) /\ IsFiniteSet(before) /\ Cardinality(before) \in Nat
  <2>1. before \subseteq S
    BY <1>6
  <2>2. before \in SUBSET (1 .. n)
    BY <1>2, <2>1
  <2>3. QED BY <2>2, UpToFinite
<1>9. UpTo(S, i) = before \cup {i} /\ i \notin before
  <2>1. \A k \in S : k <= i <=> (k < i \/ k = i)
    BY <1>2, <1>7
  <2>2. ~ i < i
    BY <1>7
  <2>3. QED BY <1>6, <1>7, <2>1, <2>2 DEF UpTo
<1>10. Cardinality(UpTo(S, i)) = Cardinality(before) + 1
  BY <1>8, <1>9, FS_AddElement
<1>11. Cardinality(before) < c
  <2>1. CASE before = {}
    BY <1>1, <2>1, FS_EmptySet
  <2>2. CASE before # {}
    <3>1. PICK m \in before : \A k \in before : k <= m
      BY <1>8, <2>2, MaxIsGreatest
    <3>2. m \in S /\ m \in Nat /\ m < i
      BY <1>2, <1>6
    <3>3. \A k \in S : k <= m => k < i
      BY <1>2, <1>7, <3>2
    <3>4. UpTo(S, m) = before
      BY <1>6, <3>1, <3>3 DEF UpTo
    <3>5. m \notin late
      <4>1. ~ i <= m
        BY <1>7, <3>2
      <4>2. QED BY <1>5, <4>1
    <3>6. ~ Cardinality(UpTo(S, m)) >= c
      BY <1>3, <3>2, <3>5
    <3>7. QED BY <1>1, <1>8, <3>4, <3>6
  <2>3. QED BY <2>1, <2>2
<1>12. Cardinality(UpTo(S, i)) = c
  BY <1>1, <1>7, <1>8, <1>10, <1>11
<1>13. QED BY <1>7, <1>12
=============================================================================
