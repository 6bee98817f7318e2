------------------------------ MODULE Extrema ------------------------------
(***************************************************************************)
(* Least and greatest elements of bounded sets of integers, which the      *)
(* proofs about Min, Max and minimal counterexamples rest on.              *)
(***************************************************************************)
EXTENDS Integers, FiniteSetsExt, WellFoundedInduction, TLAPS

\* A nonempty set of naturals has a least element.
LEMMA LeastNat ==
    ASSUME NEW S \in SUBSET Nat, S # {}
    PROVE  \E n \in S : \A k \in S : n <= k
<1>1. PICK n \in S : \A k \in S : ~(<<k, n>> \in OpToRel(<, Nat))
  BY NatLessThanWellFounded, WFMin
<1>2. \A k \in Nat : k < n => <<k, n>> \in OpToRel(<, Nat)
  BY <1>1 DEF OpToRel
<1>3. \A k \in S : ~(k < n)
  BY <1>1, <1>2
<1>4. n \in Nat /\ \A k \in S : k \in Nat
  OBVIOUS
<1>5. \A k \in S : n <= k
  BY <1>3, <1>4
<1> QED BY <1>5

\* A nonempty set of integers that is bounded from below has a least element,
\* and Min chooses it.
LEMMA MinOfBounded ==
    ASSUME NEW S \in SUBSET Int, S # {}, NEW b \in Int, \A x \in S : b <= x
    PROVE  Min(S) \in S /\ \A y \in S : Min(S) <= y
<1> DEFINE T == {n \in Nat : n + b \in S}
<1>1. T \in SUBSET Nat /\ T # {}
  <2>1. PICK x \in S : TRUE
    OBVIOUS
  <2>2. x - b \in Nat /\ (x - b) + b = x
    BY <2>1
  <2> QED BY <2>1, <2>2
<1>2. PICK n \in T : \A k \in T : n <= k
  <2> HIDE DEF T
  <2> QED BY <1>1, LeastNat
<1>3. n + b \in S /\ \A y \in S : n + b <= y
  <2>1. SUFFICES ASSUME NEW y \in S PROVE n + b <= y
    OBVIOUS
  <2>2. y - b \in T
    BY <2>1
  <2> QED BY <1>1, <1>2, <2>2
<1> QED BY <1>3 DEF Min

\* A nonempty set of integers that is bounded from above has a greatest
\* element, and Max chooses it.
LEMMA MaxOfBounded ==
    ASSUME NEW S \in SUBSET Int, S # {}, NEW b \in Int, \A x \in S : x <= b
    PROVE  Max(S) \in S /\ \A y \in S : y <= Max(S)
<1> DEFINE T == {n \in Nat : b - n \in S}
<1>1. T \in SUBSET Nat /\ T # {}
  <2>1. PICK x \in S : TRUE
    OBVIOUS
  <2>2. b - x \in Nat /\ b - (b - x) = x
    BY <2>1
  <2> QED BY <2>1, <2>2
<1>2. PICK n \in T : \A k \in T : n <= k
  <2> HIDE DEF T
  <2> QED BY <1>1, LeastNat
<1>3. b - n \in S /\ \A y \in S : y <= b - n
  <2>1. SUFFICES ASSUME NEW y \in S PROVE y <= b - n
    OBVIOUS
  <2>2. b - y \in T
    BY <2>1
  <2>3. n <= b - y
    BY <1>2, <2>2
  <2>4. n \in Nat /\ y \in Int
    BY <1>1, <2>1
  <2> QED BY <2>3, <2>4
<1> QED BY <1>3 DEF Max
=============================================================================
