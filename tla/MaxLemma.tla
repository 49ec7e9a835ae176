------------------------------ MODULE MaxLemma ------------------------------
(* Largest and smallest numbers of a set: shared by the proofs about       *)
(* queues, edits of a manifest and sequence numbers.                       *)
EXTENDS FiniteSetsExt, NaturalsInduction, WellFoundedInduction, TLAPS

\* A nonempty set of numbers up to n has a largest one.
LEMMA MaxUpTo ==
    ASSUME NEW n \in Nat, NEW S, S \subseteq 0..n, S /= {}
    PROVE  /\ Max(S) \in S
           /\ \A k \in S : k <= Max(S)
<1> DEFINE T == {n - k : k \in S}
<1>0. PICK y \in S : TRUE
  OBVIOUS
<1>1. T \subseteq Nat /\ T /= {}
  <2>1. \A k \in S : n - k \in Nat
    OBVIOUS
  <2>2. n - y \in T
    OBVIOUS
  <2> QED
    BY <2>1, <2>2
<1>2. PICK t \in T : \A u \in T : ~ (<<u, t>> \in OpToRel(<, Nat))
  BY <1>1, NatLessThanWellFounded, WFMin
<1>3. PICK x \in S : t = n - x
  OBVIOUS
<1>4. \A k \in S : x >= k
  <2> SUFFICES ASSUME NEW k \in S, ~(x >= k)
               PROVE  FALSE
    OBVIOUS
  <2>1. n - k \in T /\ n - k < t /\ n - k \in Nat /\ t \in Nat
    BY <1>3
  <2> QED
    BY <2>1, <1>2 DEF OpToRel
<1> QED
  BY <1>4 DEF Max

LEMMA MaxExists ==
    ASSUME NEW n \in Nat, NEW S, S \subseteq 1..n, S /= {}
    PROVE  /\ Max(S) \in S
           /\ \A k \in S : k <= Max(S)
<1>1. S \subseteq 0..n
  OBVIOUS
<1> QED
  BY <1>1, MaxUpTo

\* A nonempty set of natural numbers has a smallest one.
LEMMA MinExists ==
    ASSUME NEW S, S \subseteq Nat, S /= {}
    PROVE  /\ Min(S) \in S
           /\ \A k \in S : Min(S) <= k
<1>1. PICK x \in S : \A k \in S : ~ (<<k, x>> \in OpToRel(<, Nat))
  BY NatLessThanWellFounded, WFMin
<1>2. ASSUME NEW k \in S
      PROVE  x <= k
  <2> SUFFICES ASSUME ~(x <= k)
               PROVE  FALSE
    OBVIOUS
  <2>1. k < x /\ k \in Nat /\ x \in Nat
    OBVIOUS
  <2> QED
    BY <2>1, <1>1 DEF OpToRel
<1> QED
  BY <1>2 DEF Min

=============================================================================
