----------------------------- MODULE LeastNumbers -----------------------------
(***************************************************************************)
(* Least and greatest elements of sets of natural numbers, for the proofs  *)
(* about operators that choose them.                                       *)
(***************************************************************************)
EXTENDS Naturals, WellFoundedInduction, TLAPS

LessThan == {ss \in Nat \X Nat : ss[1] < ss[2]}

LEMMA LessThanIsWellFounded == IsWellFoundedOn(LessThan, Nat)
  BY NatLessThanWellFounded DEF LessThan, OpToRel

LEMMA NonemptyHasLeast ==
    ASSUME NEW S \in SUBSET Nat, S # {}
    PROVE  \E m \in S : \A x \in S : m <= x
  <1>1. PICK m \in S : \A x \in S : ~ (<<x, m>> \in LessThan)
    BY LessThanIsWellFounded, WFMin
  <1>2. ASSUME NEW x \in S PROVE m <= x
    <2>1. ~ (<<x, m>> \in LessThan) /\ x \in Nat /\ m \in Nat
      BY <1>1
    <2> QED
      BY <2>1 DEF LessThan
  <1> QED
    BY <1>2

LEMMA BoundedHasGreatest ==
    ASSUME NEW S \in SUBSET Nat, S # {}, NEW b \in Nat, \A x \in S : x <= b
    PROVE  \E m \in S : \A x \in S : x <= m
  <1> DEFINE T == {b - x : x \in S}
  <1>1. T \in SUBSET Nat
    <2>1. ASSUME NEW x \in S PROVE b - x \in Nat
      <3>1. x \in Nat /\ x <= b
        OBVIOUS
      <3> QED
        BY <3>1
    <2> QED
      BY <2>1
  <1>2. T # {}
    OBVIOUS
  <1>3. PICK l \in T : \A y \in T : l <= y
    <2> HIDE DEF T
    <2> QED
      BY <1>1, <1>2, NonemptyHasLeast
  <1>4. PICK m \in S : l = b - m
    BY <1>3
  <1>5. ASSUME NEW x \in S PROVE x <= m
    <2>1. b - m <= b - x /\ x \in Nat /\ m \in Nat
      BY <1>3, <1>4
    <2> QED
      BY <2>1
  <1> QED
    BY <1>5

=============================================================================
