------------------------------ MODULE NatInduction ------------------------------
(***************************************************************************)
(* Induction over the natural numbers, stated of a set: the least number   *)
(* outside of the set would not be 0, and the one before it would be in.   *)
(***************************************************************************)
EXTENDS Naturals, WellFoundedInduction, TLAPS

LEMMA LeastNumber ==
  ASSUME NEW S \in SUBSET Nat, S # {}
  PROVE  \E x \in S : \A y \in S : x <= y
<1>1. PICK x \in S : \A y \in S : ~ (<<y, x>> \in OpToRel(<, Nat))
  BY WFMin, NatLessThanWellFounded
<1>2. \A y \in S : ~ (y < x)
  BY <1>1, Zenon DEF OpToRel
<1>3. \A y \in S : x <= y
  BY <1>2
<1> QED
  BY <1>3

LEMMA NatSetInduction ==
  ASSUME NEW S, 0 \in S, \A n \in Nat : n \in S => n + 1 \in S
  PROVE  \A n \in Nat : n \in S
<1> DEFINE bad == Nat \ S
<1> SUFFICES ASSUME bad # {} PROVE FALSE
  OBVIOUS
<1>1. PICK x \in bad : \A y \in bad : x <= y
  <2>1. bad \in SUBSET Nat
    OBVIOUS
  <2> HIDE DEF bad
  <2> QED
    BY <2>1, LeastNumber
<1>2. x # 0 /\ x - 1 \in Nat /\ x - 1 < x /\ x - 1 + 1 = x
  OBVIOUS
<1>3. x - 1 \in S
  BY <1>1, <1>2
<1> QED
  BY <1>2, <1>3
=============================================================================
