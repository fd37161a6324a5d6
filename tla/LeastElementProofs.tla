------------------------- MODULE LeastElementProofs -------------------------
(***************************************************************************)
(* First is well defined on every nonempty set of slots.                   *)
(***************************************************************************)
EXTENDS LeastElement, WellFoundedInduction, TLAPS

(***************************************************************************)
(* A nonempty set of naturals has a least element.                         *)
(***************************************************************************)
LEMMA Minimum ==
  ASSUME NEW S \in SUBSET Nat, S # {}
  PROVE  \E m \in S : \A n \in S : m <= n
<1> DEFINE R == OpToRel(<, Nat)
<1>1. IsWellFoundedOn(R, Nat)
  BY NatLessThanWellFounded
<1>2. R = {ss \in Nat \X Nat : ss[1] < ss[2]}
  BY Zenon DEF OpToRel
<1> HIDE DEF R
<1>3. PICK x \in S : \A y \in S : ~ (<<y, x>> \in R)
  BY <1>1, WFMin
<1>4. \A n \in S : x <= n
  <2> TAKE n \in S
  <2>1. x \in Nat /\ n \in Nat
    OBVIOUS
  <2>2. ~ (n < x)
    <3>1. <<n, x>> \notin R
      BY <1>3
    <3> QED
      BY <3>1, <2>1, <1>2
  <2> QED
    BY <2>1, <2>2
<1> QED
  BY <1>4

(***************************************************************************)
(* First(S) is that element: the scan stops at a slot that fits, and no    *)
(* earlier slot does.                                                      *)
(***************************************************************************)
THEOREM FirstIsLeast ==
  ASSUME NEW S \in SUBSET Nat, S # {}
  PROVE  First(S) \in S /\ \A t \in S : First(S) <= t
  BY Minimum DEF First
=============================================================================
