------------------------------- MODULE Induction -------------------------------
(***************************************************************************)
(* Induction over the natural numbers, with sets in place of predicates:   *)
(* what is to be shown of every number is put as a set that has them all.  *)
(***************************************************************************)
EXTENDS Integers, WellFoundedInduction, TLAPS

LEMMA LeastNatural ==
  ASSUME NEW T, T \subseteq Nat, T # {}
  PROVE  \E m \in T : \A n \in T : m <= n
<1>1. \E m \in T : \A n \in T : <<n, m>> \notin OpToRel(<, Nat)
  BY NatLessThanWellFounded, WFMin, Zenon
<1>2. \E m \in T : \A n \in T : ~(n < m)
  BY <1>1 DEF OpToRel
<1> QED
  BY <1>2

\* A set of naturals that has a bound has a greatest element.
LEMMA GreatestNatural ==
  ASSUME NEW bound \in Nat, NEW T, T \subseteq 0..bound, T # {}
  PROVE  \E m \in T : \A n \in T : n <= m
<1> DEFINE distances == {d \in Nat : bound - d \in T}
<1>1. PICK t \in T : TRUE
  OBVIOUS
<1>2. bound - t \in distances
  BY <1>1
<1>3. PICK d \in distances : \A e \in distances : d <= e
  BY <1>2, LeastNatural, Zenon
<1>4. \A n \in T : bound - n \in distances
  OBVIOUS
<1>5. \A n \in T : n <= bound - d
  BY <1>3, <1>4
<1> QED
  BY <1>3, <1>5

\* Induction: a set that has 0, and with a number the next, has every number.
LEMMA Induct ==
  ASSUME NEW T, 0 \in T, \A n \in Nat : n \in T => n + 1 \in T
  PROVE  Nat \subseteq T
<1> SUFFICES ASSUME Nat \ T # {} PROVE FALSE
  OBVIOUS
<1>1. PICK m \in Nat \ T : \A n \in Nat \ T : m <= n
  BY LeastNatural, Zenon
<1>2. m - 1 \in Nat /\ m - 1 \in T
  BY <1>1
<1>3. (m - 1) + 1 \in T
  BY <1>2, Zenon
<1> QED
  BY <1>1, <1>3
================================================================================
