---------------------------- MODULE SetInduction ----------------------------
(***************************************************************************)
(* Induction over natural numbers with a set in the place of a predicate,  *)
(* for facts about what recursive functions and cardinalities compute.     *)
(***************************************************************************)
EXTENDS Integers, FiniteSets, FiniteSetTheorems, TLAPS

(***************************************************************************)
(* Every set of natural numbers that is not empty has a least element: the *)
(* intervals up to its elements have a smallest one.                       *)
(***************************************************************************)
LEMMA LeastNatural ==
    ASSUME NEW S \in SUBSET Nat, S # {}
    PROVE  \E m \in S : \A n \in S : m <= n
  <1>1. PICK a \in S : TRUE
    OBVIOUS
  <1> DEFINE R == StrictSubsetOrdering(0 .. a)
             U == {0 .. n : n \in {k \in S : k <= a}}
  <1>2. IsWellFoundedOn(R, FiniteSubsetsOf(0 .. a))
    BY FS_StrictSubsetOrderingWellFounded
  <1>3. U \subseteq FiniteSubsetsOf(0 .. a)
    <2> SUFFICES ASSUME NEW n \in S, n <= a PROVE 0 .. n \in FiniteSubsetsOf(0 .. a)
      OBVIOUS
    <2>1. IsFiniteSet(0 .. n)
      BY FS_Interval
    <2> QED
      BY <2>1 DEF FiniteSubsetsOf
  <1>4. U # {}
    BY <1>1
  <1>5. \E x \in U : \A y \in U : <<y, x>> \notin R
    <2> HIDE DEF U, R
    <2> QED
      BY <1>2, <1>3, <1>4, WFMin
  <1>6. PICK m \in S : m <= a /\ \A y \in U : <<y, 0 .. m>> \notin R
    BY <1>5
  <1>7. ASSUME NEW n \in S, n < m PROVE FALSE
    <2>1. 0 .. n \in U
      BY <1>6, <1>7
    <2>2. 0 .. n \in SUBSET (0 .. a) /\ 0 .. m \in SUBSET (0 .. a)
      BY <1>6, <1>7
    <2>3. 0 .. n \subseteq 0 .. m /\ m \in 0 .. m /\ m \notin 0 .. n
      BY <1>7
    <2>4. <<0 .. n, 0 .. m>> \in R
      BY <2>2, <2>3 DEF StrictSubsetOrdering
    <2> QED
      BY <1>6, <2>1, <2>4
  <1> QED
    BY <1>6, <1>7

(***************************************************************************)
(* Induction: a set with zero and with the successor of each of its        *)
(* natural numbers holds them all.                                         *)
(***************************************************************************)
LEMMA NaturalsBySet ==
    ASSUME NEW S, 0 \in S, \A n \in Nat : n \in S => n + 1 \in S
    PROVE  Nat \subseteq S
  <1> SUFFICES ASSUME Nat \ S # {} PROVE FALSE
    OBVIOUS
  <1>1. PICK m \in Nat \ S : \A n \in Nat \ S : m <= n
    BY LeastNatural
  <1>2. m # 0 /\ m - 1 \in Nat
    BY <1>1
  <1>3. m - 1 \in S
    BY <1>1, <1>2
  <1> QED
    BY <1>1, <1>2, <1>3
=============================================================================
