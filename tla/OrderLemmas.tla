----------------------------- MODULE OrderLemmas -----------------------------
(***************************************************************************)
(* Induction, for the proofs of this project, in a form without operator   *)
(* parameters: a set of natural numbers has a least element and a finite   *)
(* set has an element of the greatest value.  A proof by induction then    *)
(* takes the least counterexample.                                         *)
(***************************************************************************)
EXTENDS Integers, FiniteSets, FiniteSetTheorems, NaturalsInduction, TLAPS

(* A set of natural numbers that is not empty has a least element.         *)
LEMMA LeastElement ==
    ASSUME NEW T \in SUBSET Nat, T # {}
    PROVE  \E n \in T : \A m \in T : n <= m
<1> DEFINE R == OpToRel(<, Nat)
<1>1. IsWellFoundedOn(R, Nat)
  BY NatLessThanWellFounded
<1>2. \E x \in T : \A y \in T : ~ (<<y, x>> \in R)
  <2> HIDE DEF R
  <2> QED BY <1>1, WFMin
<1>3. \A x, y \in T : ~ (<<y, x>> \in R) => x <= y
  BY DEF OpToRel
<1> QED BY <1>2, <1>3

(* Some element of a finite set has the greatest value of a function.      *)
LEMMA GreatestValue ==
    ASSUME NEW S, IsFiniteSet(S), S # {}, NEW f, \A x \in S : f[x] \in Nat
    PROVE  \E x \in S : \A y \in S : f[y] <= f[x]
<1> DEFINE HasMax(U) == \E x \in U : \A y \in U : f[y] <= f[x]
           Bad == {U \in SUBSET S : U # {} /\ ~ HasMax(U)}
           Sizes == {n \in Nat : \E U \in Bad : n = Cardinality(U)}
<1>1. \A U \in SUBSET S : IsFiniteSet(U) /\ Cardinality(U) \in Nat
  BY FS_Subset, FS_CardinalityType
<1>2. Bad = {}
  <2> SUFFICES ASSUME Bad # {} PROVE FALSE
    OBVIOUS
  <2>1. Sizes # {}
    BY <1>1
  <2>2. PICK n \in Sizes : \A m \in Sizes : n <= m
    <3> HIDE DEF Sizes
    <3> SUFFICES Sizes \in SUBSET Nat
      BY <2>1, LeastElement
    <3> QED BY DEF Sizes
  <2>3. PICK U \in Bad : n = Cardinality(U)
    BY <2>2
  <2>4. PICK x : x \in U
    BY <2>3
  <2>5. /\ IsFiniteSet(U \ {x}) /\ U \ {x} \in SUBSET S
        /\ Cardinality(U \ {x}) = Cardinality(U) - 1
    BY <1>1, <2>3, <2>4, FS_RemoveElement
  <2>6. CASE U \ {x} = {}
    <3>1. f[x] <= f[x]
      BY <2>3, <2>4
    <3>2. U = {x}
      BY <2>4, <2>6
    <3> QED BY <2>3, <3>1, <3>2
  <2>7. CASE U \ {x} # {}
    <3>1. Cardinality(U \ {x}) \in Nat /\ Cardinality(U \ {x}) < n
      BY <1>1, <2>3, <2>5
    <3>2. U \ {x} \notin Bad
      <4>1. n \in Nat /\ \A V \in Bad : Cardinality(V) \in Nat => Cardinality(V) \in Sizes
        BY <2>2
      <4> HIDE DEF Bad, Sizes
      <4> QED BY <2>2, <3>1, <4>1
    <3>3. PICK z \in U \ {x} : \A y \in U \ {x} : f[y] <= f[z]
      BY <2>5, <2>7, <3>2
    <3>4. \A y \in U : f[y] \in Nat
      BY <2>3
    <3>5. CASE f[x] <= f[z]
      <4>1. \A y \in U : f[y] <= f[z]
        BY <3>3, <3>5
      <4> QED BY <2>3, <3>3, <4>1
    <3>6. CASE ~ (f[x] <= f[z])
      <4>1. \A y \in U : f[y] <= f[x]
        BY <3>3, <3>4, <3>6, <2>4
      <4> QED BY <2>3, <2>4, <4>1
    <3> QED BY <3>5, <3>6
  <2> QED BY <2>6, <2>7
<1>3. S \in SUBSET S
  OBVIOUS
<1> QED BY <1>2, <1>3

(* The values of a function on a finite set are finitely many.             *)
LEMMA FiniteImage ==
    ASSUME NEW S, IsFiniteSet(S), NEW f
    PROVE  IsFiniteSet({f[x] : x \in S})
<1> DEFINE T == {f[x] : x \in S}
           g == [x \in S |-> f[x]]
<1>1. g \in Surjection(S, T)
  BY DEF Surjection
<1> HIDE DEF T, g
<1>2. IsFiniteSet(T)
  BY <1>1, FS_Surjection
<1> QED BY <1>2 DEF T
=============================================================================
