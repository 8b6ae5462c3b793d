----------------------------- MODULE NodeProofs -----------------------------
(***************************************************************************)
(* The caches of the node hold what they should, for every chain with      *)
(* branches, cache sizes, provider and length of run.                      *)
(***************************************************************************)
EXTENDS Node, OrderLemmas

----------------------------------------------------------------------------
(* The chain of a block.                                                   *)

(* The blocks are finitely many slots, each with a parent and a number.    *)
LEMMA BlockFacts ==
    /\ Blocks \subseteq Nat /\ Canon \subseteq Blocks
    /\ \A b \in Blocks : b \in Nat /\ b \in 0 .. MaxSlot
                         /\ Parent[b] \in Blocks /\ BlockHash[b] = b
    /\ \A b \in Blocks : Parent[b] # b =>
          Parent[b] < b /\ Number[b] = Number[Parent[b]] + 1
    /\ None \notin Blocks
<1>1. MaxSlot \in Nat /\ Blocks \subseteq 0 .. MaxSlot /\ Canon \subseteq Blocks
  BY NodeAssumption
<1>2. \A b \in Blocks : b \in Nat /\ b \in 0 .. MaxSlot
  BY <1>1
<1>3. \A b \in Blocks : /\ Parent[b] \in Blocks /\ BlockHash[b] = b
                        /\ Parent[b] # b => Parent[b] < b /\ Number[b] = Number[Parent[b]] + 1
  BY NodeAssumption
<1>4. None \notin Blocks
  BY <1>2, NodeAssumption
<1> QED BY <1>1, <1>2, <1>3, <1>4

(* So are the payloads that a provider may serve.                          *)
LEMMA PayloadFacts ==
    /\ IsFiniteSet(Payloads) /\ Blocks \subseteq Payloads /\ None \notin Payloads
    /\ \A x \in Payloads : Parent[x] \in Payloads /\ Number[x] \in Nat
<1>1. IsFiniteSet(Payloads)
  <2>1. MaxSlot \in Nat /\ Blocks \subseteq 0 .. MaxSlot /\ IsFiniteSet(Forged)
    BY NodeAssumption
  <2>2. IsFiniteSet(0 .. MaxSlot)
    BY <2>1, FS_Interval
  <2>3. IsFiniteSet(Blocks)
    BY <2>1, <2>2, FS_Subset
  <2> QED BY <2>1, <2>3, FS_Union DEF Payloads
<1>2. /\ Parent \in [Payloads -> Payloads] /\ Number \in [Payloads -> Nat]
      /\ None \notin Payloads
  BY NodeAssumption, BlockFacts DEF Payloads
<1>3. Blocks \subseteq Payloads
  BY DEF Payloads
<1> QED BY <1>1, <1>2, <1>3

USE BlockFacts, PayloadFacts

(* The least set with b that has the parents of its members: what the      *)
(* recursive function ChainOf computes, without recursion.                 *)
Closed(S) == \A x \in S : Parent[x] \in S

Ancestors(b) == {x \in Blocks : \A S \in SUBSET Blocks : b \in S /\ Closed(S) => x \in S}

(* ChainOf is defined: there is a function that satisfies its equation.    *)
LEMMA ChainUnfolds ==
    ASSUME NEW b \in Blocks
    PROVE  ChainOf[b] = IF Parent[b] = b THEN {b} ELSE {b} \cup ChainOf[Parent[b]]
<1> DEFINE F(f) == [x \in Blocks |-> IF Parent[x] = x THEN {x} ELSE {x} \cup f[Parent[x]]]
           g == [x \in Blocks |-> Ancestors(x)]
<1>1. ASSUME NEW x \in Blocks, Parent[x] = x
      PROVE  Ancestors(x) = {x}
  <2>1. {x} \in SUBSET Blocks /\ Closed({x})
    BY <1>1 DEF Closed
  <2> QED BY <1>1, <2>1 DEF Ancestors
<1>2. ASSUME NEW x \in Blocks, Parent[x] # x
      PROVE  Ancestors(x) = {x} \cup Ancestors(Parent[x])
  <2> DEFINE p == Parent[x]
  <2>0. p \in Blocks
    OBVIOUS
  <2>1. /\ {x} \cup Ancestors(p) \in SUBSET Blocks
        /\ Closed({x} \cup Ancestors(p))
    <3>1. p \in Ancestors(p)
      BY <2>0 DEF Ancestors
    <3>2. Closed(Ancestors(p))
      BY DEF Ancestors, Closed
    <3> QED BY <3>1, <3>2 DEF Ancestors, Closed
  <2>2. Ancestors(x) \subseteq {x} \cup Ancestors(p)
    BY <2>1 DEF Ancestors
  <2>3. {x} \cup Ancestors(p) \subseteq Ancestors(x)
    BY DEF Ancestors, Closed
  <2> QED BY <2>2, <2>3
<1>3. g = F(g)
  BY <1>1, <1>2
<1>4. ChainOf = CHOOSE f : f = F(f)
  BY DEF ChainOf
<1>5. ChainOf = F(ChainOf)
  <2> HIDE DEF g, F
  <2> QED BY <1>3, <1>4
<1> QED BY <1>5

(* The chain of a block is ordered: older blocks have lower numbers, and a *)
(* chain begins with the chain of each of its blocks.                      *)
Ordered(h) ==
    /\ ChainOf[h] \subseteq Blocks /\ h \in ChainOf[h]
    /\ \A x \in ChainOf[h] : x <= h
    /\ \A x, y \in ChainOf[h] : x < y => Number[x] < Number[y]
    /\ \A x \in ChainOf[h] : ChainOf[x] = {y \in ChainOf[h] : y <= x}

(* By the least counterexample: a chain is the chain of the parent and one *)
(* block more.                                                             *)
LEMMA ChainOrdered ==
    ASSUME NEW h \in Blocks
    PROVE  Ordered(h)
<1> DEFINE Bad == {x \in Blocks : ~ Ordered(x)}
<1> SUFFICES Bad = {}
  OBVIOUS
<1> SUFFICES ASSUME Bad # {} PROVE FALSE
  OBVIOUS
<1>0. Bad \in SUBSET Nat
  OBVIOUS
<1>1. PICK b \in Bad : \A m \in Bad : b <= m
  <2> HIDE DEF Bad
  <2> QED BY <1>0, LeastElement
<1>2. b \in Blocks /\ b \in Nat /\ Parent[b] \in Blocks /\ Parent[b] \in Nat
  OBVIOUS
<1>3. CASE Parent[b] = b
  <2>1. ChainOf[b] = {b}
    BY <1>2, <1>3, ChainUnfolds
  <2>2. Ordered(b)
    BY <1>2, <2>1 DEF Ordered
  <2> QED BY <2>2
<1>4. CASE Parent[b] # b
  <2> DEFINE p == Parent[b]
  <2>1. ChainOf[b] = {b} \cup ChainOf[p]
    BY <1>2, <1>4, ChainUnfolds
  <2>2. p < b /\ Number[b] = Number[p] + 1 /\ Number[p] \in Nat
    BY <1>2, <1>4
  <2>3. Ordered(p)
    BY <1>1, <1>2, <2>2
  <2> HIDE DEF p, Bad
  <2>4. p \in Blocks
    BY <1>2 DEF p
  <2>5. ChainOf[p] \subseteq Blocks /\ \A x \in ChainOf[p] : x \in Nat /\ x < b
    <3>1. ChainOf[p] \subseteq Blocks /\ \A x \in ChainOf[p] : x <= p
      BY <2>3 DEF Ordered
    <3>2. p \in Nat /\ b \in Nat /\ p < b /\ \A x \in ChainOf[p] : x \in Nat
      BY <1>2, <2>2, <2>4, <3>1
    <3> QED BY <3>1, <3>2
  <2>6. \A x \in ChainOf[p] : Number[x] \in Nat /\ Number[x] <= Number[p]
    <3> SUFFICES ASSUME NEW x \in ChainOf[p], x # p PROVE Number[x] < Number[p]
      BY <2>2, <2>5
    <3>1. x \in Nat /\ p \in Nat /\ x <= p /\ p \in ChainOf[p]
      BY <2>3, <2>4, <2>5 DEF Ordered
    <3> QED BY <2>3, <3>1 DEF Ordered
  <2>7. /\ ChainOf[b] \subseteq Blocks /\ b \in ChainOf[b]
        /\ \A x \in ChainOf[b] : x <= b
    BY <1>2, <2>1, <2>5
  <2>8. \A x, y \in ChainOf[b] : x < y => Number[x] < Number[y]
    <3> SUFFICES ASSUME NEW x \in ChainOf[b], NEW y \in ChainOf[b], x < y
                 PROVE  Number[x] < Number[y]
      OBVIOUS
    <3>1. x # b /\ x \in ChainOf[p]
      BY <1>2, <2>1, <2>5, <2>7
    <3>2. CASE y = b
      BY <2>2, <2>5, <2>6, <3>1, <3>2
    <3>3. CASE y # b
      BY <2>1, <2>3, <3>1, <3>3 DEF Ordered
    <3> QED BY <3>2, <3>3
  <2>9. \A x \in ChainOf[b] : ChainOf[x] = {y \in ChainOf[b] : y <= x}
    <3> SUFFICES ASSUME NEW x \in ChainOf[b]
                 PROVE  ChainOf[x] = {y \in ChainOf[b] : y <= x}
      OBVIOUS
    <3>1. CASE x = b
      BY <2>7, <3>1
    <3>2. CASE x # b
      <4>1. x \in ChainOf[p] /\ ~ (b <= x)
        BY <1>2, <2>1, <2>5, <3>2
      <4>2. ChainOf[x] = {y \in ChainOf[p] : y <= x}
        BY <2>3, <4>1 DEF Ordered
      <4> QED BY <2>1, <4>1, <4>2, Zenon
    <3> QED BY <3>1, <3>2
  <2>10. Ordered(b)
    BY <2>7, <2>8, <2>9 DEF Ordered
  <2> QED BY <2>10 DEF Bad
<1> QED BY <1>3, <1>4

----------------------------------------------------------------------------
(* The maps from numbers to payloads.                                      *)

Distinct(map) == \A x, y \in map : Number[x] = Number[y] => x = y

Above(map, b) == {y \in map : Number[y] > Number[b]}

(* A map reaches a number if it has an entry for it or a higher one.       *)
Reaches(map, n) == \E y \in map : Number[y] >= n

(* The blocks of a chain have different numbers.                           *)
LEMMA ChainDistinct ==
    ASSUME NEW h \in Blocks, NEW map \in SUBSET ChainOf[h]
    PROVE  Distinct(map)
<1> SUFFICES ASSUME NEW x \in map, NEW y \in map, Number[x] = Number[y], x # y
             PROVE  FALSE
  BY DEF Distinct
<1>1. x \in Blocks /\ y \in Blocks /\ x \in ChainOf[h] /\ y \in ChainOf[h]
  BY ChainOrdered DEF Ordered
<1>2. x \in Nat /\ y \in Nat /\ Number[x] \in Nat /\ Number[y] \in Nat
  BY <1>1
<1>3. x < y \/ y < x
  BY <1>2
<1>4. Number[x] < Number[y] \/ Number[y] < Number[x]
  BY <1>1, <1>3, ChainOrdered DEF Ordered
<1> QED BY <1>2, <1>4

(* The finalized blocks have different numbers, in the order of slots.     *)
LEMMA CanonOrdered ==
    ASSUME NEW x \in Canon, NEW y \in Canon, Number[y] >= Number[x]
    PROVE  y >= x
<1>1. x \in Blocks /\ y \in Blocks /\ x \in Nat /\ y \in Nat
      /\ Number[x] \in Nat /\ Number[y] \in Nat
  OBVIOUS
<1> SUFFICES ASSUME y < x PROVE Number[y] < Number[x]
  BY <1>1
<1>2. x \in ChainOf[y] \/ y \in ChainOf[x]
  BY CanonAssumption
<1>3. y \in ChainOf[x] /\ x \in ChainOf[x]
  BY <1>1, <1>2, ChainOrdered DEF Ordered
<1> QED BY <1>1, <1>3, ChainOrdered DEF Ordered

(* So no two of them have the same number.                                 *)
LEMMA CanonDistinct ==
    ASSUME NEW map \in SUBSET Canon
    PROVE  Distinct(map)
<1> SUFFICES ASSUME NEW x \in map, NEW y \in map, Number[x] = Number[y]
             PROVE  x = y
  BY DEF Distinct
<1>1. x \in Nat /\ y \in Nat /\ Number[x] \in Nat
  OBVIOUS
<1>2. y >= x /\ x >= y
  BY <1>1, CanonOrdered
<1> QED BY <1>1, <1>2

(* Maps of payloads are finite.                                            *)
LEMMA MapFinite ==
    ASSUME NEW map \in SUBSET Payloads
    PROVE  IsFiniteSet(map) /\ Cardinality(map) \in Nat
BY FS_Subset, FS_CardinalityType

(* What insert does to a map.                                              *)
LEMMA InsertFacts ==
    ASSUME NEW map \in SUBSET Payloads, NEW b \in Payloads
    PROVE  /\ insert(map, b) \in SUBSET Payloads /\ b \in insert(map, b)
           /\ Distinct(map) => Distinct(insert(map, b))
           /\ Cardinality(insert(map, b)) <= Cardinality(map) + 1
           /\ \A n \in Nat : Reaches(map, n) => Reaches(insert(map, b), n)
<1> DEFINE kept == {x \in map : Number[x] # Number[b]}
<1>1. insert(map, b) = kept \cup {b}
  BY DEF insert
<1>2. Distinct(map) => Distinct(insert(map, b))
  BY <1>1 DEF Distinct
<1>3. Cardinality(insert(map, b)) <= Cardinality(map) + 1
  <2>1. IsFiniteSet(kept) /\ Cardinality(kept) <= Cardinality(map)
        /\ Cardinality(kept) \in Nat /\ Cardinality(map) \in Nat
    BY MapFinite, FS_Subset
  <2> HIDE DEF kept
  <2>2. Cardinality(kept \cup {b}) = IF b \in kept THEN Cardinality(kept)
                                    ELSE Cardinality(kept) + 1
    BY <2>1, FS_AddElement
  <2> QED BY <1>1, <2>1, <2>2
<1>4. \A n \in Nat : Reaches(map, n) => Reaches(insert(map, b), n)
  BY <1>1 DEF Reaches
<1> QED BY <1>1, <1>2, <1>3, <1>4

(* What the insertion of the backfilled blocks does to a map.              *)
LEMMA InsertAllFacts ==
    ASSUME NEW map \in SUBSET Payloads, NEW bs \in SUBSET Payloads
    PROVE  /\ insert_all(map, bs) \in SUBSET Payloads
           /\ Distinct(map) /\ Distinct(bs) => Distinct(insert_all(map, bs))
           /\ \A n \in Nat : Reaches(map, n) => Reaches(insert_all(map, bs), n)
<1>1. Distinct(map) /\ Distinct(bs) => Distinct(insert_all(map, bs))
  BY DEF insert_all, Distinct
<1>2. ASSUME NEW n \in Nat, NEW y \in map, Number[y] >= n
      PROVE  \E z \in insert_all(map, bs) : Number[z] >= n
  <2>1. CASE \E b \in bs : Number[y] = Number[b]
    BY <1>2, <2>1 DEF insert_all
  <2>2. CASE ~ \E b \in bs : Number[y] = Number[b]
    <3>1. y \in insert_all(map, bs)
      BY <2>2 DEF insert_all
    <3> QED BY <1>2, <3>1
  <2> QED BY <2>1, <2>2
<1> QED BY <1>1, <1>2 DEF insert_all, Reaches

(* The last value is that of the highest number.                           *)
LEMMA LastValue ==
    ASSUME NEW map \in SUBSET Payloads, map # {}
    PROVE  /\ last_value(map) \in map
           /\ \A y \in map : Number[y] <= Number[last_value(map)]
<1>1. \E x \in map : \A y \in map : Number[y] <= Number[x]
  BY MapFinite, GreatestValue
<1> QED BY <1>1 DEF last_value

(* What pop_first_until leaves of a map: as many entries as allowed, the   *)
(* one with the highest number among them.                                 *)
LEMMA PopFacts ==
    ASSUME NEW map \in SUBSET Payloads, NEW size \in Nat \ {0}
    PROVE  /\ pop_first_until(map, size) \subseteq map
           /\ Distinct(map) => Cardinality(pop_first_until(map, size)) <= size
           /\ \A n \in Nat : Reaches(map, n) => Reaches(pop_first_until(map, size), n)
<1> DEFINE kept == pop_first_until(map, size)
<1>1. kept = {x \in map : Cardinality(Above(map, x)) < size}
  BY DEF pop_first_until, Above
<1>2. kept \subseteq map /\ kept \subseteq Payloads
  BY <1>1
<1> HIDE DEF kept
<1>3. Distinct(map) => Cardinality(kept) <= size
  <2> SUFFICES ASSUME Distinct(map), kept # {} PROVE Cardinality(kept) <= size
    BY FS_EmptySet
  <2>1. PICK low \in kept : \A y \in kept : Number[low] <= Number[y]
    <3> DEFINE T == {n \in Nat : \E y \in kept : n = Number[y]}
    <3>1. T # {}
      BY <1>2
    <3>2. T \in SUBSET Nat
      OBVIOUS
    <3>3. PICK n \in T : \A m \in T : n <= m
      <4> HIDE DEF T
      <4> QED BY <3>1, <3>2, LeastElement
    <3> QED BY <1>2, <3>3
  <2>2. kept \ {low} \subseteq Above(map, low)
    <3> SUFFICES ASSUME NEW y \in kept, y # low PROVE Number[y] > Number[low]
      BY <1>2 DEF Above
    <3>1. Number[y] \in Nat /\ Number[low] \in Nat /\ Number[y] # Number[low]
      BY <1>2 DEF Distinct
    <3> QED BY <2>1, <3>1
  <2>3. /\ Cardinality(kept \ {low}) = Cardinality(kept) - 1
        /\ Cardinality(kept) \in Nat /\ IsFiniteSet(kept)
    BY <1>2, <2>1, MapFinite, FS_RemoveElement
  <2>4. Above(map, low) \in SUBSET Payloads
    BY DEF Above
  <2>5. Cardinality(kept \ {low}) <= Cardinality(Above(map, low))
        /\ Cardinality(Above(map, low)) \in Nat
    BY <2>2, <2>4, MapFinite, FS_Subset
  <2>6. Cardinality(Above(map, low)) < size
    BY <1>1, <2>1
  <2> QED BY <2>3, <2>5, <2>6
<1>4. ASSUME NEW n \in Nat, Reaches(map, n)
      PROVE  Reaches(kept, n)
  <2> DEFINE top == last_value(map)
  <2>1. top \in map /\ \A y \in map : Number[y] <= Number[top]
    BY <1>4, LastValue DEF Reaches
  <2> HIDE DEF top
  <2>2. Above(map, top) = {}
    <3> SUFFICES ASSUME NEW y \in map, Number[y] > Number[top] PROVE FALSE
      BY DEF Above
    <3>1. Number[y] \in Nat /\ Number[top] \in Nat /\ Number[y] <= Number[top]
      BY <2>1
    <3> QED BY <3>1
  <2>3. Cardinality(Above(map, top)) < size
    BY <2>2, FS_EmptySet
  <2>4. top \in kept
    BY <1>1, <2>1, <2>3
  <2>5. PICK y \in map : Number[y] >= n
    BY <1>4 DEF Reaches
  <2>6. Number[y] \in Nat /\ Number[top] \in Nat /\ Number[y] <= Number[top]
    BY <2>1
  <2>7. Number[top] >= n
    BY <2>5, <2>6
  <2> QED BY <2>4, <2>7 DEF Reaches
<1> QED BY <1>2, <1>3, <1>4 DEF kept

----------------------------------------------------------------------------
(* The inductive invariant.                                                *)

(* A call is going on, or one has succeeded.                               *)
Started == pc # "idle" \/ synced

(* From the first call on there are headers, which the consensus client    *)
(* has vouched for, and a call has its failure still before it.            *)
HeadersKnown ==
    /\ Started => /\ head \in Blocks /\ finalized \in Canon
                  /\ {head, finalized} \subseteq verified
    /\ pc # "idle" => failures < MaxFailures

(* Only finalized blocks are cached as such, from the finalized header on  *)
(* once it has been fetched.                                               *)
FinalizedCached ==
    /\ finalized_payloads \subseteq Canon
    /\ synced => finalized_payloads # {}
    /\ pc \in {"backfill", "walk"} \/ (pc = "idle" /\ synced /\ failures = 0) =>
           Reaches(finalized_payloads, Number[finalized])

(* A call adds two payloads before it prunes, one of them finalized.       *)
SizesBounded ==
    LET calls == IF pc \in {"backfill", "walk"} THEN failures + 1 ELSE failures
    IN  /\ Cardinality(payloads) <= HistorySize + 2 * calls
        /\ Cardinality(finalized_payloads) <= FinalizedSize + calls

(* A block is cached, or as many of higher numbers are as may be cached.   *)
Covered(map, b) == b \in map \/ Cardinality(Above(map, b)) >= HistorySize

(* What was served of the chain of the last backfill is still covered, and *)
(* the head once it has been fetched.                                      *)
ServedCovered ==
    /\ synced => current_slot \in Blocks /\ since \in Nat
    /\ ~ synced => current_slot = None
    /\ synced => \A b \in ChainOf[current_slot] :
                    since <= b /\ b < current_slot => Covered(payloads, b)
    /\ pc \in {"backfill", "walk"} => head \in payloads \/ Number[head] = Number[finalized]
    /\ pc = "idle" /\ synced /\ failures = 0 =>
          /\ current_slot = head
          /\ since <= head =>
                Covered(payloads, head) \/ Number[head] = Number[finalized]

(* A walk over genuine answers is on the chain of the head, and what it    *)
(* took from other ones is noted as unchecked.                             *)
WalkLinked ==
    pc = "walk" =>
        /\ walk_slot \in 0 .. MaxSlot /\ prev_parent_hash \in Payloads
        /\ Distinct(backfilled)
        /\ linked => prev_parent_hash \in ChainOf[head]
        /\ backfilled \ unchecked \subseteq ChainOf[head]

Inv == TypeOK /\ HeadersKnown /\ WalkLinked /\ OnlyVerifiedPayloads /\ FinalizedCached
       /\ SizesBounded /\ ServedCovered

(* The first slot of a backfill.                                           *)
LEMMA StartSlot ==
    ASSUME TypeOK, head \in Blocks
    PROVE  start_slot \in 0 .. MaxSlot + 1
<1>0. HistorySize \in Nat /\ MaxSlot \in Nat /\ head \in Nat /\ head <= MaxSlot
  BY NodeAssumption
<1>1. CASE current_slot # None
  <2>1. current_slot \in Blocks
    BY <1>1 DEF TypeOK
  <2>2. current_slot \in Nat /\ current_slot <= MaxSlot
    BY <2>1
  <2> QED BY <1>0, <1>1, <2>2 DEF start_slot
<1>2. CASE current_slot = None /\ head >= HistorySize
  <2>1. start_slot = head - HistorySize
    BY <1>2 DEF start_slot
  <2> QED BY <1>0, <1>2, <2>1
<1>3. CASE current_slot = None /\ ~ (head >= HistorySize)
  <2>1. start_slot = MaxSlot + 1
    BY <1>3 DEF start_slot
  <2> QED BY <1>0, <2>1
<1> QED BY <1>1, <1>2, <1>3

(* What the end of a walk leaves in the cache.                             *)
LEMMA EndFacts ==
    ASSUME TypeOK, WalkLinked, BackfillEnd
    PROVE  /\ insert_all(payloads, backfilled) \in SUBSET Payloads
           /\ Distinct(insert_all(payloads, backfilled))
           /\ payloads' \in SUBSET Payloads /\ Distinct(payloads')
           /\ payloads' \subseteq payloads \cup backfilled
<1>0. HistorySize \in Nat \ {0}
  BY NodeAssumption
<1>1. payloads \in SUBSET Payloads /\ Distinct(payloads)
  BY DEF TypeOK, Distinct
<1>2. backfilled \in SUBSET Payloads /\ Distinct(backfilled)
  BY DEF TypeOK, WalkLinked, BackfillEnd
<1> DEFINE all == insert_all(payloads, backfilled)
<1>3. all \in SUBSET Payloads /\ Distinct(all)
  BY <1>1, <1>2, InsertAllFacts
<1>4. all \subseteq payloads \cup backfilled
  BY DEF insert_all
<1>5. payloads' = pop_first_until(all, HistorySize)
  BY DEF BackfillEnd
<1> HIDE DEF all
<1>6. payloads' \subseteq all
  BY <1>0, <1>3, <1>5, PopFacts
<1>7. Distinct(payloads')
  BY <1>3, <1>6 DEF Distinct
<1> QED BY <1>3, <1>4, <1>6, <1>7 DEF all

(* The slot from which on the chain of the head was served.                *)
LEMMA SinceFacts ==
    ASSUME TypeOK, head \in Blocks
    PROVE  ServedSince \in 0 .. MaxSlot + 1 \cup {None}
<1>0. MaxSlot \in Nat /\ head \in Nat /\ head <= MaxSlot
  BY NodeAssumption
<1>1. head \in 0 .. MaxSlot + 1 /\ head + 1 \in 0 .. MaxSlot + 1
  BY <1>0
<1>2. since \in 0 .. MaxSlot + 1 \cup {None}
  BY DEF TypeOK
<1>3. start_slot \in 0 .. MaxSlot + 1
  BY StartSlot
<1> QED BY <1>1, <1>2, <1>3, Zenon DEF ServedSince

(* The type invariant and the headers.                                     *)
LEMMA TypeStep ==
    ASSUME TypeOK, HeadersKnown, WalkLinked, [Next]_vars
    PROVE  TypeOK' /\ HeadersKnown'
<1> USE DEF Started
<1>0. MaxSlot \in Nat /\ MaxFailures \in Nat /\ HistorySize \in Nat \ {0}
      /\ failures \in Nat /\ None \notin Nat
  BY NodeAssumption DEF TypeOK
<1>1. CASE ConsensusSync
  BY <1>0, <1>1 DEF ConsensusSync, Begin, Headers, MoveTo, TypeOK, HeadersKnown, walk
<1>2. CASE ConsensusAdvance
  BY <1>0, <1>2 DEF ConsensusAdvance, Begin, Headers, MoveTo, TypeOK, HeadersKnown, walk
<1>3. CASE CallFails
  BY <1>0, <1>3 DEF CallFails, TypeOK, HeadersKnown, walk
<1>4. CASE FetchLatest
  BY <1>4 DEF FetchLatest, TypeOK, HeadersKnown, walk
<1>5. CASE FetchFinalized
  <2>1. head \in Blocks /\ finalized \in Blocks
    BY <1>5 DEF FetchFinalized, HeadersKnown
  <2>2. get_execution_payload(head) \in Blocks /\ get_execution_payload(finalized) \in Blocks
    BY <2>1 DEF get_execution_payload
  <2>3. /\ payloads \in SUBSET Payloads /\ Distinct(payloads)
        /\ finalized_payloads \in SUBSET Blocks
    BY DEF TypeOK, Distinct
  <2>4. payloads' \in SUBSET Payloads /\ Distinct(payloads')
    <3>1. payloads' = insert(insert(payloads, get_execution_payload(head)),
                             get_execution_payload(finalized))
      BY <1>5 DEF FetchFinalized
    <3> QED BY <2>2, <2>3, <3>1, InsertFacts
  <2>5. finalized_payloads' \in SUBSET Blocks
    BY <1>5, <2>2, <2>3 DEF FetchFinalized, insert
  <2>6. since' \in 0 .. MaxSlot + 1 \cup {None} /\ unchecked' \subseteq Payloads
    <3>1. current_slot \in 0 .. MaxSlot + 1 \cup {None}
      <4>1. ASSUME current_slot \in Blocks PROVE current_slot \in 0 .. MaxSlot + 1
        BY <1>0, <4>1
      <4> QED BY <4>1 DEF TypeOK
    <3> QED BY <1>5, <3>1 DEF FetchFinalized, TypeOK
  <2>7. UNCHANGED <<now, head, finalized, current_slot, walk, synced, failures, verified>>
        /\ pc = "finalized" /\ pc' = "backfill"
    BY <1>5 DEF FetchFinalized
  <2> QED BY <2>4, <2>5, <2>6, <2>7 DEF TypeOK, HeadersKnown, Distinct, walk
<1>6. CASE FetchParent
  <2>1. head \in 0 .. MaxSlot
    BY <1>6 DEF FetchParent, HeadersKnown
  <2>2. PICK anchor \in Payloads : /\ prev_parent_hash' = Parent[anchor]
                                   /\ linked' = (anchor = head)
    BY <1>6 DEF FetchParent
  <2>3. prev_parent_hash' \in Payloads /\ linked' \in BOOLEAN
    BY <2>2
  <2> QED BY <1>6, <2>1, <2>3 DEF FetchParent, TypeOK, HeadersKnown
<1>7. CASE BackfillSkip \/ BackfillBlock
  <2>1. head \in Blocks /\ pc = "walk" /\ start_slot < walk_slot /\ walk_slot' = walk_slot - 1
    BY <1>7 DEF BackfillSkip, BackfillBlock, HeadersKnown
  <2>2. start_slot \in 0 .. MaxSlot + 1 /\ walk_slot \in 0 .. MaxSlot
    BY <2>1, StartSlot DEF WalkLinked
  <2>3. walk_slot' \in 0 .. MaxSlot
    BY <1>0, <2>1, <2>2
  <2>4. CASE BackfillSkip
    BY <2>3, <2>4 DEF BackfillSkip, TypeOK, HeadersKnown
  <2>5. CASE BackfillBlock
    <3>1. PICK x \in Payloads :
             /\ prev_parent_hash' = Parent[x] /\ backfilled' = insert(backfilled, x)
             /\ linked' = (linked /\ x \in Blocks)
             /\ unchecked' = IF linked' THEN unchecked \ {x} ELSE unchecked \cup {x}
      BY <2>5 DEF BackfillBlock
    <3>2. prev_parent_hash' \in Payloads /\ linked' \in BOOLEAN
      BY <3>1 DEF TypeOK
    <3>3. backfilled' \subseteq Payloads /\ unchecked' \subseteq Payloads
      BY <3>1 DEF TypeOK, insert
    <3> QED BY <2>3, <2>5, <3>2, <3>3 DEF BackfillBlock, TypeOK, HeadersKnown
  <2> QED BY <1>7, <2>4, <2>5
<1>8. CASE BackfillEnd
  <2>1. head \in Blocks /\ finalized \in Canon /\ pc = "walk" /\ pc' = "idle"
    BY <1>8 DEF BackfillEnd, HeadersKnown
  <2>2. payloads' \in SUBSET Payloads /\ Distinct(payloads')
    BY <1>8, EndFacts
  <2>3. since' \in 0 .. MaxSlot + 1 \cup {None}
    BY <1>8, <2>1, SinceFacts DEF BackfillEnd
  <2>4. finalized_payloads' \in SUBSET Blocks /\ unchecked' \subseteq Payloads
    BY <1>8 DEF BackfillEnd, pop_first_until, TypeOK
  <2>5. /\ current_slot' = head /\ synced' = TRUE /\ failures' = 0
        /\ walk_slot' = None /\ prev_parent_hash' = None /\ backfilled' = {}
        /\ linked' = FALSE
        /\ UNCHANGED <<now, head, finalized, verified>>
    BY <1>8 DEF BackfillEnd
  <2>6. TypeOK'
    <3>0. synced' \in BOOLEAN /\ linked' \in BOOLEAN
      BY <2>5, Zenon
    <3>1. failures' \in 0 .. MaxFailures
      BY <1>0, <2>5
    <3>2. /\ now' \in 0 .. MaxSlot /\ verified' \subseteq Blocks
          /\ head' \in Blocks \cup {None} /\ finalized' \in Canon \cup {None}
          /\ current_slot' \in Blocks \cup {None}
      BY <2>1, <2>5 DEF TypeOK
    <3> QED BY <2>1, <2>2, <2>3, <2>4, <2>5, <3>0, <3>1, <3>2 DEF TypeOK, Distinct
  <2>7. HeadersKnown'
    BY <2>1, <2>5 DEF HeadersKnown
  <2> QED BY <2>6, <2>7
<1>9. CASE Tick
  BY <1>0, <1>9 DEF Tick, TypeOK, HeadersKnown, walk
<1>10. CASE UNCHANGED vars
  BY <1>10 DEF vars, TypeOK, HeadersKnown, walk
<1> QED BY <1>1, <1>2, <1>3, <1>4, <1>5, <1>6, <1>7, <1>8, <1>9, <1>10 DEF Next

(* The walk of a backfill.                                                 *)
LEMMA WalkStep ==
    ASSUME TypeOK, HeadersKnown, WalkLinked, [Next]_vars
    PROVE  WalkLinked'
<1>1. CASE pc' # "walk"
  BY <1>1 DEF WalkLinked
<1>2. CASE FetchParent
  <2>1. head \in Blocks /\ head \in 0 .. MaxSlot
    BY <1>2 DEF FetchParent, HeadersKnown, Started
  <2>2. PICK anchor \in Payloads : /\ prev_parent_hash' = Parent[anchor]
                                   /\ linked' = (anchor = head)
    BY <1>2 DEF FetchParent
  <2>3. Parent[head] \in ChainOf[head]
    <3>1. Parent[head] \in Blocks /\ Parent[head] \in ChainOf[Parent[head]]
      BY <2>1, ChainOrdered DEF Ordered
    <3> QED BY <2>1, <3>1, ChainUnfolds
  <2>4. walk_slot' = head /\ backfilled' = {} /\ head' = head
    BY <1>2 DEF FetchParent
  <2> QED BY <2>1, <2>2, <2>3, <2>4 DEF WalkLinked, Distinct
<1>3. CASE BackfillSkip \/ BackfillBlock
  <2>1. /\ head \in Blocks /\ pc = "walk" /\ start_slot < walk_slot
        /\ walk_slot' = walk_slot - 1 /\ head' = head
    BY <1>3 DEF BackfillSkip, BackfillBlock, HeadersKnown, Started
  <2>2. /\ start_slot \in 0 .. MaxSlot + 1 /\ walk_slot \in 0 .. MaxSlot /\ MaxSlot \in Nat
    BY <2>1, StartSlot, NodeAssumption DEF WalkLinked
  <2>3. walk_slot' \in 0 .. MaxSlot
    BY <2>1, <2>2
  <2>4. CASE BackfillSkip
    BY <2>1, <2>3, <2>4 DEF BackfillSkip, WalkLinked
  <2>5. CASE BackfillBlock
    <3>1. PICK x \in Payloads :
             /\ BlockHash[x] = prev_parent_hash
             /\ prev_parent_hash' = Parent[x] /\ backfilled' = insert(backfilled, x)
             /\ linked' = (linked /\ x \in Blocks)
             /\ unchecked' = IF linked' THEN unchecked \ {x} ELSE unchecked \cup {x}
      BY <2>5 DEF BackfillBlock, expected
    <3>2. Distinct(backfilled')
      <4>1. backfilled \in SUBSET Payloads /\ Distinct(backfilled)
        BY <2>1 DEF TypeOK, WalkLinked
      <4> QED BY <3>1, <4>1, InsertFacts
    <3>3. linked' => x \in ChainOf[head] /\ Parent[x] \in ChainOf[head]
      <4> SUFFICES ASSUME linked' PROVE x \in ChainOf[head] /\ Parent[x] \in ChainOf[head]
        OBVIOUS
      <4>1. linked /\ x \in Blocks
        BY <3>1
      <4>2. x \in ChainOf[head]
        BY <2>1, <3>1, <4>1 DEF WalkLinked
      <4>3. Parent[x] \in Blocks /\ Parent[x] \in ChainOf[Parent[x]]
        BY <4>1, ChainOrdered DEF Ordered
      <4>4. Parent[x] \in ChainOf[x]
        BY <4>1, <4>3, ChainUnfolds
      <4>5. ChainOf[x] \subseteq ChainOf[head]
        BY <2>1, <4>2, ChainOrdered DEF Ordered
      <4> QED BY <4>2, <4>4, <4>5
    <3>4. backfilled' \ unchecked' \subseteq ChainOf[head]
      <4>1. backfilled \ unchecked \subseteq ChainOf[head]
        BY <2>1 DEF WalkLinked
      <4>2. backfilled' \subseteq backfilled \cup {x}
        BY <3>1 DEF insert
      <4> QED BY <3>1, <3>3, <4>1, <4>2
    <3> QED BY <2>1, <2>3, <3>1, <3>2, <3>3, <3>4 DEF WalkLinked
  <2> QED BY <1>3, <2>4, <2>5
<1>4. CASE Tick
  BY <1>4 DEF Tick, WalkLinked, walk
<1>5. CASE UNCHANGED vars
  BY <1>5 DEF vars, WalkLinked, walk
<1>6. CASE ConsensusSync \/ ConsensusAdvance \/ CallFails \/ FetchLatest
           \/ FetchFinalized \/ BackfillEnd
  <2>1. pc' # "walk"
    BY <1>6 DEF ConsensusSync, ConsensusAdvance, CallFails, FetchLatest, FetchFinalized,
                BackfillEnd
  <2> QED BY <1>1, <2>1
<1> QED BY <1>2, <1>3, <1>4, <1>5, <1>6 DEF Next

(* What is cached is verified or noted as unchecked.                       *)
LEMMA VerifiedStep ==
    ASSUME TypeOK, HeadersKnown, WalkLinked, OnlyVerifiedPayloads, [Next]_vars
    PROVE  OnlyVerifiedPayloads'
<1>1. ASSUME verified \subseteq verified', payloads' = payloads, unchecked \subseteq unchecked'
      PROVE  OnlyVerifiedPayloads'
  BY <1>1 DEF OnlyVerifiedPayloads
<1>2. CASE ConsensusSync
  BY <1>1, <1>2 DEF ConsensusSync
<1>3. CASE ConsensusAdvance
  BY <1>1, <1>3 DEF ConsensusAdvance
<1>4. CASE CallFails \/ FetchLatest \/ FetchParent \/ BackfillSkip \/ Tick
  BY <1>1, <1>4 DEF CallFails, FetchLatest, FetchParent, BackfillSkip, Tick
<1>5. CASE FetchFinalized
  <2>1. head \in Blocks /\ finalized \in Blocks /\ {head, finalized} \subseteq verified
    BY <1>5 DEF FetchFinalized, HeadersKnown, Started
  <2>2. head \in ChainOf[head] /\ finalized \in ChainOf[finalized]
    BY <2>1, ChainOrdered DEF Ordered
  <2>3. /\ payloads' \subseteq payloads \cup {head, finalized} /\ verified' = verified
        /\ unchecked' = unchecked \ {head, finalized}
    BY <1>5 DEF FetchFinalized, insert, get_execution_payload
  <2> QED BY <2>1, <2>2, <2>3 DEF OnlyVerifiedPayloads
<1>6. CASE BackfillBlock
  <2>1. /\ head \in Blocks /\ head \in verified /\ pc = "walk" /\ pc' = "walk"
        /\ UNCHANGED <<head, verified, payloads>>
    BY <1>6 DEF BackfillBlock, HeadersKnown, Started
  <2>2. PICK x \in Payloads :
           /\ backfilled' = insert(backfilled, x)
           /\ unchecked' = IF linked' THEN unchecked \ {x} ELSE unchecked \cup {x}
    BY <1>6 DEF BackfillBlock
  <2>3. CASE x \in unchecked'
    BY <1>1, <2>1, <2>2, <2>3
  <2>4. CASE x \notin unchecked'
    <3>1. WalkLinked'
      BY WalkStep
    <3>2. x \in ChainOf[head]
      BY <2>1, <2>2, <2>4, <3>1 DEF WalkLinked, insert
    <3> QED BY <2>1, <2>2, <3>2 DEF OnlyVerifiedPayloads
  <2> QED BY <2>3, <2>4
<1>7. CASE BackfillEnd
  <2>1. head \in Blocks /\ head \in verified /\ pc = "walk"
    BY <1>7 DEF BackfillEnd, HeadersKnown, Started
  <2>2. payloads' \subseteq payloads \cup backfilled
    BY <1>7, EndFacts
  <2>3. verified' = verified /\ unchecked' = unchecked \cap payloads'
    BY <1>7 DEF BackfillEnd
  <2>4. backfilled \ unchecked \subseteq ChainOf[head]
    BY <2>1 DEF WalkLinked
  <2> QED BY <2>1, <2>2, <2>3, <2>4 DEF OnlyVerifiedPayloads
<1>8. CASE UNCHANGED vars
  BY <1>1, <1>8 DEF vars
<1> QED BY <1>2, <1>3, <1>4, <1>5, <1>6, <1>7, <1>8 DEF Next

(* The finalized cache.                                                    *)
LEMMA FinalizedStep ==
    ASSUME TypeOK, HeadersKnown, FinalizedCached, [Next]_vars
    PROVE  FinalizedCached'
<1>0. failures \in Nat /\ FinalizedSize \in Nat \ {0} /\ finalized_payloads \in SUBSET Blocks
  BY NodeAssumption DEF TypeOK
<1>1. CASE ConsensusSync
  BY <1>1 DEF ConsensusSync, Begin, FinalizedCached
<1>2. CASE ConsensusAdvance
  BY <1>2 DEF ConsensusAdvance, Begin, FinalizedCached
<1>3. CASE CallFails
  BY <1>0, <1>3 DEF CallFails, FinalizedCached
<1>4. CASE FetchLatest
  BY <1>4 DEF FetchLatest, FinalizedCached
<1>5. CASE FetchFinalized
  <2>1. head \in Blocks /\ finalized \in Canon
    BY <1>5 DEF FetchFinalized, HeadersKnown, Started
  <2>2. get_execution_payload(finalized) = finalized
    BY DEF get_execution_payload
  <2>3. finalized_payloads' = insert(finalized_payloads, finalized)
        /\ pc' = "backfill" /\ UNCHANGED <<finalized, synced>>
    BY <1>5, <2>2 DEF FetchFinalized
  <2>4. finalized \in finalized_payloads' /\ finalized_payloads' \subseteq Canon
    BY <2>1, <2>3 DEF insert, FinalizedCached
  <2>5. Number[finalized] >= Number[finalized]
    BY <2>1
  <2>6. Reaches(finalized_payloads', Number[finalized'])
    BY <2>3, <2>4, <2>5 DEF Reaches
  <2> QED BY <2>3, <2>4, <2>6 DEF FinalizedCached
<1>6. CASE BackfillEnd
  <2>1. finalized \in Canon /\ Number[finalized] \in Nat
    BY <1>6 DEF BackfillEnd, HeadersKnown, Started
  <2>2. Reaches(finalized_payloads, Number[finalized])
    BY <1>6 DEF BackfillEnd, FinalizedCached
  <2>3. finalized_payloads' = pop_first_until(finalized_payloads, FinalizedSize)
        /\ UNCHANGED finalized
    BY <1>6 DEF BackfillEnd
  <2>4. Reaches(finalized_payloads', Number[finalized'])
        /\ finalized_payloads' \subseteq finalized_payloads
    BY <1>0, <2>1, <2>2, <2>3, PopFacts
  <2>5. finalized_payloads' # {}
    BY <2>4 DEF Reaches
  <2> QED BY <2>4, <2>5 DEF FinalizedCached
<1>7. CASE Tick \/ FetchParent \/ BackfillSkip \/ BackfillBlock
  <2>1. /\ UNCHANGED <<finalized, finalized_payloads, synced, failures>>
        /\ pc' = pc \/ (pc = "backfill" /\ pc' = "walk")
    BY <1>7 DEF Tick, FetchParent, BackfillSkip, BackfillBlock
  <2> QED BY <2>1 DEF FinalizedCached
<1>8. CASE UNCHANGED vars
  BY <1>8 DEF vars, FinalizedCached
<1> QED BY <1>1, <1>2, <1>3, <1>4, <1>5, <1>6, <1>7, <1>8 DEF Next

(* The sizes of the caches.                                                *)
LEMMA SizesStep ==
    ASSUME TypeOK, HeadersKnown, WalkLinked, FinalizedCached, SizesBounded, [Next]_vars
    PROVE  SizesBounded'
<1>0. /\ failures \in Nat /\ FinalizedSize \in Nat \ {0} /\ HistorySize \in Nat \ {0}
      /\ payloads \in SUBSET Payloads /\ finalized_payloads \in SUBSET Payloads
      /\ Distinct(payloads)
  BY NodeAssumption DEF TypeOK, Distinct
<1>1. Cardinality(payloads) \in Nat /\ Cardinality(finalized_payloads) \in Nat
  BY <1>0, MapFinite
<1>2. CASE ConsensusSync
  BY <1>0, <1>1, <1>2 DEF ConsensusSync, Begin, SizesBounded
<1>3. CASE ConsensusAdvance
  BY <1>0, <1>1, <1>3 DEF ConsensusAdvance, Begin, SizesBounded
<1>4. CASE CallFails
  BY <1>0, <1>1, <1>4 DEF CallFails, SizesBounded
<1>5. CASE FetchLatest
  BY <1>0, <1>1, <1>5 DEF FetchLatest, SizesBounded
<1>6. CASE FetchFinalized
  <2>1. head \in Blocks /\ finalized \in Blocks
    BY <1>6 DEF FetchFinalized, HeadersKnown, Started
  <2>2. get_execution_payload(finalized) = finalized /\ get_execution_payload(head) = head
    BY DEF get_execution_payload
  <2> DEFINE one == insert(payloads, head)
  <2>3. payloads' = insert(one, finalized)
        /\ finalized_payloads' = insert(finalized_payloads, finalized)
        /\ pc = "finalized" /\ pc' = "backfill" /\ failures' = failures
    BY <1>6, <2>2 DEF FetchFinalized
  <2>4. one \in SUBSET Payloads /\ Cardinality(one) <= Cardinality(payloads) + 1
    BY <1>0, <2>1, InsertFacts
  <2> HIDE DEF one
  <2>5. Cardinality(payloads') <= Cardinality(one) + 1 /\ payloads' \in SUBSET Payloads
    BY <2>1, <2>3, <2>4, InsertFacts
  <2>6. Cardinality(finalized_payloads') <= Cardinality(finalized_payloads) + 1
        /\ finalized_payloads' \in SUBSET Payloads
    BY <1>0, <2>1, <2>3, InsertFacts
  <2>7. Cardinality(one) \in Nat /\ Cardinality(payloads') \in Nat
        /\ Cardinality(finalized_payloads') \in Nat
    BY <2>4, <2>5, <2>6, MapFinite
  <2>8. Cardinality(payloads) <= HistorySize + 2 * failures
        /\ Cardinality(finalized_payloads) <= FinalizedSize + failures
    BY <2>3 DEF SizesBounded
  <2> QED BY <1>0, <1>1, <2>3, <2>4, <2>5, <2>6, <2>7, <2>8 DEF SizesBounded
<1>7. CASE BackfillEnd
  <2> DEFINE all == insert_all(payloads, backfilled)
  <2>3. all \in SUBSET Payloads /\ Distinct(all) /\ payloads' = pop_first_until(all, HistorySize)
    BY <1>7, EndFacts DEF BackfillEnd
  <2> HIDE DEF all
  <2>4. Cardinality(payloads') <= HistorySize
    BY <1>0, <2>3, PopFacts
  <2>5. finalized_payloads' = pop_first_until(finalized_payloads, FinalizedSize)
        /\ pc' = "idle" /\ failures' = 0
    BY <1>7 DEF BackfillEnd
  <2>6. Cardinality(finalized_payloads') <= FinalizedSize
    <3>1. Distinct(finalized_payloads)
      BY CanonDistinct DEF FinalizedCached
    <3> QED BY <1>0, <2>5, <3>1, PopFacts
  <2> QED BY <1>0, <2>4, <2>5, <2>6 DEF SizesBounded
<1>8. CASE Tick \/ FetchParent \/ BackfillSkip \/ BackfillBlock
  BY <1>8 DEF Tick, FetchParent, BackfillSkip, BackfillBlock, SizesBounded
<1>9. CASE UNCHANGED vars
  BY <1>9 DEF vars, SizesBounded
<1> QED BY <1>2, <1>3, <1>4, <1>5, <1>6, <1>7, <1>8, <1>9 DEF Next

----------------------------------------------------------------------------
(* No gaps: what is covered stays covered.                                 *)

(* A map that has an entry for every number of another has no fewer        *)
(* entries above a number.                                                 *)
LEMMA AboveGrows ==
    ASSUME NEW old \in SUBSET Payloads, NEW new \in SUBSET Payloads, Distinct(old),
           \A y \in old : \E z \in new : Number[z] = Number[y],
           NEW b \in Payloads
    PROVE  Cardinality(Above(old, b)) <= Cardinality(Above(new, b))
<1> DEFINE f == [y \in Above(old, b) |-> CHOOSE z \in new : Number[z] = Number[y]]
<1>1. \A y \in Above(old, b) : f[y] \in new /\ Number[f[y]] = Number[y]
  BY DEF Above
<1>2. f \in [Above(old, b) -> Above(new, b)]
  BY <1>1 DEF Above
<1>3. \A x, y \in Above(old, b) : f[x] = f[y] => x = y
  BY <1>1 DEF Distinct, Above
<1> HIDE DEF f
<1>4. f \in Injection(Above(old, b), Above(new, b))
  BY <1>2, <1>3 DEF Injection, IsInjective
<1>5. IsFiniteSet(Above(new, b))
  BY MapFinite DEF Above
<1> QED BY <1>4, <1>5, FS_Injection

(* Inserting blocks of a chain keeps its blocks covered.                   *)
LEMMA InsertCovers ==
    ASSUME NEW h \in Blocks, NEW b \in ChainOf[h],
           NEW map \in SUBSET Payloads, Distinct(map), Covered(map, b),
           NEW bs \in SUBSET ChainOf[h], NEW new \in SUBSET Payloads,
           {x \in map : \A c \in bs : Number[x] # Number[c]} \cup bs \subseteq new
    PROVE  Covered(new, b)
<1>1. b \in Payloads /\ Distinct(ChainOf[h])
  BY ChainOrdered, ChainDistinct DEF Ordered
<1>2. CASE b \in map
  <2>1. \A c \in bs : Number[b] = Number[c] => b = c
    BY <1>1 DEF Distinct
  <2>2. b \in new
    BY <1>2, <2>1
  <2> QED BY <2>2 DEF Covered
<1>3. CASE Cardinality(Above(map, b)) >= HistorySize
  <2>1. \A y \in map : \E z \in new : Number[z] = Number[y]
    OBVIOUS
  <2>2. Cardinality(Above(map, b)) <= Cardinality(Above(new, b))
    BY <1>1, <2>1, AboveGrows
  <2>3. Cardinality(Above(map, b)) \in Nat /\ Cardinality(Above(new, b)) \in Nat
    BY MapFinite DEF Above
  <2> QED BY <1>3, <2>2, <2>3, NodeAssumption DEF Covered
<1> QED BY <1>2, <1>3 DEF Covered

(* Pruning keeps them covered: what it drops has enough entries above it,  *)
(* and so has what lies below the highest entry that it drops.             *)
LEMMA PopCovers ==
    ASSUME NEW map \in SUBSET Payloads, NEW b \in Payloads, Covered(map, b)
    PROVE  Covered(pop_first_until(map, HistorySize), b)
<1> DEFINE kept == pop_first_until(map, HistorySize)
<1>0. HistorySize \in Nat
  BY NodeAssumption
<1>1. kept = {x \in map : Cardinality(Above(map, x)) < HistorySize}
  BY DEF pop_first_until, Above
<1>2. \A x : Above(map, x) \in SUBSET Payloads /\ Above(kept, x) \in SUBSET Payloads
  BY <1>1 DEF Above
<1>3. \A x : Cardinality(Above(map, x)) \in Nat /\ Cardinality(Above(kept, x)) \in Nat
  BY <1>2, MapFinite
<1> HIDE DEF kept
<1>4. ASSUME NEW x \in map, x \notin kept
      PROVE  Cardinality(Above(map, x)) >= HistorySize
  <2>1. ~ (Cardinality(Above(map, x)) < HistorySize)
    BY <1>1, <1>4
  <2>2. Cardinality(Above(map, x)) \in Nat
    BY <1>3
  <2> QED BY <1>0, <2>1, <2>2
<1>5. CASE b \in kept
  BY <1>5 DEF Covered, kept
<1>6. CASE b \notin kept
  <2>1. Cardinality(Above(map, b)) >= HistorySize
    BY <1>6, <1>4 DEF Covered
  <2>2. CASE Above(map, b) \subseteq kept
    <3>1. Above(kept, b) = Above(map, b)
      <4>1. kept \subseteq map
        BY <1>1
      <4> QED BY <2>2, <4>1 DEF Above
    <3> QED BY <2>1, <3>1 DEF Covered, kept
  <2>3. CASE ~ (Above(map, b) \subseteq kept)
    <3> DEFINE dropped == Above(map, b) \ kept
    <3>1. dropped \in SUBSET Payloads /\ dropped # {} /\ dropped \subseteq map
      BY <1>2, <2>3 DEF Above
    <3>2. PICK m \in dropped : \A y \in dropped : Number[y] <= Number[m]
      <4> HIDE DEF dropped
      <4> QED BY <3>1, MapFinite, GreatestValue
    <3>3. m \in Payloads /\ m \in map /\ m \notin kept /\ Number[m] > Number[b]
      BY <3>1, <3>2 DEF Above
    <3>4. Above(map, m) \subseteq Above(kept, b)
      <4> SUFFICES ASSUME NEW y \in map, Number[y] > Number[m]
                   PROVE  y \in kept /\ Number[y] > Number[b]
        BY DEF Above
      <4>1. Number[y] \in Nat /\ Number[m] \in Nat /\ Number[b] \in Nat
        BY <3>3
      <4>2. Number[y] > Number[b] /\ ~ (Number[y] <= Number[m])
        BY <3>3, <4>1
      <4>3. y \notin dropped
        BY <3>2, <4>2
      <4> QED BY <4>2, <4>3 DEF Above
    <3>5. Cardinality(Above(map, m)) <= Cardinality(Above(kept, b))
      BY <1>2, <3>4, MapFinite, FS_Subset
    <3>6. Cardinality(Above(map, m)) >= HistorySize
      BY <1>4, <3>3
    <3>7. Cardinality(Above(kept, b)) >= HistorySize
      BY <1>0, <1>3, <3>5, <3>6
    <3> QED BY <3>7 DEF Covered, kept
  <2> QED BY <2>2, <2>3
<1> QED BY <1>5, <1>6

(* FetchFinalized replaces no block that is covered up to current_slot,    *)
(* unless since moves past it.                                             *)
LEMMA FetchFinalizedCovers ==
    ASSUME TypeOK, HeadersKnown, ServedCovered, FetchFinalized
    PROVE  ServedCovered'
<1>1. head \in Blocks /\ finalized \in Blocks
  BY DEF FetchFinalized, HeadersKnown, Started
<1>2. get_execution_payload(finalized) = finalized /\ get_execution_payload(head) = head
  BY DEF get_execution_payload
<1> DEFINE one == insert(payloads, head)
<1>3. /\ payloads' = insert(one, finalized) /\ pc' = "backfill"
      /\ since' = IF SameBranch THEN since ELSE current_slot
      /\ UNCHANGED <<head, finalized, current_slot, synced, failures>>
  BY <1>2 DEF FetchFinalized
<1>4. payloads \in SUBSET Payloads /\ Distinct(payloads)
  BY DEF TypeOK, Distinct
<1>5. one \in SUBSET Payloads /\ Distinct(one)
  BY <1>1, <1>4, InsertFacts
<1>6. payloads' \in SUBSET Payloads
  BY <1>1, <1>3, <1>5, InsertFacts
<1>7. synced => since' \in Nat
  BY <1>3 DEF ServedCovered
<1>8. head' \in payloads' \/ Number[head'] = Number[finalized']
  BY <1>3 DEF insert
<1>9. ASSUME synced, NEW b \in ChainOf[current_slot], since' <= b, b < current_slot
      PROVE  Covered(payloads', b)
  <2>1. current_slot \in Blocks /\ b \in Nat /\ current_slot \in Nat
    BY <1>9, ChainOrdered DEF ServedCovered, Ordered
  <2>2. SameBranch /\ since' = since
    BY <1>3, <1>9, <2>1
  <2>3. current_slot \in ChainOf[head] /\ finalized \in ChainOf[head] /\ head \in ChainOf[head]
    BY <1>1, <2>2, ChainOrdered DEF SameBranch, Ordered
  <2>4. b \in ChainOf[head]
    BY <1>1, <1>9, <2>3, ChainOrdered DEF Ordered
  <2>5. Covered(payloads, b)
    BY <1>9, <2>2 DEF ServedCovered
  <2>6. Covered(one, b)
    <3>1. {x \in payloads : \A c \in {head} : Number[x] # Number[c]} \cup {head} \subseteq one
      BY DEF insert
    <3>2. {head} \in SUBSET ChainOf[head]
      BY <2>3
    <3> HIDE DEF one
    <3> QED BY <1>1, <1>4, <1>5, <2>4, <2>5, <3>1, <3>2, InsertCovers
  <2> HIDE DEF one
  <2>7. {x \in one : \A c \in {finalized} : Number[x] # Number[c]} \cup {finalized}
            \subseteq payloads'
    BY <1>3 DEF insert
  <2>8. {finalized} \in SUBSET ChainOf[head]
    BY <2>3
  <2> QED BY <1>1, <1>5, <1>6, <2>4, <2>6, <2>7, <2>8, InsertCovers
<1> QED BY <1>3, <1>7, <1>8, <1>9 DEF ServedCovered

(* A backfill extends what is covered to the head.                         *)
LEMMA BackfillCovers ==
    ASSUME TypeOK, HeadersKnown, WalkLinked, ServedCovered, BackfillEnd
    PROVE  ServedCovered'
<1>0. HistorySize \in Nat /\ HistorySize \in Nat \ {0} /\ MaxSlot \in Nat
  BY NodeAssumption
<1>1. head \in Blocks /\ head \in Nat /\ pc = "walk"
  BY DEF BackfillEnd, HeadersKnown, Started
<1>2. /\ payloads' = pop_first_until(insert_all(payloads, backfilled), HistorySize)
      /\ since' = ServedSince
  BY DEF BackfillEnd
<1>3. current_slot' = head /\ synced' = TRUE /\ pc' = "idle" /\ head' = head
      /\ UNCHANGED finalized
  BY DEF BackfillEnd
<1>4. CASE ~ (backfilled \subseteq ChainOf[head])
  <2>1. since' = head + 1
    BY <1>2, <1>4 DEF ServedSince
  <2>2. since' \in Nat /\ ~ (since' <= head)
        /\ \A b \in ChainOf[head] : ~ (since' <= b)
    <3>1. \A b \in ChainOf[head] : b \in Nat /\ b <= head
      BY <1>1, ChainOrdered DEF Ordered
    <3> QED BY <1>1, <2>1, <3>1
  <2> QED BY <1>1, <1>3, <2>2 DEF ServedCovered
<1>5. CASE backfilled \subseteq ChainOf[head]
  <2> DEFINE all == insert_all(payloads, backfilled)
  <2>1. payloads \in SUBSET Payloads /\ Distinct(payloads)
    BY DEF TypeOK, Distinct
  <2>2. all \in SUBSET Payloads
    BY EndFacts
  <2>3. {x \in payloads : \A c \in backfilled : Number[x] # Number[c]} \cup backfilled
            \subseteq all
    BY DEF insert_all
  <2>4. payloads' = pop_first_until(all, HistorySize)
    BY <1>2
  <2> HIDE DEF all
  <2>5. ASSUME NEW b \in ChainOf[head], b \in backfilled \/ Covered(payloads, b)
        PROVE  Covered(payloads', b)
    <3>1. b \in Payloads
      BY <1>1, ChainOrdered DEF Ordered
    <3>2. Covered(all, b)
      <4>1. CASE b \in backfilled
        BY <2>3, <4>1 DEF Covered
      <4>2. CASE Covered(payloads, b)
        BY <1>1, <1>5, <2>1, <2>2, <2>3, <4>2, InsertCovers
      <4> QED BY <2>5, <4>1, <4>2
    <3> QED BY <2>2, <2>4, <3>1, <3>2, PopCovers
  <2>6. Covered(payloads', head) \/ Number[head] = Number[finalized]
    <3> SUFFICES ASSUME head \in payloads PROVE Covered(payloads', head)
      BY <1>1 DEF ServedCovered
    <3>1. head \in ChainOf[head]
      BY <1>1, ChainOrdered DEF Ordered
    <3> QED BY <2>5, <3>1 DEF Covered
  <2> DEFINE asked == {b \in ChainOf[head] : start_slot <= b /\ b < head}
             incomplete == \/ ~ (asked \subseteq backfilled)
                           \/ current_slot = None /\ head < HistorySize
  <2>7. since' = IF incomplete THEN head
                 ELSE IF current_slot \in ChainOf[head] /\ since <= current_slot THEN since
                 ELSE start_slot
    BY <1>2, <1>5 DEF ServedSince
  <2>8. start_slot \in Nat
    BY <1>0, <1>1, StartSlot
  <2>9. current_slot \in ChainOf[head] => /\ synced /\ current_slot \in Blocks
                                          /\ start_slot = current_slot
    <3>1. ChainOf[head] \subseteq Blocks /\ None \notin Blocks
      BY <1>1, ChainOrdered DEF Ordered
    <3> QED BY <3>1 DEF ServedCovered, TypeOK, start_slot
  <2> HIDE DEF incomplete
  <2>10. since' \in Nat
    BY <1>1, <2>7, <2>8, <2>9 DEF ServedCovered
  <2>11. ASSUME NEW b \in ChainOf[head], since' <= b, b < head
         PROVE  Covered(payloads', b)
    <3>1. b \in Blocks /\ b \in Nat
      BY <1>1, ChainOrdered DEF Ordered
    <3>2. ~ incomplete
      BY <1>1, <2>7, <2>11, <3>1
    <3>3. CASE start_slot <= b
      <4>1. b \in backfilled
        BY <2>11, <3>2, <3>3 DEF incomplete
      <4> QED BY <2>5, <4>1
    <3>4. CASE ~ (start_slot <= b)
      <4>1. current_slot \in ChainOf[head] /\ since' = since
        BY <2>7, <2>11, <3>2, <3>4
      <4>2. current_slot \in Nat /\ b < current_slot
        <5>1. current_slot \in Nat /\ start_slot = current_slot
          BY <2>9, <4>1
        <5> QED BY <3>1, <3>4, <5>1
      <4>3. b \in ChainOf[current_slot]
        BY <1>1, <3>1, <4>1, <4>2, ChainOrdered DEF Ordered
      <4>4. Covered(payloads, b)
        BY <2>9, <2>11, <4>1, <4>2, <4>3 DEF ServedCovered
      <4> QED BY <2>5, <4>4
    <3> QED BY <3>3, <3>4
  <2> QED BY <1>1, <1>3, <2>6, <2>10, <2>11 DEF ServedCovered
<1> QED BY <1>4, <1>5

(* What is covered, in every step.                                         *)
LEMMA ServedStep ==
    ASSUME TypeOK, HeadersKnown, WalkLinked, ServedCovered, [Next]_vars
    PROVE  ServedCovered'
<1>0. failures \in Nat
  BY DEF TypeOK
<1>1. CASE ConsensusSync
  BY <1>1 DEF ConsensusSync, Begin, ServedCovered
<1>2. CASE ConsensusAdvance
  BY <1>2 DEF ConsensusAdvance, Begin, ServedCovered
<1>3. CASE CallFails
  BY <1>0, <1>3 DEF CallFails, ServedCovered
<1>4. CASE FetchLatest
  BY <1>4 DEF FetchLatest, ServedCovered
<1>5. CASE FetchFinalized
  BY <1>5, FetchFinalizedCovers
<1>6. CASE BackfillEnd
  BY <1>6, BackfillCovers
<1>7. CASE Tick \/ FetchParent \/ BackfillSkip \/ BackfillBlock
  BY <1>7 DEF Tick, FetchParent, BackfillSkip, BackfillBlock, ServedCovered
<1>8. CASE UNCHANGED vars
  BY <1>8 DEF vars, ServedCovered
<1> QED BY <1>1, <1>2, <1>3, <1>4, <1>5, <1>6, <1>7, <1>8 DEF Next

----------------------------------------------------------------------------
(* The theorems.                                                           *)

(* The node starts in the invariant ...                                    *)
LEMMA InvInit ==
    ASSUME Init
    PROVE  Inv
<1>1. TypeOK
  <2>1. now \in 0 .. MaxSlot /\ 0 \in 0 .. MaxFailures
    BY NodeAssumption DEF Init
  <2> QED BY <2>1 DEF Init, TypeOK
<1>2. HeadersKnown /\ WalkLinked /\ OnlyVerifiedPayloads /\ FinalizedCached /\ ServedCovered
  BY DEF Init, HeadersKnown, Started, WalkLinked, OnlyVerifiedPayloads, FinalizedCached,
         ServedCovered
<1>3. SizesBounded
  BY FS_EmptySet, NodeAssumption DEF Init, SizesBounded
<1> QED BY <1>1, <1>2, <1>3 DEF Inv

(* ... and no step leaves it.                                              *)
LEMMA InvStep ==
    ASSUME Inv, [Next]_vars
    PROVE  Inv'
BY TypeStep, WalkStep, VerifiedStep, FinalizedStep, SizesStep, ServedStep DEF Inv

(* The inductive invariant of the node holds in every run.                 *)
THEOREM NodeInvariant == Spec => []Inv
<1>1. Init => Inv
  BY InvInit
<1>2. Inv /\ [Next]_vars => Inv'
  BY InvStep
<1> QED BY <1>1, <1>2, PTL DEF Spec

(* The node's variables keep their types; no two cached blocks have the    *)
(* same number.                                                            *)
THEOREM TypeCorrect == Spec => []TypeOK
<1>1. Inv => TypeOK
  BY DEF Inv
<1> QED BY <1>1, NodeInvariant, PTL

(* Whatever the provider serves, the cache holds only blocks that the      *)
(* consensus client has verified, their ancestors, and payloads that       *)
(* get_payloads took after an answer for end_slot that was not the head's  *)
(* block or after a payload that carried a hash not its own.               *)
THEOREM PayloadsVerified == Spec => []OnlyVerifiedPayloads
<1>1. Inv => OnlyVerifiedPayloads
  BY DEF Inv
<1> QED BY <1>1, NodeInvariant, PTL

(* Between two calls the caches are within their sizes, but for what calls *)
(* that returned early left since the last success (update_payloads).      *)
THEOREM SizesCorrect == Spec => []CachesBounded
<1>1. Inv => CachesBounded
  BY DEF Inv, SizesBounded, CachesBounded, Unlocked
<1> QED BY <1>1, NodeInvariant, PTL

(* What get_payload answers for the tag Finalized is a finalized block, no *)
(* older than the finalized header after a call that succeeded.            *)
THEOREM FinalizedCorrect == Spec => []FinalizedTagIsFinal
<1>1. Inv => FinalizedTagIsFinal
  <2> SUFFICES ASSUME Inv, pc = "idle", synced
               PROVE  /\ get_payload_finalized \in Canon
                      /\ failures = 0 => get_payload_finalized >= finalized
    BY DEF FinalizedTagIsFinal, Unlocked
  <2>1. /\ finalized_payloads \subseteq Canon /\ finalized_payloads # {}
        /\ finalized_payloads \in SUBSET Blocks
        /\ finalized \in Canon /\ Number[finalized] \in Nat
    BY DEF Inv, FinalizedCached, HeadersKnown, Started
  <2> DEFINE last == last_value(finalized_payloads)
  <2>2. /\ get_payload_finalized = last /\ last \in finalized_payloads
        /\ \A y \in finalized_payloads : Number[y] <= Number[last]
    BY <2>1, LastValue DEF get_payload_finalized
  <2> HIDE DEF last
  <2>3. ASSUME failures = 0 PROVE last >= finalized
    <3>1. PICK y \in finalized_payloads : Number[y] >= Number[finalized]
      BY <2>3 DEF Inv, FinalizedCached, Reaches
    <3>2. Number[y] \in Nat /\ Number[last] \in Nat /\ Number[y] <= Number[last]
      BY <2>1, <2>2
    <3>3. Number[last] >= Number[finalized]
      BY <2>1, <3>1, <3>2
    <3> QED BY <2>1, <2>2, <3>3, CanonOrdered
  <2> QED BY <2>1, <2>2, <2>3
<1> QED BY <1>1, NodeInvariant, PTL

(* Of the head's chain, as far back as the provider served every block, no *)
(* block is missing but for lack of room (update_payloads).                *)
THEOREM ServedChainComplete == Spec => []NoGapsInServedChain
<1>1. Inv => NoGapsInServedChain
  <2> SUFFICES ASSUME Inv, pc = "idle", synced, failures = 0,
                      NEW b \in ChainOf[head], since <= b
               PROVE  \/ Covered(payloads, b)
                      \/ b = head /\ Number[b] = Number[finalized]
    BY DEF NoGapsInServedChain, Unlocked, Covered, Above
  <2>1. head \in Blocks /\ current_slot = head
    BY DEF Inv, HeadersKnown, Started, ServedCovered
  <2>2. b \in Nat /\ head \in Nat /\ b <= head
    BY <2>1, ChainOrdered DEF Ordered
  <2>3. CASE b = head
    BY <2>3 DEF Inv, ServedCovered
  <2>4. CASE b < head
    BY <2>1, <2>4 DEF Inv, ServedCovered
  <2> QED BY <2>2, <2>3, <2>4
<1> QED BY <1>1, NodeInvariant, PTL

(* A cache never loses its highest number without a higher or equal one.   *)
LEMMA HighestKept ==
    ASSUME NEW old \in SUBSET Payloads, NEW new \in SUBSET Payloads, old # {},
           \A n \in Nat : Reaches(old, n) => Reaches(new, n)
    PROVE  Number[last_value(new)] >= Number[last_value(old)]
<1> DEFINE top == last_value(old)
           n == Number[top]
<1>1. top \in old /\ n \in Nat
  BY LastValue
<1>2. n >= n
  BY <1>1
<1>3. Reaches(old, n)
  BY <1>1, <1>2 DEF Reaches
<1>4. PICK y \in new : Number[y] >= n
  <2> HIDE DEF n
  <2> QED BY <1>1, <1>3 DEF Reaches
<1>5. last_value(new) \in new /\ Number[y] <= Number[last_value(new)]
  BY <1>4, LastValue
<1>6. Number[y] \in Nat /\ Number[last_value(new)] \in Nat
  BY <1>5
<1> HIDE DEF n
<1>7. Number[last_value(new)] >= n
  BY <1>1, <1>4, <1>5, <1>6
<1> QED BY <1>7 DEF n

(* What the caches reach they go on reaching.                              *)
LEMMA ReachStep ==
    ASSUME Inv, Next, NEW n \in Nat
    PROVE  /\ Reaches(payloads, n) => Reaches(payloads', n)
           /\ Reaches(finalized_payloads, n) => Reaches(finalized_payloads', n)
<1>0. /\ HistorySize \in Nat \ {0} /\ FinalizedSize \in Nat \ {0}
      /\ payloads \in SUBSET Payloads /\ finalized_payloads \in SUBSET Payloads
  BY NodeAssumption DEF Inv, TypeOK
<1>1. CASE FetchFinalized
  <2>1. head \in Blocks /\ finalized \in Blocks
    BY <1>1 DEF FetchFinalized, Inv, HeadersKnown, Started
  <2>2. get_execution_payload(head) \in Blocks /\ get_execution_payload(finalized) \in Blocks
    BY <2>1 DEF get_execution_payload
  <2> DEFINE one == insert(payloads, get_execution_payload(head))
  <2>3. one \in SUBSET Payloads /\ (Reaches(payloads, n) => Reaches(one, n))
    BY <1>0, <2>2, InsertFacts
  <2>4. /\ payloads' = insert(one, get_execution_payload(finalized))
        /\ finalized_payloads' = insert(finalized_payloads, get_execution_payload(finalized))
    BY <1>1 DEF FetchFinalized
  <2> HIDE DEF one
  <2> QED BY <1>0, <2>2, <2>3, <2>4, InsertFacts
<1>2. CASE BackfillEnd
  <2> DEFINE all == insert_all(payloads, backfilled)
  <2>1. backfilled \in SUBSET Payloads
    BY DEF Inv, TypeOK
  <2>2. all \in SUBSET Payloads /\ (Reaches(payloads, n) => Reaches(all, n))
    BY <1>0, <2>1, InsertAllFacts
  <2>3. /\ payloads' = pop_first_until(all, HistorySize)
        /\ finalized_payloads' = pop_first_until(finalized_payloads, FinalizedSize)
    BY <1>2 DEF BackfillEnd
  <2> HIDE DEF all
  <2> QED BY <1>0, <2>2, <2>3, PopFacts
<1>3. CASE ConsensusSync \/ ConsensusAdvance \/ CallFails \/ FetchLatest \/ Tick
           \/ FetchParent \/ BackfillSkip \/ BackfillBlock
  BY <1>3 DEF ConsensusSync, ConsensusAdvance, CallFails, FetchLatest, Tick, FetchParent,
              BackfillSkip, BackfillBlock
<1> QED BY <1>1, <1>2, <1>3 DEF Next

(* No step takes back the number that get_block_number would report, nor   *)
(* that of the block under the tag Finalized.                              *)
THEOREM NumbersNeverDecrease == Spec => ReportedNumbersNeverDecrease
<1> DEFINE A ==
        /\ payloads # {} => Number[last_value(payloads')] >= Number[last_value(payloads)]
        /\ finalized_payloads # {} /\ synced =>
               Number[last_value(finalized_payloads')]
                   >= Number[last_value(finalized_payloads)]
<1>1. ASSUME Inv, Inv', Next PROVE A
  <2>1. /\ payloads \in SUBSET Payloads /\ finalized_payloads \in SUBSET Payloads
        /\ payloads' \in SUBSET Payloads /\ finalized_payloads' \in SUBSET Payloads
    BY <1>1 DEF Inv, TypeOK
  <2>2. \A n \in Nat : /\ Reaches(payloads, n) => Reaches(payloads', n)
                       /\ Reaches(finalized_payloads, n) => Reaches(finalized_payloads', n)
    BY <1>1, ReachStep
  <2> QED BY <2>1, <2>2, HighestKept
<1>2. Inv /\ Inv' /\ [Next]_vars => [A]_vars
  BY <1>1
<1> QED BY <1>2, NodeInvariant, PTL DEF Spec, ReportedNumbersNeverDecrease
=============================================================================
