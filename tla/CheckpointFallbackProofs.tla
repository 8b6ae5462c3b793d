---------------------- MODULE CheckpointFallbackProofs ----------------------
(***************************************************************************)
(* The vote of the checkpoint services gives the genuine checkpoint where  *)
(* the honest prevail, for every number of services, every list and every  *)
(* order of the answers.                                                   *)
(***************************************************************************)
EXTENDS CheckpointFallback, OrderLemmas, SequenceTheorems

(* A slot with a root, as find_slot returns it.                            *)
RootedSlot == [epoch : Epoch, block_root : Root]

(* The constants, in the form the proofs use.                              *)
LEMMA ConstantFacts ==
    /\ MaxEpoch \in Nat \ {0} /\ Epoch = 1 .. MaxEpoch
    /\ IsFiniteSet(Services) /\ Honest \subseteq Services
    /\ {None, Pending, Err, Panic} \cap Root = {}
    /\ {None, Pending, Err, Panic} \cap Slot = {}
BY FallbackAssumption DEF Epoch

(* A slot with a root is a slot, and none of the other results is one.     *)
LEMMA RootedSlots ==
    /\ RootedSlot \subseteq Slot
    /\ Pending \notin RootedSlot /\ Err \notin RootedSlot
BY ConstantFacts DEF RootedSlot, Slot

----------------------------------------------------------------------------
(* The answers of the services.                                            *)

(* The answer of two slots.                                                *)
LEMMA TwoSlots ==
    ASSUME NEW x \in Slot, NEW y \in Slot
    PROVE  <<x>> \o <<y>> = <<x, y>>
<1>1. <<x>> \in Seq(Slot) /\ <<y>> \in Seq(Slot)
  OBVIOUS
<1> DEFINE both == <<x>> \o <<y>>
<1>2. both \in Seq(Slot) /\ Len(both) = 2 /\ both[1] = x /\ both[2] = y
  BY <1>1, ConcatProperties
<1>3. <<x, y>> \in Seq(Slot) /\ Len(<<x, y>>) = 2
  OBVIOUS
<1>4. \A i \in 1 .. Len(both) : both[i] = <<x, y>>[i]
  <2>1. \A i \in 1 .. 2 : i = 1 \/ i = 2
    OBVIOUS
  <2> HIDE DEF both
  <2> QED BY <1>2, <2>1
<1> HIDE DEF both
<1>5. both = <<x, y>>
  BY <1>2, <1>3, <1>4, SeqEqual
<1> QED BY <1>5 DEF both

(* find_slot returns a slot of the answer that has a root, or an error.    *)
LEMMA FindSlot ==
    ASSUME NEW slots \in Seq(Slot), find_slot(slots) # Err
    PROVE  \E i \in DOMAIN slots : /\ find_slot(slots) = slots[i]
                                  /\ slots[i].block_root # None
<1> DEFINE valid == {i \in DOMAIN slots : slots[i].block_root # None}
           first == CHOOSE i \in valid : \A j \in valid : i <= j
<1>1. find_slot(slots) = IF valid = {} THEN Err ELSE slots[first]
  BY DEF find_slot
<1>2. valid # {} /\ valid \in SUBSET Nat
  <2>1. DOMAIN slots = 1 .. Len(slots) /\ Len(slots) \in Nat
    BY LenProperties
  <2> QED BY <1>1, <2>1
<1>3. first \in valid
  <2> HIDE DEF valid
  <2> QED BY <1>2, LeastElement
<1> QED BY <1>1, <1>2, <1>3

(* An honest service reports the checkpoint of this epoch or the last.     *)
Genuine(a, t) ==
    /\ a \in RootedSlot /\ a.block_root = a.epoch
    /\ a.epoch <= t /\ a.epoch >= t - 1

(* The newest slot of an answer.                                           *)
LEMMA HeadOfAnswer ==
    ASSUME NEW s, now \in Epoch, NEW slots \in Answers(s), slots # <<>>
    PROVE  Head(slots) \in Slot
<1> DEFINE slot(e, r) == [epoch |-> e, block_root |-> r]
<1>1. CASE s \in Honest
  <2>1. PICK r \in {now, None} :
           slots = <<slot(now, r)>> \o (IF now = 1 THEN <<>> ELSE <<slot(now - 1, now - 1)>>)
    BY <1>1 DEF Answers, HonestSlots
  <2>2. slot(now, r) \in Slot
    BY DEF Slot, Root
  <2>3. CASE now = 1
    BY <2>1, <2>2, <2>3
  <2>4. CASE now # 1
    <3>1. slot(now - 1, now - 1) \in Slot
      BY <2>4, ConstantFacts DEF Slot, Root
    <3>2. slots = <<slot(now, r), slot(now - 1, now - 1)>>
      BY <2>1, <2>2, <2>4, <3>1, TwoSlots
    <3> QED BY <2>2, <3>2
  <2> QED BY <2>3, <2>4
<1>2. CASE s \notin Honest
  BY <1>2 DEF Answers
<1> QED BY <1>1, <1>2

(* What is found in the answer of any service, and of an honest one.       *)
LEMMA AnswersFound ==
    ASSUME NEW s \in Services, now \in Epoch, NEW slots \in Answers(s)
    PROVE  /\ find_slot(slots) \in RootedSlot \cup {Err}
           /\ s \in Honest => find_slot(slots) = Err \/ Genuine(find_slot(slots), now)
<1> USE ConstantFacts
<1>1. CASE s \in Honest
  <2> DEFINE slot(e, r) == [epoch |-> e, block_root |-> r]
  <2>1. PICK r \in {now, None} :
           slots = <<slot(now, r)>> \o (IF now = 1 THEN <<>> ELSE <<slot(now - 1, now - 1)>>)
    BY <1>1 DEF Answers, HonestSlots
  <2>2. now = 1 \/ now - 1 \in Epoch
    OBVIOUS
  <2>3. now \in Root /\ (now # 1 => now - 1 \in Root)
    BY <2>2 DEF Root
  <2>4. slot(now, r) \in Slot /\ (now # 1 => slot(now - 1, now - 1) \in Slot)
    BY <2>2, <2>3 DEF Slot
  <2>5. CASE now = 1
    <3>1. slots = <<slot(now, r)>>
      BY <2>1, <2>5
    <3>2. slots \in Seq(Slot) /\ DOMAIN slots = {1} /\ slots[1] = slot(now, r)
      BY <2>4, <3>1
    <3> SUFFICES ASSUME find_slot(slots) # Err PROVE Genuine(find_slot(slots), now)
      BY DEF Genuine
    <3>3. find_slot(slots) = slot(now, r) /\ r # None
      BY <3>2, FindSlot
    <3>4. find_slot(slots) = slot(now, now)
      BY <3>3
    <3> QED BY <2>3, <3>4 DEF Genuine, RootedSlot
  <2>6. CASE now # 1
    <3>1. slots = <<slot(now, r), slot(now - 1, now - 1)>>
      BY <2>1, <2>4, <2>6, TwoSlots
    <3>2. /\ slots \in Seq(Slot) /\ DOMAIN slots = {1, 2}
          /\ slots[1] = slot(now, r) /\ slots[2] = slot(now - 1, now - 1)
      <4> HIDE DEF slot
      <4>1. slots \in Seq(Slot) /\ Len(slots) = 2
        BY <2>4, <2>6, <3>1
      <4>2. DOMAIN slots = 1 .. 2
        BY <4>1, LenProperties
      <4> QED BY <3>1, <4>1, <4>2
    <3> SUFFICES ASSUME find_slot(slots) # Err PROVE Genuine(find_slot(slots), now)
      BY DEF Genuine
    <3>3. \/ find_slot(slots) = slot(now, r) /\ r # None
          \/ find_slot(slots) = slot(now - 1, now - 1)
      BY <3>2, FindSlot
    <3>4. find_slot(slots) \in {slot(now, now), slot(now - 1, now - 1)}
      BY <3>3
    <3> QED BY <2>2, <2>3, <2>6, <3>4 DEF Genuine, RootedSlot
  <2> QED BY <2>5, <2>6
<1>2. CASE s \notin Honest
  <2>1. slots = <<>> \/ \E x \in Slot : slots = <<x>>
    BY <1>2 DEF Answers
  <2>2. slots \in Seq(Slot) /\ \A i \in DOMAIN slots : slots[i] \in Slot
    <3>1. <<>> \in Seq(Slot) /\ \A x \in Slot : <<x>> \in Seq(Slot)
      OBVIOUS
    <3>2. slots \in Seq(Slot)
      BY <2>1, <3>1
    <3> QED BY <3>2, ElementOfSeq, LenProperties
  <2>3. \A x \in Slot : x.block_root # None => x \in RootedSlot
    BY DEF Slot, RootedSlot
  <2> QED BY <1>2, <2>2, <2>3, FindSlot
<1> QED BY <1>1, <1>2

----------------------------------------------------------------------------
(* The inductive invariant.                                                *)

(* Services answer only after they were asked, the honest ones with the    *)
(* checkpoint of an epoch that is not older than the one before.           *)
HonestReports ==
    /\ pc \in {"list", "built", "api"} => answers = <<>>
    /\ asked_at <= now
    /\ \A s \in DOMAIN answers \cap Honest : answers[s] \in RootedSlot =>
          answers[s].block_root = answers[s].epoch /\ answers[s].epoch >= asked_at - 1

(* The result is one of the roots with the most votes.                     *)
Elected == pc = "done" /\ Reporting # {} => result \in most_common(LatestSlots)

Inv == TypeOK /\ HonestReports /\ Elected

(* The type invariant and the reports.                                     *)
LEMMA ReportStep ==
    ASSUME TypeOK, HonestReports, [Next]_vars
    PROVE  TypeOK' /\ HonestReports'
<1> USE ConstantFacts
<1>1. CASE Build
  BY <1>1 DEF Build, Return, TypeOK, HonestReports
<1>2. CASE BuildFails
  BY <1>2 DEF BuildFails, Return, TypeOK, HonestReports
<1>3. CASE FetchLatest
  <2>1. /\ DOMAIN answers' \subseteq Services /\ pc' = "services"
        /\ \A s \in DOMAIN answers' : answers'[s] = Pending
        /\ asked_at' = now /\ UNCHANGED <<now, fallback, network, services, result>>
    BY <1>3 DEF FetchLatest, get_healthy_fallback_services
  <2> QED BY <2>1, RootedSlots DEF TypeOK, HonestReports
<1>4. ASSUME NEW s \in DOMAIN answers, QueryService(s)
      PROVE  TypeOK' /\ HonestReports'
  <2>1. s \in Services /\ now \in Epoch /\ now \in Nat /\ asked_at \in Nat
    BY DEF TypeOK
  <2>2. PICK a : /\ answers' = [answers EXCEPT ![s] = a]
                 /\ a = Err \/ \E slots \in Answers(s) : a = find_slot(slots)
    BY <1>4 DEF QueryService
  <2>3. a \in RootedSlot \cup {Err} /\ (s \in Honest => a = Err \/ Genuine(a, now))
    BY <2>1, <2>2, AnswersFound
  <2>4. UNCHANGED <<now, pc, fallback, network, services, asked_at, result>>
        /\ pc = "services"
    BY <1>4 DEF QueryService
  <2>5. DOMAIN answers' = DOMAIN answers
        /\ \A t \in DOMAIN answers : answers'[t] = IF t = s THEN a ELSE answers[t]
    BY <2>2
  <2>6. TypeOK'
    BY <2>3, <2>4, <2>5 DEF TypeOK, RootedSlot
  <2>7. ASSUME NEW t \in DOMAIN answers' \cap Honest, answers'[t] \in RootedSlot
        PROVE  answers'[t].block_root = answers'[t].epoch /\ answers'[t].epoch >= asked_at - 1
    <3>1. CASE t = s
      <4>1. answers'[t] = a /\ Genuine(a, now)
        BY <2>3, <2>5, <2>7, <3>1, RootedSlots
      <4>2. a.epoch \in Nat /\ a.epoch >= now - 1 /\ asked_at <= now
        BY <4>1 DEF Genuine, RootedSlot, HonestReports
      <4> QED BY <2>1, <4>1, <4>2 DEF Genuine
    <3>2. CASE t # s
      BY <2>5, <2>7, <3>2 DEF HonestReports
    <3> QED BY <3>1, <3>2
  <2> QED BY <2>4, <2>6, <2>7 DEF HonestReports
<1>5. CASE Choose
  <2>1. PICK r : result' = r /\ pc' = "done" /\ r \in Root \cup {Err}
    BY <1>5 DEF Choose, Return, most_common
  <2>2. UNCHANGED <<now, fallback, network, services, answers, asked_at>>
    BY <1>5 DEF Choose
  <2> QED BY <2>1, <2>2 DEF TypeOK, HonestReports
<1>6. CASE FetchFromApi
  <2>1. UNCHANGED <<now, fallback, network, services, answers, asked_at>>
        /\ pc' = "done" /\ pc = "api"
    BY <1>6 DEF FetchFromApi, Return
  <2>2. result' \in Root \cup {Err, Panic}
    <3>1. CASE result' \in {Err, Panic}
      BY <3>1
    <3>2. CASE \E slots \in Answers(fallback) :
                  slots # <<>> /\ result' = Head(slots).block_root /\ result' # None
      <4>1. PICK slots \in Answers(fallback) :
                  slots # <<>> /\ result' = Head(slots).block_root /\ result' # None
        BY <3>2
      <4>2. Head(slots) \in Slot
        BY <4>1, HeadOfAnswer DEF TypeOK
      <4> QED BY <4>1, <4>2 DEF Slot
    <3> QED BY <1>6, <3>1, <3>2 DEF FetchFromApi, Return
  <2> QED BY <2>1, <2>2 DEF TypeOK, HonestReports
<1>7. CASE Tick
  BY <1>7 DEF Tick, TypeOK, HonestReports
<1>8. CASE UNCHANGED vars
  BY <1>8 DEF vars, TypeOK, HonestReports
<1> QED BY <1>1, <1>2, <1>3, <1>4, <1>5, <1>6, <1>7, <1>8 DEF Next

(* Only Choose ends a fetch in which services have answered.               *)
LEMMA ElectedStep ==
    ASSUME TypeOK, HonestReports, Elected, [Next]_vars
    PROVE  Elected'
<1>1. ASSUME UNCHANGED <<pc, answers, result>>
      PROVE  Elected'
  <2>1. Reporting' = Reporting /\ most_common(LatestSlots)' = most_common(LatestSlots)
    BY <1>1 DEF Reporting, LatestSlots, EpochsOf, most_common, votes
  <2> QED BY <1>1, <2>1 DEF Elected
<1>2. ASSUME pc \in {"list", "built", "api"}, UNCHANGED answers
      PROVE  Elected'
  <2>1. answers' = <<>>
    BY <1>2 DEF HonestReports
  <2>2. Reporting' = {}
    BY <2>1 DEF Reporting
  <2> QED BY <2>2 DEF Elected
<1>3. CASE Build \/ BuildFails \/ FetchFromApi
  BY <1>2, <1>3 DEF Build, BuildFails, FetchFromApi
<1>4. CASE FetchLatest
  BY <1>4 DEF FetchLatest, Elected
<1>5. CASE \E s \in DOMAIN answers : QueryService(s)
  BY <1>5 DEF QueryService, Elected
<1>6. CASE Choose
  <2>1. UNCHANGED answers /\ pc' = "done"
    BY <1>6 DEF Choose, Return
  <2>2. Reporting' = Reporting /\ most_common(LatestSlots)' = most_common(LatestSlots)
    BY <2>1 DEF Reporting, LatestSlots, EpochsOf, most_common, votes
  <2>3. Reporting # {} => result' \in most_common(LatestSlots)
    BY <1>6 DEF Choose, Return
  <2> QED BY <2>2, <2>3 DEF Elected
<1>7. CASE Tick
  BY <1>1, <1>7 DEF Tick
<1>8. CASE UNCHANGED vars
  BY <1>1, <1>8 DEF vars
<1> QED BY <1>3, <1>4, <1>5, <1>6, <1>7, <1>8 DEF Next

----------------------------------------------------------------------------
(* The vote.                                                               *)

(* latest is the greatest epoch of a set that is not empty.                *)
LEMMA LatestEpoch ==
    ASSUME NEW E \in SUBSET Epoch, E # {}
    PROVE  latest(E) \in E /\ \A f \in E : f <= latest(E)
<1> DEFINE id == [x \in E |-> x]
<1>1. IsFiniteSet(Epoch)
  BY ConstantFacts, FS_Interval
<1>2. IsFiniteSet(E)
  BY <1>1, FS_Subset
<1>3. \A x \in E : id[x] \in Nat /\ id[x] = x
  BY ConstantFacts
<1>4. \E x \in E : \A y \in E : id[y] <= id[x]
  <2> HIDE DEF id
  <2> QED BY <1>2, <1>3, GreatestValue
<1>5. \E x \in E : \A y \in E : y <= x
  BY <1>3, <1>4
<1> QED BY <1>5 DEF latest

(* Where the honest are more than the others, the root with the most votes *)
(* is theirs.                                                              *)
LEMMA HonestMajority ==
    ASSUME TypeOK, HonestReports, Reporting \cap Honest # {},
           NEW e, e = latest(EpochsOf(Reporting \cap Honest)),
           \A s \in Reporting : answers[s].epoch <= e,
           Cardinality(ReportingEpoch(e) \ Honest)
               < Cardinality(ReportingEpoch(e) \cap Honest),
           NEW r \in most_common(LatestSlots)
    PROVE  r = e /\ e >= asked_at - 1
<1>1. /\ Reporting \subseteq Services
      /\ \A s \in Reporting : answers[s] \in RootedSlot /\ answers[s].epoch \in Epoch
    <2>1. \A s \in DOMAIN answers : answers[s] \in RootedSlot \cup {Pending, Err}
      BY DEF TypeOK, RootedSlot
    <2>2. \A s \in Reporting : s \in DOMAIN answers /\ answers[s] \in RootedSlot
      BY <2>1, ConstantFacts DEF Reporting
    <2> QED BY <2>2 DEF TypeOK, RootedSlot
<1>2. /\ EpochsOf(Reporting) \in SUBSET Epoch /\ EpochsOf(Reporting) # {}
      /\ EpochsOf(Reporting \cap Honest) \in SUBSET Epoch
      /\ EpochsOf(Reporting \cap Honest) # {}
  BY <1>1 DEF EpochsOf
<1>3. e \in EpochsOf(Reporting \cap Honest) /\ e \in Epoch
  BY <1>2, LatestEpoch
<1>4. latest(EpochsOf(Reporting)) = e
  <2> DEFINE m == latest(EpochsOf(Reporting))
  <2>1. m \in EpochsOf(Reporting) /\ \A f \in EpochsOf(Reporting) : f <= m
    BY <1>2, LatestEpoch
  <2> HIDE DEF m
  <2>2. m \in Epoch /\ m <= e
    BY <1>2, <2>1 DEF EpochsOf
  <2>3. e <= m
    BY <1>3, <2>1 DEF EpochsOf
  <2> QED BY <1>3, <2>2, <2>3, ConstantFacts DEF m
<1> DEFINE honest == ReportingEpoch(e) \cap Honest
           others == ReportingEpoch(e) \ Honest
           Voters(q) == {s \in LatestSlots : answers[s].block_root = q}
<1>5. LatestSlots = honest \cup others
  BY <1>4 DEF LatestSlots, ReportingEpoch
<1>6. \A s \in honest : answers[s].block_root = e /\ e >= asked_at - 1
  BY <1>1, ConstantFacts DEF HonestReports, ReportingEpoch, Reporting
<1>7. honest # {}
  BY <1>3 DEF EpochsOf, ReportingEpoch
<1>8. honest \subseteq Voters(e) /\ \A q : q # e => Voters(q) \subseteq others
  BY <1>5, <1>6
<1>9. \A S \in SUBSET Services : IsFiniteSet(S) /\ Cardinality(S) \in Nat
  BY ConstantFacts, FS_Subset, FS_CardinalityType
<1>10. /\ honest \in SUBSET Services /\ others \in SUBSET Services
       /\ \A q : Voters(q) \in SUBSET Services
  BY <1>1, <1>5 DEF ReportingEpoch
<1>11. e \in Root /\ Cardinality(Voters(e)) <= Cardinality(Voters(r))
  BY <1>3 DEF Root, most_common, votes
<1>12. r = e
  <2> SUFFICES ASSUME r # e PROVE FALSE
    OBVIOUS
  <2>0. Cardinality(others) < Cardinality(honest)
    OBVIOUS
  <2> HIDE DEF honest, others, Voters
  <2>1. Cardinality(Voters(r)) <= Cardinality(others)
    BY <1>8, <1>9, <1>10, FS_Subset
  <2>2. Cardinality(honest) <= Cardinality(Voters(e))
    BY <1>8, <1>9, <1>10, FS_Subset
  <2>3. /\ Cardinality(Voters(r)) \in Nat /\ Cardinality(others) \in Nat
        /\ Cardinality(Voters(e)) \in Nat /\ Cardinality(honest) \in Nat
    BY <1>9, <1>10
  <2> QED BY <1>11, <2>0, <2>1, <2>2, <2>3
<1> QED BY <1>6, <1>7, <1>12

----------------------------------------------------------------------------
(* The theorems.                                                           *)

(* The inductive invariant of a fetch holds in every run.                  *)
THEOREM FallbackInvariant == Spec => []Inv
<1>1. Init => Inv
  <2> SUFFICES ASSUME Init PROVE Inv
    OBVIOUS
  <2>1. DOMAIN answers = {} /\ answers = <<>> /\ now = 1 /\ asked_at = 1
    BY DEF Init
  <2>2. 1 \in Epoch
    BY ConstantFacts
  <2>3. TypeOK
    BY <2>1, <2>2 DEF Init, TypeOK
  <2>4. Elected /\ HonestReports
    BY <2>1 DEF Init, Elected, HonestReports, Reporting
  <2> QED BY <2>3, <2>4 DEF Inv
<1>2. Inv /\ [Next]_vars => Inv'
  BY ReportStep, ElectedStep DEF Inv
<1> QED BY <1>1, <1>2, PTL DEF Spec

(* The variables of a fetch keep their types.                              *)
THEOREM TypeCorrect == Spec => []TypeOK
<1>1. Inv => TypeOK
  BY DEF Inv
<1> QED BY <1>1, FallbackInvariant, PTL

(* Whichever services fail, one that reports a checkpoint is enough for    *)
(* fetch_latest_checkpoint_from_services to return a root.                 *)
THEOREM OneIsEnough == Spec => []OneServiceIsEnough
<1>1. Inv => OneServiceIsEnough
  BY DEF Inv, Elected, OneServiceIsEnough, most_common
<1> QED BY <1>1, FallbackInvariant, PTL

(* If no other service claims a later epoch than the honest ones, and they *)
(* are more than the others among those of the latest epoch, the result is *)
(* the genuine checkpoint, at most one epoch older than the request.       *)
THEOREM HonestPrevail == Spec => []HonestServicesPrevail
<1>1. Inv => HonestServicesPrevail
  <2> SUFFICES ASSUME Inv, pc = "done", Reporting \cap Honest # {},
                      NEW e, e = latest(EpochsOf(Reporting \cap Honest)),
                      \A s \in Reporting : answers[s].epoch <= e,
                      Cardinality(ReportingEpoch(e) \ Honest)
                          < Cardinality(ReportingEpoch(e) \cap Honest)
               PROVE  result = e /\ e >= asked_at - 1
    BY DEF HonestServicesPrevail
  <2>1. result \in most_common(LatestSlots)
    BY DEF Inv, Elected
  <2> QED BY <2>1, HonestMajority DEF Inv
<1> QED BY <1>1, FallbackInvariant, PTL
=============================================================================
