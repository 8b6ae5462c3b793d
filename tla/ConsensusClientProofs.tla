----------------------- MODULE ConsensusClientProofs -----------------------
(***************************************************************************)
(* The store of the light client stays on the canonical chain, for every   *)
(* chain, committee size, set of updates and length of run (Spec, of       *)
(* ConsensusClient).                                                       *)
(*                                                                         *)
(* With an honest provider and on the schedule of client.rs it also keeps  *)
(* up with the chain (ScheduleSpec, of ConsensusSchedule), if the chain    *)
(* finalizes in time: the results about ScheduleSpec, and only they,       *)
(* assume Finality.                                                        *)
(***************************************************************************)
EXTENDS ConsensusSchedule, OrderLemmas, TLAPS

(* A store that bootstrap has set: the parts of the invariant, as          *)
(* predicates of a store.                                                  *)
OnChain(s) ==
    /\ s.finalized_header = Canonical(s.finalized_header.slot)
    /\ s.current_sync_committee = calc_sync_period(s.finalized_header.slot)
    /\ s.next_sync_committee
           \in {None, calc_sync_period(s.finalized_header.slot) + 1}

HeadInOrder(s, t) ==
    /\ s.finalized_header.slot <= s.optimistic_header.slot
    /\ s.optimistic_header.slot <= t

(* How an accepted update may move the store from s to r.                  *)
KeepsNext(s, r) ==
    s.next_sync_committee # None => r.next_sync_committee = s.next_sync_committee

ForwardStep(s, r) ==
    LET old == calc_sync_period(s.finalized_header.slot)
        new == calc_sync_period(r.finalized_header.slot)
    IN  \/ r.finalized_header = s.finalized_header /\ KeepsNext(s, r)
        \/ /\ r.finalized_header.slot > s.finalized_header.slot
           /\ \/ new = old /\ KeepsNext(s, r)
              \/ new = old + 1 /\ s.next_sync_committee # None

USE ConstantsAssumption, ChainAssumption

----------------------------------------------------------------------------
(* Sync committee periods.                                                 *)

(* Division by a positive number is monotone.                              *)
LEMMA DivMonotone ==
    ASSUME NEW a \in Nat, NEW b \in Nat, NEW n \in Nat \ {0}, a <= b
    PROVE  /\ a \div n \in Nat
           /\ a \div n <= b \div n
<1>1. /\ a \div n \in Int /\ b \div n \in Int
      /\ n * (a \div n) <= a /\ a < n * (a \div n) + n
      /\ n * (b \div n) <= b /\ b < n * (b \div n) + n
  BY SMT
<1> DEFINE p == a \div n
           q == b \div n
<1>2. p \in Int /\ q \in Int /\ n * p <= a /\ a < n * p + n
      /\ n * q <= b /\ b < n * q + n
  BY <1>1
<1> HIDE DEF p, q
<1>3. p >= 0
  <2> SUFFICES ASSUME p <= -1 PROVE FALSE
    BY <1>2
  <2>1. n * p <= n * (-1)
    BY <1>2, SMT
  <2> QED BY <2>1, <1>2, SMT
<1>4. p <= q
  <2> SUFFICES ASSUME p >= q + 1 PROVE FALSE
    BY <1>2
  <2>1. n * p >= n * (q + 1)
    BY <1>2, SMT
  <2>2. n * (q + 1) = n * q + n
    BY <1>2, SMT
  <2> QED BY <2>1, <2>2, <1>2, SMT
<1> QED BY <1>2, <1>3, <1>4 DEF p, q

(* The period of a slot is a number, and later slots are in no earlier     *)
(* period.                                                                 *)
LEMMA PeriodMonotone ==
    ASSUME NEW a \in Slot, NEW b \in Slot, a <= b
    PROVE  /\ calc_sync_period(a) \in Nat
           /\ calc_sync_period(b) \in Nat
           /\ calc_sync_period(a) <= calc_sync_period(b)
<1>1. a \in Nat /\ b \in Nat
  BY DEF Slot
<1>2. a \div SlotsPerEpoch \in Nat /\ b \div SlotsPerEpoch \in Nat
      /\ a \div SlotsPerEpoch <= b \div SlotsPerEpoch
  BY <1>1, DivMonotone
<1> QED BY <1>2, DivMonotone DEF calc_sync_period

----------------------------------------------------------------------------
(* Verification.                                                           *)

(* What verify_generic_update has established when it returns Ok, in terms *)
(* of the chain: the periods of the update fit the store, and an update    *)
(* signed by more than the faulty members, in particular by two thirds of  *)
(* the committee, attests a genuine header.                                *)
LEMMA VerifiedUpdate ==
    ASSUME NEW t \in Slot, NEW s \in Store, NEW u \in GenericUpdate,
           OnChain(s), verify_generic_update(t, s, u)
    PROVE  /\ u.attested_header.slot < t
           /\ slot_or_zero(u.finalized_header) <= u.attested_header.slot
           /\ calc_sync_period(u.attested_header.slot)
                  \in {calc_sync_period(s.finalized_header.slot),
                       calc_sync_period(s.finalized_header.slot) + 1}
           /\ s.next_sync_committee = None =>
                  calc_sync_period(u.attested_header.slot)
                      = calc_sync_period(s.finalized_header.slot)
           /\ u.bits > MaxFaulty => Genuine(u.attested_header)
           /\ u.bits * 3 >= CommitteeSize * 2 => Genuine(u.attested_header)
<1> DEFINE P(x) == calc_sync_period(x)
           att == u.attested_header.slot
           fin == s.finalized_header.slot
           sig == u.signature_slot
           bits == u.bits
<1>1. /\ att \in Slot /\ fin \in Slot /\ sig \in Slot /\ bits \in Nat
  BY DEF GenericUpdate, Store, Header
<1>2. t >= sig /\ sig > att /\ slot_or_zero(u.finalized_header) <= att
  BY DEF verify_generic_update, valid_time
<1>3. P(sig) = P(fin) \/ (s.next_sync_committee # None /\ P(sig) = P(fin) + 1)
  BY DEF verify_generic_update, valid_period
<1>4. att > fin \/ P(att) = P(fin)
  BY DEF verify_generic_update, is_relevant, update_has_next_committee
<1>5. /\ s.current_sync_committee = P(fin)
      /\ s.next_sync_committee \in {None, P(fin) + 1}
      /\ signing_committee(s, u) = IF P(sig) = P(fin) THEN s.current_sync_committee
                                                    ELSE s.next_sync_committee
  BY DEF OnChain, signing_committee
<1>6. \/ signing_committee(s, u) = Forged
      \/ bits <= MaxFaulty
      \/ Genuine(u.attested_header)
  BY DEF verify_generic_update, verify_sync_committee_signture
<1> HIDE DEF att, fin, sig, bits
<1>7. att < t
  BY <1>1, <1>2 DEF Slot
<1>8. P(att) \in Nat /\ P(fin) \in Nat /\ P(sig) \in Nat /\ P(att) <= P(sig)
  <2>1. att <= sig
    BY <1>1, <1>2 DEF Slot
  <2>2. fin <= fin
    BY <1>1 DEF Slot
  <2> QED BY <1>1, <2>1, <2>2, PeriodMonotone
<1>9. P(att) >= P(fin)
  <2>1. CASE att > fin
    <3>1. fin <= att
      BY <1>1, <2>1 DEF Slot
    <3> QED BY <1>1, <3>1, <1>8, PeriodMonotone
  <2> QED BY <1>4, <2>1, <1>8
<1>10. /\ P(att) \in {P(fin), P(fin) + 1}
       /\ s.next_sync_committee = None => P(att) = P(fin)
  BY <1>3, <1>8, <1>9
<1>11. ASSUME bits > MaxFaulty
       PROVE  Genuine(u.attested_header)
  <2>1. signing_committee(s, u) \in Nat
    BY <1>3, <1>5, <1>8
  <2>2. ~ (bits <= MaxFaulty)
    BY <1>1, <1>11, FaultAssumption
  <2> QED BY <2>1, <2>2, <1>6, NoneAssumption
<1>12. bits * 3 >= CommitteeSize * 2 => bits > MaxFaulty
  BY <1>1, FaultAssumption
<1> QED BY <1>2, <1>7, <1>10, <1>11, <1>12 DEF att, fin, bits

----------------------------------------------------------------------------
(* Application.                                                            *)

(* Counting participants and moving the head leave finality and the        *)
(* committees alone.                                                       *)
LEMMA HeadUpdated ==
    ASSUME NEW s \in Store, NEW u \in GenericUpdate,
           NEW s1, s1 = update_optimistic(count_participants(s, u), u)
    PROVE  /\ s1 \in Store
           /\ s1.finalized_header = s.finalized_header
           /\ s1.current_sync_committee = s.current_sync_committee
           /\ s1.next_sync_committee = s.next_sync_committee
           /\ \/ s1.optimistic_header = s.optimistic_header
              \/ /\ s1.optimistic_header = u.attested_header
                 /\ u.attested_header.slot > s.optimistic_header.slot
                 /\ u.bits > safety_threshold(count_participants(s, u))
<1> DEFINE s0 == count_participants(s, u)
<1>1. /\ s0 \in Store
      /\ s0.finalized_header = s.finalized_header
      /\ s0.current_sync_committee = s.current_sync_committee
      /\ s0.next_sync_committee = s.next_sync_committee
      /\ s0.optimistic_header = s.optimistic_header
  BY DEF count_participants, larger, Store, GenericUpdate
<1> HIDE DEF s0
<1>2. s1 = update_optimistic(s0, u)
  BY DEF s0
<1>3. u.attested_header \in Header
  BY DEF GenericUpdate
<1>4. CASE should_update_optimistic(s0, u)
  <2>1. s1 = [s0 EXCEPT !.optimistic_header = u.attested_header]
    BY <1>2, <1>4 DEF update_optimistic
  <2>2. /\ s1 \in Store
        /\ s1.finalized_header = s0.finalized_header
        /\ s1.current_sync_committee = s0.current_sync_committee
        /\ s1.next_sync_committee = s0.next_sync_committee
        /\ s1.optimistic_header = u.attested_header
    BY <2>1, <1>1, <1>3 DEF Store
  <2>3. /\ u.attested_header.slot > s.optimistic_header.slot
        /\ u.bits > safety_threshold(s0)
    BY <1>1, <1>4 DEF should_update_optimistic
  <2> QED BY <1>1, <2>2, <2>3 DEF s0
<1>5. CASE ~ should_update_optimistic(s0, u)
  BY <1>1, <1>2, <1>5 DEF update_optimistic
<1> QED BY <1>4, <1>5

(* update_committees: the next committee is learnt, or the committees      *)
(* rotate, or both are kept.                                               *)
LEMMA CommitteesUpdated ==
    ASSUME NEW s \in Store, NEW u \in GenericUpdate,
           NEW r, r = update_committees(s, u)
    PROVE  /\ r \in Store
           /\ r.finalized_header = s.finalized_header
           /\ r.optimistic_header = s.optimistic_header
           /\ \/ /\ s.next_sync_committee = None
                 /\ r.current_sync_committee = s.current_sync_committee
                 /\ r.next_sync_committee = u.next_sync_committee
              \/ /\ s.next_sync_committee # None
                 /\ calc_sync_period(slot_or_zero(u.finalized_header))
                        = calc_sync_period(s.finalized_header.slot) + 1
                 /\ r.current_sync_committee = s.next_sync_committee
                 /\ r.next_sync_committee = u.next_sync_committee
              \/ /\ s.next_sync_committee # None
                 /\ calc_sync_period(slot_or_zero(u.finalized_header))
                        # calc_sync_period(s.finalized_header.slot) + 1
                 /\ r.current_sync_committee = s.current_sync_committee
                 /\ r.next_sync_committee = s.next_sync_committee
<1>1. u.next_sync_committee \in Committee \cup {None}
  BY DEF GenericUpdate
<1>2. CASE s.next_sync_committee = None
  <2>1. r = [s EXCEPT !.next_sync_committee = u.next_sync_committee]
    BY <1>2 DEF update_committees
  <2> QED BY <2>1, <1>1, <1>2 DEF Store
<1>3. CASE /\ s.next_sync_committee # None
           /\ calc_sync_period(slot_or_zero(u.finalized_header))
                  = calc_sync_period(s.finalized_header.slot) + 1
  <2>1. r = rotate(s, u)
    BY <1>3 DEF update_committees
  <2>2. /\ r \in Store
        /\ r.finalized_header = s.finalized_header
        /\ r.optimistic_header = s.optimistic_header
        /\ r.current_sync_committee = s.next_sync_committee
        /\ r.next_sync_committee = u.next_sync_committee
    <3> DEFINE c == s.next_sync_committee
               n == u.next_sync_committee
               m == s.current_max_active_participants
    <3>1. c \in Committee \cup {None} /\ m \in 0 .. CommitteeSize /\ 0 \in 0 .. CommitteeSize
      BY DEF Store
    <3>2. r = [s EXCEPT !.current_sync_committee = c, !.next_sync_committee = n,
                        !.previous_max_active_participants = m,
                        !.current_max_active_participants = 0]
      BY <2>1 DEF rotate
    <3> HIDE DEF c, m, n
    <3>3. n \in Committee \cup {None}
      BY <1>1 DEF n
    <3>4. /\ r \in Store
          /\ r.finalized_header = s.finalized_header
          /\ r.optimistic_header = s.optimistic_header
          /\ r.current_sync_committee = c
          /\ r.next_sync_committee = n
      BY <3>1, <3>2, <3>3 DEF Store
    <3> QED BY <3>4 DEF c, n
  <2> QED BY <2>2, <1>3
<1>4. CASE /\ s.next_sync_committee # None
           /\ calc_sync_period(slot_or_zero(u.finalized_header))
                  # calc_sync_period(s.finalized_header.slot) + 1
  BY <1>4 DEF update_committees
<1> QED BY <1>2, <1>3, <1>4

(* update_finalized: nothing changes, or the newer finalized header is     *)
(* taken and the head kept from falling behind it.                         *)
LEMMA FinalizedUpdated ==
    ASSUME NEW s \in Store, NEW u \in GenericUpdate,
           NEW r, r = update_finalized(s, u)
    PROVE  \/ ~ is_newer(s, u) /\ r = s
           \/ /\ is_newer(s, u)
              /\ r \in Store
              /\ u.finalized_header \in Header
              /\ r.finalized_header = u.finalized_header
              /\ r.finalized_header.slot > s.finalized_header.slot
              /\ r.current_sync_committee = s.current_sync_committee
              /\ r.next_sync_committee = s.next_sync_committee
              /\ r.optimistic_header.slot >= u.finalized_header.slot
              /\ r.optimistic_header \in {s.optimistic_header, u.finalized_header}
              /\ r.optimistic_header.slot >= s.optimistic_header.slot
<1>1. CASE ~ is_newer(s, u)
  BY <1>1 DEF update_finalized
<1>2. CASE is_newer(s, u)
  <2> DEFINE fin == u.finalized_header
             opt == s.optimistic_header
  <2>1. s.finalized_header.slot \in Nat /\ opt \in Header
    BY DEF Store, Header, Slot
  <2>2. slot_or_zero(fin) > s.finalized_header.slot
    BY <1>2 DEF is_newer
  <2>3. fin # None
    BY <2>1, <2>2 DEF slot_or_zero
  <2>4. fin \in Header /\ fin.slot > s.finalized_header.slot
    BY <2>2, <2>3 DEF slot_or_zero, GenericUpdate
  <2>5. r = [s EXCEPT !.finalized_header = fin,
                      !.optimistic_header = IF fin.slot > opt.slot THEN fin ELSE opt]
    BY <1>2 DEF update_finalized
  <2> HIDE DEF fin, opt
  <2>6. fin.slot \in Nat /\ opt.slot \in Nat
    BY <2>1, <2>4 DEF Header, Slot
  <2>7. CASE fin.slot > opt.slot
    <3>1. r = [s EXCEPT !.finalized_header = fin, !.optimistic_header = fin]
      BY <2>5, <2>7
    <3>2. /\ r \in Store
          /\ r.finalized_header = fin
          /\ r.optimistic_header = fin
          /\ r.current_sync_committee = s.current_sync_committee
          /\ r.next_sync_committee = s.next_sync_committee
      BY <3>1, <2>4 DEF Store
    <3>3. fin.slot >= opt.slot /\ fin.slot >= fin.slot
      BY <2>6, <2>7
    <3> QED BY <1>2, <2>4, <3>2, <3>3 DEF fin, opt
  <2>8. CASE ~ (fin.slot > opt.slot)
    <3>1. r = [s EXCEPT !.finalized_header = fin, !.optimistic_header = opt]
      BY <2>5, <2>8
    <3>2. /\ r \in Store
          /\ r.finalized_header = fin
          /\ r.optimistic_header = opt
          /\ r.current_sync_committee = s.current_sync_committee
          /\ r.next_sync_committee = s.next_sync_committee
      BY <3>1, <2>1, <2>4 DEF Store
    <3>3. opt.slot >= fin.slot /\ opt.slot >= opt.slot
      BY <2>6, <2>8
    <3> QED BY <1>2, <2>4, <3>2, <3>3 DEF fin, opt
  <2> QED BY <2>7, <2>8
<1> QED BY <1>1, <1>2
(* What an accepted update does to a store on the chain.                   *)
LEMMA AppliedUpdate ==
    ASSUME NEW t \in Slot, NEW s \in Store, NEW u \in GenericUpdate,
           OnChain(s), HeadInOrder(s, t), verify_generic_update(t, s, u),
           NEW r, r = apply_generic_update(s, u)
    PROVE  /\ r \in Store
           /\ OnChain(r)
           /\ HeadInOrder(r, t)
           /\ r.optimistic_header.slot >= s.optimistic_header.slot
           /\ ForwardStep(s, r)
<1> DEFINE P(x) == calc_sync_period(x)
           s1 == update_optimistic(count_participants(s, u), u)
           s2 == update_committees(s1, u)
           F == s.finalized_header.slot
           O == s.optimistic_header.slot
           O1 == s1.optimistic_header.slot
           A == u.attested_header.slot
           Z == slot_or_zero(u.finalized_header)
           cur == s.current_sync_committee
           nxt == s.next_sync_committee
           unxt == u.next_sync_committee
<1>1. /\ s1 \in Store
      /\ s1.finalized_header = s.finalized_header
      /\ s1.current_sync_committee = cur
      /\ s1.next_sync_committee = nxt
      /\ s1.optimistic_header = s.optimistic_header \/ (O1 = A /\ A > O)
  BY HeadUpdated
<1>2. /\ A < t /\ Z <= A
      /\ P(A) \in {P(F), P(F) + 1}
      /\ nxt = None => P(A) = P(F)
      /\ u.bits * 3 >= CommitteeSize * 2 => Genuine(u.attested_header)
  BY VerifiedUpdate
<1>3. A \in Slot /\ F \in Slot /\ O \in Slot /\ O1 \in Slot /\ Z \in Slot
  <2>1. A \in Slot /\ F \in Slot /\ O \in Slot /\ O1 \in Slot
    BY <1>1 DEF GenericUpdate, Header, Store
  <2>2. 0 \in Slot
    BY DEF Slot
  <2>3. Z \in Slot
    BY <2>2 DEF GenericUpdate, Header, slot_or_zero
  <2> QED BY <2>1, <2>3
<1>4. F <= O /\ O <= t
  BY DEF HeadInOrder
<1>5. /\ s.finalized_header = Canonical(F)
      /\ cur = P(F)
      /\ nxt \in {None, P(F) + 1}
  BY DEF OnChain
<1>6. O1 = O \/ (O1 = A /\ A > O)
  BY <1>1
<1> HIDE DEF s1, F, O, O1, A, Z, cur, nxt, unxt
<1>7. F <= O1 /\ O1 <= t /\ O1 >= O
  <2>1. A \in Int /\ F \in Int /\ O \in Int /\ O1 \in Int /\ t \in Int
    BY <1>3 DEF Slot
  <2> QED BY <2>1, <1>2, <1>4, <1>6
<1>8. F = s1.finalized_header.slot /\ O1 = s1.optimistic_header.slot
  BY <1>1 DEF F, O1
<1>9. CASE ~ should_apply_update(s1, u)
  <2>1. r = s1
    BY <1>9 DEF apply_generic_update, s1
  <2>2. OnChain(s1)
    BY <1>1, <1>5, <1>8 DEF OnChain
  <2>3. HeadInOrder(s1, t)
    BY <1>7, <1>8 DEF HeadInOrder
  <2>4. ForwardStep(s, s1)
    BY <1>1 DEF ForwardStep, KeepsNext, nxt
  <2> QED BY <2>1, <2>2, <2>3, <2>4, <1>1, <1>7 DEF O, O1
<1>10. CASE should_apply_update(s1, u)
  <2>1. r = update_finalized(s2, u)
    BY <1>10 DEF apply_generic_update, s1
  <2>2. Genuine(u.attested_header)
    BY <1>2, <1>10 DEF should_apply_update
  <2>3. /\ u.finalized_header # None =>
                u.finalized_header = Canonical(FinalizedSlot[A])
        /\ unxt # None => unxt = P(A) + 1
    BY <2>2 DEF verify_generic_update, has_finality_update, has_sync_update,
                is_finality_proof_valid, is_next_committee_proof_valid, A, unxt
  <2>4. /\ P(A) \in Nat /\ P(F) \in Nat /\ P(Z) \in Nat /\ P(Z) <= P(A)
    <3>1. F <= F
      BY <1>3 DEF Slot
    <3> QED BY <1>2, <1>3, <3>1, PeriodMonotone
  <2>5. /\ s2 \in Store
        /\ s2.finalized_header = s.finalized_header
        /\ s2.optimistic_header = s1.optimistic_header
        /\ \/ /\ nxt = None
              /\ s2.current_sync_committee = cur
              /\ s2.next_sync_committee = unxt
           \/ /\ nxt # None
              /\ P(Z) = P(F) + 1
              /\ s2.current_sync_committee = nxt
              /\ s2.next_sync_committee = unxt
           \/ /\ nxt # None
              /\ P(Z) # P(F) + 1
              /\ s2.current_sync_committee = cur
              /\ s2.next_sync_committee = nxt
    BY <1>1, <1>8, CommitteesUpdated DEF Z, unxt
  <2> HIDE DEF s2
  <2>6. CASE ~ is_newer(s2, u)
    <3>1. r = s2
      BY <2>1, <2>5, <2>6, FinalizedUpdated
    <3>2. nxt = None /\ unxt # None
      <4>1. is_newer(s1, u) <=> is_newer(s2, u)
        BY <1>1, <2>5 DEF is_newer
      <4> QED BY <4>1, <2>6, <1>1, <1>10
              DEF should_apply_update, update_has_finalized_next_committee,
                  has_sync_update, unxt
    <3>3. /\ r.finalized_header = Canonical(F) /\ r.finalized_header.slot = F
          /\ r.current_sync_committee = P(F)
          /\ r.next_sync_committee = P(F) + 1
      BY <3>1, <3>2, <2>3, <2>5, <1>2, <1>5 DEF F
    <3>4. OnChain(r)
      BY <3>3 DEF OnChain
    <3>5. HeadInOrder(r, t) /\ r.optimistic_header.slot >= s.optimistic_header.slot
      BY <3>1, <3>3, <2>5, <1>7, <1>8 DEF HeadInOrder, O
    <3>6. ForwardStep(s, r)
      BY <3>1, <3>2, <2>5 DEF ForwardStep, KeepsNext, nxt
    <3> QED BY <3>1, <3>4, <3>5, <3>6, <2>5
  <2>7. CASE is_newer(s2, u)
    <3>1. /\ r \in Store
          /\ u.finalized_header \in Header
          /\ r.finalized_header = u.finalized_header
          /\ r.finalized_header.slot > s2.finalized_header.slot
          /\ r.current_sync_committee = s2.current_sync_committee
          /\ r.next_sync_committee = s2.next_sync_committee
          /\ r.optimistic_header.slot >= u.finalized_header.slot
          /\ r.optimistic_header \in {s2.optimistic_header, u.finalized_header}
          /\ r.optimistic_header.slot >= s2.optimistic_header.slot
      BY <2>1, <2>5, <2>7, FinalizedUpdated
    <3>2. r.finalized_header.slot = Z /\ u.finalized_header # None
      BY <3>1, NoneAssumption DEF Z, slot_or_zero
    <3>3. Z > F
      BY <3>1, <3>2, <2>5 DEF F
    <3>4. r.finalized_header = Canonical(Z)
      BY <3>1, <3>2, <2>3 DEF Canonical
    <3>5. P(Z) >= P(F)
      <4>1. F <= Z
        BY <3>3, <1>3 DEF Slot
      <4> QED BY <4>1, <1>3, <2>4, PeriodMonotone
    <3>6. /\ r.current_sync_committee = P(Z)
          /\ r.next_sync_committee \in {None, P(Z) + 1}
          /\ \/ P(Z) = P(F) /\ (nxt # None => r.next_sync_committee = nxt)
             \/ P(Z) = P(F) + 1 /\ nxt # None
      BY <3>1, <3>5, <2>3, <2>4, <2>5, <1>2, <1>5
    <3>7. OnChain(r)
      BY <3>2, <3>4, <3>6 DEF OnChain
    <3>8. HeadInOrder(r, t) /\ r.optimistic_header.slot >= s.optimistic_header.slot
      <4> DEFINE R == r.optimistic_header.slot
      <4>1. R \in Slot
        BY <3>1 DEF Store, Header
      <4>2. R >= Z /\ R >= O1 /\ (R = O1 \/ R = Z)
        BY <3>1, <3>2, <2>5, <1>8
      <4> HIDE DEF R
      <4>3. Z <= R /\ R <= t /\ R >= O
        <5>1. A \in Int /\ Z \in Int /\ O \in Int /\ O1 \in Int /\ t \in Int /\ R \in Int
          BY <1>3, <4>1 DEF Slot
        <5>2. A < t /\ Z <= A
          BY <1>2
        <5> QED BY <5>1, <5>2, <4>2, <1>7
      <4> QED BY <4>3, <3>2 DEF HeadInOrder, R, O
    <3>9. ForwardStep(s, r)
      BY <3>2, <3>3, <3>6 DEF ForwardStep, KeepsNext, nxt, F
    <3> QED BY <3>1, <3>7, <3>8, <3>9
  <2> QED BY <2>6, <2>7
<1> QED BY <1>9, <1>10

(* A checkpoint that an accepted update puts forward is the canonical      *)
(* header that the update finalizes.                                       *)
LEMMA CheckpointTaken ==
    ASSUME NEW t \in Slot, NEW s \in Store, NEW u \in GenericUpdate,
           OnChain(s), verify_generic_update(t, s, u),
           NEW c, c = checkpoint_after(s, u), c # last_checkpoint
    PROVE  /\ c \in Header
           /\ c.chain = "canonical"
           /\ c.slot % SlotsPerEpoch = 0
           /\ c.slot > s.finalized_header.slot
<1>1. /\ should_apply_update(s, u) /\ is_newer(s, u)
      /\ u.finalized_header.slot % SlotsPerEpoch = 0
      /\ c = u.finalized_header
  BY DEF checkpoint_after
<1>2. c \in Header /\ c.slot > s.finalized_header.slot
  BY <1>1, FinalizedUpdated
<1>3. Genuine(u.attested_header)
  BY <1>1, VerifiedUpdate DEF should_apply_update
<1>4. c = Canonical(FinalizedSlot[u.attested_header.slot])
  BY <1>1, <1>2, <1>3, NoneAssumption
     DEF verify_generic_update, has_finality_update, is_finality_proof_valid
<1> QED BY <1>1, <1>2, <1>4 DEF Canonical

----------------------------------------------------------------------------
(* The inductive invariant.  StoreOnCanonicalChain alone is not inductive: *)
(* that Apply meets a bootstrapped store follows from pc, that the         *)
(* bootstrap brings a canonical header from the trusted checkpoint, and    *)
(* that a saved checkpoint is newer than it from the store being so.       *)

Working == {"updates", "finality", "optimistic"} \cup Advancing

CheckpointTrusted ==
    /\ initial_checkpoint = Canonical(initial_checkpoint.slot)
    /\ initial_checkpoint.slot \in Checkpoints
    /\ initial_checkpoint.slot <= now

StoreFitsControl ==
    /\ pc \in Working => Bootstrapped
    /\ Bootstrapped => initial_checkpoint.slot <= store.finalized_header.slot
    /\ ~ Bootstrapped => store = DefaultStore

ClientInv ==
    /\ TypeOK
    /\ StoreOnCanonicalChain
    /\ HeadBetweenFinalizedAndClock
    /\ SavedCheckpointIsTrustworthy
    /\ CheckpointTrusted
    /\ StoreFitsControl

(* The updates of all three kinds are generic updates.                     *)
LEMMA ServedUpdates ==
    /\ Updates \subseteq GenericUpdate
    /\ FinalityUpdates \subseteq GenericUpdate
    /\ OptimisticUpdates \subseteq GenericUpdate
<1>1. \A u \in Served : u \in GenericUpdate
  BY ServedAssumption
<1>2. \A u \in GenericUpdate : FinalityUpdate(u) \in GenericUpdate
  BY DEF FinalityUpdate, GenericUpdate
<1>3. \A u \in GenericUpdate : OptimisticUpdate(u) \in GenericUpdate
  BY DEF OptimisticUpdate, GenericUpdate
<1> QED BY <1>1, <1>2, <1>3 DEF Updates, FinalityUpdates, OptimisticUpdates

(* Every action that applies an update keeps the invariant, and moves the  *)
(* store forward.                                                          *)
LEMMA ApplyKeepsInvariant ==
    ASSUME ClientInv, pc \in Working, NEW u \in GenericUpdate, Apply(u),
           now' = now, initial_checkpoint' = initial_checkpoint, pc' \in Working
    PROVE  /\ ClientInv'
           /\ Bootstrapped /\ Bootstrapped'
           /\ OnChain(store) /\ OnChain(store')
           /\ store'.optimistic_header.slot >= store.optimistic_header.slot
           /\ ForwardStep(store, store')
<1>1. Bootstrapped
  BY DEF ClientInv, StoreFitsControl
<1>2. store \in Store /\ now \in Slot /\ OnChain(store) /\ HeadInOrder(store, now)
  BY <1>1 DEF ClientInv, TypeOK, StoreOnCanonicalChain,
              HeadBetweenFinalizedAndClock, OnChain, HeadInOrder
<1>3. /\ verify_generic_update(now, store, u)
      /\ store' = apply_generic_update(store, u)
      /\ last_checkpoint' = checkpoint_after(store, u)
  BY DEF Apply
<1>4. /\ store' \in Store
      /\ OnChain(store')
      /\ HeadInOrder(store', now)
      /\ store'.optimistic_header.slot >= store.optimistic_header.slot
      /\ ForwardStep(store, store')
  BY <1>2, <1>3, AppliedUpdate
<1>5. Bootstrapped'
  <2>1. store'.finalized_header.slot \in Slot
    BY <1>4 DEF Store, Header
  <2>2. store'.finalized_header.slot <= store'.finalized_header.slot
    BY <2>1 DEF Slot
  <2>3. store'.current_sync_committee \in Nat
    BY <2>1, <2>2, <1>4, PeriodMonotone DEF OnChain
  <2> QED BY <2>3, NoneAssumption DEF Bootstrapped
<1>6. store'.finalized_header.slot >= store.finalized_header.slot
  <2>1. store'.finalized_header.slot \in Int /\ store.finalized_header.slot \in Int
    BY <1>2, <1>4 DEF Store, Header, Slot
  <2>2. \/ store'.finalized_header = store.finalized_header
        \/ store'.finalized_header.slot > store.finalized_header.slot
    BY <1>4 DEF ForwardStep
  <2>3. CASE store'.finalized_header = store.finalized_header
    BY <2>1, <2>3
  <2>4. CASE store'.finalized_header.slot > store.finalized_header.slot
    BY <2>1, <2>4
  <2> QED BY <2>2, <2>3, <2>4
<1>7. initial_checkpoint.slot <= store.finalized_header.slot
  BY <1>1 DEF ClientInv, StoreFitsControl
<1>8. /\ initial_checkpoint.slot \in Int
      /\ store.finalized_header.slot \in Int
      /\ store'.finalized_header.slot \in Int
  BY <1>2, <1>4 DEF ClientInv, TypeOK, Store, Header, Slot
<1>9. CASE last_checkpoint' = last_checkpoint
  <2>1. TypeOK'
    BY <1>4, <1>9 DEF ClientInv, TypeOK, Working, Location, Syncing
  <2>2. SavedCheckpointIsTrustworthy'
    BY <1>9 DEF ClientInv, SavedCheckpointIsTrustworthy
  <2>3. initial_checkpoint'.slot <= store'.finalized_header.slot
    BY <1>6, <1>7, <1>8
  <2>4. StoreFitsControl'
    BY <2>3, <1>5 DEF StoreFitsControl
  <2>5. StoreOnCanonicalChain' /\ HeadBetweenFinalizedAndClock' /\ CheckpointTrusted'
    BY <1>4 DEF ClientInv, StoreOnCanonicalChain, HeadBetweenFinalizedAndClock,
                CheckpointTrusted, OnChain, HeadInOrder
  <2> QED BY <2>1, <2>2, <2>4, <2>5, <1>1, <1>2, <1>4, <1>5 DEF ClientInv
<1>10. CASE last_checkpoint' # last_checkpoint
  <2>1. /\ last_checkpoint' \in Header
        /\ last_checkpoint'.chain = "canonical"
        /\ last_checkpoint'.slot % SlotsPerEpoch = 0
        /\ last_checkpoint'.slot > store.finalized_header.slot
    BY <1>2, <1>3, <1>10, CheckpointTaken
  <2>2. last_checkpoint'.slot \in Int
    BY <2>1 DEF Header, Slot
  <2>3. last_checkpoint'.slot > initial_checkpoint.slot
    BY <2>1, <2>2, <1>7, <1>8
  <2>4. TypeOK' /\ SavedCheckpointIsTrustworthy'
    BY <2>1, <2>3, <1>4 DEF ClientInv, TypeOK, Working, Location, Syncing,
                            SavedCheckpointIsTrustworthy
  <2>5. initial_checkpoint'.slot <= store'.finalized_header.slot
    BY <1>6, <1>7, <1>8
  <2>6. StoreFitsControl'
    BY <2>5, <1>5 DEF StoreFitsControl
  <2>7. StoreOnCanonicalChain' /\ HeadBetweenFinalizedAndClock' /\ CheckpointTrusted'
    BY <1>4 DEF ClientInv, StoreOnCanonicalChain, HeadBetweenFinalizedAndClock,
                CheckpointTrusted, OnChain, HeadInOrder
  <2> QED BY <2>4, <2>6, <2>7, <1>1, <1>2, <1>4, <1>5 DEF ClientInv
<1> QED BY <1>9, <1>10

----------------------------------------------------------------------------
(* The initial states, and each action.                                    *)

(* A new client with a trusted checkpoint satisfies the invariant.         *)
LEMMA FreshClient ==
    ASSUME now \in Slot, initial_checkpoint \in Trusted(now),
           store = DefaultStore, last_checkpoint = None, pc = "new"
    PROVE  ClientInv
<1>1. 0 \in Slot /\ 0 \in 0 .. CommitteeSize
  BY DEF Slot
<1>2. DefaultHeader \in Header
  BY <1>1 DEF DefaultHeader, Header, Chain
<1>3. store \in Store
  BY <1>1, <1>2 DEF DefaultStore, Store
<1>4. PICK c \in Checkpoints : c <= now /\ initial_checkpoint = Canonical(c)
  BY DEF Trusted
<1>5. c \in Slot /\ initial_checkpoint.slot = c
  BY <1>4 DEF Canonical
<1>6. initial_checkpoint \in Header
  BY <1>4, <1>5 DEF Canonical, Header, Chain
<1>7. TypeOK
  BY <1>3, <1>6 DEF TypeOK, Location
<1>8. ~ Bootstrapped /\ store.finalized_header.slot = 0 /\ store.optimistic_header.slot = 0
  BY DEF Bootstrapped, DefaultStore, DefaultHeader
<1>9. HeadBetweenFinalizedAndClock
  BY <1>8 DEF HeadBetweenFinalizedAndClock, Slot
<1>10. CheckpointTrusted
  BY <1>4, <1>5 DEF CheckpointTrusted
<1>11. StoreFitsControl
  BY <1>8 DEF StoreFitsControl, Working, Advancing
<1> QED BY <1>7, <1>8, <1>9, <1>10, <1>11
        DEF ClientInv, StoreOnCanonicalChain, SavedCheckpointIsTrustworthy

(* Initially.                                                              *)
LEMMA InitInvariant == Init => ClientInv
BY FreshClient DEF Init

(* bootstrap puts the trusted header and its committee in the store.       *)
LEMMA BootstrapKeepsInvariant ==
    ASSUME ClientInv, Bootstrap
    PROVE  /\ ClientInv'
           /\ Bootstrapped'
           /\ store'.finalized_header = initial_checkpoint
           /\ store'.next_sync_committee = None
<1>1. PICK header \in Header, committee \in 0 .. MaxSlot \cup {Forged} :
          /\ header = initial_checkpoint
          /\ is_current_committee_proof_valid(header, committee)
          /\ store' = [DefaultStore EXCEPT !.finalized_header = header,
                                           !.current_sync_committee = committee,
                                           !.optimistic_header = header]
  BY DEF Bootstrap, header_valid
<1>2. /\ UNCHANGED <<now, initial_checkpoint, last_checkpoint>> /\ pc' = "updates"
  BY DEF Bootstrap
<1>3. /\ header = Canonical(header.slot) /\ header.slot <= now
      /\ header.slot \in Slot
  BY <1>1 DEF ClientInv, CheckpointTrusted, Header
<1>4. committee = calc_sync_period(header.slot)
  BY <1>1, <1>3 DEF is_current_committee_proof_valid, Genuine, Canonical
<1>5. header.slot <= header.slot
  BY <1>3 DEF Slot
<1>6. committee \in Nat
  BY <1>3, <1>4, <1>5, PeriodMonotone
<1>7. /\ store' \in Store
      /\ store'.finalized_header = header
      /\ store'.optimistic_header = header
      /\ store'.current_sync_committee = committee
      /\ store'.next_sync_committee = None
  <2>1. store' = [finalized_header                 |-> header,
                  current_sync_committee           |-> committee,
                  next_sync_committee              |-> None,
                  optimistic_header                |-> header,
                  previous_max_active_participants |-> 0,
                  current_max_active_participants  |-> 0]
    BY <1>1 DEF DefaultStore
  <2>2. 0 \in 0 .. CommitteeSize
    OBVIOUS
  <2> QED BY <2>1, <2>2, <1>6 DEF Store, Committee
<1>8. Bootstrapped'
  BY <1>6, <1>7, NoneAssumption DEF Bootstrapped
<1>9. TypeOK'
  BY <1>2, <1>7 DEF ClientInv, TypeOK, Location, Syncing
<1>10. StoreOnCanonicalChain'
  BY <1>3, <1>4, <1>7 DEF StoreOnCanonicalChain
<1>11. HeadBetweenFinalizedAndClock'
  BY <1>2, <1>3, <1>5, <1>7 DEF HeadBetweenFinalizedAndClock
<1>12. SavedCheckpointIsTrustworthy' /\ CheckpointTrusted'
  BY <1>2 DEF ClientInv, SavedCheckpointIsTrustworthy, CheckpointTrusted
<1>13. StoreFitsControl'
  BY <1>1, <1>2, <1>5, <1>7, <1>8 DEF StoreFitsControl
<1> QED BY <1>1, <1>7, <1>8, <1>9, <1>10, <1>11, <1>12, <1>13 DEF ClientInv

(* Steps that change only pc, and to no place that needs a store.          *)
LEMMA ControlKeepsInvariant ==
    ASSUME ClientInv,
           UNCHANGED <<now, initial_checkpoint, store, last_checkpoint>>,
           pc' \in Location, pc' \in Working => pc \in Working
    PROVE  ClientInv'
<1>1. TypeOK'
  BY DEF ClientInv, TypeOK
<1>2. StoreFitsControl'
  BY DEF ClientInv, StoreFitsControl, Bootstrapped
<1> QED BY <1>1, <1>2 DEF ClientInv, StoreOnCanonicalChain, CheckpointTrusted,
           HeadBetweenFinalizedAndClock, SavedCheckpointIsTrustworthy, Bootstrapped

(* The clock moves forward.                                                *)
LEMMA TickKeepsInvariant == ASSUME ClientInv, Tick PROVE ClientInv'
<1>1. now \in Slot /\ now' = now + 1 /\ now < MaxSlot
      /\ UNCHANGED <<initial_checkpoint, store, last_checkpoint, pc>>
  BY DEF ClientInv, TypeOK, Tick
<1>2. now' \in Slot
  BY <1>1 DEF Slot
<1>3. TypeOK'
  BY <1>1, <1>2 DEF ClientInv, TypeOK
<1>4. HeadBetweenFinalizedAndClock'
  <2> DEFINE o == store.optimistic_header.slot
  <2>1. o \in Int /\ now \in Int
    BY <1>1 DEF ClientInv, TypeOK, Store, Header, Slot
  <2>2. o <= now
    BY DEF ClientInv, HeadBetweenFinalizedAndClock
  <2> HIDE DEF o
  <2>3. o <= now + 1
    BY <2>1, <2>2
  <2> QED BY <2>3, <1>1 DEF o, ClientInv, HeadBetweenFinalizedAndClock
<1>5. CheckpointTrusted'
  <2> DEFINE c == initial_checkpoint.slot
  <2>1. c \in Int /\ now \in Int
    BY <1>1 DEF ClientInv, TypeOK, Header, Slot
  <2>2. c <= now
    BY DEF ClientInv, CheckpointTrusted
  <2> HIDE DEF c
  <2>3. c <= now + 1
    BY <2>1, <2>2
  <2> QED BY <2>3, <1>1 DEF c, ClientInv, CheckpointTrusted
<1> QED BY <1>1, <1>3, <1>4, <1>5 DEF ClientInv, StoreOnCanonicalChain,
           SavedCheckpointIsTrustworthy, StoreFitsControl, Bootstrapped

(* Every step keeps the invariant.                                         *)
LEMMA NextKeepsInvariant == ClientInv /\ [Next]_vars => ClientInv'
<1> SUFFICES ASSUME ClientInv, [Next]_vars PROVE ClientInv'
  OBVIOUS
<1>1. CASE StartSync
  BY <1>1, ControlKeepsInvariant DEF StartSync, Location, Syncing, Working, Advancing
<1>2. CASE Bootstrap
  BY <1>2, BootstrapKeepsInvariant
<1>3. CASE BootstrapTooOld
  BY <1>3, ControlKeepsInvariant DEF BootstrapTooOld, Location, Working, Advancing
<1>4. CASE \E u \in Updates : SyncUpdate(u)
  BY <1>4, ServedUpdates, ApplyKeepsInvariant DEF SyncUpdate, Working
<1>5. CASE SyncUpdatesDone
  BY <1>5, ControlKeepsInvariant DEF SyncUpdatesDone, Location, Syncing, Working
<1>6. CASE \E u \in FinalityUpdates : SyncFinality(u)
  BY <1>6, ServedUpdates, ApplyKeepsInvariant DEF SyncFinality, Working
<1>7. CASE \E u \in OptimisticUpdates : SyncOptimistic(u)
  BY <1>7, ServedUpdates, ApplyKeepsInvariant DEF SyncOptimistic, Working, Advancing
<1>8. CASE SyncError
  BY <1>8, ControlKeepsInvariant DEF SyncError, Location, Working, Advancing
<1>9. CASE \E u \in FinalityUpdates : AdvanceFinality(u)
  BY <1>9, ServedUpdates, ApplyKeepsInvariant DEF AdvanceFinality, Working, Advancing
<1>10. CASE \E u \in OptimisticUpdates : AdvanceOptimistic(u)
  BY <1>10, ServedUpdates, ApplyKeepsInvariant DEF AdvanceOptimistic, Working, Advancing
<1>11. CASE \E u \in Updates : AdvanceCommittee(u)
  BY <1>11, ServedUpdates, ApplyKeepsInvariant DEF AdvanceCommittee, Working, Advancing
<1>12. CASE AdvanceError
  BY <1>12, ControlKeepsInvariant DEF AdvanceError, Location, Working, Advancing
<1>13. CASE NewClient
  <2>1. now' \in Slot /\ initial_checkpoint' \in Trusted(now')
    BY <1>13 DEF NewClient, ClientInv, TypeOK
  <2>2. store' = DefaultStore /\ last_checkpoint' = None /\ pc' = "new"
    BY <1>13 DEF NewClient
  <2>3. (Init => ClientInv)'
    BY InitInvariant, PTL
  <2> QED BY <2>1, <2>2, <2>3 DEF Init
<1>14. CASE Tick
  BY <1>14, TickKeepsInvariant
<1>15. CASE UNCHANGED vars
  BY <1>15 DEF vars, ClientInv, TypeOK, StoreOnCanonicalChain, CheckpointTrusted,
     HeadBetweenFinalizedAndClock, SavedCheckpointIsTrustworthy, StoreFitsControl,
     Bootstrapped
<1> QED BY <1>1, <1>2, <1>3, <1>4, <1>5, <1>6, <1>7, <1>8, <1>9, <1>10, <1>11,
           <1>12, <1>13, <1>14, <1>15 DEF Next

----------------------------------------------------------------------------
(* The results.                                                            *)

(* The inductive invariant holds throughout.                               *)
THEOREM Invariance == Spec => []ClientInv
BY InitInvariant, NextKeepsInvariant, PTL DEF Spec

(* The state of the client always has its type.                            *)
THEOREM TypeCorrect == Spec => []TypeOK
<1>1. ClientInv => TypeOK
  BY DEF ClientInv
<1> QED BY <1>1, Invariance, PTL

(* Whatever an untrusted provider serves, and wherever sync or advance     *)
(* gives up, the store's finalized header and committees are the           *)
(* canonical chain's.                                                      *)
THEOREM StoreSafety == Spec => []StoreOnCanonicalChain
<1>1. ClientInv => StoreOnCanonicalChain
  BY DEF ClientInv
<1> QED BY <1>1, Invariance, PTL

(* The unsigned differences between the clock, the head and the finalized  *)
(* header never wrap.                                                      *)
THEOREM HeadOrder == Spec => []HeadBetweenFinalizedAndClock
<1>1. ClientInv => HeadBetweenFinalizedAndClock
  BY DEF ClientInv
<1> QED BY <1>1, Invariance, PTL

(* The checkpoint to save can be trusted at the next start.                *)
THEOREM CheckpointSafety == Spec => []SavedCheckpointIsTrustworthy
<1>1. ClientInv => SavedCheckpointIsTrustworthy
  BY DEF ClientInv
<1> QED BY <1>1, Invariance, PTL

----------------------------------------------------------------------------
(* What a step may do.                                                     *)

(* The effect of any step on the store: none, a new client's default, a    *)
(* bootstrap from the trusted checkpoint, or an accepted update.           *)
AppliedStep ==
    /\ Bootstrapped /\ Bootstrapped'
    /\ OnChain(store) /\ OnChain(store')
    /\ store'.optimistic_header.slot >= store.optimistic_header.slot
    /\ ForwardStep(store, store')

BootstrapStep ==
    /\ pc = "bootstrap"
    /\ Bootstrapped' /\ OnChain(store')
    /\ store'.finalized_header = initial_checkpoint
    /\ store'.next_sync_committee = None

LEMMA StepEffect ==
    ASSUME ClientInv, [Next]_vars
    PROVE  \/ store' = store
           \/ store' = DefaultStore /\ pc' = "new"
           \/ BootstrapStep
           \/ AppliedStep
<1>1. CASE Bootstrap
  <2>1. ClientInv' /\ Bootstrapped'
        /\ store'.finalized_header = initial_checkpoint
        /\ store'.next_sync_committee = None
    BY <1>1, BootstrapKeepsInvariant
  <2>2. OnChain(store')
    BY <2>1 DEF ClientInv, StoreOnCanonicalChain, OnChain
  <2> QED BY <1>1, <2>1, <2>2 DEF BootstrapStep, Bootstrap
<1>2. ASSUME NEW u \in GenericUpdate, Apply(u), pc \in Working, pc' \in Working,
             now' = now, initial_checkpoint' = initial_checkpoint
      PROVE  AppliedStep
  BY <1>2, ApplyKeepsInvariant DEF AppliedStep
<1>3. CASE \E u \in Updates : SyncUpdate(u)
  BY <1>2, <1>3, ServedUpdates DEF SyncUpdate, Working
<1>4. CASE \E u \in FinalityUpdates : SyncFinality(u)
  BY <1>2, <1>4, ServedUpdates DEF SyncFinality, Working
<1>5. CASE \E u \in OptimisticUpdates : SyncOptimistic(u)
  BY <1>2, <1>5, ServedUpdates DEF SyncOptimistic, Working, Advancing
<1>6. CASE \E u \in FinalityUpdates : AdvanceFinality(u)
  BY <1>2, <1>6, ServedUpdates DEF AdvanceFinality, Working, Advancing
<1>7. CASE \E u \in OptimisticUpdates : AdvanceOptimistic(u)
  BY <1>2, <1>7, ServedUpdates DEF AdvanceOptimistic, Working, Advancing
<1>8. CASE \E u \in Updates : AdvanceCommittee(u)
  BY <1>2, <1>8, ServedUpdates DEF AdvanceCommittee, Working, Advancing
<1>9. CASE NewClient
  BY <1>9 DEF NewClient
<1>10. CASE StartSync \/ BootstrapTooOld \/ SyncUpdatesDone \/ SyncError
            \/ AdvanceError \/ Tick \/ UNCHANGED vars
  BY <1>10 DEF StartSync, BootstrapTooOld, SyncUpdatesDone, SyncError,
               AdvanceError, Tick, vars
<1> QED BY <1>1, <1>3, <1>4, <1>5, <1>6, <1>7, <1>8, <1>9, <1>10 DEF Next

(* The finalized and the optimistic header never go back.                  *)
THEOREM Monotonicity == Spec => HeadersNeverRegress
<1> DEFINE Forward ==
       (pc = "bootstrap" \/ pc' = "new") \/
        /\ \/ store'.finalized_header = store.finalized_header
           \/ store'.finalized_header.slot > store.finalized_header.slot
        /\ store'.optimistic_header.slot >= store.optimistic_header.slot
<1>1. ClientInv /\ [Next]_vars => Forward
  <2> SUFFICES ASSUME ClientInv, [Next]_vars PROVE Forward
    OBVIOUS
  <2>1. CASE store' = store
    <3>1. store.optimistic_header.slot \in Int
      BY DEF ClientInv, TypeOK, Store, Header, Slot
    <3> QED BY <2>1, <3>1
  <2>2. CASE AppliedStep
    BY <2>2 DEF AppliedStep, ForwardStep
  <2>3. CASE BootstrapStep
    BY <2>3 DEF BootstrapStep
  <2> QED BY <2>1, <2>2, <2>3, StepEffect
<1>2. Forward => [Forward]_vars
  OBVIOUS
<1> HIDE DEF Forward
<1>3. Spec => [][Forward]_vars
  BY <1>1, <1>2, Invariance, PTL DEF Spec
<1> QED BY <1>3 DEF Forward, HeadersNeverRegress

(* Counting an update's participants never lowers the safety threshold.    *)
LEMMA ThresholdGrows ==
    ASSUME NEW s \in Store, NEW u \in GenericUpdate
    PROVE  /\ safety_threshold(s) \in Nat
           /\ safety_threshold(count_participants(s, u)) \in Nat
           /\ safety_threshold(s) <= safety_threshold(count_participants(s, u))
<1> DEFINE c == s.current_max_active_participants
           p == s.previous_max_active_participants
           b == u.bits
           s0 == count_participants(s, u)
<1>1. c \in Nat /\ p \in Nat /\ b \in Nat
  BY DEF Store, GenericUpdate
<1>2. /\ s0.current_max_active_participants = larger(c, b)
      /\ s0.previous_max_active_participants = p
  BY DEF count_participants, Store
<1>3. /\ safety_threshold(s) = larger(c, p) \div 2
      /\ safety_threshold(s0) = larger(larger(c, b), p) \div 2
  BY <1>2 DEF safety_threshold
<1> HIDE DEF c, p, b, s0
<1>4. /\ larger(c, p) \in Nat /\ larger(larger(c, b), p) \in Nat
      /\ larger(c, p) <= larger(larger(c, b), p)
  BY <1>1 DEF larger
<1>5. larger(larger(c, b), p) <= larger(larger(c, b), p)
  BY <1>4
<1> QED BY <1>3, <1>4, <1>5, DivMonotone DEF s0

(* Twice as many participants as faulty members put the threshold at or    *)
(* above the number of faulty members.                                     *)
LEMMA ThresholdReached ==
    ASSUME NEW s \in Store,
           larger(s.current_max_active_participants,
                  s.previous_max_active_participants) >= 2 * MaxFaulty
    PROVE  safety_threshold(s) >= MaxFaulty
<1> DEFINE m == larger(s.current_max_active_participants,
                       s.previous_max_active_participants)
<1>1. m \in Nat /\ m >= 2 * MaxFaulty
  BY DEF larger, Store
<1>2. safety_threshold(s) = m \div 2
  BY DEF safety_threshold
<1> HIDE DEF m
<1>3. m \div 2 >= MaxFaulty
  BY <1>1, FaultAssumption
<1> QED BY <1>2, <1>3

(* An accepted update, applied above the threshold, leaves a genuine head. *)
LEMMA AppliedHead ==
    ASSUME NEW t \in Slot, NEW s \in Store, NEW u \in GenericUpdate,
           OnChain(s), verify_generic_update(t, s, u),
           safety_threshold(s) >= MaxFaulty,
           NEW r, r = apply_generic_update(s, u)
    PROVE  r.optimistic_header = s.optimistic_header \/ Genuine(r.optimistic_header)
<1> DEFINE s1 == update_optimistic(count_participants(s, u), u)
           s2 == update_committees(s1, u)
           T == safety_threshold(count_participants(s, u))
<1>1. s1 \in Store
      /\ \/ s1.optimistic_header = s.optimistic_header
         \/ s1.optimistic_header = u.attested_header /\ u.bits > T
  BY HeadUpdated
<1>2. T \in Nat /\ T >= MaxFaulty /\ u.bits \in Nat
  BY ThresholdGrows, FaultAssumption DEF GenericUpdate
<1> HIDE DEF T
<1>3. u.bits > T => u.bits > MaxFaulty
  BY <1>2, FaultAssumption
<1>4. s1.optimistic_header = s.optimistic_header \/ Genuine(s1.optimistic_header)
  BY <1>1, <1>3, VerifiedUpdate
<1> HIDE DEF s1
<1>5. CASE ~ should_apply_update(s1, u)
  BY <1>4, <1>5 DEF apply_generic_update, s1
<1>6. CASE should_apply_update(s1, u)
  <2>1. r = update_finalized(s2, u)
    BY <1>6 DEF apply_generic_update, s1
  <2>2. s2 \in Store /\ s2.optimistic_header = s1.optimistic_header
    BY <1>1, CommitteesUpdated
  <2> HIDE DEF s2
  <2>3. CASE r = s2
    BY <2>2, <2>3, <1>4
  <2>4. CASE /\ u.finalized_header \in Header
             /\ r.optimistic_header \in {s2.optimistic_header, u.finalized_header}
    <3>1. Genuine(u.attested_header) /\ u.finalized_header # None
      BY <2>4, <1>6, VerifiedUpdate, NoneAssumption DEF should_apply_update
    <3>2. u.finalized_header = Canonical(FinalizedSlot[u.attested_header.slot])
      BY <3>1 DEF verify_generic_update, has_finality_update, is_finality_proof_valid
    <3>3. Genuine(u.finalized_header)
      BY <3>2 DEF Canonical, Genuine
    <3> QED BY <2>2, <2>4, <3>3, <1>4
  <2> QED BY <2>1, <2>2, <2>3, <2>4, FinalizedUpdated
<1> QED BY <1>5, <1>6

(* Above the threshold, faulty members alone cannot move the head.         *)
THEOREM HeadSafety == Spec => MinorityCannotMoveTheHead
<1> DEFINE Genuinely ==
      larger(store.current_max_active_participants,
             store.previous_max_active_participants) >= 2 * MaxFaulty =>
            \/ store'.optimistic_header = store.optimistic_header
            \/ Genuine(store'.optimistic_header)
            \/ pc' = "new"
<1>1. ClientInv /\ [Next]_vars => Genuinely
  <2> SUFFICES ASSUME ClientInv, [Next]_vars,
                      larger(store.current_max_active_participants,
                             store.previous_max_active_participants) >= 2 * MaxFaulty
               PROVE  \/ store'.optimistic_header = store.optimistic_header
                      \/ Genuine(store'.optimistic_header)
                      \/ pc' = "new"
    OBVIOUS
  <2> safety_threshold(store) >= MaxFaulty
    BY ThresholdReached DEF ClientInv, TypeOK
  <2>1. ASSUME NEW u \in GenericUpdate, Apply(u), pc \in Working
        PROVE  \/ store'.optimistic_header = store.optimistic_header
               \/ Genuine(store'.optimistic_header)
    <3>1. store \in Store /\ now \in Slot /\ OnChain(store)
      BY <2>1 DEF ClientInv, TypeOK, StoreFitsControl, StoreOnCanonicalChain, OnChain
    <3> QED BY <2>1, <3>1, AppliedHead DEF Apply
  <2>2. CASE Bootstrap
    <3>1. Genuine(initial_checkpoint)
      BY DEF ClientInv, CheckpointTrusted, Canonical, Genuine
    <3>2. store'.optimistic_header = initial_checkpoint
      BY <2>2 DEF Bootstrap, header_valid, DefaultStore
    <3> QED BY <3>1, <3>2
  <2>3. CASE \E u \in Updates : SyncUpdate(u)
    BY <2>1, <2>3, ServedUpdates DEF SyncUpdate, Working
  <2>4. CASE \E u \in FinalityUpdates : SyncFinality(u)
    BY <2>1, <2>4, ServedUpdates DEF SyncFinality, Working
  <2>5. CASE \E u \in OptimisticUpdates : SyncOptimistic(u)
    BY <2>1, <2>5, ServedUpdates DEF SyncOptimistic, Working
  <2>6. CASE \E u \in FinalityUpdates : AdvanceFinality(u)
    BY <2>1, <2>6, ServedUpdates DEF AdvanceFinality, Working, Advancing
  <2>7. CASE \E u \in OptimisticUpdates : AdvanceOptimistic(u)
    BY <2>1, <2>7, ServedUpdates DEF AdvanceOptimistic, Working, Advancing
  <2>8. CASE \E u \in Updates : AdvanceCommittee(u)
    BY <2>1, <2>8, ServedUpdates DEF AdvanceCommittee, Working, Advancing
  <2>9. CASE NewClient
    BY <2>9 DEF NewClient
  <2>10. CASE StartSync \/ BootstrapTooOld \/ SyncUpdatesDone \/ SyncError
              \/ AdvanceError \/ Tick \/ UNCHANGED vars
    BY <2>10 DEF StartSync, BootstrapTooOld, SyncUpdatesDone, SyncError,
                 AdvanceError, Tick, vars
  <2> QED BY <2>2, <2>3, <2>4, <2>5, <2>6, <2>7, <2>8, <2>9, <2>10 DEF Next
<1>2. Genuinely => [Genuinely]_vars
  OBVIOUS
<1> HIDE DEF Genuinely
<1>3. Spec => [][Genuinely]_vars
  BY <1>1, <1>2, Invariance, PTL DEF Spec
<1> QED BY <1>3 DEF Genuinely, MinorityCannotMoveTheHead

----------------------------------------------------------------------------
(* Refinement.                                                             *)

(* A bootstrapped store on the chain, as the ideal follower sees it.       *)
Seen(s) == {s.current_sync_committee, s.next_sync_committee} \ {None}

LEMMA SeenCommittees ==
    ASSUME NEW s \in Store, OnChain(s), NEW p, p = calc_sync_period(s.finalized_header.slot)
    PROVE  /\ p \in Nat
           /\ s.finalized_header.slot \in Slot
           /\ s.finalized_header.chain = "canonical"
           /\ s.next_sync_committee = None => Seen(s) = {p}
           /\ s.next_sync_committee # None => Seen(s) = {p, p + 1}
<1>1. s.finalized_header.slot \in Slot
  BY DEF Store, Header
<1>2. s.finalized_header.slot <= s.finalized_header.slot
  BY <1>1 DEF Slot
<1>3. p \in Nat
  BY <1>1, <1>2, PeriodMonotone
<1>4. s.finalized_header.chain = "canonical"
  BY DEF OnChain, Canonical
<1>5. s.current_sync_committee = p /\ s.next_sync_committee \in {None, p + 1}
  BY DEF OnChain
<1>6. p # None /\ p + 1 # None
  BY <1>3, NoneAssumption
<1> QED BY <1>1, <1>3, <1>4, <1>5, <1>6 DEF Seen

(* An accepted update is a Learn, a Follow, or nothing.                    *)
LEMMA AppliedStepFollows ==
    ASSUME store \in Store, store' \in Store, AppliedStep
    PROVE  Followed!FollowNext \/ UNCHANGED <<FollowedSlot, HeldCommittees>>
<1> DEFINE f == store.finalized_header.slot
           g == store'.finalized_header.slot
           p == calc_sync_period(f)
           q == calc_sync_period(g)
           n == store.next_sync_committee
           m == store'.next_sync_committee
<1>1. /\ p \in Nat /\ f \in Slot
      /\ store.finalized_header.chain = "canonical"
      /\ n = None => Seen(store) = {p}
      /\ n # None => Seen(store) = {p, p + 1}
  BY SeenCommittees DEF AppliedStep
<1>2. /\ q \in Nat /\ g \in Slot
      /\ store'.finalized_header.chain = "canonical"
      /\ m = None => Seen(store') = {q}
      /\ m # None => Seen(store') = {q, q + 1}
  BY SeenCommittees DEF AppliedStep
<1>3. /\ FollowedSlot = f /\ FollowedSlot' = g
      /\ HeldCommittees = Seen(store) /\ HeldCommittees' = Seen(store')
  BY <1>1, <1>2 DEF AppliedStep, FollowedSlot, HeldCommittees, Seen
<1>4. f # None
  BY <1>1, NoneAssumption DEF Slot
<1>5. Followed!PeriodOf(f) = p /\ Followed!PeriodOf(g) = q
  BY DEF Followed!PeriodOf, calc_sync_period
<1>6. \/ g = f /\ (n # None => m = n)
      \/ g > f /\ q = p /\ (n # None => m = n)
      \/ g > f /\ q = p + 1 /\ n # None
  BY DEF AppliedStep, ForwardStep, KeepsNext
<1>7. g = f => q = p
  OBVIOUS
<1> DEFINE old == HeldCommittees
           new == HeldCommittees'
<1>8. /\ old = IF n = None THEN {p} ELSE {p, p + 1}
      /\ new = IF m = None THEN {q} ELSE {q, q + 1}
  BY <1>1, <1>2, <1>3
<1> HIDE DEF f, g, p, q, n, m, old, new
<1>9. CASE g = f /\ (n # None => m = n)
  <2>1. new = old \/ new = old \cup {p + 1}
    BY <1>7, <1>8, <1>9
  <2>2. CASE new = old
    BY <2>2, <1>3, <1>9 DEF old, new
  <2>3. CASE new = old \cup {p + 1}
    <3>1. Followed!Learn
      BY <2>3, <1>3, <1>4, <1>5, <1>9 DEF Followed!Learn, old, new
    <3> QED BY <3>1 DEF Followed!FollowNext
  <2> QED BY <2>1, <2>2, <2>3
<1>10. CASE g > f /\ ((q = p /\ (n # None => m = n)) \/ (q = p + 1 /\ n # None))
  <2> DEFINE kept == {x \in old : x >= q}
  <2>1. q \in old
    BY <1>8, <1>10
  <2>2. kept = IF q = p THEN old ELSE {q}
    BY <1>1, <1>2, <1>8, <1>10
  <2> HIDE DEF kept
  <2>3. new \in {kept, kept \cup {q + 1}}
    BY <2>2, <1>8, <1>10
  <2>4. Followed!Follow(g)
    BY <2>1, <2>3, <1>3, <1>4, <1>5, <1>10 DEF Followed!Follow, kept, old, new
  <2> QED BY <2>4, <1>2 DEF Followed!FollowNext
<1> QED BY <1>6, <1>9, <1>10

(* sync and advance implement the ideal follower of the finalized chain.   *)
THEOREM Refinement == Spec => FollowsFinalizedChain
<1>1. Init => Followed!FollowNothing
  BY DEF Init, Followed!FollowNothing, FollowedSlot, HeldCommittees, Bootstrapped,
         DefaultStore
<1>2. ClientInv /\ ClientInv' /\ [Next]_vars
          => [Followed!FollowNext]_<<FollowedSlot, HeldCommittees>>
  <2> SUFFICES ASSUME ClientInv, ClientInv', [Next]_vars
               PROVE  Followed!FollowNext \/ UNCHANGED <<FollowedSlot, HeldCommittees>>
    OBVIOUS
  <2>1. CASE store' = store
    BY <2>1 DEF FollowedSlot, HeldCommittees, Bootstrapped
  <2>2. CASE store' = DefaultStore
    <3>1. FollowedSlot' = None /\ HeldCommittees' = {}
      BY <2>2 DEF FollowedSlot, HeldCommittees, Bootstrapped, DefaultStore
    <3> QED BY <3>1 DEF Followed!FollowNext, Followed!Forget
  <2>3. CASE BootstrapStep
    <3> DEFINE c == initial_checkpoint.slot
    <3>1. c \in Checkpoints
      BY DEF ClientInv, CheckpointTrusted
    <3>2. store' \in Store /\ OnChain(store') /\ Bootstrapped'
          /\ store'.finalized_header.slot = c /\ store'.next_sync_committee = None
      BY <2>3 DEF ClientInv, TypeOK, BootstrapStep
    <3>3. Seen(store') = {calc_sync_period(c)}
          /\ store'.finalized_header.chain = "canonical"
      BY <3>2, SeenCommittees
    <3>4. FollowedSlot' = c /\ HeldCommittees' = {calc_sync_period(c)}
      BY <3>2, <3>3 DEF FollowedSlot, HeldCommittees, Seen
    <3>5. Followed!Trust(c)
      BY <3>4 DEF Followed!Trust, Followed!PeriodOf, calc_sync_period
    <3> QED BY <3>1, <3>5 DEF Followed!FollowNext
  <2>4. CASE AppliedStep
    <3>1. store \in Store /\ store' \in Store
      BY DEF ClientInv, TypeOK
    <3> QED BY <2>4, <3>1, AppliedStepFollows
  <2> QED BY <2>1, <2>2, <2>3, <2>4, StepEffect
<1> QED BY <1>1, <1>2, Invariance, PTL
        DEF Spec, FollowsFinalizedChain, Followed!FollowSpec

----------------------------------------------------------------------------
(* The update schedule.                                                    *)

(* What the chain has finalized at time t, as an honest provider tells it. *)
LastFinal(t) == FinalizedSlot[t - 1]

KnowsNext(s) == s.next_sync_committee # None

(* The last period whose signatures a store can check.                     *)
Reach(s) ==
    LET period == calc_sync_period(s.finalized_header.slot)
    IN  IF KnowsNext(s) THEN period + 1 ELSE period

(* A round is not over while a request is awaited; nothing is finalized    *)
(* before the chain does.                                                  *)
ScheduleTyped ==
    /\ now # 0 /\ polled \in BOOLEAN /\ missed \in 0 .. MaxMissed /\ sync_period \in Nat
    /\ pc \in Syncing \cup {"adv_optimistic", "adv_committee"} => ~ polled
    /\ initial_checkpoint.slot <= LastFinal(now)
    /\ store.finalized_header.slot <= LastFinal(now)

(* If the chain has finalized a block of this period, the store has one    *)
(* and knows the next committee.                                           *)
Learnt ==
    calc_sync_period(LastFinal(now)) = calc_sync_period(now) =>
        /\ calc_sync_period(store.finalized_header.slot) = calc_sync_period(now)
        /\ KnowsNext(store)

(* sync has worked through the updates up to this period.                  *)
UpdatesSoFar ==
    /\ pc = "updates" => /\ sync_period <= calc_sync_period(now) + 1
                         /\ sync_period = calc_sync_period(now) + 1 => Learnt
    /\ pc = "finality" => Learnt

(* The rest of a round, after the finality update.                         *)
RoundSoFar ==
    /\ pc \in {"optimistic", "adv_optimistic", "adv_committee"} =>
          store.finalized_header.slot = LastFinal(now)
    /\ pc = "optimistic" => KnowsNext(store)
    /\ pc = "adv_committee" => ~ KnowsNext(store)
    /\ pc \in {"optimistic"} \cup Advancing =>
          now > 1 /\ calc_sync_period(now) <= Reach(store)

(* Since the last success, at t, rounds have failed in every slot.  The    *)
(* store has not lost a period since then.                                 *)
OnTime ==
    pc \in Advancing =>
        \E t \in 1 .. now :
            /\ calc_sync_period(LastFinal(t)) < Reach(store)
            /\ now <= t + missed + (IF polled THEN 0 ELSE 1)

ScheduleInv == ScheduleTyped /\ UpdatesSoFar /\ RoundSoFar /\ OnTime

----------------------------------------------------------------------------
(* Periods have all the same length.                                       *)

PeriodLength == SlotsPerEpoch * EpochsPerPeriod

(* A period is the slots from a multiple of its length to the next.        *)
LEMMA PeriodBounds ==
    ASSUME NEW x \in Nat
    PROVE  /\ PeriodLength \in Nat \ {0}
           /\ calc_sync_period(x) \in Nat
           /\ PeriodLength * calc_sync_period(x) <= x
           /\ x < PeriodLength * calc_sync_period(x) + PeriodLength
<1> DEFINE S == SlotsPerEpoch
           E == EpochsPerPeriod
           e == x \div S
           p == e \div E
<1>1. S \in Nat \ {0} /\ E \in Nat \ {0}
  OBVIOUS
<1>2. e \in Nat
  BY <1>1, DivMonotone
<1>3. S * e <= x /\ x < S * e + S
  <2> HIDE DEF S
  <2> QED BY <1>1, SMT
<1>4. p \in Nat
  BY <1>1, <1>2, DivMonotone
<1>5. E * p <= e /\ e < E * p + E
  <2> HIDE DEF E, e
  <2> QED BY <1>1, <1>2, SMT
<1>6. calc_sync_period(x) = p /\ PeriodLength = S * E
  BY DEF calc_sync_period, PeriodLength
<1> HIDE DEF S, E, e, p
<1>7. S * (E * p) <= S * e
  <2>1. E * p \in Nat
    BY <1>1, <1>4, SMT
  <2> DEFINE g == E * p
  <2> HIDE DEF g
  <2>2. g \in Nat /\ g <= e
    BY <2>1, <1>5 DEF g
  <2>3. S * g <= S * e
    BY <2>2, <1>1, <1>2, SMT
  <2> QED BY <2>3 DEF g
<1>8. S * e + S <= S * (E * p) + S * E
  <2> DEFINE g == E * p
  <2>1. g \in Nat
    BY <1>1, <1>4, SMT
  <2> HIDE DEF g
  <2>2. e + 1 <= g + E
    BY <2>1, <1>1, <1>2, <1>5 DEF g
  <2>3. S * (e + 1) <= S * (g + E)
    BY <2>1, <2>2, <1>1, <1>2, SMT
  <2>4. S * (e + 1) = S * e + S /\ S * (g + E) = S * g + S * E
    BY <2>1, <1>1, <1>2, SMT
  <2> QED BY <2>3, <2>4 DEF g
<1>9. S * (E * p) = (S * E) * p /\ S * E \in Nat /\ S * E # 0
      /\ (S * E) * p \in Nat /\ S * e \in Nat
  <2>1. S * E \in Nat /\ S * E # 0
    BY <1>1, SMT
  <2>2. S * (E * p) = (S * E) * p
    BY <1>1, <1>4, SMT
  <2>3. (S * E) * p \in Nat
    <3> DEFINE l == S * E
    <3> HIDE DEF l
    <3>1. l \in Nat
      BY <2>1 DEF l
    <3>2. l * p \in Nat
      BY <3>1, <1>4, SMT
    <3> QED BY <3>2 DEF l
  <2>4. S * e \in Nat
    BY <1>1, <1>2, SMT
  <2> QED BY <2>1, <2>2, <2>3, <2>4
<1>10. (S * E) * p <= x /\ x < (S * E) * p + S * E
  <2> DEFINE a == S * e
             b == (S * E) * p
             l == S * E
  <2>1. a \in Nat /\ b \in Nat /\ l \in Nat /\ S \in Nat
        /\ b <= a /\ a + S <= b + l /\ a <= x /\ x < a + S
    BY <1>1, <1>3, <1>7, <1>8, <1>9
  <2> HIDE DEF a, b, l
  <2>2. b <= x /\ x < b + l
    BY <2>1
  <2> QED BY <2>2 DEF b, l
<1> QED BY <1>4, <1>6, <1>9, <1>10

(* Multiples of the length are in the order of the periods.                *)
LEMMA PeriodOrder ==
    ASSUME NEW p \in Nat, NEW q \in Nat, p < q
    PROVE  /\ PeriodLength * p \in Nat /\ PeriodLength * q \in Nat
           /\ PeriodLength * p + PeriodLength <= PeriodLength * q
<1> DEFINE l == PeriodLength
<1>1. l \in Nat \ {0}
  BY PeriodBounds
<1> HIDE DEF l
<1>2. l * p \in Nat /\ l * q \in Nat
  BY <1>1, SMT
<1>3. l * (p + 1) <= l * q
  BY <1>1, SMT
<1>4. l * (p + 1) = l * p + l
  BY <1>1, SMT
<1> QED BY <1>2, <1>3, <1>4 DEF l

(* The slots between two multiples are of that period.                     *)
LEMMA PeriodOf ==
    ASSUME NEW q \in Nat, NEW x \in Nat,
           PeriodLength * q <= x, x < PeriodLength * q + PeriodLength
    PROVE  calc_sync_period(x) = q
<1> DEFINE p == calc_sync_period(x)
           l == PeriodLength
<1>1. p \in Nat /\ l * p <= x /\ x < l * p + l /\ l \in Nat
  BY PeriodBounds
<1> HIDE DEF p
<1>2. CASE p < q
  <2>1. l * p + l <= l * q /\ l * p \in Nat /\ l * q \in Nat
    BY <1>1, <1>2, PeriodOrder
  <2> DEFINE a == l * p
             b == l * q
  <2>2. a \in Nat /\ b \in Nat /\ l \in Nat /\ a + l <= b /\ x < a + l /\ b <= x
    BY <1>1, <2>1
  <2> HIDE DEF a, b, l
  <2> QED BY <2>2
<1>3. CASE q < p
  <2>1. l * q + l <= l * p /\ l * p \in Nat /\ l * q \in Nat
    BY <1>1, <1>3, PeriodOrder
  <2> DEFINE a == l * p
             b == l * q
  <2>2. a \in Nat /\ b \in Nat /\ l \in Nat /\ b + l <= a /\ a <= x /\ x < b + l
    BY <1>1, <2>1
  <2> HIDE DEF a, b, l
  <2> QED BY <2>2
<1> QED BY <1>1, <1>2, <1>3 DEF p

(* Later slots are in no earlier period.                                   *)
LEMMA LaterPeriod ==
    ASSUME NEW x \in Nat, NEW y \in Nat, x <= y
    PROVE  calc_sync_period(x) <= calc_sync_period(y)
<1>1. x \div SlotsPerEpoch \in Nat /\ y \div SlotsPerEpoch \in Nat
      /\ x \div SlotsPerEpoch <= y \div SlotsPerEpoch
  BY DivMonotone
<1> QED BY <1>1, DivMonotone DEF calc_sync_period

(* The period of a later slot begins after an earlier one: its first slot. *)
LEMMA FirstSlot ==
    ASSUME NEW q \in Nat, NEW x \in Nat, q <= calc_sync_period(x)
    PROVE  \E s \in 0 .. x : /\ calc_sync_period(s) = q
                             /\ \A y \in Nat : y < s => calc_sync_period(y) < q
<1> DEFINE s == PeriodLength * q
           p == calc_sync_period(x)
           l == PeriodLength
<1>1. p \in Nat /\ l * p <= x /\ l \in Nat \ {0} /\ l * p \in Nat
  <2>1. p \in Nat /\ l * p <= x /\ l \in Nat \ {0}
    BY PeriodBounds
  <2>2. l * p \in Nat
    <3> HIDE DEF l, p
    <3> QED BY <2>1, SMT
  <2> QED BY <2>1, <2>2
<1>2. s \in Nat /\ s <= x
  <2>1. CASE q = p
    BY <1>1, <2>1
  <2>2. CASE q < p
    <3>1. l * q + l <= l * p /\ l * q \in Nat
      <4> HIDE DEF p
      <4> QED BY <1>1, <2>2, PeriodOrder
    <3> DEFINE a == l * p
               b == l * q
    <3>2. a \in Nat /\ b \in Nat /\ l \in Nat /\ b + l <= a /\ a <= x
      BY <1>1, <3>1
    <3> HIDE DEF a, b, l
    <3>3. b \in Nat /\ b <= x
      BY <3>2
    <3> QED BY <3>3 DEF b, l
  <2>3. q <= p
    OBVIOUS
  <2> HIDE DEF p
  <2> QED BY <1>1, <2>1, <2>2, <2>3
<1>3. calc_sync_period(s) = q
  <2>1. s <= s /\ s < s + l
    <3> HIDE DEF s, l
    <3> QED BY <1>1, <1>2
  <2> QED BY <1>2, <2>1, PeriodOf
<1>4. ASSUME NEW y \in Nat, y < s PROVE calc_sync_period(y) < q
  <2> DEFINE r == calc_sync_period(y)
  <2>1. r \in Nat /\ l * r <= y /\ l * r \in Nat
    <3>1. r \in Nat /\ l * r <= y
      BY PeriodBounds
    <3>2. l * r \in Nat
      <4> HIDE DEF r, l
      <4> QED BY <1>1, <3>1, SMT
    <3> QED BY <3>1, <3>2
  <2> SUFFICES ASSUME q <= r PROVE FALSE
    BY <2>1
  <2>2. r # q
    <3> SUFFICES ASSUME r = q PROVE FALSE
      OBVIOUS
    <3>1. s <= y
      BY <2>1
    <3> HIDE DEF s
    <3> QED BY <1>2, <1>4, <3>1
  <2>3. q < r
    <3> HIDE DEF r
    <3> QED BY <2>1, <2>2
  <2>4. s + l <= l * r
    <3> HIDE DEF r
    <3> QED BY <2>1, <2>3, PeriodOrder
  <2> DEFINE a == l * r
  <2>5. a \in Nat /\ s + l <= a /\ a <= y
    BY <2>1, <2>4
  <2> HIDE DEF a, s, l
  <2> QED BY <1>1, <1>2, <1>4, <2>5
<1> HIDE DEF s
<1>5. s \in 0 .. x
  BY <1>2
<1> QED BY <1>3, <1>4, <1>5

(* From a slot to the next the period stays or is the next one.            *)
LEMMA NextPeriod ==
    ASSUME NEW x \in Nat
    PROVE  calc_sync_period(x + 1) \in {calc_sync_period(x), calc_sync_period(x) + 1}
<1> DEFINE p == calc_sync_period(x)
           q == calc_sync_period(x + 1)
<1>1. p \in Nat /\ q \in Nat /\ p <= q
  BY PeriodBounds, LaterPeriod
<1>2. SUFFICES ASSUME p + 1 < q PROVE FALSE
  <2> HIDE DEF p, q
  <2>1. p + 1 < q \/ q = p \/ q = p + 1
    BY <1>1
  <2> QED BY <1>2, <2>1 DEF p, q
<1>3. PICK s \in 0 .. x + 1 : /\ calc_sync_period(s) = p + 1
                              /\ \A y \in Nat : y < s => calc_sync_period(y) < p + 1
  <2>1. p + 1 \in Nat /\ x + 1 \in Nat /\ p + 1 <= q
    <3> HIDE DEF p, q
    <3> QED BY <1>1, <1>2
  <2> HIDE DEF p
  <2> QED BY <2>1, FirstSlot
<1>4. s # x + 1
  <2> HIDE DEF p
  <2> QED BY <1>1, <1>2, <1>3
<1>5. s \in Nat /\ s <= x
  BY <1>3, <1>4
<1>6. p + 1 <= p
  BY <1>3, <1>5, LaterPeriod
<1> HIDE DEF p
<1> QED BY <1>1, <1>6

----------------------------------------------------------------------------
(* The updates of an honest provider.                                      *)

(* The whole update, without committee, and the attested header only.      *)
Parts(a) ==
    {HonestUpdate(a), FinalityUpdate(HonestUpdate(a)), OptimisticUpdate(HonestUpdate(a))}

(* A slot before the clock and what it finalizes.                          *)
LEMMA AttestedFacts ==
    ASSUME Finality, NEW t \in Slot, NEW a \in 0 .. t - 1
    PROVE  /\ a \in Slot /\ a + 1 \in Slot /\ a \in Nat /\ a + 1 <= t
           /\ FinalizedSlot[a] \in Slot /\ FinalizedSlot[a] \in Nat /\ FinalizedSlot[a] <= a
           /\ calc_sync_period(a) \in Nat /\ calc_sync_period(a + 1) \in Nat
           /\ calc_sync_period(FinalizedSlot[a]) \in Nat
           /\ calc_sync_period(FinalizedSlot[a]) <= calc_sync_period(a)
           /\ calc_sync_period(a) <= calc_sync_period(a + 1)
<1>1. t \in Nat /\ t <= MaxSlot
  BY DEF Slot
<1>2. a \in Slot /\ a + 1 \in Slot /\ a \in Nat /\ a + 1 <= t /\ a + 1 \in Nat
  BY <1>1 DEF Slot
<1>3. FinalizedSlot[a] \in Slot /\ FinalizedSlot[a] \in Nat
  BY <1>2 DEF Slot
<1>4. FinalizedSlot[a] <= a
  <2>1. CASE a # 0
    BY <1>2, <1>3, <2>1 DEF Finality
  <2>2. CASE a = 0
    <3>1. 1 \in Slot /\ 0 \in Slot /\ 1 # 0
      BY <1>2, <2>2
    <3>2. FinalizedSlot[1] < 1 /\ FinalizedSlot[0] <= FinalizedSlot[1]
          /\ FinalizedSlot[1] \in Slot
      BY <3>1 DEF Finality
    <3> QED BY <1>3, <2>2, <3>2 DEF Slot
  <2> QED BY <2>1, <2>2
<1> QED BY <1>2, <1>3, <1>4, PeriodBounds, LaterPeriod

(* Its parts have the type of an update.                                   *)
LEMMA HonestFacts ==
    ASSUME Finality, NEW t \in Slot, NEW a \in 0 .. t - 1, NEW u \in Parts(a)
    PROVE  /\ u \in GenericUpdate
           /\ u.attested_header = Canonical(a) /\ u.attested_header.slot = a
           /\ u.signature_slot = a + 1 /\ u.bits = CommitteeSize
           /\ u.finalized_header \in {Canonical(FinalizedSlot[a]), None}
           /\ u # OptimisticUpdate(HonestUpdate(a)) =>
                  /\ u.finalized_header = Canonical(FinalizedSlot[a])
                  /\ slot_or_zero(u.finalized_header) = FinalizedSlot[a]
           /\ u = OptimisticUpdate(HonestUpdate(a)) =>
                  u.finalized_header = None /\ slot_or_zero(u.finalized_header) = 0
           /\ u.next_sync_committee \in {None, calc_sync_period(a) + 1}
           /\ u.next_sync_committee # None <=> u = HonestUpdate(a)
<1> DEFINE h == HonestUpdate(a)
           fin == Canonical(FinalizedSlot[a])
           nxt == calc_sync_period(a) + 1
<1>1. /\ Canonical(a) \in Header /\ fin \in Header /\ Canonical(a).slot = a
      /\ fin.slot = FinalizedSlot[a]
  BY AttestedFacts DEF Canonical, Header, Chain
<1>2. nxt \in Nat /\ nxt # None /\ fin # None
  BY <1>1, AttestedFacts, NoneAssumption
<1>3. a + 1 \in Slot /\ CommitteeSize \in 0 .. CommitteeSize
  BY AttestedFacts
<1>4. /\ h = [attested_header |-> Canonical(a), finalized_header |-> fin,
              next_sync_committee |-> nxt, bits |-> CommitteeSize, signature_slot |-> a + 1]
      /\ FinalityUpdate(h) =
             [attested_header |-> Canonical(a), finalized_header |-> fin,
              next_sync_committee |-> None, bits |-> CommitteeSize, signature_slot |-> a + 1]
      /\ OptimisticUpdate(h) =
             [attested_header |-> Canonical(a), finalized_header |-> None,
              next_sync_committee |-> None, bits |-> CommitteeSize, signature_slot |-> a + 1]
  <2>1. h = [attested_header |-> Canonical(a), finalized_header |-> fin,
             next_sync_committee |-> nxt, bits |-> CommitteeSize, signature_slot |-> a + 1]
    BY DEF HonestUpdate
  <2> HIDE DEF h, fin, nxt
  <2>2. /\ FinalityUpdate(h) = [h EXCEPT !.next_sync_committee = None]
        /\ OptimisticUpdate(h) = [h EXCEPT !.next_sync_committee = None,
                                          !.finalized_header = None]
    BY DEF FinalityUpdate, OptimisticUpdate
  <2> QED BY <2>1, <2>2
<1>5. u = h \/ u = FinalityUpdate(h) \/ u = OptimisticUpdate(h)
  BY DEF Parts
<1> HIDE DEF h, fin, nxt
<1>6. /\ u \in GenericUpdate
      /\ u.attested_header = Canonical(a)
      /\ u.signature_slot = a + 1 /\ u.bits = CommitteeSize
  BY <1>1, <1>2, <1>3, <1>4, <1>5 DEF GenericUpdate, Committee
<1>7. /\ u # OptimisticUpdate(h) => u.finalized_header = fin
      /\ u = OptimisticUpdate(h) => u.finalized_header = None
      /\ u = h => u.next_sync_committee = nxt
      /\ u # h => u.next_sync_committee = None
  BY <1>4, <1>5
<1>8. slot_or_zero(fin) = FinalizedSlot[a] /\ slot_or_zero(None) = 0
  BY <1>1, <1>2 DEF slot_or_zero
<1> QED BY <1>1, <1>2, <1>6, <1>7, <1>8 DEF h, fin, nxt

(* The parts with a finalized header are told from the one without.        *)
LEMMA PartsDiffer ==
    ASSUME Finality, NEW t \in Slot, NEW a \in 0 .. t - 1
    PROVE  /\ HonestUpdate(a) # OptimisticUpdate(HonestUpdate(a))
           /\ FinalityUpdate(HonestUpdate(a)) # OptimisticUpdate(HonestUpdate(a))
<1> DEFINE h == HonestUpdate(a)
<1>1. Canonical(FinalizedSlot[a]) \in Header
  BY AttestedFacts DEF Canonical, Header, Chain
<1>2. h.finalized_header # None /\ FinalityUpdate(h).finalized_header = h.finalized_header
  BY <1>1, NoneAssumption DEF HonestUpdate, FinalityUpdate
<1>3. OptimisticUpdate(h).finalized_header = None
  BY DEF HonestUpdate, OptimisticUpdate
<1> QED BY <1>2, <1>3

(* A store on the chain accepts each part of an update that is of a        *)
(* period it can check and newer, or has the committee it lacks.           *)
LEMMA HonestVerifies ==
    ASSUME Finality, NEW t \in Slot, NEW a \in 0 .. t - 1, NEW u \in Parts(a),
           NEW s \in Store, OnChain(s), valid_period(s, HonestUpdate(a)),
           \/ a > s.finalized_header.slot
           \/ u = HonestUpdate(a) /\ ~ KnowsNext(s)
              /\ calc_sync_period(a) = calc_sync_period(s.finalized_header.slot)
    PROVE  verify_generic_update(t, s, u)
<1> DEFINE P(x) == calc_sync_period(x)
           f == s.finalized_header.slot
<1>1. f \in Slot /\ f \in Nat
  BY DEF Store, Header, Slot
<1>2. u.bits # 0
  BY HonestFacts, FaultAssumption
<1>3. valid_time(t, u)
  <2>1. /\ t >= a + 1 /\ a + 1 > a /\ a >= FinalizedSlot[a] /\ a >= 0
    BY AttestedFacts DEF Slot
  <2>2. slot_or_zero(u.finalized_header) \in {FinalizedSlot[a], 0}
    BY HonestFacts
  <2> QED BY <2>1, <2>2, HonestFacts DEF valid_time
<1>4. /\ P(a + 1) = P(f) \/ (KnowsNext(s) /\ P(a + 1) = P(f) + 1)
      /\ valid_period(s, u)
  <2>1. HonestUpdate(a).signature_slot = a + 1 /\ u.signature_slot = a + 1
    BY HonestFacts DEF HonestUpdate
  <2> QED BY <2>1 DEF valid_period, KnowsNext
<1>5. is_relevant(s, u)
  <2>1. u.attested_header.slot = a
    BY HonestFacts
  <2>2. u = HonestUpdate(a) => u.next_sync_committee # None
    BY HonestFacts
  <2> QED BY <2>1, <2>2 DEF is_relevant, update_has_next_committee, KnowsNext
<1>6. has_finality_update(u) => is_finality_proof_valid(u.attested_header, u.finalized_header)
  BY HonestFacts DEF has_finality_update, is_finality_proof_valid
<1>7. has_sync_update(u) =>
          is_next_committee_proof_valid(u.attested_header, u.next_sync_committee)
  BY HonestFacts DEF has_sync_update, is_next_committee_proof_valid
<1>8. verify_sync_committee_signture(signing_committee(s, u), u.attested_header, u.bits)
  <2>1. s.current_sync_committee = P(f) /\ (KnowsNext(s) => s.next_sync_committee = P(f) + 1)
    BY DEF OnChain, KnowsNext
  <2>2. signing_committee(s, u) = P(a + 1)
    BY <1>4, <2>1, HonestFacts DEF signing_committee
  <2>3. P(a + 1) \in Nat /\ P(a) <= P(a + 1)
    BY AttestedFacts
  <2>4. Genuine(u.attested_header) /\ u.attested_header.slot = a
    <3>1. u.attested_header = Canonical(a)
      BY HonestFacts
    <3> QED BY <3>1 DEF Genuine, Canonical
  <2> QED BY <2>2, <2>3, <2>4 DEF verify_sync_committee_signture
<1> QED BY <1>2, <1>3, <1>4, <1>5, <1>6, <1>7, <1>8 DEF verify_generic_update

(* What applying a part does: the store has the finalized block if that is *)
(* newer, keeps the next committee it knows unless its period begins, and  *)
(* learns it from the update of a period that is finalized there.          *)
LEMMA HonestApplied ==
    ASSUME Finality, NEW t \in Slot, NEW a \in 0 .. t - 1, NEW u \in Parts(a),
           NEW s \in Store, NEW r, r = apply_generic_update(s, u)
    PROVE  /\ u = OptimisticUpdate(HonestUpdate(a)) =>
                  /\ r.finalized_header = s.finalized_header
                  /\ r.next_sync_committee = s.next_sync_committee
           /\ u # OptimisticUpdate(HonestUpdate(a)) =>
                  r.finalized_header.slot = IF FinalizedSlot[a] > s.finalized_header.slot
                                            THEN FinalizedSlot[a]
                                            ELSE s.finalized_header.slot
           /\ KnowsNext(s) /\ calc_sync_period(FinalizedSlot[a])
                                  # calc_sync_period(s.finalized_header.slot) + 1 =>
                  KnowsNext(r)
           /\ u = HonestUpdate(a) /\ calc_sync_period(FinalizedSlot[a]) = calc_sync_period(a) =>
                  KnowsNext(r)
<1> DEFINE f == s.finalized_header.slot
           z == FinalizedSlot[a]
           s1 == update_optimistic(count_participants(s, u), u)
           s2 == update_committees(s1, u)
           opt == OptimisticUpdate(HonestUpdate(a))
<1>1. /\ s1 \in Store /\ s1.finalized_header = s.finalized_header
      /\ s1.next_sync_committee = s.next_sync_committee
  <2>1. u \in GenericUpdate
    BY HonestFacts
  <2> HIDE DEF s1
  <2> QED BY <2>1, HeadUpdated DEF s1
<1>2. u \in GenericUpdate /\ u.bits = CommitteeSize /\ f \in Nat /\ z \in Nat
  <2>1. f \in Nat
    BY DEF Store, Header, Slot
  <2> QED BY <2>1, HonestFacts, AttestedFacts
<1>3. r = IF should_apply_update(s1, u) THEN update_finalized(s2, u) ELSE s1
  BY DEF apply_generic_update
<1> HIDE DEF s1, f, z, opt
<1>4. /\ u # opt => slot_or_zero(u.finalized_header) = z
      /\ u = opt => slot_or_zero(u.finalized_header) = 0 /\ u.next_sync_committee = None
      /\ u.next_sync_committee # None <=> u = HonestUpdate(a)
      /\ u.attested_header.slot = a
      /\ u # opt => u.finalized_header = Canonical(z) /\ u.finalized_header # None
  <2>1. Canonical(z) \in Header
    BY AttestedFacts DEF Canonical, Header, Chain, z
  <2>2. Canonical(z) # None
    BY <2>1, NoneAssumption
  <2>3. u = opt => u.finalized_header = None
    BY HonestFacts DEF opt
  <2>4. u = HonestUpdate(a) => u.finalized_header = Canonical(z)
    BY DEF HonestUpdate, z
  <2>5. u # opt => u.finalized_header = Canonical(z)
    BY HonestFacts DEF opt, z
  <2>6. u = opt => u.next_sync_committee = None
    BY <2>2, <2>3, <2>4, HonestFacts
  <2> QED BY <2>2, <2>5, <2>6, HonestFacts DEF opt, z
<1>5. CASE u = opt
  <2>1. ~ should_apply_update(s1, u)
    <3>1. ~ is_newer(s1, u)
      BY <1>1, <1>2, <1>4, <1>5 DEF is_newer, f
    <3>2. ~ has_sync_update(u)
      BY <1>4, <1>5 DEF has_sync_update
    <3> QED BY <3>1, <3>2 DEF should_apply_update, update_has_finalized_next_committee
  <2>2. r = s1
    BY <1>3, <2>1
  <2>3. u # HonestUpdate(a)
    BY <1>4, <1>5
  <2> QED BY <1>1, <1>5, <2>2, <2>3 DEF KnowsNext, opt
<1>6. CASE u # opt
  <2>1. is_newer(s1, u) <=> z > f
    BY <1>1, <1>4, <1>6 DEF is_newer, f
  <2>2. u.bits * 3 >= CommitteeSize * 2
    <3> QED BY <1>2
  <2>3. should_apply_update(s1, u) <=>
            \/ z > f
            \/ /\ ~ KnowsNext(s) /\ u = HonestUpdate(a)
               /\ calc_sync_period(z) = calc_sync_period(a)
    BY <1>1, <1>4, <1>6, <2>1, <2>2
       DEF should_apply_update, update_has_finalized_next_committee, KnowsNext,
           has_sync_update, has_finality_update
  <2>4. CASE ~ should_apply_update(s1, u)
    <3>1. r = s1
      BY <1>3, <2>4
    <3>2. ~ (z > f)
      BY <2>3, <2>4
    <3> QED BY <1>1, <1>6, <2>3, <2>4, <3>1, <3>2 DEF KnowsNext, f, z, opt
  <2>5. CASE should_apply_update(s1, u)
    <3>1. r = update_finalized(s2, u)
      BY <1>3, <2>5
    <3>2. /\ s2 \in Store /\ s2.finalized_header = s1.finalized_header
          /\ \/ ~ KnowsNext(s) /\ s2.next_sync_committee = u.next_sync_committee
             \/ /\ KnowsNext(s) /\ calc_sync_period(z) = calc_sync_period(f) + 1
                /\ s2.next_sync_committee = u.next_sync_committee
             \/ /\ KnowsNext(s) /\ calc_sync_period(z) # calc_sync_period(f) + 1
                /\ s2.next_sync_committee = s.next_sync_committee
      <4> HIDE DEF s2
      <4>1. s2 = update_committees(s1, u)
        BY DEF s2
      <4>2. slot_or_zero(u.finalized_header) = z /\ s1.finalized_header.slot = f
        BY <1>1, <1>4, <1>6 DEF f
      <4> QED BY <1>1, <1>2, <4>1, <4>2, CommitteesUpdated DEF KnowsNext
    <3> HIDE DEF s2
    <3>3. \/ ~ is_newer(s2, u) /\ r = s2
          \/ /\ is_newer(s2, u) /\ r.finalized_header = u.finalized_header
             /\ r.next_sync_committee = s2.next_sync_committee
      BY <1>2, <3>1, <3>2, FinalizedUpdated
    <3>4. is_newer(s2, u) <=> z > f
      BY <1>1, <2>1, <3>2 DEF is_newer
    <3>5. r.finalized_header.slot = (IF z > f THEN z ELSE f)
      <4>1. Canonical(z).slot = z
        BY DEF Canonical
      <4>2. s2.finalized_header.slot = f
        BY <1>1, <3>2 DEF f
      <4> QED BY <1>4, <1>6, <3>3, <3>4, <4>1, <4>2
    <3>6. r.next_sync_committee = s2.next_sync_committee
      BY <3>3
    <3>7. KnowsNext(s) /\ calc_sync_period(z) # calc_sync_period(f) + 1 => KnowsNext(r)
      BY <3>2, <3>6 DEF KnowsNext
    <3>8. u = HonestUpdate(a) => KnowsNext(r)
      BY <1>4, <3>2, <3>6 DEF KnowsNext
    <3> QED BY <1>6, <3>5, <3>7, <3>8 DEF f, z, opt
  <2> QED BY <2>4, <2>5
<1> QED BY <1>5, <1>6

(* The greatest of the slots before the clock.                             *)
LEMMA GreatestSlot ==
    ASSUME NEW n \in Nat, NEW S \in SUBSET (0 .. n), S # {}
    PROVE  \E x \in S : \A y \in S : y <= x
<1> DEFINE T == {n - x : x \in S}
<1>1. \A x \in S : x \in Nat /\ x <= n /\ n - x \in Nat
  OBVIOUS
<1>2. T \in SUBSET Nat /\ T # {}
  BY <1>1
<1>3. PICK m \in T : \A k \in T : m <= k
  <2> HIDE DEF T
  <2> QED BY <1>2, LeastElement
<1>4. PICK x \in S : m = n - x
  BY <1>3
<1>5. ASSUME NEW y \in S PROVE y <= x
  <2>1. n - x <= n - y
    BY <1>3, <1>4
  <2> QED BY <1>1, <2>1
<1> QED BY <1>5

(* The update that is kept for a period is that of a candidate, one that   *)
(* finalizes a block of the period if there is one.                        *)
LEMMA BestCandidate ==
    ASSUME Finality, now \in Slot, NEW q, Candidates(q) # {}
    PROVE  \E a \in Candidates(q) :
              /\ BestUpdate(q) = HonestUpdate(a)
              /\ \A b \in Candidates(q) : FinalizesOwnPeriod(b) => FinalizesOwnPeriod(a)
<1> DEFINE C == Candidates(q)
           Own == {b \in C : FinalizesOwnPeriod(b)}
           Better(a, b) ==
               \/ FinalizesOwnPeriod(a) /\ ~ FinalizesOwnPeriod(b)
               \/ (FinalizesOwnPeriod(b) => FinalizesOwnPeriod(a)) /\ a > b
           Best(a) == \A b \in C \ {a} : Better(a, b)
<1>1. now \in Nat /\ C \in SUBSET (0 .. now)
  BY DEF Candidates, Slot
<1>2. \A x \in C : x \in Nat
  BY <1>1
<1>3. \E a \in C : Best(a)
  <2>1. CASE Own # {}
    <3>1. PICK a \in Own : \A b \in Own : b <= a
      <4>1. Own \in SUBSET (0 .. now)
        BY <1>1
      <4> HIDE DEF Own
      <4> QED BY <1>1, <2>1, <4>1, GreatestSlot
    <3>2. ASSUME NEW b \in C \ {a} PROVE Better(a, b)
      <4>1. CASE FinalizesOwnPeriod(b)
        <5>1. b <= a /\ b # a /\ a \in Nat /\ b \in Nat
          BY <1>2, <3>1, <3>2, <4>1
        <5>2. a > b
          BY <5>1
        <5> QED BY <3>1, <5>2
      <4>2. CASE ~ FinalizesOwnPeriod(b)
        BY <3>1, <4>2
      <4> QED BY <4>1, <4>2
    <3> QED BY <3>1, <3>2
  <2>2. CASE Own = {}
    <3>1. PICK a \in C : \A b \in C : b <= a
      <4> HIDE DEF C
      <4>1. C # {}
        BY DEF C
      <4> QED BY <1>1, <4>1, GreatestSlot
    <3>2. ASSUME NEW b \in C \ {a} PROVE Better(a, b)
      <4>1. b <= a /\ b # a /\ a \in Nat /\ b \in Nat
        BY <1>2, <3>1, <3>2
      <4>2. a > b
        BY <4>1
      <4>3. ~ FinalizesOwnPeriod(b)
        BY <2>2
      <4> QED BY <4>2, <4>3
    <3> QED BY <3>1, <3>2
  <2> QED BY <2>1, <2>2
<1> DEFINE best == CHOOSE a \in C : Best(a)
<1>4. best \in C /\ Best(best)
  BY <1>3
<1>5. BestUpdate(q) = HonestUpdate(best)
  BY DEF BestUpdate
<1> HIDE DEF best
<1>6. ASSUME NEW b \in C, FinalizesOwnPeriod(b) PROVE FinalizesOwnPeriod(best)
  BY <1>4, <1>6
<1> QED BY <1>4, <1>5, <1>6

----------------------------------------------------------------------------
(* The state between and within rounds.                                    *)

(* The slots and periods of the clock, the chain and the store.            *)
LEMMA ScheduleFacts ==
    ASSUME Finality, ClientInv, ScheduleTyped
    PROVE  /\ now \in Slot /\ now \in Nat /\ now > 0 /\ now - 1 \in 0 .. now - 1
           /\ store \in Store /\ store.finalized_header.slot \in Nat
           /\ initial_checkpoint.slot \in Nat
           /\ LastFinal(now) \in Nat /\ LastFinal(now) <= now - 1
           /\ now > 1 => LastFinal(now) < now - 1
           /\ calc_sync_period(now) \in Nat /\ calc_sync_period(LastFinal(now)) \in Nat
           /\ calc_sync_period(store.finalized_header.slot) \in Nat
           /\ calc_sync_period(store.finalized_header.slot)
                  <= calc_sync_period(LastFinal(now))
           /\ calc_sync_period(initial_checkpoint.slot) \in Nat
           /\ calc_sync_period(initial_checkpoint.slot) <= calc_sync_period(LastFinal(now))
           /\ calc_sync_period(LastFinal(now)) <= calc_sync_period(now)
           /\ Reach(store) \in Nat
           /\ pc \in Working => OnChain(store)
<1>1. now \in Slot /\ now \in Nat /\ now > 0
  BY DEF ClientInv, TypeOK, ScheduleTyped, Slot
<1>2. now - 1 \in 0 .. now - 1
  BY <1>1
<1>3. store \in Store /\ initial_checkpoint \in Header
  BY DEF ClientInv, TypeOK
<1>4. store.finalized_header.slot \in Nat /\ initial_checkpoint.slot \in Nat
  BY <1>3 DEF Store, Header, Slot
<1>5. LastFinal(now) \in Nat /\ LastFinal(now) <= now - 1
  BY <1>1, <1>2, AttestedFacts DEF LastFinal
<1>6. now > 1 => LastFinal(now) < now - 1
  <2> SUFFICES ASSUME now > 1 PROVE LastFinal(now) < now - 1
    OBVIOUS
  <2>1. now - 1 \in Slot \ {0}
    BY <1>1 DEF Slot
  <2> QED BY <2>1 DEF LastFinal, Finality
<1>7. store.finalized_header.slot <= LastFinal(now) /\ initial_checkpoint.slot <= LastFinal(now)
  BY DEF ScheduleTyped
<1>8. LastFinal(now) <= now
  BY <1>1, <1>5
<1>9. Reach(store) \in Nat
  BY <1>4, PeriodBounds DEF Reach
<1>10. pc \in Working => OnChain(store)
  BY DEF ClientInv, StoreFitsControl, StoreOnCanonicalChain, OnChain
<1> QED BY <1>1, <1>2, <1>3, <1>4, <1>5, <1>6, <1>7, <1>8, <1>9, <1>10,
           PeriodBounds, LaterPeriod

(* The store can check the signatures of the day if their period is within *)
(* its reach.                                                              *)
LEMMA WithinReach ==
    ASSUME Finality, ClientInv, ScheduleTyped
    PROVE  valid_period(store, HonestUpdate(now - 1)) <=> calc_sync_period(now) <= Reach(store)
<1> DEFINE p == calc_sync_period(store.finalized_header.slot)
           q == calc_sync_period(now)
<1>1. p \in Nat /\ q \in Nat /\ p <= q
  <2> DEFINE m == calc_sync_period(LastFinal(now))
  <2>1. p \in Nat /\ q \in Nat /\ m \in Nat /\ p <= m /\ m <= q
    BY ScheduleFacts
  <2> HIDE DEF p, q, m
  <2> QED BY <2>1
<1>2. HonestUpdate(now - 1).signature_slot = now
  <2>1. (now - 1) + 1 = now
    BY ScheduleFacts
  <2> QED BY <2>1 DEF HonestUpdate
<1>3. valid_period(store, HonestUpdate(now - 1)) <=> q = p \/ (KnowsNext(store) /\ q = p + 1)
  BY <1>2 DEF valid_period, KnowsNext
<1>4. Reach(store) = IF KnowsNext(store) THEN p + 1 ELSE p
  BY DEF Reach
<1> HIDE DEF p, q
<1>5. q <= Reach(store) <=> q = p \/ (KnowsNext(store) /\ q = p + 1)
  BY <1>1, <1>4
<1> QED BY <1>3, <1>5 DEF q

(* An accepted update does not take from a store's reach.                  *)
LEMMA ReachKept ==
    ASSUME NEW s \in Store, NEW r \in Store, ForwardStep(s, r)
    PROVE  Reach(s) \in Nat /\ Reach(r) \in Nat /\ Reach(s) <= Reach(r)
<1> DEFINE p == calc_sync_period(s.finalized_header.slot)
           q == calc_sync_period(r.finalized_header.slot)
<1>1. s.finalized_header.slot \in Nat /\ r.finalized_header.slot \in Nat
  BY DEF Store, Header, Slot
<1>2. p \in Nat /\ q \in Nat
  BY <1>1, PeriodBounds
<1>3. /\ Reach(s) = IF KnowsNext(s) THEN p + 1 ELSE p
      /\ Reach(r) = IF KnowsNext(r) THEN q + 1 ELSE q
  BY DEF Reach
<1>4. \/ q = p /\ (KnowsNext(s) => KnowsNext(r))
      \/ q = p + 1 /\ KnowsNext(s)
  BY DEF ForwardStep, KeepsNext, KnowsNext
<1> HIDE DEF p, q
<1> QED BY <1>2, <1>3, <1>4

(* If the last success, at t, was too long ago for the next period, then   *)
(* the chain had finalized a block of this one by then.                    *)
LEMMA BeforePeriodEnds ==
    ASSUME Finality, NEW n \in Nat, n + 1 \in Slot, NEW t \in 1 .. n, n <= t + MaxMissed,
           calc_sync_period(LastFinal(t)) < calc_sync_period(n)
    PROVE  calc_sync_period(n + 1) = calc_sync_period(n)
<1> DEFINE p == calc_sync_period(n)
<1>1. p \in Nat /\ n <= MaxSlot /\ t \in Nat /\ MaxMissed \in Nat
  BY PeriodBounds, ScheduleAssumption DEF Slot
<1> SUFFICES ASSUME calc_sync_period(n + 1) = p + 1 PROVE FALSE
  BY NextPeriod
<1>2. PICK s \in 0 .. n : /\ calc_sync_period(s) = p
                          /\ \A y \in Nat : y < s => calc_sync_period(y) < p
  <2>1. p <= calc_sync_period(n)
    BY <1>1
  <2> HIDE DEF p
  <2> QED BY <1>1, <2>1, FirstSlot
<1>3. ASSUME NEW m \in 1 .. n, t <= m, calc_sync_period(m) = p
      PROVE  calc_sync_period(LastFinal(m)) = p
  <2>1. m + MaxMissed + 1 \in Nat /\ n + 1 <= m + MaxMissed + 1 /\ n + 1 \in Nat
    BY <1>1, <1>3
  <2>2. calc_sync_period(n + 1) <= calc_sync_period(m + MaxMissed + 1)
    BY <2>1, LaterPeriod
  <2>3. calc_sync_period(m + MaxMissed + 1) \in Nat
    BY <2>1, PeriodBounds
  <2>4. calc_sync_period(m + MaxMissed + 1) # calc_sync_period(m)
    <3> DEFINE c == calc_sync_period(m + MaxMissed + 1)
    <3>1. c \in Nat /\ p + 1 <= c
      BY <2>2, <2>3
    <3> HIDE DEF c, p
    <3>2. c # p
      BY <1>1, <3>1
    <3> QED BY <1>3, <3>2 DEF c
  <2>5. m \in Slot \ {0}
    BY <1>1 DEF Slot
  <2> QED BY <1>3, <2>4, <2>5 DEF LastFinal, Finality
<1>4. CASE s <= t
  <2>1. calc_sync_period(t) = p
    <3> DEFINE c == calc_sync_period(t)
    <3>1. calc_sync_period(s) <= c /\ c <= p /\ c \in Nat
      BY <1>1, <1>2, <1>4, LaterPeriod, PeriodBounds
    <3> HIDE DEF c, p
    <3>2. c = p
      BY <1>1, <1>2, <3>1
    <3> QED BY <3>2 DEF c
  <2>2. t <= t
    BY <1>1
  <2>3. calc_sync_period(LastFinal(t)) = p
    BY <1>3, <2>1, <2>2
  <2> HIDE DEF p
  <2>4. calc_sync_period(LastFinal(t)) < p
    BY DEF p
  <2> QED BY <1>1, <2>3, <2>4
<1>5. CASE t < s
  <2>1. s \in 1 .. n /\ t <= s /\ s \in Slot /\ s - 1 \in 0 .. s - 1
    BY <1>1, <1>2, <1>5 DEF Slot
  <2>2. calc_sync_period(LastFinal(s)) = p
    BY <1>2, <1>3, <2>1
  <2>3. LastFinal(s) \in Nat /\ LastFinal(s) <= s - 1
    BY <2>1, AttestedFacts DEF LastFinal
  <2>4. LastFinal(s) < s
    BY <2>1, <2>3
  <2>5. calc_sync_period(LastFinal(s)) < p
    BY <1>2, <2>3, <2>4
  <2> HIDE DEF p
  <2> QED BY <1>1, <2>2, <2>5
<1> QED BY <1>1, <1>2, <1>4, <1>5

----------------------------------------------------------------------------
(* Each step keeps the invariant.                                          *)

SInv == ClientInv /\ ScheduleInv

(* The last slot is the one to finalize, and the next committee can be     *)
(* learnt, if the chain has finalized a block of this period.              *)
LEMMA LastSlotIsCandidate ==
    ASSUME Finality, ClientInv, ScheduleTyped,
           calc_sync_period(LastFinal(now)) = calc_sync_period(now)
    PROVE  /\ now - 1 \in Candidates(calc_sync_period(now))
           /\ FinalizesOwnPeriod(now - 1)
<1> DEFINE p == calc_sync_period(now)
           c == calc_sync_period(now - 1)
           m == calc_sync_period(LastFinal(now))
<1>1. now \in Nat /\ now > 0 /\ now - 1 \in 0 .. now - 1 /\ p \in Nat
      /\ LastFinal(now) \in Nat /\ LastFinal(now) <= now - 1
  BY ScheduleFacts
<1>2. now - 1 \in Nat /\ now - 1 <= now /\ now = (now - 1) + 1
  BY <1>1
<1>3. c \in Nat /\ m <= c /\ c <= p
  BY <1>1, <1>2, LaterPeriod, PeriodBounds
<1>4. c = p
  <2>1. m = p
    OBVIOUS
  <2> HIDE DEF c, p, m
  <2> QED BY <1>1, <1>3, <2>1
<1> QED BY <1>1, <1>2, <1>4 DEF Candidates, FinalizesOwnPeriod, LastFinal

(* The effect of an accepted part of an honest update.                     *)
LEMMA AcceptedPart ==
    ASSUME Finality, SInv, NEW a \in 0 .. now - 1, NEW u \in Parts(a),
           pc \in Working, pc' \in Working, Apply(u),
           now' = now, initial_checkpoint' = initial_checkpoint
    PROVE  /\ ClientInv' /\ store' \in Store
           /\ store'.finalized_header.slot \in Nat
           /\ store'.finalized_header.slot <= LastFinal(now)
           /\ store.finalized_header.slot <= store'.finalized_header.slot
           /\ Reach(store) \in Nat /\ Reach(store') \in Nat /\ Reach(store) <= Reach(store')
           /\ FinalizedSlot[a] <= LastFinal(now)
           /\ u = OptimisticUpdate(HonestUpdate(a)) =>
                  /\ store'.finalized_header = store.finalized_header
                  /\ store'.next_sync_committee = store.next_sync_committee
           /\ u # OptimisticUpdate(HonestUpdate(a)) =>
                  FinalizedSlot[a] <= store'.finalized_header.slot
           /\ KnowsNext(store) /\ calc_sync_period(FinalizedSlot[a])
                                      # calc_sync_period(store.finalized_header.slot) + 1 =>
                  KnowsNext(store')
           /\ u = HonestUpdate(a) /\ calc_sync_period(FinalizedSlot[a]) = calc_sync_period(a) =>
                  KnowsNext(store')
<1> DEFINE f == store.finalized_header.slot
           g == store'.finalized_header.slot
           z == FinalizedSlot[a]
           m == LastFinal(now)
<1>1. ClientInv /\ ScheduleTyped
  BY DEF SInv, ScheduleInv
<1>2. now \in Slot /\ store \in Store /\ f \in Nat /\ m \in Nat /\ now \in Nat /\ now > 0
  BY <1>1, ScheduleFacts
<1>3. u \in GenericUpdate
  BY <1>2, HonestFacts
<1>4. ClientInv' /\ ForwardStep(store, store')
  BY <1>1, <1>3, ApplyKeepsInvariant
<1>5. store' \in Store
  BY <1>4 DEF ClientInv, TypeOK
<1>6. g \in Nat
  BY <1>5 DEF Store, Header, Slot
<1>7. store' = apply_generic_update(store, u)
  BY DEF Apply
<1>8. z \in Nat /\ z <= m
  <2>1. a \in Slot /\ now - 1 \in Slot /\ a <= now - 1
    BY <1>2, AttestedFacts DEF Slot
  <2> QED BY <1>2, <2>1, AttestedFacts DEF LastFinal, Finality
<1>9. f <= m
  BY <1>1 DEF ScheduleTyped
<1>10. /\ u = OptimisticUpdate(HonestUpdate(a)) =>
             /\ store'.finalized_header = store.finalized_header
             /\ store'.next_sync_committee = store.next_sync_committee
       /\ u # OptimisticUpdate(HonestUpdate(a)) => g = IF z > f THEN z ELSE f
       /\ KnowsNext(store) /\ calc_sync_period(z) # calc_sync_period(f) + 1 =>
             KnowsNext(store')
       /\ u = HonestUpdate(a) /\ calc_sync_period(z) = calc_sync_period(a) =>
             KnowsNext(store')
  <2> HIDE DEF KnowsNext
  <2> QED BY <1>2, <1>7, HonestApplied
<1>11. Reach(store) \in Nat /\ Reach(store') \in Nat /\ Reach(store) <= Reach(store')
  BY <1>2, <1>4, <1>5, ReachKept
<1>12. u = OptimisticUpdate(HonestUpdate(a)) => g = f
  BY <1>10
<1>13. g <= m /\ f <= g /\ (u # OptimisticUpdate(HonestUpdate(a)) => z <= g)
  <2> HIDE DEF f, g, z, m
  <2> QED BY <1>2, <1>6, <1>8, <1>9, <1>10, <1>12
<1> QED BY <1>4, <1>5, <1>6, <1>8, <1>10, <1>11, <1>13

(* sync, one update of the list.                                           *)
LEMMA SyncUpdateKeeps ==
    ASSUME Finality, SInv, Awaiting, Available, SyncUpdate(Answer), EndOfRound,
           sync_period' = sync_period + 1
    PROVE  SInv'
<1>1. ClientInv /\ ScheduleTyped /\ UpdatesSoFar /\ ~ polled
  BY DEF SInv, ScheduleInv, Awaiting
<1>2. pc = "updates" /\ pc' = "updates" /\ Apply(Answer)
      /\ UNCHANGED <<now, initial_checkpoint>>
  BY DEF SyncUpdate
<1>3. polled' = FALSE /\ missed' = missed
  BY <1>2 DEF EndOfRound
<1>4. now \in Slot /\ now \in Nat
  BY <1>1, ScheduleFacts
<1>5. Candidates(sync_period) # {} /\ Answer = BestUpdate(sync_period)
  BY <1>2 DEF Available, RequestedPeriod, Answer
<1>6. PICK a \in Candidates(sync_period) :
          /\ Answer = HonestUpdate(a)
          /\ \A b \in Candidates(sync_period) : FinalizesOwnPeriod(b) => FinalizesOwnPeriod(a)
  BY <1>4, <1>5, BestCandidate
<1>7. a \in 0 .. now - 1 /\ calc_sync_period(a) = sync_period /\ a \in Nat /\ a <= now
  BY <1>4, <1>6 DEF Candidates
<1>8. Answer \in Parts(a) /\ Answer = HonestUpdate(a)
  BY <1>6 DEF Parts
<1>9. Answer # OptimisticUpdate(HonestUpdate(a))
  BY <1>4, <1>7, <1>8, PartsDiffer
<1>10. pc \in Working /\ pc' \in Working
  BY <1>2 DEF Working
<1>11. /\ ClientInv' /\ store'.finalized_header.slot \in Nat
       /\ store'.finalized_header.slot <= LastFinal(now)
       /\ FinalizedSlot[a] <= store'.finalized_header.slot
       /\ calc_sync_period(FinalizedSlot[a]) = calc_sync_period(a) => KnowsNext(store')
  BY <1>2, <1>7, <1>8, <1>9, <1>10, AcceptedPart
<1>12. ScheduleTyped'
  <2>1. sync_period' \in Nat
    BY <1>1 DEF ScheduleTyped
  <2>2. LastFinal(now)' = LastFinal(now)
    BY <1>2 DEF LastFinal
  <2> QED BY <1>1, <1>2, <1>3, <1>11, <2>1, <2>2 DEF ScheduleTyped
<1>13. sync_period <= calc_sync_period(now) /\ sync_period \in Nat
  BY <1>4, <1>7, LaterPeriod, PeriodBounds
<1>14. sync_period' <= calc_sync_period(now) + 1
  <2> DEFINE p == calc_sync_period(now)
  <2>1. p \in Nat
    BY <1>4, PeriodBounds
  <2> HIDE DEF p
  <2>2. sync_period <= p
    BY <1>13 DEF p
  <2>3. sync_period' <= p + 1
    BY <1>13, <2>1, <2>2
  <2> QED BY <2>3 DEF p
<1>15. ASSUME sync_period' = calc_sync_period(now) + 1,
              calc_sync_period(LastFinal(now)) = calc_sync_period(now)
       PROVE  /\ calc_sync_period(store'.finalized_header.slot) = calc_sync_period(now)
              /\ KnowsNext(store')
  <2> DEFINE p == calc_sync_period(now)
             g == store'.finalized_header.slot
             z == FinalizedSlot[a]
  <2>1. sync_period = p
    <3>1. p \in Nat
      BY <1>4, PeriodBounds
    <3>2. sync_period + 1 = p + 1
      BY <1>15
    <3> HIDE DEF p
    <3> QED BY <1>13, <3>1, <3>2
  <2>2. FinalizesOwnPeriod(a)
    BY <1>1, <1>6, <1>15, <2>1, LastSlotIsCandidate
  <2>3. calc_sync_period(z) = calc_sync_period(a) /\ calc_sync_period(z) = p
    BY <1>7, <2>1, <2>2 DEF FinalizesOwnPeriod
  <2>4. z \in Nat /\ LastFinal(now) \in Nat /\ p \in Nat
    BY <1>1, <1>4, <1>7, AttestedFacts, ScheduleFacts
  <2>5. p <= calc_sync_period(g) /\ calc_sync_period(g) <= p /\ calc_sync_period(g) \in Nat
    BY <1>11, <1>15, <2>3, <2>4, LaterPeriod, PeriodBounds
  <2>6. calc_sync_period(g) = p
    <3> DEFINE k == calc_sync_period(g)
    <3> HIDE DEF k, p
    <3>1. k = p
      BY <2>4, <2>5 DEF k
    <3> QED BY <3>1 DEF k
  <2> QED BY <1>11, <2>3, <2>6
<1>16. UpdatesSoFar'
  BY <1>2, <1>14, <1>15 DEF UpdatesSoFar, Learnt
<1>17. RoundSoFar' /\ OnTime'
  BY <1>2 DEF RoundSoFar, OnTime, Advancing
<1> QED BY <1>11, <1>12, <1>16, <1>17 DEF SInv, ScheduleInv

(* Within a slot the headers stay behind what the chain has finalized.     *)
LEMMA TypedKept ==
    ASSUME ScheduleTyped, now' = now, initial_checkpoint' = initial_checkpoint,
           store'.finalized_header.slot <= LastFinal(now),
           polled' \in BOOLEAN, missed' \in 0 .. MaxMissed, sync_period' \in Nat,
           pc' \in Syncing \cup {"adv_optimistic", "adv_committee"} => ~ polled'
    PROVE  ScheduleTyped'
<1>1. LastFinal(now)' = LastFinal(now)
  BY DEF LastFinal
<1> QED BY <1>1 DEF ScheduleTyped

(* The last slot's update is the one of the finality and optimistic        *)
(* requests.                                                               *)
LEMMA LastSlotParts ==
    ASSUME Finality, SInv, Awaiting
    PROVE  /\ now \in Slot /\ now - 1 \in 0 .. now - 1
           /\ pc \in {"finality", "synced"} =>
                  /\ Answer = FinalityUpdate(HonestUpdate(now - 1))
                  /\ Answer # OptimisticUpdate(HonestUpdate(now - 1))
           /\ pc \in {"optimistic", "adv_optimistic"} =>
                  Answer = OptimisticUpdate(HonestUpdate(now - 1))
           /\ pc \in {"finality", "synced", "optimistic", "adv_optimistic"} =>
                  Answer \in Parts(now - 1) /\ Available
           /\ FinalizedSlot[now - 1] = LastFinal(now)
           /\ ClientInv /\ ScheduleTyped /\ ~ polled /\ polled = FALSE
           /\ missed \in 0 .. MaxMissed /\ sync_period \in Nat /\ 0 \in 0 .. MaxMissed
<1>1. ClientInv /\ ScheduleTyped /\ ~ polled /\ polled = FALSE
      /\ missed \in 0 .. MaxMissed /\ sync_period \in Nat
  BY DEF SInv, ScheduleInv, ScheduleTyped, Awaiting
<1>2. now \in Slot /\ now - 1 \in 0 .. now - 1
  BY <1>1, ScheduleFacts
<1>3. 0 \in 0 .. MaxMissed
  BY ScheduleAssumption
<1>4. /\ pc \in {"finality", "synced"} => Answer = FinalityUpdate(HonestUpdate(now - 1))
      /\ pc \in {"optimistic", "adv_optimistic"} =>
             Answer = OptimisticUpdate(HonestUpdate(now - 1))
  BY DEF Answer
<1>5. pc \in {"finality", "synced", "optimistic", "adv_optimistic"} => Available
  BY DEF Available
<1>6. FinalityUpdate(HonestUpdate(now - 1)) # OptimisticUpdate(HonestUpdate(now - 1))
  BY <1>2, PartsDiffer
<1> QED BY <1>1, <1>2, <1>3, <1>4, <1>5, <1>6 DEF LastFinal, Parts

(* What is finalized once the finality update of the last slot is applied. *)
LEMMA FinalityPart ==
    ASSUME Finality, SInv, Awaiting, pc \in {"finality", "synced"}, pc' \in Working,
           Apply(Answer), now' = now, initial_checkpoint' = initial_checkpoint
    PROVE  /\ ClientInv' /\ store' \in Store
           /\ store'.finalized_header.slot = LastFinal(now)
           /\ store'.finalized_header.slot <= LastFinal(now)
           /\ Reach(store) \in Nat /\ Reach(store') \in Nat /\ Reach(store) <= Reach(store')
           /\ KnowsNext(store) /\ calc_sync_period(LastFinal(now))
                                      # calc_sync_period(store.finalized_header.slot) + 1 =>
                  KnowsNext(store')
<1>1. pc \in Working
  BY DEF Working, Advancing
<1>2. /\ now - 1 \in 0 .. now - 1 /\ Answer \in Parts(now - 1)
      /\ Answer # OptimisticUpdate(HonestUpdate(now - 1))
      /\ FinalizedSlot[now - 1] = LastFinal(now)
  BY LastSlotParts
<1>3. /\ ClientInv' /\ store' \in Store
      /\ store'.finalized_header.slot \in Nat
      /\ store'.finalized_header.slot <= LastFinal(now)
      /\ Reach(store) \in Nat /\ Reach(store') \in Nat /\ Reach(store) <= Reach(store')
      /\ LastFinal(now) <= store'.finalized_header.slot
      /\ KnowsNext(store) /\ calc_sync_period(LastFinal(now))
                                 # calc_sync_period(store.finalized_header.slot) + 1 =>
             KnowsNext(store')
  <2> HIDE DEF KnowsNext
  <2> QED BY <1>1, <1>2, AcceptedPart
<1>4. LastFinal(now) \in Nat
  BY LastSlotParts, ScheduleFacts
<1>5. store'.finalized_header.slot = LastFinal(now)
  BY <1>3, <1>4
<1> QED BY <1>3, <1>5

(* sync, the finality update.                                              *)
LEMMA SyncFinalityKeeps ==
    ASSUME Finality, SInv, Awaiting, SyncFinality(Answer), EndOfRound,
           sync_period' = sync_period
    PROVE  SInv'
<1>1. pc = "finality" /\ pc' = "optimistic" /\ Apply(Answer)
      /\ now' = now /\ initial_checkpoint' = initial_checkpoint
  BY DEF SyncFinality
<1>2. polled' = FALSE /\ missed' = missed
  BY <1>1 DEF EndOfRound
<1>3. ClientInv /\ ScheduleTyped /\ Learnt
  BY <1>1 DEF SInv, ScheduleInv, UpdatesSoFar
<1>4. pc' \in Working
  BY <1>1 DEF Working
<1>5. /\ ClientInv' /\ store'.finalized_header.slot = LastFinal(now)
      /\ store'.finalized_header.slot <= LastFinal(now)
      /\ Reach(store) \in Nat /\ Reach(store') \in Nat /\ Reach(store) <= Reach(store')
      /\ KnowsNext(store) /\ calc_sync_period(LastFinal(now))
                                 # calc_sync_period(store.finalized_header.slot) + 1 =>
             KnowsNext(store')
  BY <1>1, <1>4, FinalityPart
<1>6. valid_period(store, HonestUpdate(now - 1)) /\ now - 1 > store.finalized_header.slot
  <2>1. verify_generic_update(now, store, Answer)
    BY <1>1 DEF Apply
  <2>2. /\ Answer = FinalityUpdate(HonestUpdate(now - 1)) /\ Answer \in Parts(now - 1)
        /\ now \in Slot /\ now - 1 \in 0 .. now - 1
    BY <1>1, LastSlotParts
  <2>3. Answer.signature_slot = HonestUpdate(now - 1).signature_slot
        /\ Answer.next_sync_committee = None /\ Answer.attested_header.slot = now - 1
    BY <2>2 DEF FinalityUpdate, HonestUpdate, Canonical
  <2>4. valid_period(store, HonestUpdate(now - 1))
    BY <2>1, <2>3 DEF verify_generic_update, valid_period
  <2>5. now - 1 > store.finalized_header.slot
    BY <2>1, <2>3 DEF verify_generic_update, is_relevant, update_has_next_committee
  <2> QED BY <2>4, <2>5
<1>7. now > 1
  BY <1>3, <1>6, ScheduleFacts
<1>8. KnowsNext(store')
  <2> DEFINE p == calc_sync_period(now)
             m == calc_sync_period(LastFinal(now))
             f == calc_sync_period(store.finalized_header.slot)
  <2>1. p \in Nat /\ m \in Nat /\ f \in Nat /\ f <= m /\ m <= p
    BY <1>3, ScheduleFacts
  <2>2. p <= Reach(store) /\ Reach(store) = IF KnowsNext(store) THEN f + 1 ELSE f
    BY <1>3, <1>6, WithinReach DEF Reach
  <2>3. m = p => f = p /\ KnowsNext(store)
    BY <1>3 DEF Learnt
  <2>4. KnowsNext(store) /\ m # f + 1
    <3> HIDE DEF p, m, f
    <3> QED BY <2>1, <2>2, <2>3
  <2> QED BY <1>5, <2>4
<1>9. calc_sync_period(now) <= Reach(store')
  <2> DEFINE p == calc_sync_period(now)
  <2>1. p \in Nat /\ p <= Reach(store)
    BY <1>3, <1>6, WithinReach, ScheduleFacts
  <2> HIDE DEF p
  <2>2. p <= Reach(store')
    BY <1>5, <2>1
  <2> QED BY <2>2 DEF p
<1>10. ScheduleTyped'
  BY <1>1, <1>2, <1>3, <1>5, LastSlotParts, TypedKept
<1>11. UpdatesSoFar' /\ OnTime'
  BY <1>1 DEF UpdatesSoFar, OnTime, Advancing
<1>12. RoundSoFar'
  <2>1. LastFinal(now)' = LastFinal(now)
    BY <1>1 DEF LastFinal
  <2> QED BY <1>1, <1>5, <1>7, <1>8, <1>9, <2>1 DEF RoundSoFar
<1> QED BY <1>5, <1>10, <1>11, <1>12 DEF SInv, ScheduleInv

(* A round ends with a store that has what the chain has finalized and     *)
(* knows the next committee.                                               *)
LEMMA RoundEnds ==
    ASSUME Finality, ClientInv', ScheduleTyped', pc' = "synced", polled', missed' = 0, now > 1,
           now \in Nat, now' = now, store'.finalized_header.slot = LastFinal(now),
           LastFinal(now) \in Nat,
           KnowsNext(store'), calc_sync_period(now) <= Reach(store')
    PROVE  SInv'
<1>1. UpdatesSoFar' /\ RoundSoFar'
  BY DEF UpdatesSoFar, RoundSoFar
<1>2. calc_sync_period(LastFinal(now)) < Reach(store')
  <2> DEFINE m == calc_sync_period(LastFinal(now))
  <2>1. m \in Nat /\ Reach(store') = m + 1
    BY PeriodBounds DEF Reach
  <2> HIDE DEF m
  <2>2. m < Reach(store')
    BY <2>1
  <2> QED BY <2>2 DEF m
<1>3. now \in 1 .. now /\ now <= now + 0 + 0
  OBVIOUS
<1>4. OnTime'
  BY <1>2, <1>3 DEF OnTime
<1> QED BY <1>1, <1>4 DEF SInv, ScheduleInv

(* Until then the last success is no longer ago than the failures say.     *)
LEMMA StillOnTime ==
    ASSUME Finality, OnTime, pc \in Advancing, now' = now, now \in Slot,
           Reach(store) \in Nat, Reach(store') \in Nat, Reach(store) <= Reach(store'),
           missed \in Nat, missed' \in Nat, polled \in BOOLEAN, polled' \in BOOLEAN,
           missed + (IF polled THEN 0 ELSE 1) <= missed' + (IF polled' THEN 0 ELSE 1)
    PROVE  OnTime'
<1> DEFINE late == missed + (IF polled THEN 0 ELSE 1)
           late2 == missed' + (IF polled' THEN 0 ELSE 1)
<1>1. late \in Nat /\ late2 \in Nat /\ late <= late2 /\ now \in Nat
  <2>1. /\ (IF polled THEN 0 ELSE 1) = 0 \/ (IF polled THEN 0 ELSE 1) = 1
        /\ (IF polled' THEN 0 ELSE 1) = 0 \/ (IF polled' THEN 0 ELSE 1) = 1
    BY Zenon
  <2>2. now \in Nat
    BY DEF Slot
  <2> DEFINE j == IF polled THEN 0 ELSE 1
             k == IF polled' THEN 0 ELSE 1
  <2>3. (j = 0 \/ j = 1) /\ (k = 0 \/ k = 1) /\ missed + j <= missed' + k
    BY <2>1, Zenon
  <2> HIDE DEF j, k
  <2>4. missed + j \in Nat /\ missed' + k \in Nat
    BY <2>3
  <2> QED BY <2>2, <2>3, <2>4, Zenon DEF j, k
<1>2. PICK t \in 1 .. now : calc_sync_period(LastFinal(t)) < Reach(store) /\ now <= t + late
  <2>2. \E t \in 1 .. now : calc_sync_period(LastFinal(t)) < Reach(store)
                            /\ now <= t + missed + (IF polled THEN 0 ELSE 1)
    BY DEF OnTime
  <2>3. \A t \in 1 .. now : t + missed + (IF polled THEN 0 ELSE 1) = t + late
    <3> DEFINE k == IF polled THEN 0 ELSE 1
    <3>1. k \in Nat
      OBVIOUS
    <3> HIDE DEF k
    <3>2. \A t \in 1 .. now : t + missed + k = t + (missed + k)
      BY <3>1
    <3> QED BY <3>2 DEF k
  <2> QED BY <2>2, <2>3
<1>3. t \in Nat
  BY <1>1
<1>4. calc_sync_period(LastFinal(t)) \in Nat
  <2>1. t \in Slot /\ t - 1 \in 0 .. t - 1
    BY <1>1, <1>2 DEF Slot
  <2> QED BY <2>1, AttestedFacts DEF LastFinal
<1>5. now <= t + late2 /\ t + late2 = t + missed' + (IF polled' THEN 0 ELSE 1)
  <2>1. now <= t + late2
    <3> HIDE DEF late, late2
    <3> QED BY <1>1, <1>2, <1>3
  <2>2. t + late2 = t + missed' + (IF polled' THEN 0 ELSE 1)
    <3> DEFINE k == IF polled' THEN 0 ELSE 1
    <3>1. k \in Nat
      OBVIOUS
    <3> HIDE DEF k
    <3>2. t + (missed' + k) = t + missed' + k
      BY <1>3, <3>1
    <3> QED BY <3>2 DEF k
  <2> QED BY <2>1, <2>2
<1>6. calc_sync_period(LastFinal(t)) < Reach(store')
  <2> DEFINE c == calc_sync_period(LastFinal(t))
  <2>1. c < Reach(store) /\ c \in Int
    BY <1>2, <1>4
  <2> HIDE DEF c
  <2>2. c < Reach(store')
    BY <2>1
  <2> QED BY <2>2 DEF c
<1>7. now <= t + missed' + (IF polled' THEN 0 ELSE 1)
  BY <1>5
<1> HIDE DEF late, late2
<1>8. t \in 1 .. now' /\ now' <= t + missed' + (IF polled' THEN 0 ELSE 1)
  BY <1>2, <1>7
<1> QED BY <1>6, <1>8 DEF OnTime

(* sync and advance, the optimistic update: finality stays.                *)
LEMMA OptimisticPart ==
    ASSUME Finality, SInv, Awaiting, pc \in {"optimistic", "adv_optimistic"}, pc' \in Working,
           Apply(Answer), now' = now, initial_checkpoint' = initial_checkpoint
    PROVE  /\ ClientInv' /\ now > 1 /\ now \in Nat /\ LastFinal(now) \in Nat
           /\ store.finalized_header.slot = LastFinal(now)
           /\ store'.finalized_header.slot = LastFinal(now)
           /\ store'.finalized_header.slot <= LastFinal(now)
           /\ KnowsNext(store') = KnowsNext(store)
           /\ Reach(store') = Reach(store) /\ Reach(store) \in Nat
           /\ calc_sync_period(now) <= Reach(store')
<1>1. pc \in Working
  BY DEF Working, Advancing
<1>2. /\ now - 1 \in 0 .. now - 1 /\ Answer \in Parts(now - 1)
      /\ Answer = OptimisticUpdate(HonestUpdate(now - 1))
  BY LastSlotParts
<1>3. /\ ClientInv' /\ Reach(store) \in Nat
      /\ store'.finalized_header.slot <= LastFinal(now)
      /\ store'.finalized_header = store.finalized_header
      /\ store'.next_sync_committee = store.next_sync_committee
  BY <1>1, <1>2, AcceptedPart
<1>4. KnowsNext(store') = KnowsNext(store) /\ Reach(store') = Reach(store)
  BY <1>3 DEF KnowsNext, Reach
<1>5. /\ store.finalized_header.slot = LastFinal(now) /\ now > 1
      /\ calc_sync_period(now) <= Reach(store)
  BY DEF SInv, ScheduleInv, RoundSoFar, Advancing
<1>6. now \in Nat /\ LastFinal(now) \in Nat
  BY LastSlotParts, ScheduleFacts
<1> QED BY <1>3, <1>4, <1>5, <1>6

(* sync, the optimistic update.                                            *)
LEMMA SyncOptimisticKeeps ==
    ASSUME Finality, SInv, Awaiting, SyncOptimistic(Answer), EndOfRound,
           sync_period' = sync_period
    PROVE  SInv'
<1>1. pc = "optimistic" /\ pc' = "synced" /\ Apply(Answer)
      /\ now' = now /\ initial_checkpoint' = initial_checkpoint
  BY DEF SyncOptimistic
<1>2. polled' = TRUE /\ missed' = 0
  BY <1>1 DEF EndOfRound
<1>3. pc' \in Working
  BY <1>1 DEF Working, Advancing
<1>4. KnowsNext(store)
  BY <1>1 DEF SInv, ScheduleInv, RoundSoFar
<1>5. /\ ClientInv' /\ now > 1 /\ now \in Nat /\ LastFinal(now) \in Nat
      /\ store'.finalized_header.slot = LastFinal(now)
      /\ store'.finalized_header.slot <= LastFinal(now)
      /\ KnowsNext(store') /\ calc_sync_period(now) <= Reach(store')
  BY <1>1, <1>3, <1>4, OptimisticPart
<1>6. ScheduleTyped'
  BY <1>1, <1>2, <1>5, LastSlotParts, TypedKept DEF Syncing
<1> QED BY <1>1, <1>2, <1>5, <1>6, RoundEnds

(* advance, the finality update.                                           *)
LEMMA AdvanceFinalityKeeps ==
    ASSUME Finality, SInv, Awaiting, AdvanceFinality(Answer), EndOfRound,
           sync_period' = sync_period
    PROVE  SInv'
<1>1. pc = "synced" /\ pc' = "adv_optimistic" /\ Apply(Answer)
      /\ now' = now /\ initial_checkpoint' = initial_checkpoint
  BY DEF AdvanceFinality
<1>2. polled' = FALSE /\ missed' = missed
  BY <1>1 DEF EndOfRound
<1>3. ClientInv /\ ScheduleTyped /\ OnTime /\ now > 1 /\ calc_sync_period(now) <= Reach(store)
  BY <1>1 DEF SInv, ScheduleInv, RoundSoFar, Advancing
<1>4. pc' \in Working /\ pc \in Advancing
  BY <1>1 DEF Working, Advancing
<1>5. /\ ClientInv' /\ store'.finalized_header.slot = LastFinal(now)
      /\ store'.finalized_header.slot <= LastFinal(now)
      /\ Reach(store) \in Nat /\ Reach(store') \in Nat /\ Reach(store) <= Reach(store')
  BY <1>1, <1>4, FinalityPart
<1>6. calc_sync_period(now) <= Reach(store')
  <2> DEFINE p == calc_sync_period(now)
  <2>1. p \in Nat /\ p <= Reach(store)
    BY <1>3, ScheduleFacts
  <2> HIDE DEF p
  <2>2. p <= Reach(store')
    BY <1>5, <2>1
  <2> QED BY <2>2 DEF p
<1>7. ScheduleTyped'
  BY <1>1, <1>2, <1>3, <1>5, LastSlotParts, TypedKept
<1>8. OnTime'
  <2>1. now \in Slot /\ missed \in Nat /\ polled = FALSE
    BY LastSlotParts
  <2>2. missed + (IF polled THEN 0 ELSE 1) <= missed' + (IF polled' THEN 0 ELSE 1)
    BY <1>2, <2>1
  <2> QED BY <1>1, <1>2, <1>3, <1>4, <1>5, <2>1, <2>2, StillOnTime
<1>9. UpdatesSoFar'
  BY <1>1 DEF UpdatesSoFar
<1>10. RoundSoFar'
  <2>1. LastFinal(now)' = LastFinal(now)
    BY <1>1 DEF LastFinal
  <2> QED BY <1>1, <1>3, <1>5, <1>6, <2>1 DEF RoundSoFar
<1> QED BY <1>5, <1>7, <1>8, <1>9, <1>10 DEF SInv, ScheduleInv

(* advance, the optimistic update: the round ends, or asks for the         *)
(* committee.                                                              *)
LEMMA AdvanceOptimisticKeeps ==
    ASSUME Finality, SInv, Awaiting, AdvanceOptimistic(Answer), EndOfRound,
           sync_period' = sync_period
    PROVE  SInv'
<1>1. /\ pc = "adv_optimistic" /\ Apply(Answer)
      /\ pc' = IF ~ KnowsNext(store') THEN "adv_committee" ELSE "synced"
      /\ now' = now /\ initial_checkpoint' = initial_checkpoint
  BY DEF AdvanceOptimistic, KnowsNext
<1>2. pc' \in Working /\ pc \in Advancing
  BY <1>1 DEF Working, Advancing
<1>3. /\ ClientInv' /\ now > 1 /\ now \in Nat /\ LastFinal(now) \in Nat
      /\ store'.finalized_header.slot = LastFinal(now)
      /\ store'.finalized_header.slot <= LastFinal(now)
      /\ Reach(store') = Reach(store) /\ Reach(store) \in Nat
      /\ calc_sync_period(now) <= Reach(store')
  BY <1>1, <1>2, OptimisticPart
<1>4. CASE KnowsNext(store')
  <2>1. pc' = "synced" /\ polled' = TRUE /\ missed' = 0
    BY <1>1, <1>4 DEF EndOfRound
  <2>2. ScheduleTyped'
    BY <1>1, <1>3, <2>1, LastSlotParts, TypedKept DEF Syncing
  <2> QED BY <1>1, <1>3, <1>4, <2>1, <2>2, RoundEnds
<1>5. CASE ~ KnowsNext(store')
  <2>1. pc' = "adv_committee" /\ polled' = FALSE /\ missed' = missed
    BY <1>1, <1>5 DEF EndOfRound
  <2>2. ScheduleTyped'
    BY <1>1, <1>3, <2>1, LastSlotParts, TypedKept
  <2>3. OnTime'
    <3>1. now \in Slot /\ missed \in Nat /\ polled = FALSE /\ OnTime
      BY LastSlotParts DEF SInv, ScheduleInv
    <3>2. missed + (IF polled THEN 0 ELSE 1) <= missed' + (IF polled' THEN 0 ELSE 1)
          /\ Reach(store) <= Reach(store')
      BY <1>3, <2>1, <3>1
    <3> QED BY <1>1, <1>2, <1>3, <2>1, <3>1, <3>2, StillOnTime
  <2>4. UpdatesSoFar'
    BY <2>1 DEF UpdatesSoFar
  <2>5. RoundSoFar'
    <3>1. LastFinal(now)' = LastFinal(now)
      BY <1>1 DEF LastFinal
    <3> QED BY <1>1, <1>3, <1>5, <2>1, <3>1 DEF RoundSoFar
  <2> QED BY <1>3, <2>2, <2>3, <2>4, <2>5 DEF SInv, ScheduleInv
<1> QED BY <1>4, <1>5

(* When advance asks for the committee, the chain has finalized a block of *)
(* this period, so the provider has an update with it.                     *)
LEMMA CommitteeAvailable ==
    ASSUME Finality, SInv, pc = "adv_committee"
    PROVE  /\ ClientInv /\ ScheduleTyped /\ now \in Slot
           /\ calc_sync_period(store.finalized_header.slot) = calc_sync_period(now)
           /\ calc_sync_period(LastFinal(now)) = calc_sync_period(now)
           /\ RequestedPeriod = calc_sync_period(now)
           /\ Candidates(RequestedPeriod) # {}
           /\ \E a \in 0 .. now - 1 :
                 /\ Answer = HonestUpdate(a)
                 /\ a + 1 \in Slot /\ calc_sync_period(a) = calc_sync_period(now)
                 /\ calc_sync_period(a + 1) = calc_sync_period(now)
                 /\ calc_sync_period(FinalizedSlot[a]) = calc_sync_period(a)
<1>1. /\ ClientInv /\ ScheduleTyped /\ ~ KnowsNext(store)
      /\ store.finalized_header.slot = LastFinal(now)
      /\ calc_sync_period(now) <= Reach(store)
  BY DEF SInv, ScheduleInv, RoundSoFar, Advancing
<1> DEFINE p == calc_sync_period(now)
           m == calc_sync_period(LastFinal(now))
<1>2. p \in Nat /\ m \in Nat /\ m <= p /\ now \in Slot
  BY <1>1, ScheduleFacts
<1>3. p <= m
  BY <1>1 DEF Reach
<1>4. m = p
  <2> HIDE DEF p, m
  <2> QED BY <1>2, <1>3
<1>5. RequestedPeriod = p
  BY <1>1, <1>4 DEF RequestedPeriod
<1>6. now - 1 \in Candidates(p) /\ FinalizesOwnPeriod(now - 1)
  BY <1>1, <1>4, LastSlotIsCandidate
<1>7. PICK a \in Candidates(p) :
          /\ BestUpdate(p) = HonestUpdate(a)
          /\ \A b \in Candidates(p) : FinalizesOwnPeriod(b) => FinalizesOwnPeriod(a)
  <2> HIDE DEF p
  <2>1. Candidates(p) # {}
    BY <1>6
  <2> QED BY <1>2, <2>1, BestCandidate
<1>8. Answer = HonestUpdate(a)
  BY <1>5, <1>7 DEF Answer
<1>9. /\ a \in 0 .. now - 1 /\ calc_sync_period(a) = p /\ calc_sync_period(a + 1) = p
      /\ calc_sync_period(FinalizedSlot[a]) = calc_sync_period(a)
  BY <1>6, <1>7 DEF Candidates, FinalizesOwnPeriod
<1>10. a + 1 \in Slot
  BY <1>2, <1>9, AttestedFacts
<1> QED BY <1>1, <1>2, <1>4, <1>5, <1>6, <1>8, <1>9, <1>10
(* advance, the committee: the round ends.                                 *)
LEMMA AdvanceCommitteeKeeps ==
    ASSUME Finality, SInv, Awaiting, AdvanceCommittee(Answer), EndOfRound,
           sync_period' = sync_period
    PROVE  SInv'
<1>1. pc = "adv_committee" /\ pc' = "synced" /\ Apply(Answer)
      /\ now' = now /\ initial_checkpoint' = initial_checkpoint
  BY DEF AdvanceCommittee
<1>2. polled' = TRUE /\ missed' = 0
  BY <1>1 DEF EndOfRound
<1>3. pc \in Working /\ pc' \in Working
  BY <1>1 DEF Working, Advancing
<1>4. /\ store.finalized_header.slot = LastFinal(now) /\ now > 1
      /\ calc_sync_period(now) <= Reach(store)
  BY <1>1 DEF SInv, ScheduleInv, RoundSoFar, Advancing
<1>5. /\ ClientInv /\ ScheduleTyped /\ now \in Slot
      /\ \E a \in 0 .. now - 1 :
            /\ Answer = HonestUpdate(a)
            /\ calc_sync_period(FinalizedSlot[a]) = calc_sync_period(a)
  BY <1>1, CommitteeAvailable
<1>6. PICK a \in 0 .. now - 1 :
          /\ Answer = HonestUpdate(a)
          /\ calc_sync_period(FinalizedSlot[a]) = calc_sync_period(a)
  BY <1>5
<1>7. Answer \in Parts(a)
  BY <1>6 DEF Parts
<1>8. /\ ClientInv' /\ store'.finalized_header.slot \in Nat
      /\ store'.finalized_header.slot <= LastFinal(now)
      /\ store.finalized_header.slot <= store'.finalized_header.slot
      /\ Reach(store) \in Nat /\ Reach(store') \in Nat /\ Reach(store) <= Reach(store')
      /\ KnowsNext(store')
  BY <1>1, <1>3, <1>6, <1>7, AcceptedPart
<1>9. now \in Nat /\ LastFinal(now) \in Nat /\ calc_sync_period(now) \in Nat
  BY <1>5, ScheduleFacts
<1>10. store'.finalized_header.slot = LastFinal(now)
  BY <1>4, <1>8, <1>9
<1>11. calc_sync_period(now) <= Reach(store')
  <2> DEFINE p == calc_sync_period(now)
  <2>1. p \in Nat /\ p <= Reach(store)
    BY <1>4, <1>9
  <2> HIDE DEF p
  <2>2. p <= Reach(store')
    BY <1>8, <2>1
  <2> QED BY <2>2 DEF p
<1>12. ScheduleTyped'
  BY <1>1, <1>2, <1>5, <1>8, LastSlotParts, TypedKept DEF Syncing
<1> QED BY <1>1, <1>2, <1>4, <1>8, <1>9, <1>10, <1>11, <1>12, RoundEnds

(* Every period that is over has an update, and so has this one when the   *)
(* chain has finalized a block of it.                                      *)
LEMMA UpdatesAvailable ==
    ASSUME Finality, ClientInv, ScheduleTyped,
           calc_sync_period(LastFinal(now)) = calc_sync_period(now),
           NEW q \in Nat, q <= calc_sync_period(now)
    PROVE  Candidates(q) # {}
<1> DEFINE p == calc_sync_period(now)
           s == PeriodLength * q
           l == PeriodLength
<1>1. now \in Nat /\ p \in Nat /\ now - 1 \in Nat /\ now > 0 /\ now = (now - 1) + 1
  BY ScheduleFacts
<1>2. now - 1 \in Candidates(p)
  BY LastSlotIsCandidate
<1>3. CASE q = p
  BY <1>2, <1>3
<1>4. CASE q # p
  <2>1. q < p
    <3> HIDE DEF p
    <3>1. q <= p
      BY DEF p
    <3> QED BY <1>1, <1>4, <3>1
  <2>2. l \in Nat \ {0} /\ l * p <= now - 1 /\ now < l * p + l
    <3>1. calc_sync_period(now - 1) = p
      BY <1>2 DEF Candidates
    <3> QED BY <1>1, <3>1, PeriodBounds
  <2>3. s \in Nat /\ l * p \in Nat /\ s + l <= l * p
    <3> HIDE DEF p
    <3> QED BY <1>1, <2>1, PeriodOrder
  <2>4. s + 1 < s + l /\ s \in 0 .. now - 1 /\ s + 1 \in Nat /\ s <= s + 1 /\ s < s + l
    <3> DEFINE b == l * p
    <3>1. s \in Nat /\ b \in Nat /\ l \in Nat /\ s + l <= b /\ b <= now - 1 /\ now < b + l
      BY <2>2, <2>3
    <3> HIDE DEF s, b, l
    <3> QED BY <1>1, <3>1
  <2>5. calc_sync_period(s) = q /\ calc_sync_period(s + 1) = q
    <3>1. s \in Nat /\ s <= s /\ s <= s + 1 /\ s + 1 \in Nat /\ s < s + l /\ s + 1 < s + l
      BY <2>3, <2>4
    <3> QED BY <3>1, PeriodOf
  <2>6. s \in Candidates(q)
    BY <2>4, <2>5 DEF Candidates
  <2> QED BY <2>6
<1> QED BY <1>3, <1>4

(* sync goes on to the finality update when there is nothing more to       *)
(* apply; advance always gets the committee it asks for.                   *)
LEMMA NothingMoreKeeps == ASSUME Finality, SInv, NothingMore PROVE SInv'
<1>1. ClientInv /\ ScheduleTyped /\ UpdatesSoFar /\ ~ polled
  BY DEF SInv, ScheduleInv, NothingMore, Awaiting
<1>2. ~ Available /\ Awaiting
  BY DEF NothingMore
<1>3. pc # "adv_committee"
  BY <1>2, CommitteeAvailable DEF Available
<1>4. pc = "updates"
  BY <1>2, <1>3 DEF Available
<1>5. pc' = "finality" /\ UNCHANGED <<now, initial_checkpoint, store, last_checkpoint>>
      /\ sync_period' = sync_period
  BY <1>4 DEF NothingMore, SyncUpdatesDone, AdvanceError
<1>6. polled' = FALSE /\ missed' = missed
  BY <1>5 DEF NothingMore, EndOfRound
<1>7. ClientInv'
  BY <1>1, <1>4, <1>5, ControlKeepsInvariant DEF Location, Syncing, Working
<1>8. ScheduleTyped'
  <2>1. store'.finalized_header.slot <= LastFinal(now)
    BY <1>1, <1>5 DEF ScheduleTyped
  <2> QED BY <1>1, <1>2, <1>5, <1>6, <2>1, LastSlotParts, TypedKept
<1>9. Learnt
  <2> SUFFICES ASSUME calc_sync_period(LastFinal(now)) = calc_sync_period(now)
               PROVE  sync_period = calc_sync_period(now) + 1
    BY <1>1, <1>4 DEF Learnt, UpdatesSoFar
  <2>1. Candidates(sync_period) = {} /\ sync_period \in Nat
    BY <1>1, <1>2, <1>4 DEF Available, RequestedPeriod, ScheduleTyped
  <2>2. ~ sync_period <= calc_sync_period(now)
    BY <1>1, <2>1, UpdatesAvailable
  <2> DEFINE p == calc_sync_period(now)
  <2>3. p \in Nat /\ sync_period <= p + 1 /\ ~ sync_period <= p
    BY <1>1, <1>4, <2>2, ScheduleFacts DEF UpdatesSoFar
  <2> HIDE DEF p
  <2>4. sync_period = p + 1
    BY <2>1, <2>3
  <2> QED BY <2>4 DEF p
<1>10. Learnt'
  BY <1>5, <1>9 DEF Learnt, LastFinal, KnowsNext
<1>11. UpdatesSoFar' /\ RoundSoFar' /\ OnTime'
  BY <1>5, <1>10 DEF UpdatesSoFar, RoundSoFar, OnTime, Advancing
<1> QED BY <1>7, <1>8, <1>11 DEF SInv, ScheduleInv
(* Once synced, every honest answer verifies.                              *)
LEMMA AnswerVerifies ==
    ASSUME Finality, SInv, Awaiting, pc \in Advancing
    PROVE  verify_generic_update(now, store, Answer)
<1>1. /\ ClientInv /\ ScheduleTyped /\ now > 1 /\ calc_sync_period(now) <= Reach(store)
      /\ pc = "adv_committee" => ~ KnowsNext(store)
  BY DEF SInv, ScheduleInv, RoundSoFar
<1>2. /\ now \in Slot /\ store \in Store /\ OnChain(store) /\ now - 1 \in 0 .. now - 1
      /\ store.finalized_header.slot \in Nat /\ LastFinal(now) \in Nat
      /\ store.finalized_header.slot <= LastFinal(now) /\ LastFinal(now) < now - 1
      /\ now \in Nat
  BY <1>1, ScheduleFacts DEF Working, ScheduleTyped
<1>3. CASE pc = "adv_committee"
  <2>1. PICK a \in 0 .. now - 1 :
            /\ Answer = HonestUpdate(a)
            /\ calc_sync_period(a) = calc_sync_period(store.finalized_header.slot)
            /\ calc_sync_period(a + 1) = calc_sync_period(store.finalized_header.slot)
    BY <1>3, CommitteeAvailable
  <2>2. valid_period(store, HonestUpdate(a)) /\ Answer \in Parts(a)
    BY <2>1 DEF valid_period, HonestUpdate, Parts
  <2> QED BY <1>1, <1>2, <1>3, <2>1, <2>2, HonestVerifies
<1>4. CASE pc # "adv_committee"
  <2>1. Answer \in Parts(now - 1)
    BY <1>4, LastSlotParts DEF Advancing
  <2>2. valid_period(store, HonestUpdate(now - 1))
    BY <1>1, WithinReach
  <2>3. now - 1 > store.finalized_header.slot
    BY <1>2
  <2> QED BY <1>2, <2>1, <2>2, <2>3, HonestVerifies
<1> QED BY <1>3, <1>4

(* A call that fails ends the round.                                       *)
LEMMA CallFailsKeeps == ASSUME Finality, SInv, CallFails PROVE SInv'
<1>1. ClientInv /\ ScheduleTyped /\ OnTime /\ ~ polled /\ polled = FALSE
      /\ missed \in 0 .. MaxMissed /\ sync_period \in Nat
  BY DEF SInv, ScheduleInv, CallFails, ScheduleTyped
<1>2. /\ UNCHANGED <<now, initial_checkpoint, store, last_checkpoint>>
      /\ pc' = IF pc \in Syncing THEN "failed" ELSE "synced"
      /\ pc \in Syncing \cup Advancing
      /\ polled' = TRUE /\ sync_period' = sync_period
  BY DEF CallFails, SyncError, AdvanceError, vars, Syncing, Advancing
<1>3. pc' \in Location /\ (pc' \in Working => pc \in Working)
  BY <1>2 DEF Location, Syncing, Working, Advancing
<1>4. ClientInv'
  BY <1>1, <1>2, <1>3, ControlKeepsInvariant
<1>5. missed' \in 0 .. MaxMissed /\ (missed' = missed + 1 \/ missed' = missed)
  BY <1>1, ScheduleAssumption DEF CallFails
<1>6. ScheduleTyped'
  <2>1. store'.finalized_header.slot <= LastFinal(now) /\ pc' \in {"failed", "synced"}
    BY <1>1, <1>2 DEF ScheduleTyped
  <2>2. pc' \notin Syncing \cup {"adv_optimistic", "adv_committee"}
    BY <2>1 DEF Syncing
  <2> QED BY <1>1, <1>2, <1>5, <2>1, <2>2, TypedKept
<1>7. UpdatesSoFar'
  BY <1>2 DEF UpdatesSoFar
<1>8. RoundSoFar' /\ OnTime'
  <2>1. CASE pc \in Syncing
    BY <1>2, <2>1 DEF RoundSoFar, OnTime, Advancing
  <2>2. CASE pc \notin Syncing
    <3>1. pc' = "synced" /\ pc \in Advancing
      BY <1>2, <2>2
    <3>2. RoundSoFar'
      <4>1. now > 1 /\ calc_sync_period(now) <= Reach(store)
        BY <3>1 DEF SInv, ScheduleInv, RoundSoFar
      <4> QED BY <1>2, <3>1, <4>1 DEF RoundSoFar, Reach, KnowsNext
    <3>3. missed' = missed + 1
      <4>1. Awaiting => verify_generic_update(now, store, Answer)
        BY <3>1, AnswerVerifies
      <4> QED BY <4>1 DEF CallFails
    <3>4. /\ now \in Slot /\ Reach(store) \in Nat /\ Reach(store') = Reach(store)
          /\ missed \in Nat /\ missed' \in Nat
      BY <1>1, <1>2, <1>5, ScheduleFacts DEF Reach, KnowsNext
    <3>5. /\ missed + (IF polled THEN 0 ELSE 1) <= missed' + (IF polled' THEN 0 ELSE 1)
          /\ Reach(store) <= Reach(store')
      BY <1>1, <1>2, <3>3, <3>4
    <3>6. OnTime'
      BY <1>1, <1>2, <3>1, <3>4, <3>5, StillOnTime
    <3> QED BY <3>2, <3>6
  <2> QED BY <2>1, <2>2
<1> QED BY <1>4, <1>6, <1>7, <1>8 DEF SInv, ScheduleInv

(* The clock moves on between two rounds.  The store keeps up with it: its *)
(* period does not end before the chain has finalized a block of it and    *)
(* one round after that has succeeded.                                     *)
LEMMA NextSlotKeeps == ASSUME Finality, SInv, NextSlot PROVE SInv'
<1>1. ClientInv /\ ScheduleTyped /\ OnTime /\ (polled \/ pc = "new")
      /\ missed \in 0 .. MaxMissed /\ sync_period \in Nat
  BY DEF SInv, ScheduleInv, NextSlot, ScheduleTyped
<1>2. /\ now < MaxSlot /\ now' = now + 1 /\ Tick /\ pc' = pc
      /\ UNCHANGED <<initial_checkpoint, store, last_checkpoint, pc>>
      /\ polled' = FALSE /\ missed' = missed /\ sync_period' = sync_period
  BY DEF NextSlot, Tick
<1>3. ClientInv'
  BY <1>1, <1>2, TickKeepsInvariant
<1>4. pc \notin Syncing /\ pc \notin {"adv_optimistic", "adv_committee"}
  BY <1>1 DEF ScheduleTyped, Syncing
<1>5. /\ now \in Nat /\ now \in Slot /\ now > 0 /\ MaxSlot \in Nat /\ now + 1 \in Slot
      /\ now - 1 \in 0 .. now - 1 /\ Reach(store) \in Nat
      /\ store.finalized_header.slot \in Nat /\ initial_checkpoint.slot \in Nat
      /\ calc_sync_period(now) \in Nat /\ LastFinal(now) \in Nat
  <2>1. now \in Nat /\ MaxSlot \in Nat
    BY <1>1, ScheduleFacts
  <2>2. now + 1 \in Slot
    BY <1>2, <2>1 DEF Slot
  <2> QED BY <1>1, <2>1, <2>2, ScheduleFacts
<1>6. LastFinal(now') \in Nat /\ LastFinal(now) <= LastFinal(now')
      /\ LastFinal(now)' = LastFinal(now')
  <2>1. now - 1 \in Slot /\ now' - 1 = now /\ now - 1 <= now
    BY <1>2, <1>5 DEF Slot
  <2>2. FinalizedSlot[now - 1] <= FinalizedSlot[now]
    BY <1>5, <2>1 DEF Finality
  <2>3. now \in 0 .. (now + 1) - 1
    BY <1>5
  <2>4. FinalizedSlot[now] \in Nat
    BY <1>5, <2>3, AttestedFacts
  <2> QED BY <2>1, <2>2, <2>4 DEF LastFinal
<1>7. ScheduleTyped'
  <2> DEFINE f == store.finalized_header.slot
             c == initial_checkpoint.slot
             m == LastFinal(now)
             n == LastFinal(now')
  <2>1. f <= m /\ c <= m /\ m <= n /\ f \in Nat /\ c \in Nat /\ m \in Nat /\ n \in Nat
    BY <1>1, <1>5, <1>6 DEF ScheduleTyped
  <2>2. now' # 0
    BY <1>2, <1>5
  <2> HIDE DEF f, c, m, n
  <2>3. f <= n /\ c <= n
    BY <2>1
  <2> QED BY <1>1, <1>2, <1>4, <1>6, <2>2, <2>3 DEF ScheduleTyped, f, c, n
<1>8. UpdatesSoFar'
  BY <1>2, <1>4 DEF UpdatesSoFar, Syncing
<1>9. CASE pc \notin Advancing
  <2>1. RoundSoFar' /\ OnTime'
    BY <1>2, <1>4, <1>9 DEF RoundSoFar, OnTime, Syncing
  <2> QED BY <1>3, <1>7, <1>8, <2>1 DEF SInv, ScheduleInv
<1>10. CASE pc \in Advancing
  <2>1. pc = "synced" /\ polled = TRUE
    BY <1>1, <1>4, <1>10 DEF Advancing, ScheduleTyped
  <2>2. PICK t \in 1 .. now : calc_sync_period(LastFinal(t)) < Reach(store)
                              /\ now <= t + missed
    <3>1. \E t \in 1 .. now : calc_sync_period(LastFinal(t)) < Reach(store)
                              /\ now <= t + missed + 0
      BY <1>1, <1>10, <2>1 DEF OnTime
    <3> QED BY <1>1, <3>1
  <2>3. now > 1 /\ calc_sync_period(now) <= Reach(store)
    BY <1>10 DEF SInv, ScheduleInv, RoundSoFar
  <2>4. calc_sync_period(now + 1) <= Reach(store)
    <3> DEFINE p == calc_sync_period(now)
               q == calc_sync_period(now + 1)
    <3>1. p \in Nat /\ q \in {p, p + 1} /\ p <= Reach(store)
      BY <1>5, <2>3, NextPeriod
    <3>2. CASE p = Reach(store)
      <4>1. calc_sync_period(LastFinal(t)) < calc_sync_period(now)
        BY <2>2, <3>2
      <4>2. now <= t + MaxMissed
        BY <1>1, <1>5, <2>2, ScheduleAssumption
      <4>3. q = p
        BY <1>5, <4>1, <4>2, BeforePeriodEnds
      <4> QED BY <3>1, <4>3
    <3>3. CASE p # Reach(store)
      <4> HIDE DEF p, q
      <4>1. q <= Reach(store)
        BY <1>5, <3>1, <3>3
      <4> QED BY <4>1 DEF q
    <3> QED BY <3>2, <3>3
  <2>5. now' > 1
    BY <1>2, <1>5, <2>3
  <2>6. RoundSoFar'
    BY <1>2, <2>1, <2>4, <2>5 DEF RoundSoFar, Reach, KnowsNext
  <2>7. t \in 1 .. now + 1 /\ now + 1 <= t + missed + 1
    BY <1>1, <1>5, <2>2
  <2>8. OnTime'
    <3>1. Reach(store') = Reach(store)
      BY <1>2 DEF Reach, KnowsNext
    <3> QED BY <1>2, <2>2, <2>7, <3>1 DEF OnTime
  <2> QED BY <1>3, <1>7, <1>8, <2>6, <2>8 DEF SInv, ScheduleInv
<1> QED BY <1>9, <1>10

(* Another round in the last slot.                                         *)
LEMMA LastSlotAgainKeeps == ASSUME Finality, SInv, LastSlotAgain PROVE SInv'
<1>1. /\ ClientInv /\ ScheduleTyped /\ UpdatesSoFar /\ RoundSoFar /\ OnTime
      /\ missed \in 0 .. MaxMissed /\ sync_period \in Nat /\ polled = TRUE
  BY DEF SInv, ScheduleInv, LastSlotAgain, ScheduleTyped
<1>2. /\ UNCHANGED vars
      /\ UNCHANGED <<now, initial_checkpoint, store, last_checkpoint, pc, missed, sync_period>>
      /\ polled' = FALSE
  BY DEF LastSlotAgain, vars
<1>3. ClientInv'
  BY <1>1, <1>2, NextKeepsInvariant
<1>4. ScheduleTyped'
  <2>1. store'.finalized_header.slot <= LastFinal(now)
    BY <1>1, <1>2 DEF ScheduleTyped
  <2> QED BY <1>1, <1>2, <2>1, TypedKept
<1>5. UpdatesSoFar' /\ RoundSoFar'
  BY <1>1, <1>2 DEF UpdatesSoFar, RoundSoFar, Learnt, LastFinal, Reach, KnowsNext
<1>6. OnTime'
  <2>1. CASE pc \in Advancing
    <3>1. /\ now \in Slot /\ Reach(store) \in Nat /\ Reach(store') = Reach(store)
          /\ missed \in Nat /\ missed' = missed
      BY <1>1, <1>2, ScheduleFacts DEF Reach, KnowsNext
    <3>2. /\ missed + (IF polled THEN 0 ELSE 1) <= missed' + (IF polled' THEN 0 ELSE 1)
          /\ Reach(store) <= Reach(store')
      BY <1>1, <1>2, <3>1
    <3> QED BY <1>1, <1>2, <2>1, <3>1, <3>2, StillOnTime
  <2>2. CASE pc \notin Advancing
    BY <1>2, <2>2 DEF OnTime
  <2> QED BY <2>1, <2>2
<1> QED BY <1>3, <1>4, <1>5, <1>6 DEF SInv, ScheduleInv

(* start: sync begins, at the period of the checkpoint.                    *)
LEMMA BeginKeeps == ASSUME Finality, SInv, Begin PROVE SInv'
<1>1. /\ ClientInv /\ ScheduleTyped /\ missed \in 0 .. MaxMissed /\ polled = FALSE
      /\ initial_checkpoint.slot <= LastFinal(now)
      /\ store.finalized_header.slot <= LastFinal(now)
  BY DEF SInv, ScheduleInv, Begin, ScheduleTyped
<1>2. /\ now' = now /\ initial_checkpoint' = initial_checkpoint
      /\ polled' = FALSE /\ missed' = missed
      /\ sync_period' = calc_sync_period(initial_checkpoint.slot)
      /\ \/ StartSync /\ pc' = "bootstrap" /\ store' = store
         \/ Bootstrap /\ pc' = "updates"
  BY <1>1 DEF Begin, StartSync, Bootstrap
<1>3. ClientInv' /\ store'.finalized_header.slot <= LastFinal(now)
  <2>1. CASE StartSync
    BY <1>1, <1>2, <2>1, ControlKeepsInvariant
       DEF StartSync, Location, Syncing, Working, Advancing
  <2>2. CASE Bootstrap
    BY <1>1, <2>2, BootstrapKeepsInvariant
  <2> QED BY <1>2, <2>1, <2>2
<1>4. sync_period' \in Nat /\ sync_period' <= calc_sync_period(now)
      /\ calc_sync_period(now) \in Nat
  <2> DEFINE c == calc_sync_period(initial_checkpoint.slot)
             m == calc_sync_period(LastFinal(now))
             p == calc_sync_period(now)
  <2>1. c \in Nat /\ m \in Nat /\ p \in Nat /\ c <= m /\ m <= p
    BY <1>1, ScheduleFacts
  <2> HIDE DEF c, m, p
  <2>2. c \in Nat /\ c <= p /\ p \in Nat
    BY <2>1
  <2> QED BY <1>2, <2>2 DEF c, p
<1>5. ScheduleTyped'
  BY <1>1, <1>2, <1>3, <1>4, TypedKept
<1>6. UpdatesSoFar'
  <2> DEFINE p == calc_sync_period(now)
  <2>1. sync_period' \in Nat /\ p \in Nat /\ sync_period' <= p
    BY <1>4
  <2> HIDE DEF p
  <2>2. sync_period' <= p + 1 /\ sync_period' # p + 1
    BY <2>1
  <2> QED BY <1>2, <2>2 DEF UpdatesSoFar, p
<1>7. RoundSoFar' /\ OnTime'
  BY <1>2 DEF RoundSoFar, OnTime, Advancing
<1> QED BY <1>3, <1>5, <1>6, <1>7 DEF SInv, ScheduleInv

(* The answer of a request is accepted.                                    *)
LEMMA AcceptedKeeps == ASSUME Finality, SInv, Accepted PROVE SInv'
<1>1. Awaiting /\ Available /\ EndOfRound
      /\ sync_period' = IF pc = "updates" THEN sync_period + 1 ELSE sync_period
  BY DEF Accepted
<1>2. CASE SyncUpdate(Answer)
  BY <1>1, <1>2, SyncUpdateKeeps DEF SyncUpdate
<1>3. CASE SyncFinality(Answer)
  BY <1>1, <1>3, SyncFinalityKeeps DEF SyncFinality
<1>4. CASE SyncOptimistic(Answer)
  BY <1>1, <1>4, SyncOptimisticKeeps DEF SyncOptimistic
<1>5. CASE AdvanceFinality(Answer)
  BY <1>1, <1>5, AdvanceFinalityKeeps DEF AdvanceFinality
<1>6. CASE AdvanceOptimistic(Answer)
  BY <1>1, <1>6, AdvanceOptimisticKeeps DEF AdvanceOptimistic
<1>7. CASE AdvanceCommittee(Answer)
  BY <1>1, <1>7, AdvanceCommitteeKeeps DEF AdvanceCommittee
<1> QED BY <1>2, <1>3, <1>4, <1>5, <1>6, <1>7 DEF Accepted

(* Initially.                                                              *)
LEMMA ScheduleInitInvariant == ASSUME Finality PROVE ScheduleInit => SInv
<1> SUFFICES ASSUME ScheduleInit PROVE SInv
  OBVIOUS
<1>1. ClientInv /\ pc = "new" /\ now \in Slot /\ now > 0 /\ store = DefaultStore
      /\ initial_checkpoint.slot <= LastFinal(now)
      /\ polled = FALSE /\ missed = 0 /\ sync_period = 0
  BY InitInvariant DEF ScheduleInit, Init, LastFinal
<1>2. store.finalized_header.slot <= LastFinal(now) /\ now # 0
  <2>1. now - 1 \in 0 .. now - 1 /\ now # 0
    BY <1>1 DEF Slot
  <2>2. LastFinal(now) \in Nat
    BY <1>1, <2>1, AttestedFacts DEF LastFinal
  <2>3. store.finalized_header.slot = 0
    BY <1>1 DEF DefaultStore, DefaultHeader
  <2> QED BY <2>1, <2>2, <2>3
<1>3. ScheduleTyped
  <2>1. 0 \in 0 .. MaxMissed
    BY ScheduleAssumption
  <2> QED BY <1>1, <1>2, <2>1 DEF ScheduleTyped, Syncing
<1>4. UpdatesSoFar /\ RoundSoFar /\ OnTime
  BY <1>1 DEF UpdatesSoFar, RoundSoFar, OnTime, Advancing
<1> QED BY <1>1, <1>3, <1>4 DEF SInv, ScheduleInv

(* Every step keeps the invariant.                                         *)
LEMMA ScheduleNextInvariant ==
    ASSUME Finality PROVE SInv /\ [ScheduleNext]_scheduleVars => SInv'
<1> SUFFICES ASSUME SInv, [ScheduleNext]_scheduleVars PROVE SInv'
  OBVIOUS
<1>1. CASE UNCHANGED scheduleVars
  <2>1. ClientInv'
    BY <1>1, NextKeepsInvariant DEF SInv, scheduleVars
  <2>2. UNCHANGED <<now, initial_checkpoint, store, pc, polled, missed, sync_period>>
    BY <1>1 DEF scheduleVars, vars
  <2>3. ScheduleInv'
    BY <2>2 DEF SInv, ScheduleInv, ScheduleTyped, UpdatesSoFar, RoundSoFar, OnTime,
       Learnt, LastFinal, Reach, KnowsNext
  <2> QED BY <2>1, <2>3 DEF SInv
<1> QED BY <1>1, BeginKeeps, AcceptedKeeps, NothingMoreKeeps, CallFailsKeeps,
           NextSlotKeeps, LastSlotAgainKeeps DEF ScheduleNext

(* The inductive invariant of the schedule holds throughout.               *)
THEOREM ScheduleInvariant == ASSUME Finality PROVE ScheduleSpec => []SInv
BY ScheduleInitInvariant, ScheduleNextInvariant, PTL DEF ScheduleSpec

(* advance in client.rs is called once a slot and there is no force        *)
(* update: with an honest provider, and no more than MaxMissed rounds      *)
(* failing in a row, the store can check the signatures of the day between *)
(* any two rounds, so no outage short enough leaves it with InvalidPeriod  *)
(* for ever.                                                               *)
THEOREM NotStranded == ASSUME Finality PROVE ScheduleSpec => []NeverStranded
<1>1. SInv => NeverStranded
  BY WithinReach DEF SInv, ScheduleInv, RoundSoFar, Advancing, NeverStranded
<1> QED BY <1>1, ScheduleInvariant, PTL

(* What is more: once synced, advance never rejects an answer of an honest *)
(* provider, and always finds the committee it asks for, so a round fails  *)
(* only if a request does.                                                 *)
THEOREM HonestAnswersAccepted ==
    ASSUME Finality
    PROVE  ScheduleSpec => [](Awaiting /\ pc \in Advancing =>
                                  Available /\ verify_generic_update(now, store, Answer))
<1>1. SInv => (Awaiting /\ pc \in Advancing =>
                   Available /\ verify_generic_update(now, store, Answer))
  BY AnswerVerifies, CommitteeAvailable DEF Available, Advancing
<1> QED BY <1>1, ScheduleInvariant, PTL

============================================================================
