-------------------------- MODULE ConsensusClient --------------------------
(***************************************************************************)
(* The light client of the beacon chain: consensus/src/consensus.rs.       *)
(*                                                                         *)
(* The client starts from a trusted checkpoint (a block root), asks one    *)
(* untrusted RPC provider for updates, verifies each of them against the   *)
(* store (the finalized header and the sync committees it implies) and     *)
(* applies it.  sync and advance are sequences of awaited requests; each   *)
(* answer is one action here, because the clock moves while the client     *)
(* waits and because every `?` between two answers returns with the store  *)
(* as the earlier answers left it.  The caller holds the node's write lock *)
(* for the whole of sync or advance, so nothing else reads or writes the   *)
(* store between these actions.                                            *)
(*                                                                         *)
(* A header is its slot and the chain it is on; a hash, a Merkle proof and *)
(* a signature are the predicates they decide under the assumption the     *)
(* protocol rests on: hashes and proofs bind, and fewer than two thirds of *)
(* the real sync committee of any period sign what is not a genuine block. *)
(***************************************************************************)
EXTENDS Integers

CONSTANTS
    SlotsPerEpoch,       \* 32 in the code
    EpochsPerPeriod,     \* 256 in the code
    CommitteeSize,       \* 512 in the code
    MaxFaulty,           \* most members of one committee that sign forgeries
    MaxSlot,             \* bound: the last slot the clock reaches
    FinalizedSlot,       \* the slot that the state of a genuine block finalizes
    Checkpoints,         \* slots of the blocks whose roots the user trusts
    MaxCheckpointAge,    \* config.max_checkpoint_age, in slots
    StrictCheckpointAge, \* config.strict_checkpoint_age
    Served,              \* the updates a provider may send
    None,                \* Option::None
    Forged               \* a committee that is not the chain's

Slot == 0 .. MaxSlot

(* "canonical": the chain that is finalized; "orphan": a genuine block     *)
(* that fork choice dropped before it was finalized; "forged": not a block *)
(* of the network at all; "default": Header::default().                    *)
Chain == {"canonical", "orphan", "forged", "default"}

Header == [slot : Slot, chain : Chain]

Canonical(slot) == [slot |-> slot, chain |-> "canonical"]

(* A real sync committee is the number of its period.                      *)
Committee == Nat \cup {Forged}

(* The three kinds of update, converted: an Update has both optional       *)
(* parts, a FinalityUpdate no committee, an OptimisticUpdate neither.      *)
(* finality_branch and next_sync_committee_branch are present exactly when *)
(* the part they prove is.                                                 *)
GenericUpdate ==
    [attested_header     : Header,
     finalized_header    : Header \cup {None},
     next_sync_committee : Committee \cup {None},
     bits                : 0 .. CommitteeSize,
     signature_slot      : Slot]

FinalityUpdate(u) == [u EXCEPT !.next_sync_committee = None]

OptimisticUpdate(u) ==
    [u EXCEPT !.next_sync_committee = None, !.finalized_header = None]

Updates == Served
FinalityUpdates == {FinalityUpdate(u) : u \in Served}
OptimisticUpdates == {OptimisticUpdate(u) : u \in Served}

ASSUME ConstantsAssumption ==
    /\ SlotsPerEpoch \in Nat \ {0}
    /\ EpochsPerPeriod \in Nat \ {0}
    /\ CommitteeSize \in Nat
    /\ MaxSlot \in Nat
    /\ MaxCheckpointAge \in Nat
    /\ StrictCheckpointAge \in BOOLEAN

(* A supermajority of a real committee contains an honest member.          *)
ASSUME FaultAssumption ==
    MaxFaulty \in Nat /\ 3 * MaxFaulty < 2 * CommitteeSize

ASSUME ChainAssumption ==
    /\ FinalizedSlot \in [Slot -> Slot]
    /\ Checkpoints \subseteq Slot

ASSUME ServedAssumption ==
    /\ Served \subseteq GenericUpdate
    /\ \A u \in Served : u.finalized_header # None /\ u.next_sync_committee # None

ASSUME NoneAssumption ==
    /\ None # Forged
    /\ None \notin Nat
    /\ Forged \notin Nat
    /\ None \notin Header

VARIABLES
    now,                \* expected_current_slot(): the slot of the system clock
    initial_checkpoint, \* the header whose root the client was made with
    store,              \* LightClientStore
    last_checkpoint,    \* the header whose root is the last checkpoint to save
    pc                  \* the request being awaited, or how the last call ended

vars == <<now, initial_checkpoint, store, last_checkpoint, pc>>

Store ==
    [finalized_header                 : Header,
     current_sync_committee           : Committee \cup {None},
     next_sync_committee              : Committee \cup {None},
     optimistic_header                : Header,
     previous_max_active_participants : 0 .. CommitteeSize,
     current_max_active_participants  : 0 .. CommitteeSize]

(* "new": constructed, not synced; "bootstrap", "updates", "finality",     *)
(* "optimistic": sync awaits that answer; "synced": between two calls of   *)
(* advance, or advance awaits the finality update; "adv_optimistic",       *)
(* "adv_committee": advance awaits that answer; "too_old", "failed": sync  *)
(* returned CheckpointTooOld, or another error.                            *)
Syncing == {"bootstrap", "updates", "finality", "optimistic"}
Advancing == {"synced", "adv_optimistic", "adv_committee"}
Location == Syncing \cup Advancing \cup {"new", "too_old", "failed"}

DefaultHeader == [slot |-> 0, chain |-> "default"]

DefaultStore ==
    [finalized_header                 |-> DefaultHeader,
     current_sync_committee           |-> None,
     next_sync_committee              |-> None,
     optimistic_header                |-> DefaultHeader,
     previous_max_active_participants |-> 0,
     current_max_active_participants  |-> 0]

----------------------------------------------------------------------------
(* What the cryptography decides.                                          *)

calc_sync_period(slot) == (slot \div SlotsPerEpoch) \div EpochsPerPeriod

Genuine(header) == header.chain \in {"canonical", "orphan"}

(* A proof against the state of a genuine block shows what is in it; the   *)
(* maker of a forged header chooses its state.                             *)
is_finality_proof_valid(attested, finalized) ==
    Genuine(attested) => finalized = Canonical(FinalizedSlot[attested.slot])

is_next_committee_proof_valid(attested, committee) ==
    Genuine(attested) => committee = calc_sync_period(attested.slot) + 1

is_current_committee_proof_valid(header, committee) ==
    Genuine(header) => committee = calc_sync_period(header.slot)

(* Honest members sign genuine blocks, in their own period; the signature  *)
(* covers the header and not signature_slot.  The keys of a forged         *)
(* committee are all the forger's.                                         *)
verify_sync_committee_signture(committee, header, bits) ==
    \/ committee = Forged
    \/ /\ committee \in Nat
       /\ \/ bits <= MaxFaulty
          \/ Genuine(header) /\ calc_sync_period(header.slot) <= committee

----------------------------------------------------------------------------
(* Verification: Err leaves everything unchanged, so only Ok is told.      *)

slot_or_zero(header) == IF header = None THEN 0 ELSE header.slot

(* Mutant: a signature slot ahead of the clock is accepted.                *)
valid_time_without_clock(t, u) ==
    /\ u.signature_slot > u.attested_header.slot
    /\ u.attested_header.slot >= slot_or_zero(u.finalized_header)

valid_time(t, u) ==
    /\ t >= u.signature_slot
    /\ u.signature_slot > u.attested_header.slot
    /\ u.attested_header.slot >= slot_or_zero(u.finalized_header)

valid_period(s, u) ==
    LET store_period == calc_sync_period(s.finalized_header.slot)
        update_sig_period == calc_sync_period(u.signature_slot)
    IN  \/ update_sig_period = store_period
        \/ /\ s.next_sync_committee # None
           /\ update_sig_period = store_period + 1

(* Mutant: the period of the attested header is not compared.              *)
update_has_next_committee_of_any_period(s, u) ==
    s.next_sync_committee = None /\ u.next_sync_committee # None

update_has_next_committee(s, u) ==
    /\ s.next_sync_committee = None
    /\ u.next_sync_committee # None
    /\ calc_sync_period(u.attested_header.slot)
           = calc_sync_period(s.finalized_header.slot)

is_relevant(s, u) ==
    \/ u.attested_header.slot > s.finalized_header.slot
    \/ update_has_next_committee(s, u)

(* Mutant: the committee of the store's period signs everything.           *)
signing_committee_current(s, u) == s.current_sync_committee

signing_committee(s, u) ==
    IF calc_sync_period(u.signature_slot)
           = calc_sync_period(s.finalized_header.slot)
    THEN s.current_sync_committee
    ELSE s.next_sync_committee

has_finality_update(u) == u.finalized_header # None

has_sync_update(u) == u.next_sync_committee # None

verify_generic_update(t, s, u) ==
    /\ u.bits # 0
    /\ valid_time(t, u)
    /\ valid_period(s, u)
    /\ is_relevant(s, u)
    /\ has_finality_update(u) =>
           is_finality_proof_valid(u.attested_header, u.finalized_header)
    /\ has_sync_update(u) =>
           is_next_committee_proof_valid(u.attested_header, u.next_sync_committee)
    /\ verify_sync_committee_signture(signing_committee(s, u),
                                      u.attested_header, u.bits)

----------------------------------------------------------------------------
(* Application: the store after the update.                                *)

larger(a, b) == IF a > b THEN a ELSE b

(* Mutant: the participation of the previous period is forgotten.          *)
safety_threshold_current_only(s) == s.current_max_active_participants \div 2

safety_threshold(s) ==
    larger(s.current_max_active_participants,
           s.previous_max_active_participants) \div 2

(* Mutant: participation is summed up.                                     *)
count_participants_summed(s, u) ==
    [s EXCEPT !.current_max_active_participants = @ + u.bits]

(* The participation is counted before the threshold is taken from it.     *)
count_participants(s, u) ==
    [s EXCEPT !.current_max_active_participants = larger(@, u.bits)]

(* Mutant: any sufficiently signed header becomes the head.                *)
should_update_optimistic_unordered(s, u) == u.bits > safety_threshold(s)

should_update_optimistic(s, u) ==
    /\ u.bits > safety_threshold(s)
    /\ u.attested_header.slot > s.optimistic_header.slot

update_optimistic(s, u) ==
    IF should_update_optimistic(s, u)
    THEN [s EXCEPT !.optimistic_header = u.attested_header]
    ELSE s

is_newer(s, u) == slot_or_zero(u.finalized_header) > s.finalized_header.slot

update_has_finalized_next_committee(s, u) ==
    /\ s.next_sync_committee = None
    /\ has_sync_update(u)
    /\ has_finality_update(u)
    /\ calc_sync_period(slot_or_zero(u.finalized_header))
           = calc_sync_period(u.attested_header.slot)

should_apply_update(s, u) ==
    /\ u.bits * 3 >= CommitteeSize * 2
    /\ is_newer(s, u) \/ update_has_finalized_next_committee(s, u)

rotate(s, u) ==
    [s EXCEPT !.current_sync_committee = s.next_sync_committee,
              !.next_sync_committee = u.next_sync_committee,
              !.previous_max_active_participants = s.current_max_active_participants,
              !.current_max_active_participants = 0]

(* Mutant: an update without a committee erases the known one.             *)
update_committees_overwriting(s, u) ==
    IF calc_sync_period(slot_or_zero(u.finalized_header))
           = calc_sync_period(s.finalized_header.slot) + 1
    THEN rotate(s, u)
    ELSE [s EXCEPT !.next_sync_committee = u.next_sync_committee]

update_committees(s, u) ==
    IF s.next_sync_committee = None
    THEN [s EXCEPT !.next_sync_committee = u.next_sync_committee]
    ELSE IF calc_sync_period(slot_or_zero(u.finalized_header))
                = calc_sync_period(s.finalized_header.slot) + 1
         THEN rotate(s, u)
         ELSE s

update_finalized(s, u) ==
    IF is_newer(s, u)
    THEN [s EXCEPT !.finalized_header = u.finalized_header,
                   !.optimistic_header =
                       IF u.finalized_header.slot > @.slot
                       THEN u.finalized_header ELSE @]
    ELSE s

(* The committees are updated first: they compare with the old finalized   *)
(* header.                                                                 *)
apply_generic_update(s, u) ==
    LET s1 == update_optimistic(count_participants(s, u), u)
    IN  IF should_apply_update(s1, u)
        THEN update_finalized(update_committees(s1, u), u)
        ELSE s1

(* Mutant: any finalized block is offered as a checkpoint.                 *)
checkpoint_after_any_slot(s, u) ==
    IF should_apply_update(s, u) /\ is_newer(s, u)
    THEN u.finalized_header
    ELSE last_checkpoint

(* A finalized block at an epoch boundary is a checkpoint worth saving.    *)
checkpoint_after(s, u) ==
    IF /\ should_apply_update(s, u)
       /\ is_newer(s, u)
       /\ u.finalized_header.slot % SlotsPerEpoch = 0
    THEN u.finalized_header
    ELSE last_checkpoint

Apply(u) ==
    /\ verify_generic_update(now, store, u)
    /\ store' = apply_generic_update(store, u)
    /\ last_checkpoint' = checkpoint_after(store, u)

----------------------------------------------------------------------------
(* bootstrap, sync and advance.                                            *)

(* slot_age is a u64 difference of timestamps: a checkpoint ahead of the   *)
(* clock wraps to an age beyond every limit (release build).               *)
is_valid_checkpoint(slot) == slot <= now /\ now - slot < MaxCheckpointAge

checkpoint_too_old(header) ==
    StrictCheckpointAge /\ ~ is_valid_checkpoint(header.slot)

(* header.hash_tree_root() = initial_checkpoint.                           *)
header_valid(header) == header = initial_checkpoint

(* The roots the user can have at time t: those of blocks that exist.      *)
Trusted(t) == {Canonical(c) : c \in {d \in Checkpoints : d <= t}}

StartSync ==
    /\ pc \in {"new", "too_old", "failed"}
    /\ pc' = "bootstrap"
    /\ UNCHANGED <<now, initial_checkpoint, store, last_checkpoint>>

Bootstrap ==
    /\ pc = "bootstrap"
    /\ \E header \in Header, committee \in 0 .. MaxSlot \cup {Forged} :
          /\ ~ checkpoint_too_old(header)
          /\ header_valid(header)
          /\ is_current_committee_proof_valid(header, committee)
          /\ store' = [DefaultStore EXCEPT
                         !.finalized_header = header,
                         !.current_sync_committee = committee,
                         !.optimistic_header = header]
    /\ pc' = "updates"
    /\ UNCHANGED <<now, initial_checkpoint, last_checkpoint>>

(* The age is taken from the header as served, before its hash is checked. *)
BootstrapTooOld ==
    /\ pc = "bootstrap"
    /\ \E header \in Header : checkpoint_too_old(header)
    /\ pc' = "too_old"
    /\ UNCHANGED <<now, initial_checkpoint, store, last_checkpoint>>

SyncUpdate(u) ==
    /\ pc = "updates"
    /\ Apply(u)
    /\ UNCHANGED <<now, initial_checkpoint, pc>>

SyncUpdatesDone ==
    /\ pc = "updates"
    /\ pc' = "finality"
    /\ UNCHANGED <<now, initial_checkpoint, store, last_checkpoint>>

SyncFinality(u) ==
    /\ pc = "finality"
    /\ Apply(u)
    /\ pc' = "optimistic"
    /\ UNCHANGED <<now, initial_checkpoint>>

SyncOptimistic(u) ==
    /\ pc = "optimistic"
    /\ Apply(u)
    /\ pc' = "synced"
    /\ UNCHANGED <<now, initial_checkpoint>>

(* A request failed, or its answer did not verify: sync returns Err.       *)
SyncError ==
    /\ pc \in Syncing
    /\ pc' = "failed"
    /\ UNCHANGED <<now, initial_checkpoint, store, last_checkpoint>>

AdvanceFinality(u) ==
    /\ pc = "synced"
    /\ Apply(u)
    /\ pc' = "adv_optimistic"
    /\ UNCHANGED <<now, initial_checkpoint>>

(* Mutant: advance never asks for the next committee.                      *)
AdvanceOptimistic_without_committee(u) ==
    /\ pc = "adv_optimistic"
    /\ Apply(u)
    /\ pc' = "synced"
    /\ UNCHANGED <<now, initial_checkpoint>>

AdvanceOptimistic(u) ==
    /\ pc = "adv_optimistic"
    /\ Apply(u)
    /\ pc' = IF store'.next_sync_committee = None
             THEN "adv_committee" ELSE "synced"
    /\ UNCHANGED <<now, initial_checkpoint>>

AdvanceCommittee(u) ==
    /\ pc = "adv_committee"
    /\ Apply(u)
    /\ pc' = "synced"
    /\ UNCHANGED <<now, initial_checkpoint>>

(* advance returned early: a request failed, an answer did not verify, or  *)
(* (the committee step) not exactly one update came or it was not valid.   *)
(* The error is logged by the caller, who calls advance again.             *)
AdvanceError ==
    /\ pc \in {"adv_optimistic", "adv_committee"}
    /\ pc' = "synced"
    /\ UNCHANGED <<now, initial_checkpoint, store, last_checkpoint>>

(* The caller replaces a client whose sync failed by a new one with a      *)
(* fallback checkpoint.                                                    *)
NewClient ==
    /\ pc \in {"too_old", "failed"}
    /\ initial_checkpoint' \in Trusted(now)
    /\ store' = DefaultStore
    /\ last_checkpoint' = None
    /\ pc' = "new"
    /\ UNCHANGED now

Tick ==
    /\ now < MaxSlot
    /\ now' = now + 1
    /\ UNCHANGED <<initial_checkpoint, store, last_checkpoint, pc>>

Init ==
    /\ now \in Slot
    /\ initial_checkpoint \in Trusted(now)
    /\ store = DefaultStore
    /\ last_checkpoint = None
    /\ pc = "new"

Next ==
    \/ StartSync
    \/ Bootstrap
    \/ BootstrapTooOld
    \/ \E u \in Updates : SyncUpdate(u)
    \/ SyncUpdatesDone
    \/ \E u \in FinalityUpdates : SyncFinality(u)
    \/ \E u \in OptimisticUpdates : SyncOptimistic(u)
    \/ SyncError
    \/ \E u \in FinalityUpdates : AdvanceFinality(u)
    \/ \E u \in OptimisticUpdates : AdvanceOptimistic(u)
    \/ \E u \in Updates : AdvanceCommittee(u)
    \/ AdvanceError
    \/ NewClient
    \/ Tick

Spec == Init /\ [][Next]_vars

----------------------------------------------------------------------------
(* Properties.                                                             *)

(* The type invariant of the client's state.                               *)
TypeOK ==
    /\ now \in Slot
    /\ initial_checkpoint \in Header
    /\ store \in Store
    /\ last_checkpoint \in Header \cup {None}
    /\ pc \in Location

(* bootstrap has set the store.                                            *)
Bootstrapped == store.current_sync_committee # None

(* Whatever the provider answers and wherever sync or advance gave up, the *)
(* finalized header is a block of the canonical chain, the committee that  *)
(* verify_generic_update checks signatures with is the real one of the     *)
(* finalized header's period, and the next one, if known, the real one of  *)
(* the period after it.                                                    *)
StoreOnCanonicalChain ==
    Bootstrapped =>
        LET period == calc_sync_period(store.finalized_header.slot)
        IN  /\ store.finalized_header = Canonical(store.finalized_header.slot)
            /\ store.current_sync_committee = period
            /\ store.next_sync_committee \in {None, period + 1}

(* The optimistic header is never behind the finalized one, and never      *)
(* ahead of the clock: age() and check_head_age subtract its slot from the *)
(* current one in unsigned arithmetic.                                     *)
HeadBetweenFinalizedAndClock ==
    /\ store.finalized_header.slot <= store.optimistic_header.slot
    /\ store.optimistic_header.slot <= now

(* The checkpoint that save_last_checkpoint persists, and that the next    *)
(* start trusts without any check but its root, is a block of the          *)
(* canonical chain, begins an epoch (so that a provider can serve a        *)
(* bootstrap for it) and is newer than the one this client started from.   *)
SavedCheckpointIsTrustworthy ==
    last_checkpoint # None =>
        /\ last_checkpoint.chain = "canonical"
        /\ last_checkpoint.slot % SlotsPerEpoch = 0
        /\ last_checkpoint.slot > initial_checkpoint.slot

(* Except for the bootstrap of a new sync, no step takes the finalized or  *)
(* the optimistic header back to an earlier slot, or replaces the          *)
(* finalized header by another one of the same slot.                       *)
HeadersNeverRegress ==
    [][ (pc = "bootstrap" \/ pc' = "new") \/
        /\ \/ store'.finalized_header = store.finalized_header
           \/ store'.finalized_header.slot > store.finalized_header.slot
        /\ store'.optimistic_header.slot >= store.optimistic_header.slot ]_vars

(* Once the client has counted an update, in this or the last period, with *)
(* twice as many participants as there can be faulty ones, a header that   *)
(* only faulty members signed cannot become the optimistic header.         *)
MinorityCannotMoveTheHead ==
    [][ larger(store.current_max_active_participants,
               store.previous_max_active_participants) >= 2 * MaxFaulty =>
            \/ store'.optimistic_header = store.optimistic_header
            \/ Genuine(store'.optimistic_header)
            \/ pc' = "new" ]_vars

(* What the store says of the finalized chain; anything forged in it is    *)
(* neither a slot nor a period of that chain.                              *)
FollowedSlot ==
    IF ~ Bootstrapped THEN None
    ELSE IF store.finalized_header.chain = "canonical"
         THEN store.finalized_header.slot
         ELSE Forged

HeldCommittees ==
    {store.current_sync_committee, store.next_sync_committee} \ {None}

Followed == INSTANCE FollowedChain
                WITH Slots <- Slot, TrustedSlots <- Checkpoints, Nothing <- None,
                     followed <- FollowedSlot, committees <- HeldCommittees

(* Every step of sync and advance, with whatever answers and failures, is  *)
(* a step of an ideal follower of the finalized chain or changes nothing   *)
(* it can see: finality is never lost, forged or moved into a period whose *)
(* real committee was not already in the store, and a next committee once  *)
(* learnt is kept until its period begins.                                 *)
FollowsFinalizedChain == Followed!FollowSpec

============================================================================
