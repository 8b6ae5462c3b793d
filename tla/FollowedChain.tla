--------------------------- MODULE FollowedChain ---------------------------
(***************************************************************************)
(* What a light client promises, without how: it trusts a checkpoint, and  *)
(* from there follows the finalized chain forward, one sync committee      *)
(* period at a time, entering a period only when it already holds the      *)
(* committee of that period.                                               *)
(***************************************************************************)
EXTENDS Integers

CONSTANTS
    SlotsPerEpoch,
    EpochsPerPeriod,
    Slots,             \* the slots of the finalized chain
    TrustedSlots,      \* the slots of the checkpoints a user may trust
    Nothing            \* no block is followed yet

VARIABLES
    followed,          \* the slot of the newest finalized block accepted
    committees         \* the periods whose sync committees are held

PeriodOf(slot) == (slot \div SlotsPerEpoch) \div EpochsPerPeriod

FollowNothing == followed = Nothing /\ committees = {}

(* A new client: what the old one followed is dropped.                     *)
Forget == followed' = Nothing /\ committees' = {}

Trust(slot) == followed' = slot /\ committees' = {PeriodOf(slot)}

Learn ==
    /\ followed # Nothing
    /\ followed' = followed
    /\ committees' = committees \cup {PeriodOf(followed) + 1}

(* Moving on may teach the committee after the one in force; the others    *)
(* that are held are kept, except those of past periods.                   *)
Follow(slot) ==
    /\ followed # Nothing
    /\ slot > followed
    /\ PeriodOf(slot) \in committees
    /\ followed' = slot
    /\ LET kept == {p \in committees : p >= PeriodOf(slot)}
       IN  committees' \in {kept, kept \cup {PeriodOf(slot) + 1}}

FollowNext ==
    \/ Forget
    \/ \E slot \in TrustedSlots : Trust(slot)
    \/ Learn
    \/ \E slot \in Slots : Follow(slot)

FollowSpec == FollowNothing /\ [][FollowNext]_<<followed, committees>>
============================================================================
