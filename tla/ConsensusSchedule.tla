------------------------- MODULE ConsensusSchedule -------------------------
(***************************************************************************)
(* The consensus client with an honest provider, on the schedule that      *)
(* client.rs gives it: sync once, then one round of advance in each slot,  *)
(* four seconds into the slot, for ever.  Requests may still fail, but     *)
(* never in more than MaxMissed rounds in a row.                           *)
(*                                                                         *)
(* The client does not implement force updates: when its store is too far  *)
(* behind the signatures of the day, it can verify nothing any more.  This *)
(* module asks how many rounds it may miss, and shows that it catches up   *)
(* with finality if it misses no more.                                     *)
(***************************************************************************)
EXTENDS ConsensusClient

CONSTANT MaxMissed     \* most rounds that fail in a row

ASSUME ScheduleAssumption == MaxMissed \in Nat

VARIABLES
    polled,            \* the round of this slot is over
    missed,            \* rounds that failed since one succeeded
    sync_period        \* the period of the next update in the answer that
                       \* sync is working through

scheduleVars == <<vars, polled, missed, sync_period>>

(* The updates of an honest, fully synced beacon node: it has a full       *)
(* signature of the block of each slot but the current one.                *)
HonestUpdate(attested) ==
    [attested_header     |-> Canonical(attested),
     finalized_header    |-> Canonical(FinalizedSlot[attested]),
     next_sync_committee |-> calc_sync_period(attested) + 1,
     bits                |-> CommitteeSize,
     signature_slot      |-> attested + 1]

(* The update it keeps for a period is attested and signed in that period; *)
(* one that finalizes a block of the period is preferred, then a newer.    *)
Candidates(period) ==
    {a \in 0 .. now - 1 : /\ calc_sync_period(a) = period
                          /\ calc_sync_period(a + 1) = period}

FinalizesOwnPeriod(a) == calc_sync_period(FinalizedSlot[a]) = calc_sync_period(a)

BestUpdate(period) ==
    HonestUpdate(CHOOSE a \in Candidates(period) :
                    \A b \in Candidates(period) \ {a} :
                        \/ FinalizesOwnPeriod(a) /\ ~ FinalizesOwnPeriod(b)
                        \/ (FinalizesOwnPeriod(b) => FinalizesOwnPeriod(a)) /\ a > b)

(* The update that answers the request being awaited, if there is one:     *)
(* get_updates may have nothing (more) to return.                          *)
RequestedPeriod ==
    IF pc = "updates" THEN sync_period
                      ELSE calc_sync_period(store.finalized_header.slot)

Available ==
    pc \in {"updates", "adv_committee"} => Candidates(RequestedPeriod) # {}

Answer ==
    CASE pc \in {"updates", "adv_committee"} -> BestUpdate(RequestedPeriod)
      [] pc \in {"finality", "synced"} -> FinalityUpdate(HonestUpdate(now - 1))
      [] pc \in {"optimistic", "adv_optimistic"} -> OptimisticUpdate(HonestUpdate(now - 1))

Awaiting == pc \in (Syncing \ {"bootstrap"}) \cup Advancing /\ ~ polled

(* A round is over when the control is back between two calls.             *)
EndOfRound ==
    /\ polled' = (pc' = "synced")
    /\ missed' = IF pc' = "synced" THEN 0 ELSE missed

Begin ==
    /\ ~ polled
    /\ StartSync \/ Bootstrap
    /\ sync_period' = calc_sync_period(initial_checkpoint.slot)
    /\ UNCHANGED <<polled, missed>>

Accepted ==
    /\ Awaiting /\ Available
    /\ \/ SyncUpdate(Answer)
       \/ SyncFinality(Answer)
       \/ SyncOptimistic(Answer)
       \/ AdvanceFinality(Answer)
       \/ AdvanceOptimistic(Answer)
       \/ AdvanceCommittee(Answer)
    /\ sync_period' = IF pc = "updates" THEN sync_period + 1 ELSE sync_period
    /\ EndOfRound

(* get_updates returned nothing, or all it returned is applied.            *)
NothingMore ==
    /\ Awaiting /\ ~ Available
    /\ SyncUpdatesDone \/ AdvanceError
    /\ UNCHANGED sync_period
    /\ EndOfRound

(* A request failed, or even an honest answer did not verify: the call     *)
(* returns early.                                                          *)
CallFails ==
    /\ pc \in Syncing \cup Advancing /\ ~ polled
    /\ \/ missed < MaxMissed /\ missed' = missed + 1
       \/ /\ Awaiting /\ Available /\ ~ verify_generic_update(now, store, Answer)
          /\ UNCHANGED missed
    /\ SyncError \/ AdvanceError \/ (pc = "synced" /\ UNCHANGED vars)
    /\ polled' = TRUE
    /\ UNCHANGED sync_period

(* duration_until_next_update: sleep into the next slot.                   *)
NextSlot ==
    /\ polled \/ pc = "new"
    /\ Tick
    /\ polled' = FALSE
    /\ UNCHANGED <<missed, sync_period>>

(* Beyond the bound the clock is not modelled, but rounds go on.           *)
LastSlotAgain ==
    /\ now = MaxSlot /\ polled
    /\ polled' = FALSE
    /\ UNCHANGED <<vars, missed, sync_period>>

(* The user trusts a block that is finalized by now.                       *)
ScheduleInit ==
    /\ Init
    /\ now > 0 /\ initial_checkpoint.slot <= FinalizedSlot[now - 1]
    /\ polled = FALSE /\ missed = 0 /\ sync_period = 0

ScheduleNext ==
    Begin \/ Accepted \/ NothingMore \/ CallFails \/ NextSlot \/ LastSlotAgain

(* The advance thread never stops, and start is called (again, if it       *)
(* returned an error).                                                     *)
ScheduleSpec ==
    ScheduleInit /\ [][ScheduleNext]_scheduleVars /\ WF_scheduleVars(ScheduleNext)

(* Finality, as the client needs it: a block finalizes an earlier one and  *)
(* the next block no older one, and in the last MaxMissed + 1 slots of a   *)
(* period the chain has finalized a block of that period.                  *)
Finality ==
    /\ \A a \in Slot \ {0} : FinalizedSlot[a] < a
    /\ \A a, b \in Slot : a <= b => FinalizedSlot[a] <= FinalizedSlot[b]
    /\ \A t \in Slot \ {0} :
          calc_sync_period(t + MaxMissed + 1) # calc_sync_period(t) =>
              calc_sync_period(FinalizedSlot[t - 1]) = calc_sync_period(t)

(* Between two rounds the store can still check the signatures of the day: *)
(* their period is the store's, or the one after it and its committee is   *)
(* known.  From any other store advance fails with InvalidPeriod for ever. *)
NeverStranded ==
    pc = "synced" => valid_period(store, HonestUpdate(now - 1))

(* Once sync has been started, the client ends up with what the chain has  *)
(* finalized, though requests fail now and then, in sync and in advance.   *)
CatchesUp ==
    <>[](/\ store.finalized_header = Canonical(FinalizedSlot[MaxSlot - 1])
         /\ store.optimistic_header = Canonical(MaxSlot - 1))
============================================================================
