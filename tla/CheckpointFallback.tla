------------------------- MODULE CheckpointFallback -------------------------
(***************************************************************************)
(* Where a new checkpoint comes from: config/src/checkpoints.rs.           *)
(*                                                                         *)
(* One explicit service is asked (fetch_checkpoint_from_api), or all the   *)
(* healthy services of a public list at once                               *)
(* (fetch_latest_checkpoint_from_services): each request ends by itself,   *)
(* in any order and some of them after the next epoch has begun; then the  *)
(* root that most services report for the latest reported epoch is taken.  *)
(*                                                                         *)
(* The genuine checkpoint of an epoch is named by the epoch; any other     *)
(* root is one of Fakes.  A service answers with slots, the newest first,  *)
(* of which the newest may have no root yet.                               *)
(***************************************************************************)
EXTENDS Integers, Sequences, FiniteSets

CONSTANTS
    Services,          \* the services, the explicit one among them
    Honest,            \* the services that report what the chain has
    Networks,          \* the networks the list has to cover
    Lists,             \* the lists that may be served
    Fakes,             \* roots that are not those of a checkpoint
    MaxEpoch,          \* bound: the last epoch of the clock
    None, Pending, Err, Panic

Epoch == 1 .. MaxEpoch
Root == Epoch \cup Fakes
Slot == [epoch : Epoch, block_root : Root \cup {None}]

ASSUME FallbackAssumption ==
    /\ MaxEpoch \in Nat \ {0}
    /\ IsFiniteSet(Services) /\ Honest \subseteq Services
    (* For each network the services with their state, or no entry.        *)
    /\ Lists \subseteq [Networks -> [Services -> BOOLEAN] \cup {None}]
    /\ {None, Pending, Err, Panic} \cap (Root \cup Slot) = {}

VARIABLES
    now,               \* the epoch of the clock
    pc,                \* the request being awaited
    fallback,          \* the explicit service, None for the public list
    network,           \* the network a checkpoint is asked for
    services,          \* the list, once it is built
    answers,           \* the results of the queries of all services
    asked_at,          \* history: the epoch in which the requests were sent
    result             \* None until there is one: a root, Err or Panic

vars == <<now, pc, fallback, network, services, answers, asked_at, result>>

----------------------------------------------------------------------------
(* The services.                                                           *)

(* The slots an honest service may report: it knows the checkpoints of     *)
(* this epoch and the last one, or has not seen this one's yet.            *)
HonestSlots ==
    LET slot(e, r) == [epoch |-> e, block_root |-> r]
        last == IF now = 1 THEN <<>> ELSE <<slot(now - 1, now - 1)>>
    IN  {<<slot(now, r)>> \o last : r \in {now, None}}

Answers(s) ==
    IF s \in Honest THEN HonestSlots
    ELSE {<<>>} \cup {<<x>> : x \in Slot}

----------------------------------------------------------------------------
(* build.                                                                  *)

Return(r) == result' = r /\ pc' = "done"

(* The list has to have an entry for every network, not only for the one   *)
(* that will be asked for.                                                 *)
Build ==
    /\ pc = "list"
    /\ \E list \in Lists :
          \/ /\ \A n \in Networks : list[n] # None
             /\ services' = list
             /\ pc' = "built"
             /\ UNCHANGED result
          \/ /\ \E n \in Networks : list[n] = None
             /\ Return(Err)
             /\ UNCHANGED services
    /\ UNCHANGED <<now, fallback, network, answers, asked_at>>

BuildFails ==
    /\ pc = "list"
    /\ Return(Err)
    /\ UNCHANGED <<now, fallback, network, services, answers, asked_at>>

----------------------------------------------------------------------------
(* fetch_latest_checkpoint: the healthy services are asked concurrently.   *)

get_healthy_fallback_services(n) == {s \in Services : services[n][s]}

FetchLatest ==
    /\ pc = "built"
    /\ answers' = [s \in get_healthy_fallback_services(network) |-> Pending]
    /\ asked_at' = now
    /\ pc' = "services"
    /\ UNCHANGED <<now, fallback, network, services, result>>

(* Mutant: the newest slot, whether or not it has a root.                  *)
find_slot_newest(slots) == IF slots = <<>> THEN Err ELSE Head(slots)

(* The first slot that has a root; no slots, or none with a root, is an    *)
(* error of this service alone.                                            *)
find_slot(slots) ==
    LET valid == {i \in DOMAIN slots : slots[i].block_root # None}
    IN  IF valid = {} THEN Err ELSE slots[CHOOSE i \in valid : \A j \in valid : i <= j]

(* The answer of one service, or the failure of its request.               *)
QueryService(s) ==
    /\ pc = "services" /\ answers[s] = Pending
    /\ \/ \E slots \in Answers(s) : answers' = [answers EXCEPT ![s] = find_slot(slots)]
       \/ answers' = [answers EXCEPT ![s] = Err]
    /\ UNCHANGED <<now, pc, fallback, network, services, asked_at, result>>

(* The services that reported a slot.                                      *)
Reporting == {s \in DOMAIN answers : answers[s] \in Slot}

EpochsOf(ss) == {answers[s].epoch : s \in ss}

latest(epochs) == CHOOSE e \in epochs : \A f \in epochs : f <= e

(* Mutant: the slots of all epochs are counted.                            *)
LatestSlots_any_epoch == Reporting

(* The slots of the latest epoch that any service reported.                *)
LatestSlots ==
    {s \in Reporting : answers[s].epoch = latest(EpochsOf(Reporting))}

votes(ss, r) == Cardinality({s \in ss : answers[s].block_root = r})

(* Roots with the same number of votes are taken in the order of a         *)
(* HashMap, which is random.                                               *)
most_common(ss) ==
    {r \in Root : /\ votes(ss, r) > 0
                  /\ \A q \in Root : votes(ss, q) <= votes(ss, r)}

(* Mutant: one failed query fails them all.                                *)
AllAnswered_strict == \A s \in DOMAIN answers : answers[s] \in Slot

(* join_all has returned: every request has ended.                         *)
AllAnswered == \A s \in DOMAIN answers : answers[s] # Pending

(* Mutant: the error of one service is returned at once.                   *)
Choose_first_error ==
    /\ pc = "services" /\ AllAnswered
    /\ IF Reporting # DOMAIN answers THEN Return(Err)
       ELSE \E r \in most_common(LatestSlots) : Return(r)
    /\ UNCHANGED <<now, fallback, network, services, answers, asked_at>>

Choose ==
    /\ pc = "services" /\ AllAnswered
    /\ \/ Reporting = {} /\ Return(Err)
       \/ Reporting # {} /\ \E r \in most_common(LatestSlots) : Return(r)
    /\ UNCHANGED <<now, fallback, network, services, answers, asked_at>>

----------------------------------------------------------------------------
(* fetch_checkpoint_from_api: the newest slot of one service.              *)

FetchFromApi ==
    /\ pc = "api"
    /\ \/ \E slots \in Answers(fallback) :
             \/ slots = <<>> /\ Return(Panic)
             \/ /\ slots # <<>>
                /\ Return(IF Head(slots).block_root = None THEN Err
                                                           ELSE Head(slots).block_root)
       \/ Return(Err)
    /\ UNCHANGED <<now, fallback, network, services, answers, asked_at>>

----------------------------------------------------------------------------
Tick ==
    /\ now < MaxEpoch /\ pc # "done"
    /\ now' = now + 1
    /\ UNCHANGED <<pc, fallback, network, services, answers, asked_at, result>>

Init ==
    /\ now = 1
    /\ fallback \in Services \cup {None}
    /\ pc = IF fallback = None THEN "list" ELSE "api"
    /\ network \in Networks
    /\ services = None /\ answers = <<>>
    /\ asked_at = 1
    /\ result = None

Next ==
    \/ Build
    \/ BuildFails
    \/ FetchLatest
    \/ \E s \in DOMAIN answers : QueryService(s)
    \/ Choose
    \/ FetchFromApi
    \/ Tick

(* Every request ends, with an answer or a failure.                        *)
Fairness ==
    /\ WF_vars(Build \/ BuildFails)
    /\ WF_vars(FetchLatest)
    /\ \A s \in Services : WF_vars(s \in DOMAIN answers /\ QueryService(s))
    /\ WF_vars(Choose)
    /\ WF_vars(FetchFromApi)

Spec == Init /\ [][Next]_vars /\ Fairness

----------------------------------------------------------------------------
(* Properties.                                                             *)

(* The type invariant of a fetch.                                          *)
TypeOK ==
    /\ now \in Epoch /\ asked_at \in Epoch
    /\ pc \in {"list", "built", "services", "api", "done"}
    /\ fallback \in Services \cup {None} /\ network \in Networks
    /\ services \in Lists \cup {None}
    /\ DOMAIN answers \subseteq Services
    /\ \A s \in DOMAIN answers :
          answers[s] \in [epoch : Epoch, block_root : Root] \cup {Pending, Err}
    /\ result \in Root \cup {None, Err, Panic}

(* The services that reported epoch e.                                     *)
ReportingEpoch(e) == {s \in Reporting : answers[s].epoch = e}

(* What the vote of fetch_latest_checkpoint_from_services is good for,     *)
(* whichever of the answers came before and after the turn of an epoch: if *)
(* no other service claims a later epoch than the honest ones, and among   *)
(* those that report the latest epoch the honest are more than the others, *)
(* the checkpoint is the genuine one of that epoch, and at most one epoch  *)
(* older than the request.                                                 *)
HonestServicesPrevail ==
    (pc = "done" /\ Reporting \cap Honest # {}) =>
        LET e == latest(EpochsOf(Reporting \cap Honest))
            honest == ReportingEpoch(e) \cap Honest
            others == ReportingEpoch(e) \ Honest
        IN  /\ \A s \in Reporting : answers[s].epoch <= e
            /\ Cardinality(others) < Cardinality(honest)
            => result = e /\ e >= asked_at - 1

(* Services that are down, answer nothing or nothing usable do not stop    *)
(* the others: if one healthy service reported a checkpoint there is one.  *)
OneServiceIsEnough ==
    pc = "done" /\ Reporting # {} => result \in Root

(* join_all waits for every service: as long as each request ends, so does *)
(* the fetch.                                                              *)
FetchEnds == <>(result # None)
=============================================================================
