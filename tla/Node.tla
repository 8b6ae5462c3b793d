-------------------------------- MODULE Node --------------------------------
(***************************************************************************)
(* The node: client/src/node.rs.  It keeps the execution payloads of the   *)
(* newest blocks and answers queries from them.                            *)
(*                                                                         *)
(* advance (and sync) first moves the consensus client, then fetches       *)
(* blocks from the provider; each awaited request is an action, and each   *)
(* may fail.  The node is behind a read-write lock: advance holds it for   *)
(* writing throughout, so queries see only the states between two calls,   *)
(* after a call that succeeded or one that returned early.                 *)
(*                                                                         *)
(* A block is named by its slot (a slot has at most one block).  Of the    *)
(* consensus client this module keeps the two headers, and moves them as   *)
(* ConsensusClientProofs shows: the finalized header along the canonical   *)
(* chain, the optimistic one to later slots, on whichever branch, never    *)
(* behind the finalized one and never ahead of the clock.                  *)
(*                                                                         *)
(* The provider may answer any request with any payload.  The blocks of    *)
(* the two headers are checked against them (get_execution_payload).  The  *)
(* backfill compares no more than the block_hash that each payload carries *)
(* with the parent_hash of the one before it: neither is that hash         *)
(* recomputed, nor is the block that the walk starts from, fetched anew,   *)
(* compared with the header.  unchecked keeps which cached payloads rest   *)
(* on such an answer.                                                      *)
(***************************************************************************)
EXTENDS Integers, FiniteSets

CONSTANTS
    Blocks,            \* the slots that have a block
    Forged,            \* payloads of no block that a provider may serve
    Parent,            \* parent_hash, as the payload of that hash; the
                       \* oldest block is its own parent
    BlockHash,         \* the block_hash that a payload carries, likewise
    Number,            \* the execution block number of a payload
    Canon,             \* the blocks of the chain that is finalized in the end
    HistorySize,       \* self.history_size: 64
    FinalizedSize,     \* max(history_size / 32, 1): 2
    MaxHeadDelay,      \* slots after which check_head_age fails: 10
    MaxSlot,           \* bound: the last slot of the clock
    MaxFailures,       \* bound: calls that return early between two successes
    None

ASSUME NodeAssumption ==
    /\ MaxSlot \in Nat /\ HistorySize \in Nat \ {0} /\ FinalizedSize \in Nat \ {0}
    /\ MaxHeadDelay \in Nat /\ MaxFailures \in Nat
    /\ Blocks \subseteq 0 .. MaxSlot /\ Canon \subseteq Blocks
    /\ IsFiniteSet(Forged) /\ Forged \cap Blocks = {}
    /\ Parent \in [Blocks \cup Forged -> Blocks \cup Forged]
    /\ BlockHash \in [Blocks \cup Forged -> Blocks \cup Forged]
    /\ Number \in [Blocks \cup Forged -> Nat]
    /\ \A b \in Blocks :
          /\ BlockHash[b] = b /\ Parent[b] \in Blocks
          /\ Parent[b] # b => Parent[b] < b /\ Number[b] = Number[Parent[b]] + 1
    /\ \A b \in Canon : Parent[b] \in Canon
    /\ None \notin Nat /\ None \notin Forged

Payloads == Blocks \cup Forged

VARIABLES
    now,                \* the slot of the system clock
    head,               \* the optimistic header's block, or None before sync
    finalized,          \* the finalized header's block, or None
    payloads,           \* the cached payloads, no two with the same number
    finalized_payloads, \* the cached finalized blocks
    current_slot,       \* the slot up to which blocks were backfilled
    pc,                 \* the request being awaited
    walk_slot,          \* in a walk: the slot of the last answer looked at
    prev_parent_hash,   \* in a walk: the hash the next payload must carry
    backfilled,         \* in a walk: the payloads taken so far
    synced,             \* start has returned: advance is called from now on
    failures,           \* calls that returned early since the last success
    verified,           \* history: the blocks the consensus client vouched for
    linked,             \* history: every answer of this walk was genuine,
                        \* beginning with the head's own block
    unchecked,          \* history: the payloads in the cache, or taken in
                        \* this walk, that came after an answer that was not
    since               \* history: the slot from which on the provider has
                        \* served every block of current_slot's chain and
                        \* none was replaced by one of another branch

walk == <<walk_slot, prev_parent_hash, backfilled, linked>>

vars == <<now, head, finalized, payloads, finalized_payloads, current_slot,
          pc, walk, synced, failures, verified, unchecked, since>>

----------------------------------------------------------------------------
(* The chain.                                                              *)

(* A block and its ancestors.                                              *)
ChainOf[b \in Blocks] ==
    IF Parent[b] = b THEN {b} ELSE {b} \cup ChainOf[Parent[b]]

(* Finality: no two branches are finalized.                                *)
ASSUME CanonAssumption ==
    \A b, c \in Canon : b \in ChainOf[c] \/ c \in ChainOf[b]

----------------------------------------------------------------------------
(* BTreeMaps from block numbers to blocks.                                 *)

(* Mutant: an entry of the same number is kept.                            *)
insert_keeping(map, b) == map \cup {b}

insert(map, b) == {x \in map : Number[x] # Number[b]} \cup {b}

insert_all(map, bs) ==
    {x \in map : \A b \in bs : Number[x] # Number[b]} \cup bs

(* Mutant: the entries with the highest numbers are dropped.               *)
pop_last_until(map, size) ==
    {x \in map : Cardinality({y \in map : Number[y] < Number[x]}) < size}

(* Mutant: one entry is dropped, however far the map is over its size.     *)
pop_first_once(map, size) ==
    {x \in map : \/ Cardinality(map) <= size
                 \/ \E y \in map : Number[y] < Number[x]}

(* pop_first until the map is not larger than size.                        *)
pop_first_until(map, size) ==
    {x \in map : Cardinality({y \in map : Number[y] > Number[x]}) < size}

last_value(map) == CHOOSE x \in map : \A y \in map : Number[y] <= Number[x]

----------------------------------------------------------------------------
(* Queries: each runs under the read lock and changes nothing.             *)

Unlocked == pc = "idle"

head_slot == IF head = None THEN 0 ELSE head

check_head_age == now - head_slot <= MaxHeadDelay

get_payload_latest == IF payloads = {} THEN None ELSE last_value(payloads)

get_payload_finalized ==
    IF finalized_payloads = {} THEN None ELSE last_value(finalized_payloads)

(* The block whose number get_block_number returns, None for an error.     *)
get_block_number == IF check_head_age THEN get_payload_latest ELSE None

----------------------------------------------------------------------------
(* sync and advance of the consensus client.                               *)

(* The headers it may move to.                                             *)
Headers ==
    {hf \in Blocks \X Canon :
        /\ hf[1] <= now
        /\ hf[2] <= hf[1]}

MoveTo(hf) == head' = hf[1] /\ finalized' = hf[2]

Begin == pc = "idle" /\ failures < MaxFailures

(* start: consensus.sync bootstraps, so that the headers may also go back  *)
(* to those of a checkpoint.  It is called again, from an external         *)
(* fallback's checkpoint, when the sync from the fallback's failed, in     *)
(* update_payloads too.                                                    *)
ConsensusSync ==
    /\ Begin /\ ~ synced
    /\ \E hf \in Headers : MoveTo(hf) /\ verified' = verified \cup {hf[1], hf[2]}
    /\ pc' = "latest"
    /\ UNCHANGED <<now, payloads, finalized_payloads, current_slot, walk, synced,
                   failures, unchecked, since>>

ConsensusAdvance ==
    /\ Begin /\ synced
    /\ \E hf \in Headers :
          /\ hf[1] >= head /\ hf[2] >= finalized
          /\ MoveTo(hf) /\ verified' = verified \cup {hf[1], hf[2]}
    /\ pc' = "latest"
    /\ UNCHANGED <<now, payloads, finalized_payloads, current_slot, walk, synced,
                   failures, unchecked, since>>

(* The consensus client returned an error, after it had moved or not; or a *)
(* request of update_payloads failed: nothing is undone.  Of the requests  *)
(* of a backfill, only the first one fails the call.                       *)
CallFails ==
    /\ pc \in {"latest", "finalized", "backfill"}
    /\ pc' = "idle"
    /\ failures' = failures + 1
    /\ UNCHANGED <<now, head, finalized, payloads, finalized_payloads,
                   current_slot, walk, synced, verified, unchecked, since>>

----------------------------------------------------------------------------
(* update_payloads.                                                        *)

(* Mutant: every block is compared with the optimistic header.             *)
get_execution_payload_of_head(slot) == head

(* get_execution_payload checks the block of a slot against the optimistic *)
(* header if that has this slot, else against the finalized one.           *)
get_execution_payload(slot) == IF slot = head THEN head ELSE finalized

FetchLatest ==
    /\ pc = "latest"
    /\ pc' = "finalized"
    /\ UNCHANGED <<now, head, finalized, payloads, finalized_payloads,
                   current_slot, walk, synced, failures, verified, unchecked, since>>

(* Mutant: the slot to backfill from is moved before the backfill.         *)
FetchFinalized_moving ==
    /\ pc = "finalized"
    /\ payloads' = insert(insert(payloads, get_execution_payload(head)),
                          get_execution_payload(finalized))
    /\ finalized_payloads' = insert(finalized_payloads,
                                    get_execution_payload(finalized))
    /\ pc' = "backfill"
    /\ current_slot' = IF current_slot = None THEN None ELSE head
    /\ unchecked' = unchecked \ {head, finalized}
    /\ UNCHANGED <<now, head, finalized, walk, synced, failures, verified, since>>

(* The blocks that the cache was filled with up to now are of the head's   *)
(* chain, and so is the finalized block: inserting replaces none of them.  *)
SameBranch == {current_slot, finalized} \subseteq ChainOf[head]

(* Both payloads are at hand: they are inserted before the backfill.       *)
FetchFinalized ==
    /\ pc = "finalized"
    /\ payloads' = insert(insert(payloads, get_execution_payload(head)),
                          get_execution_payload(finalized))
    /\ finalized_payloads' = insert(finalized_payloads,
                                    get_execution_payload(finalized))
    /\ pc' = "backfill"
    /\ unchecked' = unchecked \ {head, finalized}
    /\ since' = IF SameBranch THEN since ELSE current_slot
    /\ UNCHANGED <<now, head, finalized, current_slot, walk, synced, failures, verified>>

(* latest_header.slot - history_size wraps below zero, to a slot after     *)
(* every other (release build): the range is then empty.                   *)
start_slot ==
    IF current_slot # None THEN current_slot
    ELSE IF head >= HistorySize THEN head - HistorySize
    ELSE MaxSlot + 1

(* get_payloads first fetches the block of end_slot, the head's slot, once *)
(* more: only its parent_hash is used, whatever block it is.               *)
FetchParent ==
    /\ pc = "backfill"
    /\ pc' = "walk"
    /\ walk_slot' = head
    /\ backfilled' = {}
    /\ \E anchor \in Payloads :
          /\ prev_parent_hash' = Parent[anchor]
          /\ linked' = (anchor = head)
    /\ UNCHANGED <<now, head, finalized, payloads, finalized_payloads, current_slot,
                   synced, failures, verified, unchecked, since>>

(* Mutant: a payload is taken whatever hash it carries.                    *)
expected_any(payload) == TRUE

expected(payload) == BlockHash[payload] = prev_parent_hash

(* The answers for the slots below are looked at from the highest down.    *)
(* An answer that is an error is passed over ...                           *)
BackfillSkip ==
    /\ pc = "walk" /\ start_slot < walk_slot
    /\ walk_slot' = walk_slot - 1
    /\ UNCHANGED <<now, head, finalized, payloads, finalized_payloads, current_slot, pc,
                   prev_parent_hash, backfilled, linked, synced, failures, verified,
                   unchecked, since>>

(* ... and a payload that carries the expected hash is taken, and names    *)
(* the next one.  (Two payloads of one number: the later one is inserted   *)
(* over the other.)                                                        *)
BackfillBlock ==
    /\ pc = "walk" /\ start_slot < walk_slot
    /\ walk_slot' = walk_slot - 1
    /\ \E payload \in {x \in Payloads : expected(x)} :
          /\ prev_parent_hash' = Parent[payload]
          /\ backfilled' = insert(backfilled, payload)
          /\ linked' = (linked /\ payload \in Blocks)
          /\ unchecked' = IF linked' THEN unchecked \ {payload}
                                     ELSE unchecked \cup {payload}
    /\ UNCHANGED <<now, head, finalized, payloads, finalized_payloads, current_slot, pc,
                   synced, failures, verified, since>>

(* The first slot of the range was reached, or a payload carried another   *)
(* hash than the expected one.                                             *)
WalkEnds ==
    \/ walk_slot <= start_slot
    \/ \E payload \in Payloads : ~ expected(payload)

(* From where on the head's chain was served: from start_slot, or from     *)
(* before it if the last backfill ended at a block of this chain.  Nothing *)
(* is claimed after a payload of another chain was taken.                  *)
ServedSince ==
    LET asked == {b \in ChainOf[head] : start_slot <= b /\ b < head}
    IN  IF ~ (backfilled \subseteq ChainOf[head]) THEN head + 1
        ELSE IF ~ (asked \subseteq backfilled) \/ (current_slot = None /\ head < HistorySize)
        THEN head
        ELSE IF current_slot \in ChainOf[head] /\ since <= current_slot THEN since
        ELSE start_slot

(* What was taken is inserted, and both caches are pruned.                 *)
BackfillEnd ==
    /\ pc = "walk" /\ WalkEnds
    /\ payloads' = pop_first_until(insert_all(payloads, backfilled), HistorySize)
    /\ finalized_payloads' = pop_first_until(finalized_payloads, FinalizedSize)
    /\ current_slot' = head
    /\ since' = ServedSince
    /\ unchecked' = unchecked \cap payloads'
    /\ synced' = TRUE
    /\ failures' = 0
    /\ pc' = "idle"
    /\ walk_slot' = None /\ prev_parent_hash' = None /\ backfilled' = {} /\ linked' = FALSE
    /\ UNCHANGED <<now, head, finalized, verified>>

Tick ==
    /\ now < MaxSlot
    /\ now' = now + 1
    /\ UNCHANGED <<head, finalized, payloads, finalized_payloads, current_slot,
                   pc, walk, synced, failures, verified, unchecked, since>>

Init ==
    /\ now \in Canon
    /\ head = None /\ finalized = None
    /\ payloads = {} /\ finalized_payloads = {}
    /\ current_slot = None
    /\ pc = "idle" /\ synced = FALSE /\ failures = 0
    /\ walk_slot = None /\ prev_parent_hash = None /\ backfilled = {} /\ linked = FALSE
    /\ verified = {} /\ unchecked = {} /\ since = None

Next ==
    \/ ConsensusSync
    \/ ConsensusAdvance
    \/ CallFails
    \/ FetchLatest
    \/ FetchFinalized
    \/ FetchParent
    \/ BackfillSkip
    \/ BackfillBlock
    \/ BackfillEnd
    \/ Tick

Spec == Init /\ [][Next]_vars

----------------------------------------------------------------------------
(* Properties.                                                             *)

(* The type invariant of the node's state.                                 *)
TypeOK ==
    /\ now \in 0 .. MaxSlot
    /\ head \in Blocks \cup {None} /\ finalized \in Canon \cup {None}
    /\ payloads \subseteq Payloads /\ finalized_payloads \subseteq Blocks
    /\ \A x, y \in payloads : Number[x] = Number[y] => x = y
    /\ current_slot \in Blocks \cup {None}
    /\ pc \in {"idle", "latest", "finalized", "backfill", "walk"}
    /\ walk_slot \in 0 .. MaxSlot \cup {None}
    /\ prev_parent_hash \in Payloads \cup {None}
    /\ backfilled \subseteq Payloads /\ linked \in BOOLEAN
    /\ synced \in BOOLEAN /\ failures \in 0 .. MaxFailures
    /\ verified \subseteq Blocks /\ unchecked \subseteq Payloads
    /\ since \in 0 .. MaxSlot + 1 \cup {None}

(* The cache holds only blocks that the consensus client has verified,     *)
(* their ancestors, and what the code takes on trust: the payloads of a    *)
(* walk that get_payloads began from another answer for end_slot than the  *)
(* head's block, and those from the first one on that carries a hash which *)
(* is not its own.  So from an honest provider, whatever blocks it leaves  *)
(* out, serves from other branches or serves for other slots, the cache is *)
(* filled from the chains of verified blocks alone.                        *)
OnlyVerifiedPayloads ==
    payloads \ unchecked \subseteq UNION {ChainOf[b] : b \in verified}

(* What is served under the tag Finalized is a block of the finalized      *)
(* chain; once update_payloads has succeeded it is no older than the       *)
(* finalized header (it is newer only after a second sync, from an older   *)
(* checkpoint, see ConsensusSync).                                         *)
FinalizedTagIsFinal ==
    Unlocked /\ synced =>
        /\ get_payload_finalized \in Canon
        /\ failures = 0 => get_payload_finalized >= finalized

(* What the provider served is not lost: of the head's chain, as far back  *)
(* as every block was served (through failed calls and calls that skipped  *)
(* blocks, but not past the last payload of another chain that was         *)
(* inserted), a block is missing after a successful call only if as many   *)
(* later ones are cached as fit.  The one exception is the head itself,    *)
(* which the finalized block replaces if it has the same number.  The      *)
(* first backfill reaches HistorySize slots back, unless the head is in    *)
(* the first HistorySize slots of the chain.                               *)
NoGapsInServedChain ==
    Unlocked /\ synced /\ failures = 0 =>
        \A b \in {x \in ChainOf[head] : since <= x} :
            \/ b \in payloads
            \/ Cardinality({y \in payloads : Number[y] > Number[b]}) >= HistorySize
            \/ b = head /\ Number[b] = Number[finalized]

(* The caches do not outgrow their sizes but by the payloads of calls that *)
(* returned early, before the pruning, since the last success.             *)
CachesBounded ==
    Unlocked => /\ Cardinality(payloads) <= HistorySize + 2 * failures
                /\ Cardinality(finalized_payloads) <= FinalizedSize + failures

(* Neither a reorganisation nor pruning nor a failed call takes back what  *)
(* block number eth_blockNumber would report, or the finalized block.      *)
ReportedNumbersNeverDecrease ==
    [][ /\ payloads # {} =>
               Number[last_value(payloads')] >= Number[last_value(payloads)]
        /\ finalized_payloads # {} /\ synced =>
               Number[last_value(finalized_payloads')]
                   >= Number[last_value(finalized_payloads)] ]_vars

(* rpc.md says that eth_blockNumber "Returns the number of the most recent *)
(* block": when the answer is not an error, its block is no older than the *)
(* delay check_head_age allows.                                            *)
AnsweredBlockIsRecent ==
    Unlocked /\ synced /\ get_block_number # None => now - get_block_number <= MaxHeadDelay
=============================================================================
