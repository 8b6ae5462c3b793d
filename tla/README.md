# Verification of the light client (Helios / forcerelay-verifier)

The repository is an Ethereum light client: it follows the beacon chain with the
sync committee protocol from a trusted checkpoint, keeps the execution payloads
of the newest blocks, and answers JSON-RPC queries from data it has checked
against them.  This directory models it in TLA+, checks the models with TLC on
small instances and proves the central properties with TLAPS.

## The system

| component | state | operations | interacts with |
|---|---|---|---|
| consensus client (`consensus/src/consensus.rs`) | `LightClientStore` (finalized and optimistic header, current and next committee, participation of this and the previous period), `initial_checkpoint`, `last_checkpoint` | `bootstrap`, `sync`, `advance`, `verify_generic_update`, `apply_generic_update` | one beacon RPC provider, which it does not trust; the system clock |
| update schedule (`client/src/client.rs`, `duration_until_next_update`) | none | one round of `advance` four seconds into each slot | consensus client, node |
| node (`client/src/node.rs`) | `payloads`, `finalized_payloads`, `current_slot` | `sync`, `advance`, `update_payloads`, the queries | consensus client (its headers), provider (blocks), execution client |
| client process (`client/src/client.rs`, `database.rs`, `cli/src/main.rs`) | the tasks, the node's read-write lock, the checkpoint file | `start`, fallbacks, advance thread, `save_last_checkpoint`, `shutdown`, ctrl-c | node; the next process, through the file |
| JSON-RPC server (`client/src/rpc.rs`) | none | one handler per method, under the read lock | node |
| checkpoint fallbacks (`config/src/checkpoints.rs`) | list of services | fetch from one or from all | client process |
| execution client (`execution/src`) | none | proofs of accounts, receipts, logs; fee history | execution RPC provider, payloads |
| EVM (`execution/src/evm.rs`) | the accounts fetched for one call | `call`, `estimate_gas`, the interpreter's reads | execution client, payloads, the runtime's worker threads |
| configuration and builder (`config/src`, `client/src/client.rs`, `cli/src/main.rs`) | `helios.toml` | merging of built-in values, file, command line and builder | client process |
| SSZ types, TypeScript binding | none | decoding, wrapping | all |

What is hard about it:

* **The provider is not trusted.**  Every answer may be forged, replayed, of
  another branch or another period.  Safety rests on the order of the checks in
  `verify_generic_update` and on the store being exactly one step behind.
* **Every `?` is a partial failure.**  `sync`, `advance` and `update_payloads`
  return at any of several awaits with the state as far as they got, and are
  called again.
* **No force updates.**  A store that falls too far behind can verify nothing
  any more.
* **Two ages.**  Queries check the age of the consensus header and answer from
  the payload cache; the two can drift apart.
* **Crashes.**  The checkpoint file is truncated and then written, by a task
  that may be killed; what is left is the next root of trust.
* **Several networks, one disk.**  The file does not say whose checkpoint it
  holds; the directory, which is an option, has to.
* **A blocking interpreter.**  The EVM is synchronous: where it misses data it
  blocks the thread that may be needed to fetch it.
* **One lock.**  `start`, the advance thread, all queries and the shutdown share
  a fair read-write lock and hold it across network requests.

The correctness properties of each component are listed with its module below;
`PROJECT.json` lists the hazards line by line with the properties that cover
them.

## Modules

| module | models | used by |
|---|---|---|
| `ConsensusClient` | the consensus client against any provider | all the consensus modules |
| `FollowedChain` | what a light client promises: it follows one finalized chain and knows its committees | refinement target of `ConsensusClient` |
| `MCConsensusClient` | instance: three and a half periods of two epochs of two slots, an empty epoch boundary, genuine and forged updates | run `consensus` |
| `ConsensusSchedule`, `MCConsensusSchedule` | `ConsensusClient` with an honest provider on the schedule of the advance thread | run `schedule` |
| `Node`, `MCNode` | the payload caches and the queries that read them | runs `node`, `node_recent` |
| `Configuration` | how built-in values, `helios.toml`, command line and builder make a configuration (operators, no state) | `Client` |
| `Client`, `MCClient` | process, lock, files, crashes, successive processes of several networks | run `client` |
| `CheckpointFallback`, `MCCheckpointFallback` | the checkpoint services and the vote among them | run `fallback` |
| `PatriciaProof`, `MCPatriciaProof` | `verify_proof`, one step per node of a proof | runs `patricia`, `patricia_exclusion` |
| `Execution`, `MCExecution` | the queries of the execution client, one step per request | runs `execution`, `execution_fee_history` |
| `Evm`, `MCEvm` | `get_account`, the account queries, calls and the interpreter's reads, one step per request | runs `evm`, `evm_empty_storage` |
| `ConsensusClientProofs`, `NodeProofs`, `ClientProofs`, `CheckpointFallbackProofs`, `PatriciaProofs`, `ExecutionProofs`, `EvmProofs` | the inductive invariant of each module, and the theorems | `tlapm` |
| `OrderLemmas` | the least element of a set of numbers, the greatest value on a finite set | the proofs of `ConsensusSchedule`, `Node`, `CheckpointFallback`, `Execution` and `PatriciaProof` |

### ConsensusClient

The variables are the fields of `ConsensusClient` and of its `LightClientStore`,
the clock `now` (a slot), and `pc`, the request being awaited.  One action is
one answer: `Bootstrap`, `SyncUpdate`, `SyncFinality`, `SyncOptimistic`,
`AdvanceFinality`, `AdvanceOptimistic`, `AdvanceCommittee`, each verifying and
applying one update as the code does, with the clock moving (`Tick`) in between
and `SyncError` / `AdvanceError` for every early return.  `sync` takes the
updates of a list one by one, so `SyncUpdate` repeats until `SyncUpdatesDone`;
the limit of 128 updates (`MAX_REQUEST_LIGHT_CLIENT_UPDATES`) is not imposed,
which allows more than the code does.  `NewClient` is the fallback's
replacement of the client.

A header is its slot and the chain it is on: `canonical` (finalized in the end),
`orphan` (genuine, dropped by fork choice), `forged`, or the default one.  A
real committee is the number of its period.  A Merkle proof against a genuine
header's state shows what is in that state; against a forged header it shows
anything.  A signature of a real committee on a forged header exists for at
most `MaxFaulty` participants, and honest members sign only genuine blocks that
are not of a later period than their own.  Nothing else is assumed of the
provider.  `FaultAssumption` (3 * MaxFaulty < 2 * CommitteeSize) is what the
two-thirds rule of `should_apply_update` needs.  The width of integers does
not matter here, except where the age of a checkpoint ahead of the clock wraps
(`is_valid_checkpoint`); that no other difference goes below zero is a property.

Properties:

* `StoreOnCanonicalChain`: the finalized header is canonical, the current
  committee is that of its period, the next one is unknown or that of the next.
* `HeadBetweenFinalizedAndClock`: the order of the three slots that the
  unsigned subtractions of `age` and `check_head_age` rely on.
* `SavedCheckpointIsTrustworthy`: what `last_checkpoint` may be.
* `HeadersNeverRegress`: no step but a bootstrap takes a header back.
* `MinorityCannotMoveTheHead`: the safety threshold does its work, across the
  rotation that resets the current participation.
* `FollowsFinalizedChain`: the whole specification implements `FollowedChain`
  under the mapping "followed slot = slot of the finalized header, committees =
  those in the store".

### ConsensusSchedule

The same actions, driven by an honest, synced beacon node (`HonestUpdate`,
`BestUpdate`, external code modelled from what the client asks for) and one
round per slot, with at most `MaxMissed` failed rounds in a row (a request of
`bootstrap` or `sync` may fail too; `start` is then called again in the next
slot).
`NeverStranded`: between two rounds the store can still verify today's
signatures.  `CatchesUp`: in the end the store holds the last finalized block
and the last head.  Both hold with `MaxMissed` = 2 in the instance, and
`NeverStranded` fails with 3: the tolerance is the number of slots between the
finality of a period's first block and the end of that period, about one period
minus three epochs in the real network (a day), because `advance` learns the
next committee only from an update of the store's own period.  `Finality` says
this of a chain: a block finalizes an earlier block and no older one than the
block before it, and in the last `MaxMissed` + 1 slots of a period the chain has
finalized a block of that period.  `MCConsensusSchedule` assumes it, so TLC
evaluates it on the instance, where it is true of 2 and false of 3.

Fairness: weak fairness of the whole next-state relation.  The advance thread
is a loop that never ends, `start` is called again by the user if it failed,
and the sleep ends; failures are bounded by `MaxMissed`, not by fairness.

### Node

A block is named by its slot.  `payloads` and `finalized_payloads` are the
values of the two maps (a map by block number holds at most one block of each
number).
`ConsensusSync` and `ConsensusAdvance` move the two headers as the
theorems about the consensus client allow; `FetchLatest` and `FetchFinalized`
are the first two awaits of `update_payloads`, and `CallFails` the early return
at any of them.  The third is the backfill: `FetchParent` is the request of
`get_payloads` for the block of `end_slot`, `BackfillSkip` and `BackfillBlock`
look at the answers for the slots below one by one, and `BackfillEnd` inserts
what was taken and prunes both caches.  Queries are operators, evaluated in
states where no call holds the lock.

The provider may answer a request with any payload.  The blocks of the two
headers are compared with them.  In the backfill the code compares no more than
the `block_hash` that each payload carries with the `parent_hash` of the one
before it: it neither recomputes that hash nor compares the block of `end_slot`,
which it fetches a second time, with the head.  So a provider that is dishonest,
or that changes its branch between the two requests, has payloads cached that are
no ancestors of a verified block.  The model has these (`Forged`, and any answer
of `FetchParent`); the history variable `unchecked` is the set of the cached
payloads that came after an answer that was not genuine.

* `OnlyVerifiedPayloads`: but for the `unchecked` ones, the cached payloads are
  verified blocks and their ancestors, whichever blocks the provider leaves out,
  takes from other branches or serves for other slots.
* `FinalizedTagIsFinal`: the tag `Finalized` is a finalized block, no older than
  the finalized header once a call succeeded.
* `NoGapsInServedChain`: the backfill starts at `current_slot`, which moves with
  the head whether or not the walk found every block.  Of the head's chain, as
  far back as every block was served, none is missing from the cache before it
  is pruned, whatever calls failed in between.  How far back that is, is the
  history variable `since`: it starts anew at a block that was left out, at a
  change of branch (a backfill inserts over the blocks of the other one), after
  a payload of another chain was taken, and
  for a head in the first `HistorySize` slots, where `start_slot` wraps and the
  first backfill is empty.  The head itself may be missing in one case: a head
  of another branch with the number of the finalized block, which replaces it.
* `CachesBounded`: early returns are the only way over the sizes.
* `ReportedNumbersNeverDecrease`: through reorganisations, pruning, failures.

### Client

Tasks (`main`, `advance`, `shutdown`, the queries) move through labels that
stand for the code between two awaits; a label in `Writing` or `Reading` needs
the node's lock.  The lock is tokio's fair one: a queue, in which only the
first may acquire.  The checkpoint file of each directory is absent, torn (not
32 bytes) or a checkpoint, which is named by its network and epoch.  `Exit` is
the end of the process in any way; `Crash` may come between any two steps, and
`Build` starts the next process in any of the ways of `Starts`: by `main`, with
a section of `helios.toml` and options, or by a program that sets up a builder.
`StartsAssumption` says what these can be; in particular a section of the file
describes one network, and a directory that an option names is not the default
directory of another network.
The configuration is what `Configuration` makes of that; `BuildFails` is a
missing field or directory.  A process with a server answers queries from the
start of `start` on, one without only after it.  Epochs stand for time; a sync
or advance moves `finalized` and `last_checkpoint` as `ConsensusClient` does,
and succeeds only from a checkpoint of the chain of the configuration, since
`check_rpc` has compared the providers with it.  A sync may be turned down as too
old from any checkpoint (`SyncTooOld`): the age is that of the header as served,
before it is verified.

* `StartsFromKnownCheckpoint`: what a process starts from, whenever the one
  before was killed and whatever network that was for.  The exceptions are in
  the property: a checkpoint or directory that the user named (a directory of
  the file has no effect, see *Observations*), a network without a chain (misspelt, or
  without its section) and a configuration without any checkpoint, which cannot
  sync.
* `SavedCheckpointNeverRegresses`: what it leaves.
* `SavesDoNotOverlap`: a read lock does not keep two saves apart, the order in
  `main` does.
* `ShutdownCompletes`, `NoTaskStarves`: liveness of the lock.

Fairness: weak fairness of each task's own steps (the tokio scheduler, and the
fair lock).  It includes that requests end: the HTTP clients set no timeout, so
this is an assumption on the network, and a request that hangs does block the
shutdown (the third ctrl-c is the way out).  No fairness is assumed of users,
crashes, queries or the clock.

### CheckpointFallback

One fetch of a checkpoint, from the explicit service or from the public list.
The healthy services are asked at once, and each answers (`QueryService`) or
fails on its own while the clock moves; `Choose` is the code after `join_all`.
Ties are broken by the order of a `HashMap`, so any of the most common roots may
be returned.  Honest services report the checkpoints of this epoch and the last,
the newest perhaps without a root; the others report anything.

* `HonestServicesPrevail`: when the vote gives the genuine checkpoint.  Both
  conditions are needed: the latest epoch that *anybody* claims decides which
  answers count.
* `OneServiceIsEnough`: failures of some services.
* `FetchEnds`: under weak fairness of each request, which is the assumption
  that requests end (the code sets no timeout).

### PatriciaProof

A node of a trie is named by the set of pairs below it, so that its name can
stand for its hash and its kind follows from its contents; no tree has to be
built.  The loop of `verify_proof` is a behaviour: a step takes a node with the
expected hash, inner or last, or ends the walk.  Paths of nodes carry the
hex-prefix, so that `skip_length` and the offsets do their work.

The walk may leave the trie in one way.  A leaf that is not the last node is
taken for an extension, and its value for the hash of the next node
(`proof.rs:49`).  An encoded account is longer than a hash, but a slot of 31
bytes is encoded in 32: `NodeHashes` is the set of values that are the hash of a
node which the provider has, and after one of them (`BeyondLeaf`) the verdict is
any, or a panic where `get_nibble` reads beyond the path.  And the walk may
panic at a node of the trie: `Inlined` is the set of nodes of under 32 bytes,
which Ethereum holds in their parent instead of their hash, and `decode_list`
panics at a list (`ProofPanics`).  Both sets are parameters, and both are
nonempty in the run `patricia`.  In Ethereum's state they are rare, since keys
are hashed: an inlined node needs a path of 64 nibbles that is shared almost to
its end.

* `InclusionIsSound`, `ExclusionIsSoundOffPath`: what is accepted holds of the
  trie, unless what the trie holds for the key is in `NodeHashes`.
* `CompleteProofIsAccepted`: what an honest provider sends is not turned down,
  and nothing panics but a node with an inlined one, or a walk beyond a leaf.
* `ExclusionIsSound` is violated: a last node that is an extension on the path
  is taken for the end of the trie on that path (a finding; its instance has
  neither inlined nodes nor values that are hashes).

A trie has at least one key.  An empty trie has no nodes, and `verify_proof`
rejects a proof without nodes.

### Execution

A query is asked over a fixed cache (it holds the read lock), of which the
instances have gaps and stale blocks, as `Node` may leave them.  Each request is
a step: the provider is honest, on a chain that may change between two requests
(`Reorg`), or answers anything.  The content of a receipt is what its encoding
covers.  That the transaction and block named in a receipt are not covered by
the receipts root, and that the hash asked for is not compared with the answer,
is in the code and in the model; hence two kinds of property:

* whatever the provider answers, only data that a cached block commits to is
  returned (`AnswersAreCommitted`: receipts, logs and transactions);
* from an honest provider it is the right data in spite of reorganisations
  (`HonestAnswerIsRight`), and is not turned down without one
  (`HonestAnswerIsAccepted`);
* `FeeHistoryHasNoGaps`: a fee history has no gap and ends at the block asked
  for or the newest, and if the count is not larger than the number of that
  block and every block asked for that is not older than the cache is there, all
  of these are in it.
* `FeeHistoryIsComplete` is violated (a finding): a history longer than the chain
  is empty, because the unsigned subtraction of `get_fee_history` wraps and is
  then not clamped.

An answer that lacks an optional field is an error or a panic of its own step
(`IncompleteReceipt`, `IncompleteLog`).

### Evm

Tasks answer `eth_call`, `eth_estimateGas` and the account queries over a fixed
cache (they hold the read lock).  `get_account` is the function of the same
name: the proof is accepted as `PatriciaProof` says (what is in the trie, or
absence where an early end of the proof is taken for it), the slots are those
of the answer, and the code has the proved hash.  `NodeHashes` and `Inlined` of
`PatriciaProof` are taken to be empty here: that no slot of the state holds the
hash of a node which the provider has, and that no node is inlined, is an
assumption of this module.  `PrefetchAnswer` takes the
answers of `batch_fetch_accounts` in the order of their insertion; the requests
of a batch run at once, but neither depends on another, and a call reads none
of them before the last.  The interpreter is its sequence of reads (`reads`, an
input) and its exit; `AtHand` is what `ProofDB` answers at once, `ReadBlocks`
and `ReadAnswer` the request in `spawn_blocking` that the worker waits for.

* `ReadsAreOfTheBlock`: whatever the provider puts in its lists, proofs and
  code, what the interpreter reads is in the state of its block, or is empty
  (the weakness of exclusion proofs).  Precompiled addresses are not looked up.
* `HonestReadsAreRight`: from an honest provider it is exactly the state of the
  block, although requests name blocks by number and branches change.
* `HonestCallSucceeds`: a call that reads what can be read succeeds, whatever
  the access list has and lacks; a revert and a hash of a block that is not
  cached are errors.
* `StoragePositionsAreReturned` is violated (a finding): the storage trie of an
  account without storage has no nodes, and a proof of no nodes is rejected.
* `OnlyReplacedEntriesMiss`: for which reads a call has to block a worker.
* `CallsEnd`: every query ends, unless as many calls as there are workers block
  at once (`AllBlocked`).  That state is reachable, in the instance with two
  calls; it is the one way in which the runtime can come to a halt.

Fairness: weak fairness of each task's steps: a worker that is free takes what
is ready, and requests end (again an assumption on the network).  No fairness
is assumed of the callers.

## Runs

| run | result | distinct states | bounds and why they are enough |
|---|---|---|---|
| `consensus` | passes | 22,802 | 14 slots, 3.5 periods: two rotations, updates of the wrong period on either side, finality that skips an epoch boundary; committee of 4 with 2 faulty members, the most the assumption allows; every participation from 0 to 4 |
| `schedule` | passes | 4,407 | 16 slots of 6-slot periods: every alignment of the checkpoint with a period, and two periods after it |
| `node` | passes | about 481,000 | 5 blocks in the slots 1 to 6, of which one is empty, a dropped branch whose block has a lower number than the head before it, a forged payload that carries the hash of a block; any payload as the answer to any request of the backfill; caches of 2 and 2; two failed calls in a row |
| `client` | passes | about 323,000 | two processes, three epochs, ten ways to start: three networks, of which one is in `helios.toml`, a shared directory, every way out of an old checkpoint, a library client; a query, which is enough to overtake a waiting writer for ever |
| `fallback` | passes | about 35,000 | two honest services and two others, three epochs: answers on both sides of an epoch's turn, ties, every subset failing |
| `patricia` | passes | about 294,000 | every trie of up to 4 of the 8 keys of 3 binary nibbles: leaves of 0 to 3 nibbles, extensions of 1 and 2, branches at each depth; two values, of which one is the hash of a node, and the leaves of the other with nothing left of their path inlined |
| `execution` | passes | about 1,229,000 | five blocks of two branches, caches behind the provider, with a gap and with a stale block; 2 logs at most |
| `evm` | passes | about 230,000 | two tasks, two workers (so that they can block each other); a contract with and without storage, a precompile; two branches that differ in account, slot and code; calls of up to three reads, with lists that lack or replace what is read |
| `node_recent` | violated | | `rpc.md:17`: `eth_blockNumber` returns an old block while the header is recent, after a call of `advance` that failed at its first block request |
| `execution_fee_history` | violated | | `tests/feehistory.rs:66`: a fee history longer than the chain is empty |
| `evm_empty_storage` | violated | | `rpc.md:23`: `eth_getStorageAt` of an account without storage is an error |
| `patricia_exclusion` | violated | | `proof.rs:33`: an extension on the path of a key is accepted as the end of an exclusion proof |

Deadlock checking is off in the runs whose clock or number of processes ends at
its bound, and in those of a single query, fetch or proof, which ends.  Each property of a passing run has a mutant in `PROJECT.json`: a
plausible change of one definition under which TLC finds it violated.

## Proofs

Every invariant and every action property of a passing run and the refinement
are proved for all values of the constants that
satisfy the assumptions of their module.  In each module the properties are not
inductive as they stand; an invariant (`ClientInv` and `SInv` in
`ConsensusClientProofs`, `Inv` in the others) joins them with what they rest on, one lemma per part or
action shows that the steps preserve it, and the theorems follow from it.  Each
invariant was checked by TLC on the instances before it was proved.

Induction over data is not available to the provers as a rule.  Where an
argument needs it, it is made through `OrderLemmas`: the least counterexample is
taken, by `LeastElement` (which rests on the well-foundedness of `<` on the
natural numbers), and refuted.  So `ChainOf` of `Node` is shown to be the least
set that is closed under parents, a finite map to have a last key, and a finite
set of pairs to have a longest common prefix.

### Consensus client

`TypeCorrect`, `StoreSafety`, `HeadOrder`, `CheckpointSafety`, `Monotonicity`,
`HeadSafety` and `Refinement`, one theorem for each property of the run
`consensus`, for every chain, committee size, period length, bound of the clock
and set of served updates.  `ClientInv` adds to the properties that the
finalized header is not behind the initial checkpoint, that the initial
checkpoint is canonical, and that the store is bootstrapped wherever `pc` says
that an update may be applied.  The argument goes through `VerifiedUpdate`: an
update that verifies against a store on the canonical chain, and has two thirds
of the signatures, is attested by a genuine header of the store's period or the
next, hence its finalized header is canonical and its committee the real one.
`CommitteesUpdated` then shows that the committees move exactly when the
finalized header crosses into the next period, and `AppliedStepFollows` that
each application is a step `Follow`, `Learn` or both of `FollowedChain`, or a
stutter.

### Update schedule

`NotStranded` and `HonestAnswersAccepted`, also in `ConsensusClientProofs`, for
every chain, length of epochs and periods, bound of the clock and `MaxMissed`
for which `Finality` holds: it is the hypothesis of these theorems and of no
other.  `NotStranded` is the invariant of the run; `HonestAnswersAccepted` says
that in `advance` an honest provider has the update that is asked for and it
verifies, so that the second case of `CallFails` (an honest answer rejected) and
`AdvanceError` for want of an update never happen once `sync` is done.

`NeverStranded` says nothing of how the store came to be where it is.  `SInv`
joins to `ClientInv`:

* `ScheduleTyped`: the store is never ahead of what the chain has finalized.
* `UpdatesSoFar`: while `sync` works through the periods it has not passed the
  current one, and when it has, the store has `Learnt`: if the chain has
  finalized a block of this period, so has the store, and it knows the next
  committee.
* `RoundSoFar`: after the finality update of a round the store has what the chain
  has finalized; a round ends knowing the next committee; and the current period
  is within `Reach`, the last period whose signatures the store can check.
* `OnTime`: there was a successful round at some `t`, not longer ago than the
  failures since then, and what was finalized at `t` is of a period before
  `Reach`.

The clock is what could break it (`NextSlotKeeps`).  If the next slot is of a new
period and the current one is the store's `Reach`, then by `OnTime` the last
success, at `t`, saw finality in an earlier period only, and is at most
`MaxMissed` slots ago; but then (`BeforePeriodEnds`) `t`, or the first slot of
the period if that is later, is among the last `MaxMissed` + 1 slots of the
period, and by `Finality` the chain had finalized a block of it: not so at `t`,
and impossible at the first slot, which has only earlier blocks before it.  For `sync`,
`UpdatesAvailable` shows that each period up to this one has an update, and
`BestCandidate` that the provider's choice among several finalizes a block of
its own period if any does.

### Node

`TypeCorrect`, `PayloadsVerified`, `SizesCorrect`, `FinalizedCorrect`,
`ServedChainComplete` and `NumbersNeverDecrease`, for every tree of blocks, size
of the caches and number of failures.  `CanonAssumption` is finality: of two
finalized blocks one is an ancestor of the other.  The part of `Inv` that takes
the work is `ServedCovered`: what was served of the chain of the *last backfill*
(`current_slot`, not the head) is cached or has been pruned, in the midst of
calls that failed too.  It is kept because an insertion replaces a block only by
one of the same number (`Covered` counts the higher ones), and pruning keeps the
blocks of the highest numbers.  `PayloadsVerified` rests on `WalkLinked`: as long
as the answers of a walk were genuine, beginning with the head's own block, the
hash that the next payload must carry is that of an ancestor of the head, so that
what is taken is one too; what is taken later is in `unchecked`.  The theorem
says nothing of `unchecked` payloads, as the code checks nothing of them.

### Client process

`TypeCorrect`, `StartsCorrect`, `SavesExclusive` and `NeverRegresses`, and
`LockCorrect`: a task whose code needs the lock holds it or waits in the queue,
once, and a writer holds it alone.  For every set of networks, directories,
starts (`StartsAssumption`) and queries and every number of processes.  `Inv`
says where each task may be (`TasksOK`: only the main one until `start` has
returned, which is what keeps two saves apart), what the configuration can be
(`SetupOK`), that a file is torn or holds a checkpoint that was seen finalized,
in a network's own directory by a client of that network (`DiskOK`), and that a
client that started from the file never falls behind what was saved
(`NotBehind`, from the checkpoint through the sync to the file).

### Checkpoint fallbacks

`TypeCorrect`, `OneIsEnough` and `HonestPrevail`, for every finite number of
services, list and order of the answers.  `HonestReports` is that an honest
service's answer is genuine and at most one epoch older than the time at which
it was asked; the rest is counting: the votes of the honest are for one root,
and the others are fewer.

### Patricia proofs

`TypeCorrect`, `InclusionSound`, `ExclusionSound` and `ProofsAccepted`, for
every finite trie, path length and choice of nodes by the provider.  The
invariant is `Walk`: the expected hash is that of the node of the trie at the
nibbles behind (`At(path_offset)`: the pairs that begin with them, without
them), or is the value that the trie holds for the key.  The second case is why
the theorems on soundness except a held value in `NodeHashes`, and shows that
they need no other exception.  What has to be shown for a step is that the node named
by a set of pairs is an extension, branch or leaf by these pairs' common prefix
(`OrderLemmas` again), and that the next offset, which the code computes from
the length of the encoded path and its prefix nibble, is the length of what was
compared.

### Execution client

`TypeCorrect`, `AnswersCorrect`, `HonestCorrect`, `AcceptedCorrect` and
`FeeHistoryCorrect`, for every set of blocks, branches and caches, gaps and
stale blocks included.  `ChainAssumption` (a branch has one block of a number,
and a transaction once) is used for honest providers only.  `Inv` follows the
query: which transaction is `wanted`, what the answers so far are
(`ReceiptsSoFar`, `TransactionsSoFar`: anything, except that an honest provider
answers what it was asked, and a `Steady` one, which has not changed its chain
and whose chain the cache follows, with what the cached block has), how many
logs are proved (`LogsSoFar`) and that the logs of an open range are of cached
blocks (`LogsFound`).  The fee history (`FeeHistoryCorrect`, of a count that does not
wrap, and of what is returned when it does) needs no induction: what is proved is
the arithmetic of the range, the wrapped subtraction included.

### EVM

`TypeCorrect`, `ReadsCorrect`, `HonestReadsCorrect`, `CallsCorrect` and
`MissesCorrect`, for every state, provider, number of tasks and workers, with the
proofs of `get_account` as the module has them (no value is a node's hash, no
node is inlined).
`AccessListAssumption` is what an honest provider's `eth_createAccessList`
gives; nothing is assumed of another's.  `Inv` is that what is in the database
of a call is what `get_account` let through for the block of the call
(`Database`), that what was read so far is of the block (`ReadSoFar`) and was
readable (`Undisturbed`), and that each item asked for is still to be fetched,
is in the database, or cannot be there (`Prefetched`), which is what bounds the
reads that miss (`Misses`).

### What the proofs found

* `NoGapsInServedChain` was not true without its last case: a head with the
  number of the finalized block, on another branch, is overwritten by it in the
  same call.  Chains that change branch between two backfills had to restart
  `since`.
* `StartsFromKnownCheckpoint` did not allow for a configuration without any
  checkpoint, which the builder accepts.
* In `ConsensusSchedule` the requests of `bootstrap` could not fail, although
  those of the rest of `sync` could; they can now, and the properties hold.
* In `HonestAnswerIsAccepted` a quantifier had taken in more of the antecedent
  than was meant; the property holds as it is meant.

None of these is at odds with a statement of the repository.

### Only model-checked

* Liveness (`CatchesUp`, `ShutdownCompletes`, `NoTaskStarves`, `FetchEnds`,
  `CallsEnd`): fairness is outside the prover's reach.

## Observations

Read in the source while modelling, and not the subject of a run:

* `syncing` calls `get_block_number()?` in its branch for a head that is too old
  (`node.rs:335`), which makes the same check again: the answer is an error and
  the sync status that `rpc.md:27` speaks of is never returned.
* `as_provider` gives `data_dir`, `load_external_fallback` and
  `strict_checkpoint_age` a value whether or not they were on the command line
  (`cli.rs:51`), and the command line is merged over `helios.toml`
  (`config.rs:49`): the file has no effect on these three, although `config.md:3`
  says that all options can be set there.  `Configuration` has this.
* The backfill takes the second answer for `end_slot` and the `block_hash` of
  each payload on trust (`consensus.rs:119`); see `Node`.
* A leaf is taken for an extension when it is not the last node
  (`proof.rs:49`), and a node that is inlined in its parent is a panic
  (`proof.rs:14`); see `PatriciaProof`.

## Not modelled

Hashing, Merkle branches, BLS and the EVM interpreter are external and enter as
the predicates they decide.  Decoding, formatting and logging are left out.
SSZ types are declarations and serde adapters, without behaviour.  The gas that
a call uses and the environment of `get_env` do not enter the models: the
interpreter's reads are an input.  The TypeScript binding wraps each client call
in one of its own.  `syncing` combines queries that are modelled.  The wasm variant of the advance thread (an interval that
spawns a call every 12 seconds whether or not the last one has ended) and
`ConfigDB`, which saves nothing, run in a browser with one thread and are not
modelled.  `verify_fee_history` is called from nowhere.  The headers of `Node`
move as the theorems `StoreSafety`, `HeadOrder` and `Monotonicity` of the
consensus client allow; a module with both components would add only the
interleaving that the write lock excludes.
A panic aborts the process in the release build (`Cargo.toml`), so outside the
module that meets it a panic is the `Crash` of `Client`.

## What is left

* The liveness properties for all constants; the provers at hand do not do
  fairness.
* Some assumptions on constants may be stronger than a proof needs.
* `Evm` with values that are hashes of nodes and with inlined nodes, as
  `PatriciaProof` has them.
* `Finality` bounds the outage that the client survives.  It asks for the same
  tolerance at the end of every period; a chain that stops finalizing for a
  whole period breaks it, and the client cannot survive that.
