------------------------------- MODULE Client -------------------------------
(***************************************************************************)
(* The client process: client/src/client.rs, client/src/database.rs and    *)
(* cli/src/main.rs.                                                        *)
(*                                                                         *)
(* A process loads a checkpoint, syncs from it (or from a fallback's       *)
(* checkpoint when it is too old), saves what it has seen finalized, then  *)
(* advances for ever, answers queries and shuts down on ctrl-c.  Its tasks *)
(* share the node behind a read-write lock; the checkpoint file is what    *)
(* one process leaves to the next, and a crash may come at any step.       *)
(*                                                                         *)
(* A process is started from the command line, with options there and in   *)
(* helios.toml (Configuration), or by a program that has the client as a   *)
(* library; processes of several networks follow each other on one disk.   *)
(*                                                                         *)
(* Time is counted in epochs and a checkpoint is named by its network and  *)
(* epoch.  Of the node this module keeps the consensus client's            *)
(* checkpoint, its finalized epoch and its last_checkpoint.                *)
(***************************************************************************)
EXTENDS Configuration, Integers, Sequences, FiniteSets

CONSTANTS
    MaxEpoch,          \* bound: the last epoch of the clock
    MaxBoots,          \* bound: processes started
    Queries,           \* the tasks that answer RPC requests
    Networks,          \* the built-in networks and those of helios.toml
    Dirs,              \* the directories of checkpoint files
    Starts,            \* the ways in which a process may be started
    Torn               \* a file of fewer than 32 bytes

Epoch == 0 .. MaxEpoch

Checkpoint == [network : Networks, epoch : Epoch]

ASSUME ClientAssumption ==
    /\ MaxEpoch \in Nat /\ MaxBoots \in Nat /\ max_checkpoint_age \in Nat
    /\ BuiltIn \subseteq Networks /\ Networks \subseteq Dirs
    /\ default_checkpoint \in [BuiltIn -> Checkpoint]
    /\ \A n \in BuiltIn : default_checkpoint[n].network = n
    /\ None \notin Dirs /\ None \notin Starts /\ {None, Torn, Err} \cap Checkpoint = {}
    /\ EmptyCheckpoint \notin {None, Torn} /\ None # Torn
    /\ Queries \cap {"main", "advance", "shutdown"} = {}

(* The values that a source of options may give: a directory is not the    *)
(* default one of a network, where this is of another.                     *)
Options(s, fields, dirs) ==
    /\ DOMAIN s \subseteq fields
    /\ "chain" \in DOMAIN s => s.chain \in Networks \cup {None}
    /\ "default_checkpoint" \in DOMAIN s =>
          s.default_checkpoint \in Checkpoint \cup {EmptyCheckpoint}
    /\ "checkpoint" \in DOMAIN s => s.checkpoint \in Checkpoint \cup {None}
    /\ "data_dir" \in DOMAIN s => s.data_dir \in dirs

ASSUME StartsAssumption ==
    \A s \in Starts :
        \/ /\ s.program = "library"
           /\ Options(s.builder, BuilderFields, (Dirs \ Networks) \cup {None})
           /\ "network" \in DOMAIN s.builder => s.builder.network \in BuiltIn
           /\ "config" \in DOMAIN s.builder =>
                 /\ DOMAIN s.builder.config = Fields
                 /\ Options(s.builder.config, Fields, (Dirs \ Networks) \cup {None})
        \/ /\ s.program = "main" /\ s.network \in Networks
           /\ Options(s.toml, Fields, Dirs)
           /\ Options(s.cli, CliFields, (Dirs \ Networks) \cup {s.network})
           /\ "chain" \in DOMAIN s.toml => s.toml.chain = s.network
           /\ "default_checkpoint" \in DOMAIN s.toml =>
                 s.toml.default_checkpoint.network = s.network

Tasks == {"main", "advance", "shutdown"} \cup Queries

(* What a task is about to do, or does with the lock in hand.              *)
Writing == {"sync", "replace", "resync", "advance"}
Reading == {"warn", "chain_id", "config", "save", "write_file", "duration", "answer"}
Labels == Writing \cup Reading \cup {"off", "rpc", "fetch", "list", "pending", "sleep"}

VARIABLES
    now,               \* the epoch of the system clock
    boots,             \* processes started so far
    file,              \* the checkpoint file in each directory: None, Torn
                       \* or a checkpoint
    pc,                \* what each task is doing
    holders,           \* the tasks that hold the lock
    queue,             \* the tasks that wait for it
    start,             \* how the process was started
    config,            \* its configuration
    source,            \* where the checkpoint being synced from comes from
    checkpoint,        \* consensus.initial_checkpoint
    finalized,         \* the epoch of the finalized header, None before sync
    last_checkpoint,   \* consensus.last_checkpoint
    counter,           \* the times ctrl-c was pressed
    seen,              \* history: the checkpoints seen finalized by a client
    saved              \* history: the last checkpoint written in full in
                       \* each directory, until a crash tears the file

disk == <<boots, file, seen, saved>>
setup == <<start, config>>
node == <<checkpoint, finalized, last_checkpoint>>
locks == <<pc, holders, queue>>
vars == <<now, disk, setup, locks, source, node, counter>>

Up == pc["main"] # "off"

----------------------------------------------------------------------------
(* The read-write lock of tokio: first come, first served.                 *)

(* Mutant: a reader does not wait behind a waiting writer.                 *)
may_acquire_overtaking(t) ==
    IF pc[t] \in Writing
    THEN t = Head(queue) /\ holders = {}
    ELSE \A h \in holders : pc[h] \in Reading

may_acquire(t) ==
    /\ t = Head(queue)
    /\ IF pc[t] \in Writing THEN holders = {} ELSE \A h \in holders : pc[h] \in Reading

Acquire(t) ==
    /\ \E i \in DOMAIN queue :
          /\ queue[i] = t
          /\ queue' = SubSeq(queue, 1, i - 1) \o SubSeq(queue, i + 1, Len(queue))
    /\ may_acquire(t)
    /\ holders' = holders \cup {t}
    /\ UNCHANGED <<now, disk, setup, pc, source, node, counter>>

(* Task t releases the lock if it holds it, and goes on to label l.        *)
Goto(t, l) ==
    /\ pc' = [pc EXCEPT ![t] = l]
    /\ holders' = holders \ {t}
    /\ queue' = IF l \in Writing \cup Reading THEN Append(queue, t) ELSE queue

(* Task t is at label l, with the lock that l needs.                       *)
At(t, l) == pc[t] = l /\ (l \in Writing \cup Reading => t \in holders)

(* The process ends: only the file remains.                                *)
Exit ==
    /\ pc' = [t \in Tasks |-> "off"]
    /\ holders' = {} /\ queue' = <<>>
    /\ start' = None /\ config' = None
    /\ source' = "config" /\ counter' = 0
    /\ checkpoint' = None /\ finalized' = None /\ last_checkpoint' = None

----------------------------------------------------------------------------
(* FileDB and Client::new.                                                 *)

(* Mutant: what is in the file is taken whatever its length.               *)
load_checkpoint_unchecked(c) ==
    IF file[c.data_dir] = None THEN c.default_checkpoint ELSE file[c.data_dir]

(* Mutant: the file is never used.                                         *)
load_checkpoint_default(c) == c.default_checkpoint

(* The name of the file is the same for every network.                     *)
load_checkpoint(c) ==
    IF file[c.data_dir] \in {None, Torn} THEN c.default_checkpoint ELSE file[c.data_dir]

Build ==
    /\ ~ Up /\ boots < MaxBoots
    /\ boots' = boots + 1
    /\ start' \in Starts
    /\ config' = configuration(start')
    /\ config' # Err
    /\ config'.checkpoint # None => config'.checkpoint.epoch <= now
    /\ checkpoint' = IF config'.checkpoint # None THEN config'.checkpoint
                                                  ELSE load_checkpoint(config')
    /\ Goto("main", "rpc")
    /\ UNCHANGED <<now, file, seen, saved, source, finalized, last_checkpoint, counter>>

(* A field or the directory is missing: the process ends.                  *)
BuildFails ==
    /\ ~ Up /\ boots < MaxBoots
    /\ boots' = boots + 1
    /\ \E s \in Starts : configuration(s) = Err
    /\ UNCHANGED <<now, file, seen, saved, setup, locks, source, node, counter>>

----------------------------------------------------------------------------
(* start.                                                                  *)

(* The RPC server, if there is one, is started first: queries are answered *)
(* from now on.                                                            *)
RpcStart ==
    /\ At("main", "rpc")
    /\ \/ Goto("main", "sync") /\ UNCHANGED <<setup, source, node, counter>>
       \/ config.rpc # None /\ Exit
    /\ UNCHANGED <<now, disk>>

(* check_rpc: the providers are of the chain of the config.  They have no  *)
(* block for the checkpoint of another.                                    *)
Served == config.chain # None /\ checkpoint.network = config.chain

checkpoint_too_old ==
    /\ config.strict_checkpoint_age
    /\ now - checkpoint.epoch >= config.max_checkpoint_age

(* The consensus client moves its finalized header from epoch e to a later *)
(* one in any number of updates; each sets last_checkpoint if its header   *)
(* is the first of its epoch.                                              *)
Finalizes(e) ==
    \E f \in e .. now :
        /\ finalized' = f
        /\ last_checkpoint' \in
              {last_checkpoint} \cup [network : {config.chain}, epoch : (e + 1) .. f]
        /\ seen' = seen \cup {last_checkpoint'}
        /\ UNCHANGED checkpoint

Synced ==
    /\ Served /\ ~ checkpoint_too_old
    /\ Finalizes(checkpoint.epoch)
    /\ Goto("main", "save")
    /\ UNCHANGED <<now, boots, file, saved, setup, source, counter>>

Sync == At("main", "sync") /\ Synced

(* CheckpointTooOld is the one error that start does not return.  The age  *)
(* is that of the header as served: it is compared with the checkpoint     *)
(* only afterwards, so the provider decides whether it is too old.         *)
SyncTooOld ==
    /\ At("main", "sync") /\ config.chain # None /\ config.strict_checkpoint_age
    /\ Goto("main", "warn")
    /\ UNCHANGED <<now, disk, setup, source, node, counter>>

SyncFails ==
    /\ At("main", "sync")
    /\ Exit
    /\ UNCHANGED <<now, disk>>

(* The warning names the checkpoint; then the fallback is tried.           *)
Warn ==
    /\ At("main", "warn")
    /\ \/ config.fallback # None /\ source' = "fallback" /\ Goto("main", "fetch")
       \/ /\ config.fallback = None /\ config.load_external_fallback
          /\ source' = "external"
          /\ Goto("main", "list")
    /\ UNCHANGED <<now, disk, setup, node, counter>>

NoFallback ==
    /\ At("main", "warn")
    /\ config.fallback = None /\ ~ config.load_external_fallback
    /\ Exit
    /\ UNCHANGED <<now, disk>>

(* The list of external services, then the chain the client is on.         *)
List ==
    /\ At("main", "list")
    /\ Goto("main", "chain_id")
    /\ UNCHANGED <<now, disk, setup, source, node, counter>>

ChainId ==
    /\ At("main", "chain_id")
    /\ Goto("main", "fetch")
    /\ UNCHANGED <<now, disk, setup, source, node, counter>>

Fetch ==
    /\ At("main", "fetch")
    /\ Goto("main", "config")
    /\ UNCHANGED <<now, disk, setup, source, node, counter>>

GetConfig ==
    /\ At("main", "config")
    /\ Goto("main", "replace")
    /\ UNCHANGED <<now, disk, setup, source, node, counter>>

(* A new consensus client with the fetched checkpoint, then its sync:      *)
(* the lock is released and taken again in between.                        *)
Replace ==
    /\ At("main", "replace")
    /\ checkpoint' \in [network : {IF source = "external" THEN fallback_network(config)
                                                          ELSE config.chain},
                        epoch : 0 .. now]
    /\ finalized' = None /\ last_checkpoint' = None
    /\ Goto("main", "resync")
    /\ UNCHANGED <<now, disk, setup, source, counter>>

Resync == At("main", "resync") /\ Synced

(* Any error of the fallback leads to the external services, if they are   *)
(* to be used; else, and if those fail, start returns an error.            *)
FallbackFails ==
    /\ \E l \in {"list", "fetch", "config", "resync"} : At("main", l)
    /\ \/ /\ source = "fallback" /\ config.load_external_fallback
          /\ source' = "external"
          /\ Goto("main", "list")
          /\ UNCHANGED <<setup, node, counter>>
       \/ /\ source = "external" \/ ~ config.load_external_fallback
          /\ Exit
    /\ UNCHANGED <<now, disk>>

(* fetch_checkpoint_from_api takes the first slot of an answer that may    *)
(* have none: the main task panics.                                        *)
FetchPanics ==
    /\ At("main", "fetch") /\ source = "fallback"
    /\ Exit
    /\ UNCHANGED <<now, disk>>

----------------------------------------------------------------------------
(* save_last_checkpoint, at the end of start and on shutdown.              *)

(* start returns: the advance thread is spawned and the handler of ctrl-c  *)
(* registered.  shutdown returns: the process exits.                       *)
SaveReturns(t) ==
    \/ /\ t = "main"
       /\ pc' = [pc EXCEPT !["main"] = "pending", !["advance"] = "advance"]
       /\ holders' = holders \ {"main"}
       /\ queue' = Append(queue, "advance")
       /\ UNCHANGED <<setup, source, node, counter>>
    \/ t = "shutdown" /\ Exit

(* There is nothing to save, or the file cannot be opened.                 *)
SaveSkipped(t) ==
    /\ At(t, "save")
    /\ SaveReturns(t)
    /\ UNCHANGED <<now, disk>>

Truncate(t) ==
    /\ At(t, "save")
    /\ last_checkpoint # None
    /\ file' = [file EXCEPT ![config.data_dir] = Torn]
    /\ pc' = [pc EXCEPT ![t] = "write_file"]
    /\ UNCHANGED <<now, boots, seen, saved, setup, holders, queue, source, node, counter>>

(* write_all writes all of it or fails on the way.                         *)
WriteFile(t) ==
    /\ At(t, "write_file")
    /\ \/ /\ file' = [file EXCEPT ![config.data_dir] = last_checkpoint]
          /\ saved' = [saved EXCEPT ![config.data_dir] = last_checkpoint]
       \/ UNCHANGED file /\ saved' = [saved EXCEPT ![config.data_dir] = None]
    /\ SaveReturns(t)
    /\ UNCHANGED <<now, boots, seen>>

----------------------------------------------------------------------------
(* The advance thread and the queries.                                     *)

(* Mutant: the guard lives on to the end of the loop body, so that the     *)
(* thread waits for the read lock with the write lock in hand.             *)
AdvanceReturns_guarded(l) == UNCHANGED locks

AdvanceReturns(l) == Goto("advance", l)

Advance ==
    /\ At("advance", "advance")
    /\ Finalizes(finalized)
    /\ AdvanceReturns("duration")
    /\ UNCHANGED <<now, boots, file, saved, setup, source, counter>>

Duration ==
    /\ At("advance", "duration")
    /\ Goto("advance", "sleep")
    /\ UNCHANGED <<now, disk, setup, source, node, counter>>

Wake ==
    /\ At("advance", "sleep")
    /\ Goto("advance", "advance")
    /\ UNCHANGED <<now, disk, setup, source, node, counter>>

(* With a server queries may come from its start on; start keeps the       *)
(* client to itself until it returns.                                      *)
Ask(q) ==
    /\ IF config # None /\ config.rpc # None THEN pc["main"] \notin {"off", "rpc"}
                                            ELSE pc["main"] = "pending"
    /\ pc[q] = "off"
    /\ Goto(q, "answer")
    /\ UNCHANGED <<now, disk, setup, source, node, counter>>

Answer(q) ==
    /\ At(q, "answer")
    /\ Goto(q, "off")
    /\ UNCHANGED <<now, disk, setup, source, node, counter>>

----------------------------------------------------------------------------
(* main.rs: the handler of ctrl-c.                                         *)

(* Mutant: the handler is registered before start.                         *)
handler_registered_early ==
    pc["main"] \notin {"off", "rpc"} /\ start.program = "main"

handler_registered == pc["main"] = "pending" /\ start.program = "main"

force_quit == counter = 2

(* What has been written when the process stops: a torn file holds nothing. *)
Stop ==
    /\ Exit
    /\ saved' = [saved EXCEPT ![config.data_dir] =
                    IF file[config.data_dir] = Torn THEN None ELSE @]

(* The first ctrl-c starts the thread that saves and exits, the third one  *)
(* exits at once.                                                          *)
CtrlC ==
    /\ handler_registered
    /\ \/ /\ counter = 0
          /\ Goto("shutdown", "save")
          /\ counter' = 1
          /\ UNCHANGED <<setup, saved, source, node>>
       \/ /\ counter > 0 /\ ~ force_quit
          /\ counter' = counter + 1
          /\ UNCHANGED <<setup, saved, locks, source, node>>
       \/ force_quit /\ Stop
    /\ UNCHANGED <<now, boots, file, seen>>

(* A program with the client as a library calls shutdown and ends.         *)
Shutdown ==
    /\ pc["main"] = "pending" /\ start.program = "library" /\ counter = 0
    /\ Goto("shutdown", "save")
    /\ counter' = 1
    /\ UNCHANGED <<now, disk, setup, source, node>>

(* The process is killed, by ctrl-c before the handler is registered too.  *)
Crash ==
    /\ Up
    /\ Stop
    /\ UNCHANGED <<now, boots, file, seen>>

Tick ==
    /\ now < MaxEpoch
    /\ now' = now + 1
    /\ UNCHANGED <<disk, setup, locks, source, node, counter>>

----------------------------------------------------------------------------
Init ==
    /\ now \in Epoch
    /\ \A n \in BuiltIn : default_checkpoint[n].epoch <= now
    /\ boots = 0 /\ file = [d \in Dirs |-> None] /\ start = None /\ config = None
    /\ seen = {None} /\ saved = [d \in Dirs |-> None]
    /\ pc = [t \in Tasks |-> "off"] /\ holders = {} /\ queue = <<>>
    /\ source = "config" /\ counter = 0
    /\ checkpoint = None /\ finalized = None /\ last_checkpoint = None

StartStep ==
    \/ RpcStart \/ Sync \/ SyncTooOld \/ SyncFails \/ Warn \/ NoFallback
    \/ List \/ ChainId \/ Fetch \/ GetConfig \/ Replace \/ Resync
    \/ FallbackFails \/ FetchPanics

(* What the program does by itself ...                                     *)
TaskStep(t) ==
    \/ Acquire(t)
    \/ t = "main" /\ StartStep
    \/ t \in {"main", "shutdown"} /\ (SaveSkipped(t) \/ Truncate(t) \/ WriteFile(t))
    \/ t = "advance" /\ (Advance \/ Duration \/ Wake)
    \/ t \in Queries /\ Answer(t)

(* ... and what is done to it.                                             *)
Environment ==
    \/ Build \/ BuildFails \/ CtrlC \/ Shutdown \/ Crash \/ Tick
    \/ \E q \in Queries : Ask(q)

Next == Environment \/ \E t \in Tasks : TaskStep(t)

Spec == Init /\ [][Next]_vars

(* The scheduler runs every task.  That every request to a provider is     *)
(* answered or fails in the end is assumed of the network: the requests    *)
(* have no timeout of their own.                                           *)
FairSpec == Spec /\ \A t \in Tasks : WF_vars(TaskStep(t))

----------------------------------------------------------------------------
(* Properties.                                                             *)

(* The type invariant of the process and of what it leaves on disk.        *)
TypeOK ==
    /\ now \in Epoch /\ boots \in 0 .. MaxBoots
    /\ file \in [Dirs -> Checkpoint \cup {None, Torn}]
    /\ saved \in [Dirs -> Checkpoint \cup {None}]
    /\ start \in Starts \cup {None} /\ (config = None \/ DOMAIN config = Fields)
    /\ pc \in [Tasks -> Labels]
    /\ holders \subseteq Tasks /\ queue \in Seq(Tasks)
    /\ source \in {"config", "fallback", "external"}
    /\ checkpoint \in Checkpoint \cup {None, EmptyCheckpoint}
    /\ finalized \in Epoch \cup {None} /\ last_checkpoint \in Checkpoint \cup {None}
    /\ counter \in 0 .. 2
    /\ seen \subseteq Checkpoint \cup {None}

(* The user named something that may be of another network: a checkpoint   *)
(* or a directory (a library client has one from its builder or config).   *)
UserNamed ==
    \/ config.checkpoint # None
    \/ start.program = "library"
    \/ start.program = "main" /\ "data_dir" \in DOMAIN start.cli

(* Whenever the process is killed, between the truncation of the file and  *)
(* the write too, the next one starts from the checkpoint of the config,   *)
(* from the default one or from one that a client has seen finalized; and, *)
(* although the file does not say of which network it is, from one of its  *)
(* own network unless the user named another's or there is no network or   *)
(* no checkpoint (then there is no sync).                                  *)
StartsFromKnownCheckpoint ==
    Up /\ source = "config" =>
        /\ checkpoint \in seen \cup {config.default_checkpoint, config.checkpoint}
        /\ checkpoint.network = config.chain \/ None \in {checkpoint.network, config.chain}
              \/ UserNamed

(* Two tasks never write the file at once: the lock that save_checkpoint   *)
(* runs under is a read lock and would let them.                           *)
SavesDoNotOverlap == Cardinality({t \in Tasks : pc[t] = "write_file"}) <= 1

(* A client that started from the file never replaces a checkpoint that    *)
(* was saved before by an older one, however the provider lags.            *)
SavedCheckpointNeverRegresses ==
    [][Up /\ source = "config" /\ config.checkpoint = None =>
          LET d == config.data_dir
          IN  saved[d] # None /\ saved'[d] # None => saved'[d].epoch >= saved[d].epoch]_vars

(* Once ctrl-c was pressed the process ends, without a second one: neither *)
(* the advance thread nor the queries keep the lock from the thread that   *)
(* shuts down.                                                             *)
ShutdownCompletes == counter > 0 ~> ~ Up

(* Every task that waits for the lock gets it, unless the process ends:    *)
(* queries do not keep the client from advancing, nor advancing it them.   *)
NoTaskStarves ==
    \A t \in Tasks : (\E i \in DOMAIN queue : queue[i] = t)
                         ~> ~ \E i \in DOMAIN queue : queue[i] = t
=============================================================================
