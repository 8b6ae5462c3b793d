-------------------------------- MODULE Evm ---------------------------------
(***************************************************************************)
(* Calls on the state of a cached block: execution/src/evm.rs, get_account *)
(* of execution/src/execution.rs and the queries of client/src/node.rs     *)
(* that use them.                                                          *)
(*                                                                         *)
(* A call first fetches the accounts of the provider's access list, then   *)
(* runs the interpreter (revm, external), which reads accounts and slots   *)
(* from what was fetched or, where that misses them, one by one from the   *)
(* provider.  The interpreter is synchronous: on a miss it blocks its      *)
(* thread, one of the workers of the runtime, until another worker has     *)
(* brought the answer.                                                     *)
(*                                                                         *)
(* A call holds the node's read lock: the cache does not change meanwhile. *)
(* Requests name a block by its number, so that a provider on another      *)
(* branch, or one that changes branches, answers from another block.       *)
(***************************************************************************)
EXTENDS Integers, Sequences, FiniteSets

CONSTANTS
    Calls,             \* the tasks that answer queries
    MaxCalls,          \* bound: how many of them run, by the provider's honesty
    Workers,           \* the number of worker threads of the runtime
    Address, Slot, Value, Code,
    Precompiles,       \* the addresses 1 to 9
    Block,
    Number,            \* the number of a block
    State,             \* the account at each address, in each block
    state_root,        \* the root of the trie of that
    fee_recipient,     \* the producer of a block
    Asked,             \* the requests that a task may get
    AccessList,        \* the list an honest provider gives for a request
    AnyLists,          \* and the lists that another provider gives
    Claims,            \* the accounts that another provider gives
    Caches,            \* the payloads a node may hold, by number
    Zero, NoCode, None, Err

(* What the trie of a block holds of an account: info stands for balance   *)
(* and nonce, storage for the storage root.                                *)
Account == [info : Value, code : Code, storage : [Slot -> Value]]

EmptyAccount == [info |-> Zero, code |-> NoCode, storage |-> [k \in Slot |-> Zero]]

(* What the interpreter asks the database for.                             *)
Read == [op : {"basic"}, address : Address]
            \cup [op : {"storage"}, address : Address, slot : Slot]
            \cup [op : {"block_hash"}, number : Nat]

AccessListItem == [address : Address, storage_keys : SUBSET Slot]

(* reads: what the interpreter reads, in this order, unless it is stopped; *)
(* exit: how it ends then.                                                 *)
Request == [kind : {"call", "estimate_gas", "get_account", "get_storage_at"},
            from : Address, to : Address, reads : Seq(Read),
            exit : {"return", "revert"}]

Requests == UNION {Asked[c] : c \in Calls}

ASSUME EvmAssumption ==
    /\ Workers \in Nat \ {0} /\ MaxCalls \in [BOOLEAN -> Nat]
    /\ Zero \in Value /\ NoCode \in Code /\ Precompiles \subseteq Address
    /\ Number \in [Block -> Nat]
    /\ State \in [Block -> [Address -> Account]]
    /\ fee_recipient \in [Block -> Address] /\ Claims \subseteq Account
    /\ \A b, v \in Block : state_root[b] = state_root[v] => State[b] = State[v]
    /\ Asked \in [Calls -> SUBSET Request]
    /\ \A r \in Requests : r.kind \in {"get_account", "get_storage_at"} =>
          Len(r.reads) = 1 /\ r.reads[1].op # "block_hash" /\ r.exit = "return"
    /\ AccessList \in [Requests -> Seq(AccessListItem)]
    /\ AnyLists \subseteq Seq(AccessListItem)
    /\ \A c \in Caches : c # <<>> /\ \A n \in DOMAIN c : c[n] \in Block /\ Number[c[n]] = n

(* What a read returns, and what get_account does.                         *)
ReadValue == Value \cup Block \cup [info : Value, code : Code]

AccountInfo == [info : Value, code : Code, slots : UNION {[ks -> Value] : ks \in SUBSET Slot}]

ASSUME ValuesAssumption ==
    /\ None # Err /\ {None, Err} \cap ReadValue = {}
    /\ Err \notin AccountInfo \cup {"ok"}

(* The list of an honest provider (external: eth_createAccessList) has     *)
(* what the call reads, but for the accounts that are fetched anyway.      *)
ASSUME AccessListAssumption ==
    \A r \in Requests : r.kind \in {"call", "estimate_gas"} =>
        \A i \in DOMAIN r.reads :
            LET rd == r.reads[i]
                items == {AccessList[r][j] : j \in DOMAIN AccessList[r]}
                of == {item \in items : item.address = rd.address}
            IN  \/ rd.op = "block_hash"
                \/ rd.op = "basic" /\ rd.address \in Precompiles
                \/ rd.address \in {r.from, r.to}
                \/ of # {} /\ (rd.op = "storage" =>
                                  \A item \in of : rd.slot \in item.storage_keys)

VARIABLES
    payloads,          \* the node's payloads, from numbers to blocks
    honest,            \* whether the provider answers what its chain has
    pc,                \* what each task awaits or does
    req,               \* its request
    block,             \* the payload it is answered from
    todo,              \* the accounts that are still to be fetched
    accounts,          \* ProofDB.accounts
    values,            \* what the interpreter has read so far
    result,            \* "ok", or Err
    missed,            \* history: the reads that blocked
    disturbed          \* history: a request failed or got another block's answer

given == <<payloads, honest>>
vars == <<given, pc, req, block, todo, accounts, values, result, missed, disturbed>>

----------------------------------------------------------------------------
(* The provider.                                                           *)

(* The blocks that a request for block b may be answered from.             *)
SameNumber(b) == {v \in Block : Number[v] = Number[b]}

(* An EIP1186ProofResponse: the root of the trie that the nodes are of,    *)
(* the claimed account, with the root of its storage, and claimed slots.   *)
(* A provider that is not honest need not be told to give the nodes of     *)
(* another trie, which fail like a wrong claim.                            *)
Proof(v, a, keys) ==
    [state_root |-> state_root[v], account |-> State[v][a],
     storage_proof |-> [k \in keys |-> State[v][a].storage[k]]]

Proofs(b, a, keys) ==
    IF honest THEN {Proof(v, a, keys) : v \in SameNumber(b)}
    ELSE [state_root : {state_root[b]}, account : Claims,
          storage_proof : UNION {[ks -> Value] : ks \in SUBSET Slot}]

Codes(b, a) ==
    IF honest THEN {State[v][a].code : v \in SameNumber(b)} ELSE Code

Lists(r) == IF honest THEN {AccessList[r]} ELSE AnyLists

----------------------------------------------------------------------------
(* get_account.                                                            *)

(* Mutant: the first node may have any hash.                               *)
verify_account_proof_any_root(b, a, proof) ==
    proof.account \in {State[b][a], EmptyAccount}

(* PatriciaProof: the nodes are those of the root's trie, and what         *)
(* verify_proof accepts is in it, but it may also accept that a key is     *)
(* absent which is not (ExclusionIsSound).                                 *)
verify_account_proof(b, a, proof) ==
    /\ proof.state_root = state_root[b]
    /\ proof.account \in {State[b][a], EmptyAccount}

(* A trie without keys has no nodes, and a proof of no nodes is rejected   *)
(* (proof.rs:65).                                                          *)
HasStorage(account) == \E k \in Slot : account.storage[k] # Zero

(* Assumed: no slot holds the hash of a node that the provider has, and no *)
(* node on the way holds another inside it (NodeHashes and Inlined of      *)
(* PatriciaProof are empty).                                               *)
verify_storage_proof(account, k, value) ==
    HasStorage(account) /\ value \in {account.storage[k], Zero}

Info(account) == [info |-> account.info, code |-> account.code]

Returned(proof) ==
    [info |-> proof.account.info, code |-> proof.account.code,
     slots |-> proof.storage_proof]

(* Mutant: the account is taken without its proof.                         *)
get_account_unproved(b, a, proof, code) ==
    IF /\ \A k \in DOMAIN proof.storage_proof :
             verify_storage_proof(proof.account, k, proof.storage_proof[k])
       /\ proof.account.code = NoCode \/ code = proof.account.code
    THEN Returned(proof) ELSE Err

(* The slots are those of the answer, whatever was asked for.              *)
get_account(b, a, proof, code) ==
    IF /\ verify_account_proof(b, a, proof)
       /\ \A k \in DOMAIN proof.storage_proof :
             verify_storage_proof(proof.account, k, proof.storage_proof[k])
       /\ proof.account.code = NoCode \/ code = proof.account.code
    THEN Returned(proof) ELSE Err

(* What get_account may return in block b, and whether a request of it     *)
(* failed or was answered from another block.                              *)
Fetched(b, a, keys) ==
    {[account |-> get_account(b, a, p, code),
      disturbed |-> p # Proof(b, a, keys) \/ code # State[b][a].code] :
        p \in Proofs(b, a, keys), code \in Codes(b, a)}
    \cup {[account |-> Err, disturbed |-> TRUE]}

----------------------------------------------------------------------------
(* The runtime (external): workers run tasks and bring the answers of      *)
(* requests, unless they are all kept by interpreters.                     *)

Busy == {c \in Calls : pc[c] \in {"run", "blocked"}}

WorkerFree == Cardinality(Busy) < Workers

Running == {c \in Calls : pc[c] \notin {"idle", "done"}}

Begun == {c \in Calls : pc[c] # "idle"}

----------------------------------------------------------------------------
(* The queries of the node.                                                *)

(* The answer is sent, the database of the call dropped.                   *)
Finish(c, r) ==
    /\ pc' = [pc EXCEPT ![c] = "done"]
    /\ result' = [result EXCEPT ![c] = r]
    /\ accounts' = [accounts EXCEPT ![c] = <<>>]

Disturb(c, d) == disturbed' = [disturbed EXCEPT ![c] = @ \/ d]

(* The block of the tag is cached, and the head is recent: else the query  *)
(* ends here.                                                              *)
Begin(c) ==
    /\ pc[c] = "idle" /\ Cardinality(Begun) < MaxCalls[honest]
    /\ \E r \in Asked[c], n \in DOMAIN payloads :
          /\ req' = [req EXCEPT ![c] = r]
          /\ block' = [block EXCEPT ![c] = payloads[n]]
          /\ pc' = [pc EXCEPT ![c] = IF r.kind \in {"call", "estimate_gas"}
                                     THEN "access_list" ELSE "get_account"]
    /\ UNCHANGED <<given, todo, accounts, values, result, missed, disturbed>>

(* get_balance, get_nonce and get_code ask for no slot, get_storage_at for *)
(* one, which the answer may lack.                                         *)
GetAccountAnswer(c) ==
    /\ pc[c] = "get_account" /\ WorkerFree
    /\ LET rd == req[c].reads[1]
           slot == IF rd.op = "storage" THEN {rd.slot} ELSE {}
       IN  \E f \in Fetched(block[c], rd.address, slot) :
              /\ Disturb(c, f.disturbed)
              /\ IF f.account = Err \/ ~ slot \subseteq DOMAIN f.account.slots
                 THEN Finish(c, Err) /\ UNCHANGED values
                 ELSE /\ Finish(c, "ok")
                      /\ values' = [values EXCEPT ![c] =
                            <<IF rd.op = "storage" THEN f.account.slots[rd.slot]
                              ELSE Info(f.account)>>]
    /\ UNCHANGED <<given, req, block, todo, missed>>

----------------------------------------------------------------------------
(* Evm::call and Evm::estimate_gas: batch_fetch_accounts.                  *)

Item(a) == [address |-> a, storage_keys |-> {}]

(* A later entry of an address replaces an earlier one.                    *)
Insert(map, a, account) ==
    [b \in DOMAIN map \cup {a} |-> IF b = a THEN account ELSE map[b]]

AccessListAnswer(c) ==
    /\ pc[c] = "access_list" /\ WorkerFree
    /\ \E list \in Lists(req[c]) :
          todo' = [todo EXCEPT ![c] =
                      list \o <<Item(req[c].from), Item(req[c].to),
                                Item(fee_recipient[block[c]])>>]
    /\ pc' = [pc EXCEPT ![c] = "prefetch"]
    /\ UNCHANGED <<given, req, block, accounts, values, result, missed, disturbed>>

AccessListFails(c) ==
    /\ pc[c] = "access_list" /\ WorkerFree
    /\ Finish(c, Err) /\ Disturb(c, TRUE)
    /\ UNCHANGED <<given, req, block, todo, values, missed>>

(* Mutant: the accounts are asked for without their slots.                 *)
PrefetchAnswer_without_keys(c) ==
    /\ pc[c] = "prefetch" /\ WorkerFree /\ todo[c] # <<>>
    /\ \E f \in Fetched(block[c], Head(todo[c]).address, {}) :
          /\ Disturb(c, f.disturbed)
          /\ accounts' = IF f.account = Err THEN accounts
                         ELSE [accounts EXCEPT ![c] = Insert(@, Head(todo[c]).address, f.account)]
    /\ todo' = [todo EXCEPT ![c] = Tail(@)]
    /\ UNCHANGED <<given, pc, req, block, values, result, missed>>

(* Mutant: what failed is inserted too.                                    *)
PrefetchAnswer_unfiltered(c) ==
    /\ pc[c] = "prefetch" /\ WorkerFree /\ todo[c] # <<>>
    /\ LET item == Head(todo[c])
       IN  \E f \in Fetched(block[c], item.address, item.storage_keys) :
              /\ Disturb(c, f.disturbed)
              /\ accounts' = [accounts EXCEPT ![c] = Insert(@, item.address, f.account)]
    /\ todo' = [todo EXCEPT ![c] = Tail(@)]
    /\ UNCHANGED <<given, pc, req, block, values, result, missed>>

(* The requests of a chunk are made at once, but no answer depends on      *)
(* another: they are taken in the order in which they are inserted.  What  *)
(* failed is left out.                                                     *)
PrefetchAnswer(c) ==
    /\ pc[c] = "prefetch" /\ WorkerFree /\ todo[c] # <<>>
    /\ LET item == Head(todo[c])
       IN  \E f \in Fetched(block[c], item.address, item.storage_keys) :
              /\ Disturb(c, f.disturbed)
              /\ accounts' = IF f.account = Err THEN accounts
                             ELSE [accounts EXCEPT ![c] = Insert(@, item.address, f.account)]
    /\ todo' = [todo EXCEPT ![c] = Tail(@)]
    /\ UNCHANGED <<given, pc, req, block, values, result, missed>>

----------------------------------------------------------------------------
(* The interpreter and its database, ProofDB.                              *)

Transact(c) ==
    /\ pc[c] = "prefetch" /\ WorkerFree /\ todo[c] = <<>>
    /\ pc' = [pc EXCEPT ![c] = "run"]
    /\ UNCHANGED <<given, req, block, todo, accounts, values, result, missed, disturbed>>

NextRead(c) == req[c].reads[Len(values[c]) + 1]

(* Mutant: a slot that the cached account lacks is not asked for.          *)
AtHand_cached_only(c, rd) ==
    LET cached == rd.op # "block_hash" /\ rd.address \in DOMAIN accounts[c]
    IN  CASE rd.op = "basic" ->
               IF rd.address \in Precompiles THEN Info(EmptyAccount)
               ELSE IF cached THEN Info(accounts[c][rd.address]) ELSE None
          [] rd.op = "storage" ->
               IF ~ cached THEN None
               ELSE IF rd.slot \in DOMAIN accounts[c][rd.address].slots
               THEN accounts[c][rd.address].slots[rd.slot] ELSE Err
          [] rd.op = "block_hash" ->
               IF rd.number \in DOMAIN payloads THEN payloads[rd.number] ELSE Err

(* What the database has at hand for a read: None if it has to ask.        *)
AtHand(c, rd) ==
    LET cached == rd.op # "block_hash" /\ rd.address \in DOMAIN accounts[c]
    IN  CASE rd.op = "basic" ->
               IF rd.address \in Precompiles THEN Info(EmptyAccount)
               ELSE IF cached THEN Info(accounts[c][rd.address]) ELSE None
          [] rd.op = "storage" ->
               IF cached /\ rd.slot \in DOMAIN accounts[c][rd.address].slots
               THEN accounts[c][rd.address].slots[rd.slot] ELSE None
          [] rd.op = "block_hash" ->
               IF rd.number \in DOMAIN payloads THEN payloads[rd.number] ELSE Err

(* Mutant: after an error of the database the read is repeated.            *)
Give_retrying(c, value) ==
    /\ values' = [values EXCEPT ![c] = IF value = Err THEN @ ELSE Append(@, value)]
    /\ pc' = [pc EXCEPT ![c] = "run"]
    /\ UNCHANGED <<result, accounts>>

(* An error of the database ends the interpreter: EvmError::Revm.          *)
Give(c, value) ==
    IF value = Err THEN Finish(c, Err) /\ UNCHANGED values
    ELSE /\ values' = [values EXCEPT ![c] = Append(@, value)]
         /\ pc' = [pc EXCEPT ![c] = "run"]
         /\ UNCHANGED <<result, accounts>>

ReadAtHand(c) ==
    /\ pc[c] = "run" /\ Len(values[c]) < Len(req[c].reads)
    /\ AtHand(c, NextRead(c)) # None
    /\ Give(c, AtHand(c, NextRead(c)))
    /\ UNCHANGED <<given, req, block, todo, missed, disturbed>>

(* spawn_blocking, and block_on of its handle.                             *)
ReadBlocks(c) ==
    /\ pc[c] = "run" /\ Len(values[c]) < Len(req[c].reads)
    /\ AtHand(c, NextRead(c)) = None
    /\ pc' = [pc EXCEPT ![c] = "blocked"]
    /\ missed' = [missed EXCEPT ![c] = @ \cup {NextRead(c)}]
    /\ UNCHANGED <<given, req, block, todo, accounts, values, result, disturbed>>

(* The answer is used for this read and not kept.                          *)
ReadAnswer(c) ==
    /\ pc[c] = "blocked" /\ WorkerFree
    /\ LET rd == NextRead(c)
           slot == IF rd.op = "storage" THEN {rd.slot} ELSE {}
       IN  \E f \in Fetched(block[c], rd.address, slot) :
              /\ Disturb(c, f.disturbed)
              /\ Give(c, IF f.account = Err THEN Err
                         ELSE IF rd.op = "basic" THEN Info(f.account)
                         ELSE IF rd.slot \in DOMAIN f.account.slots
                              THEN f.account.slots[rd.slot] ELSE Err)
    /\ UNCHANGED <<given, req, block, todo, missed>>

(* A revert is an error, for estimate_gas too.                             *)
TransactReturns(c) ==
    /\ pc[c] = "run" /\ Len(values[c]) = Len(req[c].reads)
    /\ Finish(c, IF req[c].exit = "revert" THEN Err ELSE "ok")
    /\ UNCHANGED <<given, req, block, todo, values, missed, disturbed>>

----------------------------------------------------------------------------
Init ==
    /\ payloads \in Caches /\ honest \in BOOLEAN
    /\ pc = [c \in Calls |-> "idle"]
    /\ req = [c \in Calls |-> None] /\ block = [c \in Calls |-> None]
    /\ todo = [c \in Calls |-> <<>>] /\ accounts = [c \in Calls |-> <<>>]
    /\ values = [c \in Calls |-> <<>>] /\ result = [c \in Calls |-> None]
    /\ missed = [c \in Calls |-> {}] /\ disturbed = [c \in Calls |-> FALSE]

Step(c) ==
    \/ GetAccountAnswer(c) \/ AccessListAnswer(c) \/ AccessListFails(c)
    \/ PrefetchAnswer(c) \/ Transact(c)
    \/ ReadAtHand(c) \/ ReadBlocks(c) \/ ReadAnswer(c) \/ TransactReturns(c)

Next == \E c \in Calls : Begin(c) \/ Step(c)

(* Workers run the tasks that are ready, and requests end in the end.      *)
Spec == Init /\ [][Next]_vars /\ \A c \in Calls : WF_vars(Step(c))

----------------------------------------------------------------------------
(* Properties.                                                             *)

(* The type invariant of the calls.                                        *)
TypeOK ==
    /\ payloads \in Caches /\ honest \in BOOLEAN
    /\ \A c \in Calls :
          /\ pc[c] \in {"idle", "get_account", "access_list", "prefetch",
                        "run", "blocked", "done"}
          /\ req[c] \in Requests \cup {None} /\ block[c] \in Block \cup {None}
          /\ todo[c] \in Seq(AccessListItem)
          /\ DOMAIN accounts[c] \subseteq Address
          /\ \A a \in DOMAIN accounts[c] :
                /\ accounts[c][a] # Err
                /\ accounts[c][a].info \in Value /\ accounts[c][a].code \in Code
                /\ DOMAIN accounts[c][a].slots \subseteq Slot
          /\ result[c] \in {None, Err, "ok"} /\ disturbed[c] \in BOOLEAN

(* The reads of a call that have returned, with their values.              *)
Returns(c) == {<<req[c].reads[i], values[c][i]>> : i \in DOMAIN values[c]}

(* Whatever the provider puts in its lists, proofs and code, a call sees   *)
(* only what the state of its block holds, or nothing where there is       *)
(* something (the exclusion proofs that verify_proof accepts too easily).  *)
(* Precompiles are not looked up.                                          *)
ReadsAreOfTheBlock ==
    \A c \in Calls : \A x \in Returns(c) :
        LET rd == x[1] IN
        /\ rd.op = "basic" /\ rd.address \notin Precompiles =>
              x[2] \in {Info(State[block[c]][rd.address]), Info(EmptyAccount)}
        /\ rd.op = "storage" =>
              x[2] \in {State[block[c]][rd.address].storage[rd.slot], Zero}

(* From an honest provider a call sees exactly the state of its block,     *)
(* although requests name the block by number and the provider may change  *)
(* branches between any two of them, the proof and the code included.      *)
HonestReadsAreRight ==
    honest => \A c \in Calls : \A x \in Returns(c) :
        LET rd == x[1] IN
        /\ rd.op = "basic" /\ rd.address \notin Precompiles =>
              x[2] = Info(State[block[c]][rd.address])
        /\ rd.op = "storage" => x[2] = State[block[c]][rd.address].storage[rd.slot]

(* What a call can read: a slot of an account that has storage, the hash   *)
(* of a block that is cached.                                              *)
Readable(c, rd) ==
    CASE rd.op = "basic" -> TRUE
      [] rd.op = "storage" -> HasStorage(State[block[c]][rd.address])
      [] rd.op = "block_hash" -> rd.number \in DOMAIN payloads

(* With an honest provider on the block's branch and no failed request, a  *)
(* query that reads what can be read succeeds: neither an item of the      *)
(* access list that could not be fetched nor one that a later item         *)
(* replaced makes it fail.  One that reverts or asks for the hash of a     *)
(* block that is not cached is an error.  Nothing is said of the slots of  *)
(* an account without storage: see StoragePositionsAreReturned.            *)
HonestCallSucceeds ==
    \A c \in Calls : honest /\ pc[c] = "done" /\ ~ disturbed[c] =>
        LET reads == {req[c].reads[i] : i \in DOMAIN req[c].reads}
        IN  /\ req[c].exit = "return" /\ (\A rd \in reads : Readable(c, rd)) => result[c] = "ok"
            /\ \/ req[c].exit = "revert"
               \/ \E rd \in reads : rd.op = "block_hash" /\ ~ Readable(c, rd)
               => result[c] # "ok"

(* rpc.md:23 says of eth_getStorageAt that it "Returns the value from a    *)
(* storage position at a given address": with an honest provider and no    *)
(* failed request, whatever the account holds.                             *)
StoragePositionsAreReturned ==
    \A c \in Calls :
        honest /\ pc[c] = "done" /\ ~ disturbed[c] /\ req[c].kind = "get_storage_at" =>
            result[c] = "ok"

(* With an honest provider, a call blocks a worker only for slots of the   *)
(* accounts whose entries batch_fetch_accounts replaces (sender, receiver, *)
(* producer) and for accounts without storage whose slots are listed.      *)
OnlyReplacedEntriesMiss ==
    \A c \in Calls : honest /\ ~ disturbed[c] =>
        \A rd \in missed[c] :
            \/ ~ HasStorage(State[block[c]][rd.address])
            \/ /\ rd.op = "storage"
               /\ rd.address \in {req[c].from, req[c].to, fee_recipient[block[c]]}

(* Every worker waits for an answer that only a worker can bring.          *)
AllBlocked == Cardinality({c \in Calls : pc[c] = "blocked"}) >= Workers

(* Every query ends, unless as many calls as there are workers block at    *)
(* once: then none of them does.                                           *)
CallsEnd ==
    \A c \in Calls : c \in Running ~> (pc[c] = "done" \/ AllBlocked)
=============================================================================
