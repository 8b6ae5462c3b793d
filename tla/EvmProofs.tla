----------------------------- MODULE EvmProofs ------------------------------
(***************************************************************************)
(* What a call reads is of its block, for every state, every provider and  *)
(* every number of calls and workers.                                      *)
(***************************************************************************)
EXTENDS Evm, SequenceTheorems, TLAPS

----------------------------------------------------------------------------
(* The accounts that get_account returns.                                  *)

(* What a cached account may differ in from the account of the block: a    *)
(* claim that it, or a slot of it, is absent.  An honest provider's does   *)
(* not.                                                                    *)
AccountOK(b, a, x) ==
    /\ x \in AccountInfo
    /\ Info(x) \in {Info(State[b][a]), Info(EmptyAccount)}
    /\ \A k \in DOMAIN x.slots : x.slots[k] \in {State[b][a].storage[k], Zero}
    /\ honest => /\ Info(x) = Info(State[b][a])
                 /\ \A k \in DOMAIN x.slots : x.slots[k] = State[b][a].storage[k]
                 /\ DOMAIN x.slots # {} => HasStorage(State[b][a])

(* The accounts of the blocks have the type of an account.                 *)
LEMMA StateFacts ==
    ASSUME NEW b \in Block, NEW a \in Address
    PROVE  /\ State[b][a] \in Account
           /\ State[b][a].info \in Value /\ State[b][a].code \in Code
           /\ State[b][a].storage \in [Slot -> Value]
<1>1. State[b][a] \in Account
  BY EvmAssumption
<1> QED BY <1>1 DEF Account

(* So has the account that does not exist.                                 *)
LEMMA EmptyFacts ==
    /\ EmptyAccount \in Account
    /\ EmptyAccount.info = Zero /\ EmptyAccount.code = NoCode
    /\ \A k \in Slot : EmptyAccount.storage[k] = Zero
    /\ Zero \in Value /\ NoCode \in Code
BY EvmAssumption DEF EmptyAccount, Account

(* What is returned is not an error, and has the fields of the proof.      *)
LEMMA ReturnedFacts ==
    ASSUME NEW p, p.account \in Account,
           NEW ks \in SUBSET Slot, p.storage_proof \in [ks -> Value]
    PROVE  /\ Returned(p) \in AccountInfo /\ Returned(p) # Err
           /\ Info(Returned(p)) = Info(p.account)
           /\ Returned(p).slots = p.storage_proof
<1>1. Returned(p) \in AccountInfo
  BY DEF Returned, AccountInfo, Account
<1> QED BY <1>1, ValuesAssumption DEF Returned, Info

(* get_account returns an account of the block, however the provider       *)
(* answers; an honest one gives all the slots that were asked for, and     *)
(* what it gives is refused only for the slots of an account without       *)
(* storage, unless a request failed or was answered from another block.    *)
LEMMA FetchedAccount ==
    ASSUME NEW b \in Block, NEW a \in Address, NEW keys \in SUBSET Slot,
           honest \in BOOLEAN, NEW f \in Fetched(b, a, keys)
    PROVE  /\ f.disturbed \in BOOLEAN
           /\ f.account # Err => AccountOK(b, a, f.account)
           /\ honest /\ f.account # Err => DOMAIN f.account.slots = keys
           /\ honest /\ ~ f.disturbed =>
                 (f.account = Err <=> keys # {} /\ ~ HasStorage(State[b][a]))
<1>1. CASE f = [account |-> Err, disturbed |-> TRUE]
  BY <1>1
<1>2. CASE f # [account |-> Err, disturbed |-> TRUE]
  <2>1. PICK p \in Proofs(b, a, keys), code \in Codes(b, a) :
           f = [account |-> get_account(b, a, p, code),
                disturbed |-> p # Proof(b, a, keys) \/ code # State[b][a].code]
    BY <1>2 DEF Fetched
  <2>2. /\ f.account = get_account(b, a, p, code)
        /\ f.disturbed = (p # Proof(b, a, keys) \/ code # State[b][a].code)
        /\ f.disturbed \in BOOLEAN
    BY <2>1
  <2>3. State[b][a] \in Account
    BY StateFacts
  <2>4. CASE honest
    <3>1. PICK v \in Block : p = Proof(v, a, keys)
      BY <2>4 DEF Proofs, SameNumber
    <3>2. /\ p.account = State[v][a] /\ p.state_root = state_root[v]
          /\ p.storage_proof = [k \in keys |-> State[v][a].storage[k]]
      BY <3>1 DEF Proof
    <3>3. ASSUME f.account # Err
          PROVE  /\ State[v] = State[b]
                 /\ f.account = Returned(p)
                 /\ \A k \in keys : HasStorage(State[b][a])
      <4>1. verify_account_proof(b, a, p) /\ f.account = Returned(p)
        BY <2>2, <3>3 DEF get_account
      <4>2. State[v] = State[b]
        <5>1. state_root[b] = state_root[v]
          BY <3>2, <4>1 DEF verify_account_proof
        <5>2. \A x, y \in Block : state_root[x] = state_root[y] => State[x] = State[y]
          BY EvmAssumption
        <5> QED BY <5>1, <5>2
      <4>3. \A k \in DOMAIN p.storage_proof : HasStorage(p.account)
        BY <2>2, <3>3 DEF get_account, verify_storage_proof
      <4> QED BY <3>2, <4>1, <4>2, <4>3
    <3>4. ASSUME f.account # Err
          PROVE  AccountOK(b, a, f.account) /\ DOMAIN f.account.slots = keys
      <4>1. p.account = State[b][a]
            /\ p.storage_proof = [k \in keys |-> State[b][a].storage[k]]
        BY <3>2, <3>3, <3>4
      <4>2. State[b][a].storage \in [Slot -> Value]
        BY StateFacts
      <4>3. p.storage_proof \in [keys -> Value]
        BY <4>1, <4>2
      <4>4. /\ f.account \in AccountInfo
            /\ Info(f.account) = Info(State[b][a])
            /\ f.account.slots = p.storage_proof
        BY <2>3, <3>3, <3>4, <4>1, <4>3, ReturnedFacts
      <4>5. DOMAIN f.account.slots = keys
            /\ \A k \in keys : f.account.slots[k] = State[b][a].storage[k]
        BY <4>1, <4>4
      <4> QED BY <3>3, <3>4, <4>4, <4>5 DEF AccountOK
    <3>5. ASSUME ~ f.disturbed
          PROVE  f.account = Err <=> keys # {} /\ ~ HasStorage(State[b][a])
      <4>1. p = Proof(b, a, keys) /\ code = State[b][a].code
        BY <2>2, <3>5
      <4>2. /\ p.account = State[b][a] /\ p.state_root = state_root[b]
            /\ p.storage_proof = [k \in keys |-> State[b][a].storage[k]]
        BY <4>1 DEF Proof
      <4>3. verify_account_proof(b, a, p) /\ code = p.account.code
        BY <4>1, <4>2 DEF verify_account_proof
      <4>4. \A k \in keys :
               verify_storage_proof(p.account, k, p.storage_proof[k])
                 <=> HasStorage(State[b][a])
        BY <4>2 DEF verify_storage_proof
      <4>5. DOMAIN p.storage_proof = keys
        BY <4>2
      <4>6. Returned(p) # Err
        <5>1. p.storage_proof \in [keys -> Value]
          BY <4>2, StateFacts
        <5> QED BY <2>3, <4>2, <5>1, ReturnedFacts
      <4> QED BY <2>2, <4>3, <4>4, <4>5, <4>6 DEF get_account
    <3> QED BY <2>2, <3>4, <3>5
  <2>5. CASE ~ honest
    <3>1. /\ p.account \in Claims
          /\ p.storage_proof \in UNION {[ks -> Value] : ks \in SUBSET Slot}
      BY <2>5 DEF Proofs
    <3>2. PICK ks \in SUBSET Slot : p.storage_proof \in [ks -> Value]
      BY <3>1
    <3>3. p.account \in Account
      BY <3>1, EvmAssumption
    <3>4. ASSUME f.account # Err
          PROVE  AccountOK(b, a, f.account)
      <4>1. /\ f.account = Returned(p) /\ p.account \in {State[b][a], EmptyAccount}
            /\ \A k \in ks : p.storage_proof[k] \in {p.account.storage[k], Zero}
        BY <2>2, <3>2, <3>4 DEF get_account, verify_account_proof, verify_storage_proof
      <4>2. /\ f.account \in AccountInfo
            /\ Info(f.account) = Info(p.account)
            /\ f.account.slots = p.storage_proof
        BY <3>2, <3>3, <4>1, ReturnedFacts
      <4>3. \A k \in ks : f.account.slots[k] \in {State[b][a].storage[k], Zero}
        BY <4>1, <4>2, EmptyFacts
      <4> QED BY <2>5, <3>2, <4>1, <4>2, <4>3 DEF AccountOK
    <3> QED BY <2>2, <2>5, <3>4
  <2> QED BY <2>4, <2>5
<1> QED BY <1>1, <1>2

----------------------------------------------------------------------------
(* The inductive invariant.                                                *)

(* A value that a read may return: see ReadsAreOfTheBlock and              *)
(* HonestReadsAreRight.                                                    *)
ReadOK(b, rd, v) ==
    /\ v \in ReadValue
    /\ rd.op = "basic" /\ rd.address \notin Precompiles =>
          /\ v \in {Info(State[b][rd.address]), Info(EmptyAccount)}
          /\ honest => v = Info(State[b][rd.address])
    /\ rd.op = "storage" =>
          /\ v \in {State[b][rd.address].storage[rd.slot], Zero}
          /\ honest => v = State[b][rd.address].storage[rd.slot]

Phase == {"idle", "get_account", "access_list", "prefetch", "run", "blocked", "done"}

(* The state of every task is there.                                       *)
Shape ==
    /\ DOMAIN pc = Calls /\ DOMAIN req = Calls /\ DOMAIN block = Calls
    /\ DOMAIN todo = Calls /\ DOMAIN accounts = Calls /\ DOMAIN values = Calls
    /\ DOMAIN result = Calls /\ DOMAIN missed = Calls /\ DOMAIN disturbed = Calls

(* A task that has begun has a request, and the phase fits its kind.       *)
Typed(c) ==
    /\ pc[c] \in Phase
    /\ req[c] \in Requests \cup {None} /\ block[c] \in Block \cup {None}
    /\ pc[c] # "idle" => req[c] \in Requests /\ block[c] \in Block
    /\ pc[c] = "get_account" => req[c].kind \in {"get_account", "get_storage_at"}
    /\ pc[c] \in {"access_list", "prefetch", "run", "blocked"} =>
          req[c].kind \in {"call", "estimate_gas"}
    /\ todo[c] \in Seq(AccessListItem)
    /\ result[c] \in {None, Err, "ok"} /\ disturbed[c] \in BOOLEAN

(* The database holds accounts of the block.                               *)
Database(c) ==
    /\ pc[c] \in {"idle", "get_account", "access_list", "done"} => accounts[c] = <<>>
    /\ \A a \in DOMAIN accounts[c] : a \in Address /\ AccountOK(block[c], a, accounts[c][a])

(* What has been read is a prefix of what the interpreter reads, and is of *)
(* the block.                                                              *)
ReadSoFar(c) ==
    /\ values[c] \in Seq(ReadValue)
    /\ pc[c] \in {"idle", "get_account", "access_list", "prefetch"} => values[c] = <<>>
    /\ pc[c] # "idle" => Len(values[c]) <= Len(req[c].reads)
    /\ pc[c] = "blocked" =>
          Len(values[c]) < Len(req[c].reads) /\ NextRead(c).op # "block_hash"
    /\ \A i \in DOMAIN values[c] : ReadOK(block[c], req[c].reads[i], values[c][i])

(* Without disturbance, what was read could be read, and an error ends the *)
(* call only for what could not.                                           *)
Undisturbed(c) ==
    honest /\ ~ disturbed[c] =>
        /\ \A i \in DOMAIN values[c] : Readable(c, req[c].reads[i])
        /\ pc[c] = "done" =>
              (result[c] = "ok" <=>
                 /\ req[c].exit = "return"
                 /\ \A i \in DOMAIN req[c].reads : Readable(c, req[c].reads[i]))

(* The items of a list.                                                    *)
Items(s) == {s[i] : i \in DOMAIN s}

(* What batch_fetch_accounts asks an honest provider for.                  *)
Wanted(c) ==
    Items(AccessList[req[c]])
        \cup {Item(req[c].from), Item(req[c].to), Item(fee_recipient[block[c]])}

(* Without disturbance, each item is still to be fetched, is in the        *)
(* database or cannot be there; what is in the database is the account of  *)
(* an item with its slots.                                                 *)
Prefetched(c) ==
    honest /\ ~ disturbed[c] /\ pc[c] \in {"prefetch", "run", "blocked"} =>
        /\ pc[c] # "prefetch" => todo[c] = <<>>
        /\ Items(todo[c]) \subseteq Wanted(c)
        /\ \A item \in Wanted(c) :
              \/ item \in Items(todo[c])
              \/ item.address \in DOMAIN accounts[c]
              \/ item.storage_keys # {} /\ ~ HasStorage(State[block[c]][item.address])
        /\ \A a \in DOMAIN accounts[c] : \E item \in Wanted(c) :
              item.address = a /\ DOMAIN accounts[c][a].slots = item.storage_keys

(* Without disturbance, only the reads of OnlyReplacedEntriesMiss block.   *)
Misses(c) ==
    /\ pc[c] = "idle" => missed[c] = {}
    /\ honest /\ ~ disturbed[c] =>
        \A rd \in missed[c] :
            \/ ~ HasStorage(State[block[c]][rd.address])
            \/ /\ rd.op = "storage"
               /\ rd.address \in {req[c].from, req[c].to, fee_recipient[block[c]]}

CallInv(c) ==
    Typed(c) /\ Database(c) /\ ReadSoFar(c) /\ Undisturbed(c) /\ Prefetched(c) /\ Misses(c)

Inv ==
    /\ payloads \in Caches /\ honest \in BOOLEAN
    /\ Shape
    /\ \A c \in Calls : CallInv(c)

----------------------------------------------------------------------------
(* Requests and reads.                                                     *)

(* The parts of a request.                                                 *)
LEMMA RequestFacts ==
    ASSUME NEW r \in Requests
    PROVE  /\ r.kind \in {"call", "estimate_gas", "get_account", "get_storage_at"}
           /\ r.from \in Address /\ r.to \in Address /\ r.exit \in {"return", "revert"}
           /\ r.reads \in Seq(Read) /\ Len(r.reads) \in Nat
           /\ DOMAIN r.reads = 1 .. Len(r.reads)
           /\ \A i \in 1 .. Len(r.reads) : r.reads[i] \in Read
           /\ AccessList[r] \in Seq(AccessListItem)
<1>1. r \in Request
  BY EvmAssumption DEF Requests
<1>2. r.reads \in Seq(Read)
  BY <1>1 DEF Request
<1>3. Len(r.reads) \in Nat /\ DOMAIN r.reads = 1 .. Len(r.reads)
  BY <1>2, LenProperties
<1>4. \A i \in 1 .. Len(r.reads) : r.reads[i] \in Read
  BY <1>2, ElementOfSeq
<1>5. AccessList[r] \in Seq(AccessListItem)
  BY EvmAssumption
<1> QED BY <1>1, <1>2, <1>3, <1>4, <1>5 DEF Request

(* The parts of a read.                                                    *)
LEMMA ReadFacts ==
    ASSUME NEW rd \in Read
    PROVE  /\ rd.op \in {"basic", "storage", "block_hash"}
           /\ rd.op # "block_hash" => rd.address \in Address
           /\ rd.op = "storage" => rd.slot \in Slot
<1>1. CASE rd \in [op : {"basic"}, address : Address]
  BY <1>1
<1>2. CASE rd \in [op : {"storage"}, address : Address, slot : Slot]
  BY <1>2
<1>3. CASE rd \in [op : {"block_hash"}, number : Nat]
  BY <1>3
<1> QED BY <1>1, <1>2, <1>3 DEF Read

(* What an account of the block gives for a read.                          *)
LEMMA AccountGives ==
    ASSUME NEW b \in Block, NEW rd \in Read, NEW x, AccountOK(b, rd.address, x)
    PROVE  /\ rd.op = "basic" => ReadOK(b, rd, Info(x)) /\ Info(x) \in ReadValue
           /\ rd.op = "storage" /\ rd.slot \in DOMAIN x.slots =>
                 /\ ReadOK(b, rd, x.slots[rd.slot]) /\ x.slots[rd.slot] \in ReadValue
                 /\ honest => HasStorage(State[b][rd.address])
<1>1. x \in AccountInfo
  BY DEF AccountOK
<1>2. Info(x) \in ReadValue
  BY <1>1 DEF AccountInfo, Info, ReadValue
<1>3. \A k \in DOMAIN x.slots : x.slots[k] \in ReadValue
  <2>1. PICK ks \in SUBSET Slot : x.slots \in [ks -> Value]
    BY <1>1 DEF AccountInfo
  <2> QED BY <2>1 DEF ReadValue
<1>4. rd.op = "basic" => ReadOK(b, rd, Info(x))
  BY <1>2 DEF AccountOK, ReadOK
<1>5. rd.op = "storage" /\ rd.slot \in DOMAIN x.slots =>
         ReadOK(b, rd, x.slots[rd.slot]) /\ (honest => HasStorage(State[b][rd.address]))
  BY <1>3 DEF AccountOK, ReadOK
<1> QED BY <1>2, <1>3, <1>4, <1>5

(* Values are neither None nor an error.                                   *)
LEMMA ValueFacts ==
    /\ \A v \in ReadValue : v # None /\ v # Err
    /\ None # Err
    /\ Info(EmptyAccount) \in ReadValue /\ Block \subseteq ReadValue
    /\ Err # "ok"
    /\ \A m \in Caches : \A n \in DOMAIN m : m[n] \in Block
<1>1. None # Err /\ {None, Err} \cap ReadValue = {} /\ Err # "ok"
  BY ValuesAssumption
<1>2. Info(EmptyAccount) \in ReadValue
  BY EmptyFacts DEF Info, ReadValue
<1>3. Block \subseteq ReadValue
  BY DEF ReadValue
<1>4. \A m \in Caches : \A n \in DOMAIN m : m[n] \in Block
  BY EvmAssumption
<1> QED BY <1>1, <1>2, <1>3, <1>4

(* What the database has at hand for a read.                               *)
LEMMA AtHandFacts ==
    ASSUME NEW c \in Calls, payloads \in Caches, Database(c), block[c] \in Block,
           NEW rd \in Read
    PROVE  /\ AtHand(c, rd) \notin {None, Err} =>
                 ReadOK(block[c], rd, AtHand(c, rd)) /\ AtHand(c, rd) \in ReadValue
           /\ AtHand(c, rd) \notin {None, Err} /\ honest => Readable(c, rd)
           /\ AtHand(c, rd) = Err => ~ Readable(c, rd)
           /\ AtHand(c, rd) = None =>
                 /\ rd.op # "block_hash"
                 /\ rd.op = "basic" => rd.address \notin Precompiles \cup DOMAIN accounts[c]
                 /\ rd.op = "storage" =>
                       ~ (rd.address \in DOMAIN accounts[c]
                             /\ rd.slot \in DOMAIN accounts[c][rd.address].slots)
<1> USE ValueFacts
<1> DEFINE x == accounts[c][rd.address]
           b == block[c]
<1>0. rd.op \in {"basic", "storage", "block_hash"}
  BY ReadFacts
<1>1. rd.address \in DOMAIN accounts[c] => AccountOK(b, rd.address, x)
  BY DEF Database
<1>2. rd.address \in DOMAIN accounts[c] =>
        /\ rd.op = "basic" => ReadOK(b, rd, Info(x)) /\ Info(x) \in ReadValue
        /\ rd.op = "storage" /\ rd.slot \in DOMAIN x.slots =>
              /\ ReadOK(b, rd, x.slots[rd.slot]) /\ x.slots[rd.slot] \in ReadValue
              /\ honest => HasStorage(State[b][rd.address])
  BY <1>1, AccountGives
<1>3. CASE rd.op = "basic"
  <2>1. AtHand(c, rd) = IF rd.address \in Precompiles THEN Info(EmptyAccount)
                        ELSE IF rd.address \in DOMAIN accounts[c] THEN Info(x) ELSE None
    BY <1>3 DEF AtHand
  <2>2. Readable(c, rd)
    BY <1>3 DEF Readable
  <2>3. CASE rd.address \in Precompiles
    <3>1. AtHand(c, rd) = Info(EmptyAccount)
      BY <2>1, <2>3
    <3>2. ReadOK(b, rd, Info(EmptyAccount))
      BY <1>3, <2>3 DEF ReadOK
    <3> QED BY <1>3, <2>2, <3>1, <3>2
  <2>4. CASE rd.address \notin Precompiles
    BY <1>2, <1>3, <2>1, <2>2, <2>4
  <2> QED BY <2>3, <2>4
<1>4. CASE rd.op = "storage"
  <2>1. AtHand(c, rd) = IF rd.address \in DOMAIN accounts[c] /\ rd.slot \in DOMAIN x.slots
                        THEN x.slots[rd.slot] ELSE None
    BY <1>4 DEF AtHand
  <2>2. Readable(c, rd) <=> HasStorage(State[b][rd.address])
    BY <1>4 DEF Readable
  <2> QED BY <1>2, <1>4, <2>1, <2>2
<1>5. CASE rd.op = "block_hash"
  <2>1. AtHand(c, rd) = IF rd.number \in DOMAIN payloads THEN payloads[rd.number] ELSE Err
    BY <1>5 DEF AtHand
  <2>2. Readable(c, rd) <=> rd.number \in DOMAIN payloads
    BY <1>5 DEF Readable
  <2>3. CASE rd.number \in DOMAIN payloads
    <3>1. AtHand(c, rd) \in Block
      BY <2>1, <2>3
    <3>2. ReadOK(b, rd, AtHand(c, rd))
      BY <1>5, <3>1 DEF ReadOK
    <3> QED BY <2>2, <2>3, <3>1, <3>2
  <2> QED BY <1>5, <2>1, <2>2, <2>3
<1> QED BY <1>0, <1>3, <1>4, <1>5

(* What get_account gives for a read, asked for that read alone.           *)
LEMMA AnswerFacts ==
    ASSUME NEW b \in Block, NEW rd \in Read, rd.op # "block_hash", honest \in BOOLEAN,
           NEW slot, slot = IF rd.op = "storage" THEN {rd.slot} ELSE {},
           NEW f \in Fetched(b, rd.address, slot)
    PROVE  /\ f.disturbed \in BOOLEAN
           /\ f.account # Err /\ rd.op = "basic" => ReadOK(b, rd, Info(f.account))
           /\ f.account # Err /\ rd.op = "storage" /\ rd.slot \in DOMAIN f.account.slots =>
                 /\ ReadOK(b, rd, f.account.slots[rd.slot])
                 /\ honest => HasStorage(State[b][rd.address])
           /\ honest /\ f.account # Err /\ rd.op = "storage" => rd.slot \in DOMAIN f.account.slots
           /\ honest /\ ~ f.disturbed /\ f.account = Err =>
                 rd.op = "storage" /\ ~ HasStorage(State[b][rd.address])
<1>1. rd.op \in {"basic", "storage"} /\ rd.address \in Address /\ slot \in SUBSET Slot
  BY ReadFacts
<1>2. /\ f.disturbed \in BOOLEAN
      /\ f.account # Err => AccountOK(b, rd.address, f.account)
      /\ honest /\ f.account # Err => DOMAIN f.account.slots = slot
      /\ honest /\ ~ f.disturbed =>
            (f.account = Err <=> slot # {} /\ ~ HasStorage(State[b][rd.address]))
  BY <1>1, FetchedAccount
<1>3. f.account # Err =>
        /\ rd.op = "basic" => ReadOK(b, rd, Info(f.account))
        /\ rd.op = "storage" /\ rd.slot \in DOMAIN f.account.slots =>
              /\ ReadOK(b, rd, f.account.slots[rd.slot])
              /\ honest => HasStorage(State[b][rd.address])
  BY <1>2, AccountGives
<1> QED BY <1>1, <1>2, <1>3

----------------------------------------------------------------------------
(* The steps.                                                              *)

(* A step of one task leaves the others alone.                             *)
LEMMA OneTask ==
    ASSUME Inv, NEW c \in Calls, Begin(c) \/ Step(c)
    PROVE  /\ payloads' = payloads /\ honest' = honest
           /\ Shape'
           /\ \A d \in Calls \ {c} :
                 /\ pc'[d] = pc[d] /\ req'[d] = req[d] /\ block'[d] = block[d]
                 /\ todo'[d] = todo[d] /\ accounts'[d] = accounts[d]
                 /\ values'[d] = values[d] /\ result'[d] = result[d]
                 /\ missed'[d] = missed[d] /\ disturbed'[d] = disturbed[d]
<1> USE DEF Shape, given
<1>0. Shape
  BY DEF Inv
<1>1. CASE Begin(c)
  BY <1>0, <1>1 DEF Begin
<1>2. CASE GetAccountAnswer(c)
  BY <1>0, <1>2 DEF GetAccountAnswer, Finish, Disturb
<1>3. CASE AccessListAnswer(c)
  BY <1>0, <1>3 DEF AccessListAnswer
<1>4. CASE AccessListFails(c)
  BY <1>0, <1>4 DEF AccessListFails, Finish, Disturb
<1>5. CASE PrefetchAnswer(c)
  BY <1>0, <1>5 DEF PrefetchAnswer, Disturb
<1>6. CASE Transact(c)
  BY <1>0, <1>6 DEF Transact
<1>7. CASE ReadAtHand(c)
  BY <1>0, <1>7 DEF ReadAtHand, Give, Finish
<1>8. CASE ReadBlocks(c)
  BY <1>0, <1>8 DEF ReadBlocks
<1>9. CASE ReadAnswer(c)
  BY <1>0, <1>9 DEF ReadAnswer, Give, Finish, Disturb
<1>10. CASE TransactReturns(c)
  BY <1>0, <1>10 DEF TransactReturns, Finish
<1> QED BY <1>1, <1>2, <1>3, <1>4, <1>5, <1>6, <1>7, <1>8, <1>9, <1>10 DEF Step

(* A task whose state does not change keeps its invariant.                 *)
LEMMA OthersKeep ==
    ASSUME NEW d \in Calls, CallInv(d),
           payloads' = payloads, honest' = honest,
           pc'[d] = pc[d], req'[d] = req[d], block'[d] = block[d], todo'[d] = todo[d],
           accounts'[d] = accounts[d], values'[d] = values[d], result'[d] = result[d],
           missed'[d] = missed[d], disturbed'[d] = disturbed[d]
    PROVE  CallInv(d)'
<1> USE DEF CallInv
<1>1. Typed(d)'
  BY DEF Typed
<1>2. Database(d)'
  BY DEF Database, AccountOK
<1>3. ReadSoFar(d)'
  BY DEF ReadSoFar, ReadOK, NextRead
<1>4. \A rd : Readable(d, rd)' <=> Readable(d, rd)
  BY DEF Readable
<1>5. Undisturbed(d)'
  BY <1>4 DEF Undisturbed
<1>6. Wanted(d)' = Wanted(d)
  BY DEF Wanted
<1>7. Prefetched(d)'
  BY <1>6 DEF Prefetched
<1>8. Misses(d)'
  BY DEF Misses
<1> QED BY <1>1, <1>2, <1>3, <1>5, <1>7, <1>8

(* The part of the invariant that concerns a task.                         *)
LEMMA TaskInv ==
    ASSUME Inv, NEW c \in Calls
    PROVE  /\ Typed(c) /\ Database(c) /\ ReadSoFar(c)
           /\ Undisturbed(c) /\ Prefetched(c) /\ Misses(c)
           /\ payloads \in Caches /\ honest \in BOOLEAN /\ Shape
BY DEF Inv, CallInv

(* A task begins.                                                          *)
LEMMA BeginKeeps ==
    ASSUME Inv, NEW c \in Calls, Begin(c)
    PROVE  CallInv(c)'
<1> USE TaskInv DEF Shape
<1>1. PICK r \in Asked[c], n \in DOMAIN payloads :
         /\ req' = [req EXCEPT ![c] = r]
         /\ block' = [block EXCEPT ![c] = payloads[n]]
         /\ pc' = [pc EXCEPT ![c] = IF r.kind \in {"call", "estimate_gas"}
                                    THEN "access_list" ELSE "get_account"]
  BY DEF Begin
<1>2. /\ pc[c] = "idle" /\ req'[c] = r /\ block'[c] = payloads[n]
      /\ pc'[c] = IF r.kind \in {"call", "estimate_gas"}
                  THEN "access_list" ELSE "get_account"
      /\ todo' = todo /\ accounts' = accounts /\ values' = values /\ result' = result
      /\ missed' = missed /\ disturbed' = disturbed
      /\ payloads' = payloads /\ honest' = honest
  BY <1>1 DEF Begin, given
<1>3. r \in Requests /\ payloads[n] \in Block
  BY ValueFacts DEF Requests
<1>4. /\ r.kind \in {"call", "estimate_gas", "get_account", "get_storage_at"}
      /\ Len(r.reads) \in Nat
  BY <1>3, RequestFacts
<1>5. accounts[c] = <<>> /\ values[c] = <<>> /\ missed[c] = {}
  BY <1>2 DEF Database, ReadSoFar, Misses
<1>6. Typed(c)'
  BY <1>2, <1>3, <1>4 DEF Typed, Phase
<1>7. Database(c)'
  BY <1>2, <1>5 DEF Database
<1>8. ReadSoFar(c)'
  BY <1>2, <1>4, <1>5 DEF ReadSoFar
<1>9. Undisturbed(c)'
  BY <1>2, <1>5 DEF Undisturbed
<1>10. Prefetched(c)' /\ Misses(c)'
  BY <1>2, <1>5 DEF Prefetched, Misses
<1> QED BY <1>6, <1>7, <1>8, <1>9, <1>10 DEF CallInv

(* get_balance, get_nonce, get_code and get_storage_at end.                *)
LEMMA GetAccountKeeps ==
    ASSUME Inv, NEW c \in Calls, GetAccountAnswer(c)
    PROVE  CallInv(c)'
<1> USE TaskInv DEF Shape
<1> DEFINE r == req[c]
           b == block[c]
           rd == r.reads[1]
           slot == IF rd.op = "storage" THEN {rd.slot} ELSE {}
<1>1. /\ r \in Requests /\ b \in Block /\ r.kind \in {"get_account", "get_storage_at"}
      /\ pc[c] = "get_account" /\ values[c] = <<>>
  BY DEF GetAccountAnswer, Typed, ReadSoFar
<1>2. /\ Len(r.reads) = 1 /\ rd.op # "block_hash" /\ r.exit = "return"
  BY <1>1, EvmAssumption
<1>3. rd \in Read /\ DOMAIN r.reads = {1}
  <2> HIDE DEF r
  <2> QED BY <1>1, <1>2, RequestFacts
<1>4. rd.op \in {"basic", "storage"}
  BY <1>2, <1>3, ReadFacts
<1>5. PICK f \in Fetched(b, rd.address, slot) :
         /\ Disturb(c, f.disturbed)
         /\ IF f.account = Err \/ ~ slot \subseteq DOMAIN f.account.slots
            THEN Finish(c, Err) /\ UNCHANGED values
            ELSE /\ Finish(c, "ok")
                 /\ values' = [values EXCEPT ![c] =
                       <<IF rd.op = "storage" THEN f.account.slots[rd.slot]
                         ELSE Info(f.account)>>]
  BY DEF GetAccountAnswer
<1>6. /\ req' = req /\ block' = block /\ todo' = todo /\ missed' = missed
      /\ payloads' = payloads /\ honest' = honest
  BY DEF GetAccountAnswer, given
<1>7. /\ f.disturbed \in BOOLEAN
      /\ f.account # Err /\ rd.op = "basic" => ReadOK(b, rd, Info(f.account))
      /\ f.account # Err /\ rd.op = "storage" /\ rd.slot \in DOMAIN f.account.slots =>
            /\ ReadOK(b, rd, f.account.slots[rd.slot])
            /\ honest => HasStorage(State[b][rd.address])
      /\ honest /\ f.account # Err /\ rd.op = "storage" => rd.slot \in DOMAIN f.account.slots
      /\ honest /\ ~ f.disturbed /\ f.account = Err =>
            rd.op = "storage" /\ ~ HasStorage(State[b][rd.address])
  <2> HIDE DEF r, b
  <2> QED BY <1>1, <1>2, <1>3, AnswerFacts
<1>8. /\ disturbed'[c] = (disturbed[c] \/ f.disturbed)
      /\ pc'[c] = "done" /\ accounts'[c] = <<>>
  BY <1>5 DEF Disturb, Finish
<1>9. disturbed'[c] \in BOOLEAN /\ (~ disturbed'[c] => ~ disturbed[c] /\ ~ f.disturbed)
  BY <1>7, <1>8 DEF Typed
<1>10. Readable(c, rd)' <=> (rd.op = "storage" => HasStorage(State[b][rd.address]))
  BY <1>4, <1>6 DEF Readable
<1>11. Database(c)' /\ Prefetched(c)' /\ Misses(c)'
  BY <1>6, <1>8, <1>9 DEF Database, Prefetched, Misses
<1>12. CASE f.account = Err \/ ~ slot \subseteq DOMAIN f.account.slots
  <2>1. result'[c] = Err /\ values' = values
    BY <1>5, <1>12 DEF Finish
  <2>2. Typed(c)'
    BY <1>1, <1>6, <1>8, <1>9, <2>1 DEF Typed, Phase
  <2>3. ReadSoFar(c)'
    BY <1>1, <1>2, <1>6, <1>8, <2>1 DEF ReadSoFar
  <2>4. honest /\ ~ disturbed'[c] => ~ Readable(c, rd)'
    BY <1>4, <1>7, <1>9, <1>10, <1>12
  <2>5. Undisturbed(c)'
    BY <1>1, <1>3, <1>6, <1>8, <2>1, <2>4, ValueFacts DEF Undisturbed
  <2> QED BY <1>11, <2>2, <2>3, <2>5 DEF CallInv
<1>13. CASE ~ (f.account = Err \/ ~ slot \subseteq DOMAIN f.account.slots)
  <2> DEFINE v == IF rd.op = "storage" THEN f.account.slots[rd.slot] ELSE Info(f.account)
  <2>1. result'[c] = "ok" /\ values'[c] = <<v>>
    BY <1>5, <1>13 DEF Finish
  <2>2. ReadOK(b, rd, v) /\ (honest => (rd.op = "storage" => HasStorage(State[b][rd.address])))
    BY <1>4, <1>7, <1>13
  <2>3. v \in ReadValue
    BY <2>2 DEF ReadOK
  <2> HIDE DEF v
  <2>4. Typed(c)'
    BY <1>1, <1>6, <1>8, <1>9, <2>1 DEF Typed, Phase
  <2>5. values'[c] \in Seq(ReadValue) /\ DOMAIN values'[c] = {1} /\ Len(values'[c]) = 1
        /\ values'[c][1] = v
    BY <2>1, <2>3
  <2>6. ReadOK(block[c], req[c].reads[1], values[c][1])'
    BY <1>6, <2>2, <2>5 DEF ReadOK
  <2>7. ReadSoFar(c)'
    BY <1>2, <1>6, <1>8, <2>5, <2>6 DEF ReadSoFar
  <2>8. Undisturbed(c)'
    BY <1>2, <1>3, <1>6, <1>8, <1>10, <2>1, <2>2, <2>5 DEF Undisturbed
  <2> QED BY <1>11, <2>4, <2>7, <2>8 DEF CallInv
<1> QED BY <1>12, <1>13

(* The items of a list with three more.                                    *)
LEMMA ItemsOfConcat ==
    ASSUME NEW s \in Seq(AccessListItem), NEW x \in AccessListItem,
           NEW y \in AccessListItem, NEW z \in AccessListItem
    PROVE  /\ s \o <<x, y, z>> \in Seq(AccessListItem)
           /\ Items(s \o <<x, y, z>>) = Items(s) \cup {x, y, z}
<1> DEFINE t == <<x, y, z>>
           u == s \o t
<1>1. t \in Seq(AccessListItem) /\ Len(t) = 3 /\ t[1] = x /\ t[2] = y /\ t[3] = z
  OBVIOUS
<1> HIDE DEF t
<1>2. /\ u \in Seq(AccessListItem) /\ Len(u) = Len(s) + 3
      /\ \A i \in 1 .. Len(s) + 3 : u[i] = IF i <= Len(s) THEN s[i] ELSE t[i - Len(s)]
  <2>1. /\ u \in Seq(AccessListItem) /\ Len(u) = Len(s) + Len(t)
        /\ \A i \in 1 .. Len(s) + Len(t) : u[i] = IF i <= Len(s) THEN s[i] ELSE t[i - Len(s)]
    BY <1>1, ConcatProperties
  <2> HIDE DEF u
  <2> QED BY <1>1, <2>1
<1>3. /\ Len(s) \in Nat /\ DOMAIN s = 1 .. Len(s) /\ DOMAIN u = 1 .. Len(s) + 3
  BY <1>2, LenProperties
<1> HIDE DEF u
<1>4. ASSUME NEW i \in DOMAIN u
      PROVE  u[i] \in Items(s) \cup {x, y, z}
  <2>1. CASE i <= Len(s)
    BY <1>2, <1>3, <2>1 DEF Items
  <2>2. CASE ~ i <= Len(s)
    <3>1. i - Len(s) \in {1, 2, 3}
      BY <1>3, <2>2
    <3> QED BY <1>1, <1>2, <1>3, <2>2, <3>1
  <2> QED BY <2>1, <2>2
<1>5. ASSUME NEW i \in DOMAIN s
      PROVE  s[i] \in Items(u)
  <2>1. i \in DOMAIN u /\ u[i] = s[i]
    BY <1>2, <1>3
  <2> QED BY <2>1 DEF Items
<1>6. x \in Items(u) /\ y \in Items(u) /\ z \in Items(u)
  <2>1. /\ Len(s) + 1 \in DOMAIN u /\ Len(s) + 2 \in DOMAIN u /\ Len(s) + 3 \in DOMAIN u
        /\ u[Len(s) + 1] = x /\ u[Len(s) + 2] = y /\ u[Len(s) + 3] = z
    BY <1>1, <1>2, <1>3
  <2> QED BY <2>1 DEF Items
<1>7. Items(u) = Items(s) \cup {x, y, z}
  BY <1>4, <1>5, <1>6 DEF Items
<1> QED BY <1>2, <1>7 DEF t, u

(* The items of a list that is not empty.                                  *)
LEMMA ItemsOfTail ==
    ASSUME NEW s \in Seq(AccessListItem), s # <<>>
    PROVE  /\ Head(s) \in AccessListItem /\ Tail(s) \in Seq(AccessListItem)
           /\ Items(s) = {Head(s)} \cup Items(Tail(s))
<1>1. /\ Head(s) \in AccessListItem /\ Tail(s) \in Seq(AccessListItem)
      /\ Len(Tail(s)) = Len(s) - 1 /\ \A i \in 1 .. Len(Tail(s)) : Tail(s)[i] = s[i + 1]
      /\ Head(s) = s[1]
  BY HeadTailProperties
<1>2. /\ Len(s) \in Nat \ {0} /\ DOMAIN s = 1 .. Len(s) /\ DOMAIN Tail(s) = 1 .. Len(s) - 1
  BY <1>1, LenProperties, EmptySeq
<1>3. ASSUME NEW i \in DOMAIN s
      PROVE  s[i] \in {Head(s)} \cup Items(Tail(s))
  <2>1. CASE i = 1
    BY <1>1, <2>1
  <2>2. CASE i # 1
    <3>1. i - 1 \in DOMAIN Tail(s) /\ Tail(s)[i - 1] = s[i]
      BY <1>1, <1>2, <2>2
    <3> QED BY <3>1 DEF Items
  <2> QED BY <2>1, <2>2
<1>4. ASSUME NEW i \in DOMAIN Tail(s)
      PROVE  Tail(s)[i] \in Items(s)
  <2>1. i + 1 \in DOMAIN s /\ Tail(s)[i] = s[i + 1]
    BY <1>1, <1>2
  <2> QED BY <2>1 DEF Items
<1>5. Head(s) \in Items(s)
  BY <1>1, <1>2 DEF Items
<1> QED BY <1>1, <1>3, <1>4, <1>5 DEF Items

(* The access list is there, with the accounts that are fetched anyway.    *)
LEMMA AccessListKeeps ==
    ASSUME Inv, NEW c \in Calls, AccessListAnswer(c)
    PROVE  CallInv(c)'
<1> USE TaskInv DEF Shape
<1> DEFINE r == req[c]
           x == Item(r.from)
           y == Item(r.to)
           z == Item(fee_recipient[block[c]])
<1>1. PICK list \in Lists(r) : todo' = [todo EXCEPT ![c] = list \o <<x, y, z>>]
  BY DEF AccessListAnswer
<1>2. /\ pc[c] = "access_list" /\ pc'[c] = "prefetch" /\ todo'[c] = list \o <<x, y, z>>
      /\ req' = req /\ block' = block /\ accounts' = accounts /\ values' = values
      /\ result' = result /\ missed' = missed /\ disturbed' = disturbed
      /\ payloads' = payloads /\ honest' = honest
  BY <1>1 DEF AccessListAnswer, given
<1>3. r \in Requests /\ block[c] \in Block /\ r.kind \in {"call", "estimate_gas"}
  BY <1>2 DEF Typed
<1>4. list \in Seq(AccessListItem) /\ (honest => list = AccessList[r])
  <2>1. AccessList[r] \in Seq(AccessListItem) /\ AnyLists \subseteq Seq(AccessListItem)
    BY <1>3, RequestFacts, EvmAssumption
  <2> QED BY <2>1 DEF Lists
<1>5. x \in AccessListItem /\ y \in AccessListItem /\ z \in AccessListItem
  <2>1. r.from \in Address /\ r.to \in Address /\ fee_recipient[block[c]] \in Address
    BY <1>3, RequestFacts, EvmAssumption
  <2> QED BY <2>1 DEF Item, AccessListItem
<1>6. /\ todo'[c] \in Seq(AccessListItem)
      /\ honest => Items(todo'[c]) = Wanted(c)
  <2>1. todo'[c] \in Seq(AccessListItem) /\ Items(todo'[c]) = Items(list) \cup {x, y, z}
    <3> HIDE DEF x, y, z
    <3> QED BY <1>2, <1>4, <1>5, ItemsOfConcat
  <2> QED BY <1>4, <2>1 DEF Wanted
<1>7. accounts[c] = <<>> /\ values[c] = <<>>
  BY <1>2 DEF Database, ReadSoFar
<1>8. Typed(c)'
  BY <1>2, <1>3, <1>6 DEF Typed, Phase
<1>9. Database(c)'
  BY <1>2, <1>7 DEF Database
<1>10. ReadSoFar(c)'
  BY <1>2, <1>7 DEF ReadSoFar
<1>11. Undisturbed(c)'
  BY <1>2, <1>7 DEF Undisturbed
<1>12. Wanted(c)' = Wanted(c)
  BY <1>2 DEF Wanted
<1>13. Prefetched(c)'
  <2>1. Items(todo[c])' = Items(todo'[c]) /\ DOMAIN accounts'[c] = {}
    BY <1>2, <1>7
  <2>2. honest => Items(todo[c])' = Wanted(c)'
    BY <1>6, <1>12, <2>1
  <2> QED BY <1>2, <2>1, <2>2 DEF Prefetched
<1>14. Misses(c)'
  BY <1>2 DEF Misses
<1> QED BY <1>8, <1>9, <1>10, <1>11, <1>13, <1>14 DEF CallInv

(* The access list is not there.                                           *)
LEMMA AccessListFailsKeeps ==
    ASSUME Inv, NEW c \in Calls, AccessListFails(c)
    PROVE  CallInv(c)'
<1> USE TaskInv DEF Shape
<1>1. /\ pc[c] = "access_list" /\ pc'[c] = "done" /\ result'[c] = Err /\ accounts'[c] = <<>>
      /\ req' = req /\ block' = block /\ todo' = todo /\ values' = values
      /\ missed' = missed /\ payloads' = payloads /\ honest' = honest
      /\ disturbed' = [disturbed EXCEPT ![c] = disturbed[c] \/ TRUE]
      /\ disturbed'[c] = TRUE
  <2>1. Disturb(c, TRUE)
    BY DEF AccessListFails
  <2>2. disturbed' = [disturbed EXCEPT ![c] = disturbed[c] \/ TRUE]
    BY <2>1 DEF Disturb
  <2>3. disturbed'[c] = (disturbed[c] \/ TRUE)
    BY <2>2
  <2> QED BY <2>2, <2>3 DEF AccessListFails, Finish, given
<1>2. Typed(c)'
  BY <1>1 DEF Typed, Phase
<1>3. Database(c)'
  BY <1>1 DEF Database
<1>4. values[c] = <<>>
  BY <1>1 DEF ReadSoFar
<1>5. ReadSoFar(c)'
  BY <1>1, <1>4 DEF ReadSoFar
<1>6. Undisturbed(c)' /\ Prefetched(c)' /\ Misses(c)'
  BY <1>1 DEF Undisturbed, Prefetched, Misses
<1> QED BY <1>2, <1>3, <1>5, <1>6 DEF CallInv

(* An account of the list is there, or could not be fetched.               *)
LEMMA PrefetchKeeps ==
    ASSUME Inv, NEW c \in Calls, PrefetchAnswer(c)
    PROVE  CallInv(c)'
<1> USE TaskInv DEF Shape
<1> DEFINE item == Head(todo[c])
           b == block[c]
<1>1. PICK f \in Fetched(b, item.address, item.storage_keys) :
         /\ Disturb(c, f.disturbed)
         /\ accounts' = IF f.account = Err THEN accounts
                        ELSE [accounts EXCEPT ![c] = Insert(@, item.address, f.account)]
  BY DEF PrefetchAnswer
<1>2. /\ pc[c] = "prefetch" /\ pc' = pc /\ todo[c] # <<>> /\ todo'[c] = Tail(todo[c])
      /\ req' = req /\ block' = block /\ values' = values
      /\ result' = result /\ missed' = missed
      /\ payloads' = payloads /\ honest' = honest
  BY DEF PrefetchAnswer, given
<1>3. /\ b \in Block /\ req[c] \in Requests /\ todo[c] \in Seq(AccessListItem)
  BY <1>2 DEF Typed
<1>4. /\ item \in AccessListItem /\ todo'[c] \in Seq(AccessListItem)
      /\ Items(todo[c]) = {item} \cup Items(todo'[c])
  BY <1>2, <1>3, ItemsOfTail
<1>5. item.address \in Address /\ item.storage_keys \in SUBSET Slot
  BY <1>4 DEF AccessListItem
<1> HIDE DEF item
<1>6. /\ f.disturbed \in BOOLEAN
      /\ f.account # Err => AccountOK(b, item.address, f.account)
      /\ honest /\ f.account # Err => DOMAIN f.account.slots = item.storage_keys
      /\ honest /\ ~ f.disturbed =>
            (f.account = Err <=>
               item.storage_keys # {} /\ ~ HasStorage(State[b][item.address]))
  BY <1>3, <1>5, FetchedAccount
<1>7. /\ disturbed'[c] = (disturbed[c] \/ f.disturbed)
      /\ disturbed'[c] \in BOOLEAN
      /\ ~ disturbed'[c] => ~ disturbed[c] /\ ~ f.disturbed
  <2>1. disturbed'[c] = (disturbed[c] \/ f.disturbed)
    BY <1>1 DEF Disturb
  <2> QED BY <1>6, <2>1 DEF Typed
<1>8. /\ f.account = Err => accounts'[c] = accounts[c]
      /\ f.account # Err =>
            /\ DOMAIN accounts'[c] = DOMAIN accounts[c] \cup {item.address}
            /\ accounts'[c][item.address] = f.account
            /\ \A a \in DOMAIN accounts[c] : a # item.address =>
                  accounts'[c][a] = accounts[c][a]
  <2>1. CASE f.account = Err
    BY <1>1, <2>1
  <2>2. CASE f.account # Err
    <3>1. accounts'[c] = Insert(accounts[c], item.address, f.account)
      BY <1>1, <2>2
    <3> QED BY <2>2, <3>1 DEF Insert
  <2> QED BY <2>1, <2>2
<1>9. Typed(c)'
  BY <1>2, <1>3, <1>4, <1>7 DEF Typed, Phase
<1>10. Database(c)'
  <2>1. \A a \in DOMAIN accounts[c] : a \in Address /\ AccountOK(b, a, accounts[c][a])
    BY DEF Database
  <2>2. \A a \in DOMAIN accounts'[c] : a \in Address /\ AccountOK(b, a, accounts'[c][a])
    BY <1>5, <1>6, <1>8, <2>1
  <2>3. \A a \in DOMAIN accounts'[c] : a \in Address /\ AccountOK(block[c], a, accounts[c][a])'
    BY <1>2, <2>2 DEF AccountOK
  <2> QED BY <1>2, <2>3 DEF Database
<1>11. ReadSoFar(c)'
  BY <1>2 DEF ReadSoFar, ReadOK, NextRead
<1>12. Undisturbed(c)'
  <2>1. values[c] = <<>>
    BY <1>2 DEF ReadSoFar
  <2> QED BY <1>2, <2>1 DEF Undisturbed
<1>13. Misses(c)'
  BY <1>2, <1>7 DEF Misses
<1>14. Prefetched(c)'
  <2>1. SUFFICES ASSUME honest, ~ disturbed'[c]
                 PROVE  Prefetched(c)'
    BY <1>2 DEF Prefetched
  <2>2. Wanted(c)' = Wanted(c)
    BY <1>2 DEF Wanted
  <2>3. ~ disturbed[c] /\ ~ f.disturbed
    BY <1>7, <2>1
  <2>4. /\ Items(todo[c]) \subseteq Wanted(c)
        /\ \A it \in Wanted(c) :
              \/ it \in Items(todo[c])
              \/ it.address \in DOMAIN accounts[c]
              \/ it.storage_keys # {} /\ ~ HasStorage(State[b][it.address])
        /\ \A a \in DOMAIN accounts[c] : \E it \in Wanted(c) :
              it.address = a /\ DOMAIN accounts[c][a].slots = it.storage_keys
    BY <1>2, <2>1, <2>3 DEF Prefetched
  <2>5. item \in Wanted(c) /\ Items(todo'[c]) \subseteq Wanted(c)
    BY <1>4, <2>4
  <2>6. DOMAIN accounts[c] \subseteq DOMAIN accounts'[c]
    BY <1>8
  <2>7. \A it \in Wanted(c) :
              \/ it \in Items(todo'[c])
              \/ it.address \in DOMAIN accounts'[c]
              \/ it.storage_keys # {} /\ ~ HasStorage(State[b][it.address])
    <3>1. \/ item.address \in DOMAIN accounts'[c]
          \/ item.storage_keys # {} /\ ~ HasStorage(State[b][item.address])
      BY <1>6, <1>8, <2>1, <2>3
    <3> QED BY <1>4, <2>4, <2>6, <3>1
  <2>8. \A a \in DOMAIN accounts'[c] : \E it \in Wanted(c) :
              it.address = a /\ DOMAIN accounts'[c][a].slots = it.storage_keys
    <3>1. TAKE a \in DOMAIN accounts'[c]
    <3>2. CASE f.account # Err /\ a = item.address
      BY <1>6, <1>8, <2>1, <2>5, <3>2
    <3>3. CASE ~ (f.account # Err /\ a = item.address)
      <4>1. a \in DOMAIN accounts[c] /\ accounts'[c][a] = accounts[c][a]
        BY <1>8, <3>3
      <4> QED BY <2>4, <4>1
    <3> QED BY <3>2, <3>3
  <2>9. Items(todo[c])' = Items(todo'[c])
    OBVIOUS
  <2> QED BY <1>2, <2>2, <2>5, <2>7, <2>8, <2>9 DEF Prefetched
<1> QED BY <1>9, <1>10, <1>11, <1>12, <1>13, <1>14 DEF CallInv

(* The interpreter starts.                                                 *)
LEMMA TransactKeeps ==
    ASSUME Inv, NEW c \in Calls, Transact(c)
    PROVE  CallInv(c)'
<1> USE TaskInv DEF Shape
<1>1. /\ pc[c] = "prefetch" /\ pc'[c] = "run" /\ todo[c] = <<>>
      /\ req' = req /\ block' = block /\ todo' = todo /\ accounts' = accounts
      /\ values' = values /\ result' = result /\ missed' = missed /\ disturbed' = disturbed
      /\ payloads' = payloads /\ honest' = honest
  BY DEF Transact, given
<1>2. Typed(c)'
  BY <1>1 DEF Typed, Phase
<1>3. Database(c)'
  BY <1>1 DEF Database, AccountOK
<1>4. values[c] = <<>>
  BY <1>1 DEF ReadSoFar
<1>5. ReadSoFar(c)'
  BY <1>1, <1>4 DEF ReadSoFar
<1>6. Undisturbed(c)' /\ Misses(c)'
  BY <1>1, <1>4 DEF Undisturbed, Misses
<1>7. Prefetched(c)'
  <2>1. Wanted(c)' = Wanted(c)
    BY <1>1 DEF Wanted
  <2> QED BY <1>1, <2>1 DEF Prefetched
<1> QED BY <1>2, <1>3, <1>5, <1>6, <1>7 DEF CallInv

(* The database gives the interpreter a value, or an error.                *)
LEMMA GiveKeeps ==
    ASSUME Inv, NEW c \in Calls, pc[c] \in {"run", "blocked"},
           Len(values[c]) < Len(req[c].reads),
           NEW v, Give(c, v), v # Err => ReadOK(block[c], NextRead(c), v),
           req' = req, block' = block, todo' = todo, missed' = missed,
           payloads' = payloads, honest' = honest,
           disturbed'[c] \in BOOLEAN, ~ disturbed'[c] => ~ disturbed[c],
           honest /\ ~ disturbed'[c] => (v = Err <=> ~ Readable(c, NextRead(c)))
    PROVE  CallInv(c)'
<1> USE TaskInv DEF Shape
<1> DEFINE n == Len(values[c]) + 1
           reads == req[c].reads
<1>1. req[c] \in Requests /\ block[c] \in Block /\ req[c].kind \in {"call", "estimate_gas"}
  BY DEF Typed
<1>2. /\ values[c] \in Seq(ReadValue) /\ Len(values[c]) \in Nat
      /\ DOMAIN values[c] = 1 .. Len(values[c])
      /\ Len(reads) \in Nat /\ DOMAIN reads = 1 .. Len(reads)
  <2>1. values[c] \in Seq(ReadValue)
    BY DEF ReadSoFar
  <2>2. Len(reads) \in Nat /\ DOMAIN reads = 1 .. Len(reads)
    BY <1>1, RequestFacts
  <2> QED BY <2>1, <2>2, LenProperties
<1>3. n \in DOMAIN reads
  BY <1>2
<1>4. \A rd : Readable(c, rd)' <=> Readable(c, rd)
  BY DEF Readable
<1>5. Misses(c)'
  BY DEF Misses, Give, Finish
<1>6. CASE v = Err
  <2>1. /\ pc'[c] = "done" /\ result'[c] = Err /\ accounts'[c] = <<>> /\ values' = values
    BY <1>6 DEF Give, Finish
  <2>2. Typed(c)'
    BY <1>1, <2>1 DEF Typed, Phase
  <2>3. Database(c)' /\ Prefetched(c)'
    BY <2>1 DEF Database, Prefetched
  <2>4. ReadSoFar(c)'
    BY <2>1 DEF ReadSoFar, ReadOK
  <2>5. honest /\ ~ disturbed'[c] => ~ Readable(c, reads[n])
    BY <1>6 DEF NextRead
  <2>6. Undisturbed(c)'
    BY <1>3, <1>4, <2>1, <2>5, ValueFacts DEF Undisturbed
  <2> QED BY <1>5, <2>2, <2>3, <2>4, <2>6 DEF CallInv
<1>7. CASE v # Err
  <2>1. /\ pc'[c] = "run" /\ values'[c] = Append(values[c], v)
        /\ result' = result /\ accounts' = accounts
    BY <1>7 DEF Give
  <2>2. v \in ReadValue /\ ReadOK(block[c], reads[n], v)
    BY <1>7 DEF ReadOK, NextRead
  <2>3. /\ values'[c] \in Seq(ReadValue) /\ Len(values'[c]) = n
        /\ \A i \in 1 .. Len(values[c]) : values'[c][i] = values[c][i]
        /\ values'[c][n] = v
    BY <1>2, <2>1, <2>2, AppendProperties
  <2>4. DOMAIN values'[c] = 1 .. n
    BY <2>3, LenProperties
  <2>5. ASSUME NEW i \in DOMAIN values'[c]
        PROVE  i = n \/ (i \in DOMAIN values[c] /\ values'[c][i] = values[c][i])
    <3>1. i \in 1 .. Len(values[c]) + 1
      BY <2>4, <2>5
    <3>2. i = Len(values[c]) + 1 \/ i \in 1 .. Len(values[c])
      BY <1>2, <3>1
    <3>3. i \in 1 .. Len(values[c]) =>
             i \in DOMAIN values[c] /\ values'[c][i] = values[c][i]
      <4>1. \A j \in 1 .. Len(values[c]) : values'[c][j] = values[c][j]
        BY <2>3
      <4> QED BY <1>2, <4>1
    <3> QED BY <3>2, <3>3
  <2>6. Typed(c)'
    BY <1>1, <2>1 DEF Typed, Phase
  <2>7. Database(c)'
    BY <2>1 DEF Database, AccountOK
  <2>8. ReadSoFar(c)'
    <3>1. \A i \in DOMAIN values'[c] : ReadOK(block[c], reads[i], values'[c][i])
      <4> HIDE DEF n, reads
      <4>1. \A i \in DOMAIN values[c] : ReadOK(block[c], reads[i], values[c][i])
        BY DEF ReadSoFar, reads
      <4> QED BY <2>2, <2>3, <2>5, <4>1
    <3>2. \A i \in DOMAIN values'[c] : ReadOK(block[c], req[c].reads[i], values[c][i])'
      BY <3>1 DEF ReadOK
    <3>3. Len(values'[c]) <= Len(req'[c].reads)
      BY <1>2, <2>3
    <3> QED BY <2>1, <2>3, <3>2, <3>3 DEF ReadSoFar
  <2>9. Undisturbed(c)'
    <3>1. ASSUME honest, ~ disturbed'[c], NEW i \in DOMAIN values'[c]
          PROVE  Readable(c, reads[i])
      <4>1. Readable(c, reads[n])
        BY <1>7, <3>1 DEF NextRead
      <4>2. \A j \in DOMAIN values[c] : Readable(c, reads[j])
        BY <3>1 DEF Undisturbed
      <4> HIDE DEF n, reads
      <4> QED BY <2>5, <4>1, <4>2
    <3> QED BY <1>4, <2>1, <3>1 DEF Undisturbed
  <2>10. Prefetched(c)'
    <3>1. Wanted(c)' = Wanted(c)
      BY DEF Wanted
    <3> QED BY <2>1, <3>1 DEF Prefetched
  <2> QED BY <1>5, <2>6, <2>7, <2>8, <2>9, <2>10 DEF CallInv
<1> QED BY <1>6, <1>7

(* The next read, while the interpreter has one.                           *)
LEMMA NextReadFacts ==
    ASSUME Inv, NEW c \in Calls, pc[c] \in {"run", "blocked"},
           Len(values[c]) < Len(req[c].reads)
    PROVE  /\ NextRead(c) \in Read /\ block[c] \in Block /\ req[c] \in Requests
           /\ Len(values[c]) + 1 \in DOMAIN req[c].reads
           /\ req[c].kind \in {"call", "estimate_gas"}
<1>1. req[c] \in Requests /\ block[c] \in Block /\ req[c].kind \in {"call", "estimate_gas"}
  BY TaskInv DEF Typed
<1>2. Len(values[c]) \in Nat
  <2>1. values[c] \in Seq(ReadValue)
    BY TaskInv DEF ReadSoFar
  <2> QED BY <2>1, LenProperties
<1>3. /\ Len(req[c].reads) \in Nat /\ DOMAIN req[c].reads = 1 .. Len(req[c].reads)
      /\ \A i \in 1 .. Len(req[c].reads) : req[c].reads[i] \in Read
  BY <1>1, RequestFacts
<1>4. Len(values[c]) + 1 \in 1 .. Len(req[c].reads)
  BY <1>2, <1>3
<1> QED BY <1>1, <1>3, <1>4 DEF NextRead

(* A read of what is at hand.                                              *)
LEMMA ReadAtHandKeeps ==
    ASSUME Inv, NEW c \in Calls, ReadAtHand(c)
    PROVE  CallInv(c)'
<1> DEFINE rd == NextRead(c)
           v == AtHand(c, rd)
<1>1. /\ pc[c] = "run" /\ Len(values[c]) < Len(req[c].reads) /\ v # None /\ Give(c, v)
      /\ req' = req /\ block' = block /\ todo' = todo /\ missed' = missed
      /\ disturbed' = disturbed /\ payloads' = payloads /\ honest' = honest
  BY DEF ReadAtHand, given
<1>2. rd \in Read /\ block[c] \in Block
  BY <1>1, NextReadFacts
<1> HIDE DEF rd
<1>3. /\ v # Err => ReadOK(block[c], rd, v)
      /\ honest => (v = Err <=> ~ Readable(c, rd))
  BY <1>1, <1>2, TaskInv, AtHandFacts
<1>4. disturbed'[c] \in BOOLEAN /\ (~ disturbed'[c] => ~ disturbed[c])
  BY <1>1, TaskInv DEF Typed
<1> HIDE DEF v
<1> QED BY <1>1, <1>3, <1>4, GiveKeeps DEF rd

(* The answer to a read that was not at hand.                              *)
LEMMA ReadAnswerKeeps ==
    ASSUME Inv, NEW c \in Calls, ReadAnswer(c)
    PROVE  CallInv(c)'
<1> DEFINE rd == NextRead(c)
           slot == IF rd.op = "storage" THEN {rd.slot} ELSE {}
           V(f) == IF f.account = Err THEN Err
                   ELSE IF rd.op = "basic" THEN Info(f.account)
                   ELSE IF rd.slot \in DOMAIN f.account.slots
                        THEN f.account.slots[rd.slot] ELSE Err
<1>1. PICK f \in Fetched(block[c], rd.address, slot) : Disturb(c, f.disturbed) /\ Give(c, V(f))
  BY DEF ReadAnswer
<1>2. /\ pc[c] = "blocked" /\ req' = req /\ block' = block /\ todo' = todo
      /\ missed' = missed /\ payloads' = payloads /\ honest' = honest
  BY DEF ReadAnswer, given
<1>3. Len(values[c]) < Len(req[c].reads) /\ rd.op # "block_hash"
  BY <1>2, TaskInv DEF ReadSoFar
<1>4. rd \in Read /\ block[c] \in Block
  BY <1>2, <1>3, NextReadFacts
<1> HIDE DEF rd
<1>5. rd.op \in {"basic", "storage"}
  BY <1>3, <1>4, ReadFacts
<1>6. /\ f.disturbed \in BOOLEAN
      /\ f.account # Err /\ rd.op = "basic" => ReadOK(block[c], rd, Info(f.account))
      /\ f.account # Err /\ rd.op = "storage" /\ rd.slot \in DOMAIN f.account.slots =>
            /\ ReadOK(block[c], rd, f.account.slots[rd.slot])
            /\ honest => HasStorage(State[block[c]][rd.address])
      /\ honest /\ f.account # Err /\ rd.op = "storage" => rd.slot \in DOMAIN f.account.slots
      /\ honest /\ ~ f.disturbed /\ f.account = Err =>
            rd.op = "storage" /\ ~ HasStorage(State[block[c]][rd.address])
  BY <1>3, <1>4, TaskInv, AnswerFacts
<1>7. /\ disturbed'[c] \in BOOLEAN
      /\ ~ disturbed'[c] => ~ disturbed[c] /\ ~ f.disturbed
  <2>1. disturbed'[c] = (disturbed[c] \/ f.disturbed)
    BY <1>1, TaskInv DEF Disturb, Shape
  <2> QED BY <1>6, <2>1, TaskInv DEF Typed
<1>8. Readable(c, rd) <=> (rd.op = "storage" => HasStorage(State[block[c]][rd.address]))
  BY <1>5 DEF Readable
<1>9. V(f) # Err => ReadOK(block[c], rd, V(f))
  BY <1>5, <1>6
<1>10. \A u : ReadOK(block[c], rd, u) => u # Err
  BY ValueFacts DEF ReadOK
<1>11. honest /\ ~ f.disturbed => (V(f) = Err <=> ~ Readable(c, rd))
  BY <1>5, <1>6, <1>8, <1>10
<1> HIDE DEF V
<1> QED BY <1>1, <1>2, <1>3, <1>7, <1>9, <1>11, GiveKeeps DEF rd

(* What the access list of an honest provider is good for: a read that is  *)
(* not at hand, once the list is fetched without disturbance.              *)
LEMMA MissFacts ==
    ASSUME Inv, NEW c \in Calls, pc[c] = "run", Len(values[c]) < Len(req[c].reads),
           AtHand(c, NextRead(c)) = None, honest, ~ disturbed[c]
    PROVE  LET rd == NextRead(c) IN
           \/ ~ HasStorage(State[block[c]][rd.address])
           \/ /\ rd.op = "storage"
              /\ rd.address \in {req[c].from, req[c].to, fee_recipient[block[c]]}
<1> DEFINE r == req[c]
           rd == NextRead(c)
           a == rd.address
           three == {r.from, r.to, fee_recipient[block[c]]}
           items == Items(AccessList[r])
<1>1. /\ rd \in Read /\ block[c] \in Block /\ r \in Requests
      /\ r.kind \in {"call", "estimate_gas"} /\ Len(values[c]) + 1 \in DOMAIN r.reads
  BY NextReadFacts
<1> HIDE DEF rd
<1>2. /\ rd.op # "block_hash"
      /\ rd.op = "basic" => a \notin Precompiles \cup DOMAIN accounts[c]
      /\ rd.op = "storage" =>
            ~ (a \in DOMAIN accounts[c] /\ rd.slot \in DOMAIN accounts[c][a].slots)
  BY <1>1, TaskInv, AtHandFacts DEF rd
<1>3. rd.op \in {"basic", "storage"}
  BY <1>1, <1>2, ReadFacts
<1>4. /\ \A item \in Wanted(c) :
            \/ item.address \in DOMAIN accounts[c]
            \/ item.storage_keys # {} /\ ~ HasStorage(State[block[c]][item.address])
      /\ \A x \in DOMAIN accounts[c] : \E item \in Wanted(c) :
            item.address = x /\ DOMAIN accounts[c][x].slots = item.storage_keys
  <2>1. todo[c] = <<>>
    BY TaskInv DEF Prefetched
  <2>2. Items(todo[c]) = {}
    BY <2>1 DEF Items
  <2> QED BY <2>2, TaskInv DEF Prefetched
<1>5. /\ Wanted(c) = items \cup {Item(x) : x \in three}
      /\ \A x \in three : Item(x) \in Wanted(c)
      /\ \A x : Item(x).address = x /\ Item(x).storage_keys = {}
  BY DEF Wanted, Item
<1>6. \/ rd.op = "block_hash"
      \/ rd.op = "basic" /\ a \in Precompiles
      \/ a \in {r.from, r.to}
      \/ /\ \E item \in items : item.address = a
         /\ rd.op = "storage" => \A item \in items : item.address = a => rd.slot \in item.storage_keys
  <2>1. \A i \in DOMAIN r.reads :
            LET y == r.reads[i]
                of == {item \in items : item.address = y.address}
            IN  \/ y.op = "block_hash"
                \/ y.op = "basic" /\ y.address \in Precompiles
                \/ y.address \in {r.from, r.to}
                \/ of # {} /\ (y.op = "storage" =>
                                  \A item \in of : y.slot \in item.storage_keys)
    BY <1>1, AccessListAssumption DEF Items
  <2>2. rd = r.reads[Len(values[c]) + 1]
    BY DEF rd, NextRead
  <2> HIDE DEF items, r
  <2> QED BY <1>1, <2>1, <2>2
<1> HIDE DEF three, items, a, r
<1>7. CASE a \in three
  <2>1. a \in DOMAIN accounts[c]
    BY <1>4, <1>5, <1>7
  <2>2. rd.op = "storage"
    BY <1>2, <1>3, <2>1
  <2> QED BY <1>7, <2>2 DEF rd, a, three, r
<1>8. CASE a \notin three
  <2>1. PICK item \in items : item.address = a
    BY <1>2, <1>6, <1>8 DEF three
  <2>2. item \in Wanted(c)
    BY <1>5
  <2>3. CASE a \notin DOMAIN accounts[c]
    <3>1. ~ HasStorage(State[block[c]][a])
      BY <1>4, <2>1, <2>2, <2>3
    <3> QED BY <3>1 DEF rd, a
  <2>4. CASE a \in DOMAIN accounts[c]
    <3>1. PICK it \in Wanted(c) :
             it.address = a /\ DOMAIN accounts[c][a].slots = it.storage_keys
      BY <1>4, <2>4
    <3>2. it \in items
      BY <1>5, <1>8, <3>1
    <3>3. rd.op = "storage"
      BY <1>2, <1>3, <2>4
    <3>4. rd.slot \in it.storage_keys
      BY <1>2, <1>6, <1>8, <3>1, <3>2, <3>3 DEF three
    <3> QED BY <1>2, <2>4, <3>1, <3>3, <3>4
  <2> QED BY <2>3, <2>4
<1> QED BY <1>7, <1>8

(* A read that is not at hand blocks.                                      *)
LEMMA ReadBlocksKeeps ==
    ASSUME Inv, NEW c \in Calls, ReadBlocks(c)
    PROVE  CallInv(c)'
<1> USE TaskInv DEF Shape
<1> DEFINE rd == NextRead(c)
<1>1. /\ pc[c] = "run" /\ Len(values[c]) < Len(req[c].reads) /\ AtHand(c, rd) = None
      /\ pc'[c] = "blocked" /\ missed'[c] = missed[c] \cup {rd}
      /\ req' = req /\ block' = block /\ todo' = todo /\ accounts' = accounts
      /\ values' = values /\ result' = result /\ disturbed' = disturbed
      /\ payloads' = payloads /\ honest' = honest
  BY DEF ReadBlocks, given
<1>2. rd \in Read /\ block[c] \in Block
  BY <1>1, NextReadFacts
<1>3. rd.op # "block_hash"
  BY <1>1, <1>2, AtHandFacts
<1>4. Typed(c)'
  BY <1>1 DEF Typed, Phase
<1>5. Database(c)'
  BY <1>1 DEF Database, AccountOK
<1>6. ReadSoFar(c)'
  <2>1. NextRead(c)' = NextRead(c)
    BY <1>1 DEF NextRead
  <2> QED BY <1>1, <1>3, <2>1 DEF ReadSoFar, ReadOK
<1>7. Undisturbed(c)'
  <2>1. \A x : Readable(c, x)' <=> Readable(c, x)
    BY <1>1 DEF Readable
  <2> QED BY <1>1, <2>1 DEF Undisturbed
<1>8. Prefetched(c)'
  <2>1. Wanted(c)' = Wanted(c)
    BY <1>1 DEF Wanted
  <2> QED BY <1>1, <2>1 DEF Prefetched
<1>9. Misses(c)'
  <2>1. honest /\ ~ disturbed[c] =>
           \/ ~ HasStorage(State[block[c]][rd.address])
           \/ /\ rd.op = "storage"
              /\ rd.address \in {req[c].from, req[c].to, fee_recipient[block[c]]}
    BY <1>1, MissFacts
  <2> HIDE DEF rd
  <2> QED BY <1>1, <2>1 DEF Misses
<1> QED BY <1>4, <1>5, <1>6, <1>7, <1>8, <1>9 DEF CallInv

(* The interpreter ends.                                                   *)
LEMMA ReturnsKeep ==
    ASSUME Inv, NEW c \in Calls, TransactReturns(c)
    PROVE  CallInv(c)'
<1> USE TaskInv DEF Shape
<1>1. /\ pc[c] = "run" /\ Len(values[c]) = Len(req[c].reads)
      /\ pc'[c] = "done" /\ accounts'[c] = <<>>
      /\ result'[c] = IF req[c].exit = "revert" THEN Err ELSE "ok"
      /\ req' = req /\ block' = block /\ todo' = todo /\ values' = values
      /\ missed' = missed /\ disturbed' = disturbed
      /\ payloads' = payloads /\ honest' = honest
  BY DEF TransactReturns, Finish, given
<1>2. req[c] \in Requests
  BY <1>1 DEF Typed
<1>3. Typed(c)'
  BY <1>1 DEF Typed, Phase
<1>4. Database(c)' /\ Prefetched(c)' /\ Misses(c)'
  BY <1>1 DEF Database, Prefetched, Misses
<1>5. ReadSoFar(c)'
  BY <1>1 DEF ReadSoFar, ReadOK
<1>6. Undisturbed(c)'
  <2>1. \A x : Readable(c, x)' <=> Readable(c, x)
    BY <1>1 DEF Readable
  <2>2. DOMAIN values[c] = DOMAIN req[c].reads
    <3>1. values[c] \in Seq(ReadValue)
      BY DEF ReadSoFar
    <3> QED BY <1>1, <1>2, <3>1, LenProperties, RequestFacts
  <2>3. req[c].exit \in {"return", "revert"}
    BY <1>2, RequestFacts
  <2> QED BY <1>1, <2>1, <2>2, <2>3, ValueFacts DEF Undisturbed
<1> QED BY <1>3, <1>4, <1>5, <1>6 DEF CallInv

----------------------------------------------------------------------------
(* The theorems.                                                           *)

(* No task has begun.                                                      *)
LEMMA InitInv == Init => Inv
<1> SUFFICES ASSUME Init PROVE Inv
  OBVIOUS
<1>1. Shape
  BY DEF Init, Shape
<1>2. ASSUME NEW c \in Calls PROVE CallInv(c)
  <2>1. Typed(c)
    BY DEF Init, Typed, Phase
  <2>2. Database(c)
    BY DEF Init, Database
  <2>3. ReadSoFar(c)
    BY DEF Init, ReadSoFar
  <2>4. Undisturbed(c)
    BY DEF Init, Undisturbed
  <2>5. Prefetched(c)
    BY DEF Init, Prefetched
  <2>6. Misses(c)
    BY DEF Init, Misses
  <2> QED BY <2>1, <2>2, <2>3, <2>4, <2>5, <2>6 DEF CallInv
<1> QED BY <1>1, <1>2 DEF Init, Inv

(* Every step keeps the invariant: of the task that makes it, and of the   *)
(* others, whose state it leaves alone.                                    *)
LEMMA NextInv == Inv /\ [Next]_vars => Inv'
<1> SUFFICES ASSUME Inv, [Next]_vars PROVE Inv'
  OBVIOUS
<1>1. CASE UNCHANGED vars
  <2>1. /\ payloads' = payloads /\ honest' = honest /\ pc' = pc /\ req' = req
        /\ block' = block /\ todo' = todo /\ accounts' = accounts /\ values' = values
        /\ result' = result /\ missed' = missed /\ disturbed' = disturbed
    BY <1>1 DEF vars, given
  <2>2. \A d \in Calls : CallInv(d)'
    BY <2>1, OthersKeep DEF Inv
  <2> QED BY <2>1, <2>2 DEF Inv, Shape
<1>2. CASE Next
  <2>1. PICK c \in Calls : Begin(c) \/ Step(c)
    BY <1>2 DEF Next
  <2>2. /\ payloads' = payloads /\ honest' = honest /\ Shape'
        /\ \A d \in Calls \ {c} :
                 /\ pc'[d] = pc[d] /\ req'[d] = req[d] /\ block'[d] = block[d]
                 /\ todo'[d] = todo[d] /\ accounts'[d] = accounts[d]
                 /\ values'[d] = values[d] /\ result'[d] = result[d]
                 /\ missed'[d] = missed[d] /\ disturbed'[d] = disturbed[d]
    BY <2>1, OneTask
  <2>3. \A d \in Calls \ {c} : CallInv(d)'
    BY <2>2, OthersKeep DEF Inv
  <2>4. CallInv(c)'
    BY <2>1, BeginKeeps, GetAccountKeeps, AccessListKeeps, AccessListFailsKeeps,
       PrefetchKeeps, TransactKeeps, ReadAtHandKeeps, ReadBlocksKeeps, ReadAnswerKeeps,
       ReturnsKeep DEF Step
  <2> QED BY <2>2, <2>3, <2>4 DEF Inv
<1> QED BY <1>1, <1>2

(* The inductive invariant holds throughout: databases hold accounts of    *)
(* their block, what was read is of it, and with an undisturbed honest     *)
(* provider each item of the access list is fetched or cannot be.          *)
THEOREM EvmInvariant == Spec => []Inv
BY InitInv, NextInv, PTL DEF Spec

(* The tasks and their databases have their types throughout; what failed  *)
(* to be fetched is never in a database.                                   *)
THEOREM TypeCorrect == Spec => []TypeOK
<1>1. Inv => TypeOK
  <2> SUFFICES ASSUME Inv PROVE TypeOK
    OBVIOUS
  <2>1. ASSUME NEW c \in Calls, NEW a \in DOMAIN accounts[c]
        PROVE  /\ a \in Address
               /\ accounts[c][a] # Err
               /\ accounts[c][a].info \in Value /\ accounts[c][a].code \in Code
               /\ DOMAIN accounts[c][a].slots \subseteq Slot
    <3>1. a \in Address /\ accounts[c][a] \in AccountInfo
      BY TaskInv DEF Database, AccountOK
    <3>2. accounts[c][a] # Err
      BY <3>1, ValuesAssumption
    <3> QED BY <3>1, <3>2 DEF AccountInfo
  <2>2. \A c \in Calls : Typed(c)
    BY TaskInv
  <2> QED BY <2>1, <2>2 DEF TypeOK, Inv, Typed, Phase
<1> QED BY <1>1, EvmInvariant, PTL

(* What was read is as it should be.                                       *)
LEMMA ReturnsOK ==
    ASSUME Inv, NEW c \in Calls, NEW x \in Returns(c)
    PROVE  ReadOK(block[c], x[1], x[2])
<1>1. PICK i \in DOMAIN values[c] : x = <<req[c].reads[i], values[c][i]>>
  BY DEF Returns
<1>2. x[1] = req[c].reads[i] /\ x[2] = values[c][i]
  BY <1>1
<1>3. ReadOK(block[c], req[c].reads[i], values[c][i])
  BY TaskInv DEF ReadSoFar
<1> QED BY <1>2, <1>3

(* Whatever the provider answers, get_account and the interpreter see the  *)
(* state of the block, or nothing where there is something.                *)
THEOREM ReadsCorrect == Spec => []ReadsAreOfTheBlock
<1>1. Inv => ReadsAreOfTheBlock
  BY ReturnsOK DEF ReadsAreOfTheBlock, ReadOK
<1> QED BY <1>1, EvmInvariant, PTL

(* An honest provider is read exactly, whichever branches it answers from. *)
THEOREM HonestReadsCorrect == Spec => []HonestReadsAreRight
<1>1. Inv => HonestReadsAreRight
  BY ReturnsOK DEF HonestReadsAreRight, ReadOK
<1> QED BY <1>1, EvmInvariant, PTL

(* With an undisturbed honest provider a query that does not revert and    *)
(* reads hashes of cached blocks and slots of accounts with storage        *)
(* succeeds; a revert or the hash of another block is an error.            *)
THEOREM CallsCorrect == Spec => []HonestCallSucceeds
<1>1. ASSUME Inv
      PROVE  HonestCallSucceeds
  <2> SUFFICES ASSUME NEW c \in Calls, honest, pc[c] = "done", ~ disturbed[c]
               PROVE  LET reads == {req[c].reads[i] : i \in DOMAIN req[c].reads}
                      IN  /\ req[c].exit = "return" /\ (\A rd \in reads : Readable(c, rd))
                               => result[c] = "ok"
                          /\ \/ req[c].exit = "revert"
                             \/ \E rd \in reads : rd.op = "block_hash" /\ ~ Readable(c, rd)
                             => result[c] # "ok"
    BY DEF HonestCallSucceeds
  <2>1. result[c] = "ok" <=>
           /\ req[c].exit = "return"
           /\ \A i \in DOMAIN req[c].reads : Readable(c, req[c].reads[i])
    BY <1>1, TaskInv DEF Undisturbed
  <2> QED BY <2>1
<1>2. Inv => HonestCallSucceeds
  BY <1>1
<1> QED BY <1>2, EvmInvariant, PTL

(* With an undisturbed honest provider, only slots of the accounts whose   *)
(* entries are replaced, and accounts without storage, block a worker.     *)
THEOREM MissesCorrect == Spec => []OnlyReplacedEntriesMiss
<1>1. Inv => OnlyReplacedEntriesMiss
  BY TaskInv DEF OnlyReplacedEntriesMiss, Misses
<1> QED BY <1>1, EvmInvariant, PTL
=============================================================================
