----------------------------- MODULE Execution ------------------------------
(***************************************************************************)
(* The execution client: execution/src/execution.rs.  It answers queries   *)
(* for transactions, receipts, logs and fees with the answers of an        *)
(* execution provider, after checking them against the cached payloads.    *)
(*                                                                         *)
(* A query runs under the read lock: the payloads do not change meanwhile. *)
(* It makes several requests, and the provider may reorganise its chain    *)
(* between them, fail, or, if it is not honest, answer anything.           *)
(*                                                                         *)
(* A block commits to the sequence of its transactions and to the sequence *)
(* of the contents of their receipts (status, gas, bloom and logs: what    *)
(* encode_receipt encodes).  The other fields of a receipt (the            *)
(* transaction, the block) are not covered by the receipts root.           *)
(***************************************************************************)
EXTENDS Integers, Sequences, FiniteSets, SequencesExt

CONSTANTS
    Tx,                \* transactions, each named by its encoding
    Block,
    Number,            \* the number of a block
    transactions,      \* the transactions of a block
    contents,          \* the contents of their receipts
    Content,
    Data,              \* logs
    logs_of,           \* the logs in the content of a receipt
    Branches,          \* the chains the provider may be on: sets of blocks
    Caches,            \* the payloads a node may hold, by number
    Filters,           \* the filters of getLogs that are asked for
    AnyReceipts,       \* what a provider that is not honest answers
    AnyLogs,           \* and its logs
    MAX_SUPPORTED_LOGS_NUMBER,
    Width,             \* the width of the unsigned integers: 64
    None, Pending, Err, Panic

ASSUME ExecutionAssumption ==
    /\ Number \in [Block -> Nat]
    /\ transactions \in [Block -> Seq(Tx)] /\ contents \in [Block -> Seq(Content)]
    /\ \A b \in Block : Len(contents[b]) = Len(transactions[b])
    /\ logs_of \in [Content -> SUBSET Data] /\ \A c \in Content : IsFiniteSet(logs_of[c])
    /\ \A c \in Caches :
          /\ DOMAIN c # {} /\ IsFiniteSet(DOMAIN c)
          /\ \A n \in DOMAIN c : c[n] \in Block /\ Number[c[n]] = n
    /\ Filters \subseteq [from : Nat \cup {None}, to : Nat \cup {None}, block : Block \cup {None}]
    /\ AnyReceipts \subseteq [tx : Tx, block : Block, content : Content]
    /\ AnyLogs \subseteq [tx : Tx, data : Data]
    /\ MAX_SUPPORTED_LOGS_NUMBER \in Nat /\ Width \in Nat

(* A chain is finite, has one block of a number, and a transaction once.   *)
ASSUME ChainAssumption ==
    /\ Branches \subseteq SUBSET Block /\ \A v \in Branches : IsFiniteSet(v)
    /\ \A v \in Branches : \A b, c \in v :
          /\ Number[b] = Number[c] => b = c
          /\ \A i \in DOMAIN transactions[b], j \in DOMAIN transactions[c] :
                transactions[b][i] = transactions[c][j] => b = c /\ i = j

Numbers == {Number[b] : b \in Block}
Receipt == [tx : Tx, block : Block, content : Content]
Transaction == [tx : Tx, number : Numbers \cup {None}]
Log == [tx : Tx, data : Data]

(* What is not an answer is told apart from one.                           *)
ASSUME AnswerAssumption ==
    /\ {None, Pending, Err, Panic} \cap (Receipt \cup Transaction) = {}
    /\ None \notin Nat \cup Block \cup Tx /\ Pending # Err /\ Err # None
    /\ Err \notin Seq(Log) /\ \A b \in Block : Err \notin [DOMAIN transactions[b] -> Transaction]

VARIABLES
    payloads,          \* the cached payloads, from numbers to blocks
    honest,            \* whether the provider answers what its chain has
    view,              \* the provider's chain
    query,             \* what is asked for
    pc,                \* the request being awaited
    wanted,            \* the transaction whose receipt is to be proved
    receipt,           \* the receipt that the provider gave for it
    answers,           \* the answers to the requests made at once
    logs,              \* the logs of getLogs
    checked,           \* how many of them are proved
    result,            \* the answer, None for "not found"
    disturbed          \* history: a request failed or the chain changed

asked == <<payloads, honest, query>>
vars == <<asked, view, pc, wanted, receipt, answers, logs, checked, result, disturbed>>

----------------------------------------------------------------------------
(* The provider.                                                           *)

Positions(b, t) == {i \in DOMAIN transactions[b] : transactions[b][i] = t}

(* The blocks of the provider's chain that have transaction t.             *)
BlocksWith(t) == {b \in view : Positions(b, t) # {}}

ReceiptAnswers(t) ==
    IF ~ honest THEN AnyReceipts \cup {None}
    ELSE IF BlocksWith(t) = {} THEN {None}
    ELSE UNION {{[tx |-> t, block |-> b, content |-> contents[b][i]] :
                    i \in Positions(b, t)} : b \in BlocksWith(t)}

TransactionAnswers(t) ==
    IF ~ honest THEN Transaction \cup {None}
    ELSE IF BlocksWith(t) = {} THEN {[tx |-> t, number |-> None]}
    ELSE {[tx |-> t, number |-> Number[b]] : b \in BlocksWith(t)}

newest(bs) == CHOOSE n \in bs : \A m \in bs : m <= n
oldest(bs) == CHOOSE n \in bs : \A m \in bs : n <= m

(* The logs of the provider's chain in the range of a filter.              *)
LogsOf(b) ==
    UNION {{[tx |-> transactions[b][i], data |-> d] : d \in logs_of[contents[b][i]]} :
              i \in DOMAIN transactions[b]}

MatchingLogs(f) ==
    LET last == newest({Number[b] : b \in view})
        from == IF f.from = None THEN last ELSE f.from
        to == IF f.to = None THEN last ELSE f.to
    IN  UNION {LogsOf(b) : b \in {c \in view :
                  IF f.block # None THEN c = f.block
                                    ELSE from <= Number[c] /\ Number[c] <= to}}

LogAnswers(f) ==
    IF honest THEN SetToSeqs(MatchingLogs(f))
    ELSE UNION {[1 .. k -> AnyLogs] : k \in 0 .. MAX_SUPPORTED_LOGS_NUMBER + 1}

----------------------------------------------------------------------------
(* Ends of a query.                                                        *)

Return(r) ==
    /\ result' = r /\ pc' = "done"
    /\ UNCHANGED <<wanted, receipt, answers, checked>>

(* A request returned an error, at any await.                              *)
RequestFails ==
    /\ pc \in {"receipt", "transaction", "logs"}
    /\ Return(Err)
    /\ disturbed' = TRUE
    /\ UNCHANGED <<asked, view, logs>>

----------------------------------------------------------------------------
(* get_transaction_receipt, for its own sake and for each log of get_logs. *)

Begin(t) == wanted' = t /\ pc' = "receipt" /\ receipt' = None /\ answers' = <<>>

AskReceipt ==
    /\ pc = "start" /\ query.kind = "receipt"
    /\ Begin(query.tx)
    /\ UNCHANGED <<asked, view, logs, checked, result, disturbed>>

(* No receipt, or one of a block that is not cached: for a log that is an  *)
(* error.                                                                  *)
NotFound == Return(IF query.kind = "logs" THEN Err ELSE None)

ReceiptAnswer ==
    /\ pc = "receipt"
    /\ \E r \in ReceiptAnswers(wanted) :
          \/ (r = None \/ (r # None /\ Number[r.block] \notin DOMAIN payloads)) /\ NotFound
          \/ /\ r # None /\ Number[r.block] \in DOMAIN payloads
             /\ receipt' = r
             /\ answers' = [i \in DOMAIN transactions[payloads[Number[r.block]]] |-> Pending]
             /\ pc' = "block_receipts"
             /\ UNCHANGED <<wanted, checked, result>>
    /\ UNCHANGED <<asked, view, logs, disturbed>>

(* The receipts of all the transactions of the block are asked for at      *)
(* once; one that fails or is not found is an error.                       *)
BlockReceipt(i) ==
    /\ pc = "block_receipts" /\ answers[i] = Pending
    /\ \/ /\ \E r \in ReceiptAnswers(transactions[payloads[Number[receipt.block]]][i]) :
                answers' = [answers EXCEPT ![i] = IF r = None THEN Err ELSE r]
          /\ UNCHANGED disturbed
       \/ answers' = [answers EXCEPT ![i] = Err] /\ disturbed' = TRUE
    /\ UNCHANGED <<asked, view, pc, wanted, receipt, logs, checked, result>>

Answered == \A i \in DOMAIN answers : answers[i] # Pending

(* Their root is the one of the payload, and the receipt is one of them.   *)
receipts_proved(b) ==
    /\ \A i \in DOMAIN answers : answers[i] # Err
    /\ [i \in DOMAIN answers |-> answers[i].content] = contents[b]
    /\ \E i \in DOMAIN answers : answers[i] = receipt

(* Mutant: the log is not looked for in the receipt.                       *)
log_proved_by_receipt(log) == TRUE

log_proved(log) == log.data \in logs_of[receipt.content]

(* The next log, or the end of the query.                                  *)
NextLog(k) ==
    /\ checked' = k
    /\ IF k < Len(logs) THEN Begin(logs[k + 1].tx) /\ UNCHANGED result
       ELSE /\ result' = logs /\ pc' = "done"
            /\ UNCHANGED <<wanted, receipt, answers>>

CheckReceipts ==
    /\ pc = "block_receipts" /\ Answered
    /\ LET b == payloads[Number[receipt.block]]
       IN  \/ ~ receipts_proved(b) /\ Return(Err)
           \/ receipts_proved(b) /\ query.kind = "receipt" /\ Return(receipt)
           \/ /\ receipts_proved(b) /\ query.kind = "logs"
              /\ IF log_proved(logs[checked + 1]) THEN NextLog(checked + 1)
                                                  ELSE Return(Err)
    /\ UNCHANGED <<asked, view, logs, disturbed>>

----------------------------------------------------------------------------
(* get_logs.                                                               *)

(* Mutant: the range is left open.                                         *)
bounded_never(f) == f

(* "avoid fetching logs for a block helios hasn't seen yet"                *)
bounded(f) ==
    IF f.to = None /\ f.block = None
    THEN LET block == newest(DOMAIN payloads)
         IN  [f EXCEPT !.to = block, !.from = IF f.from = None THEN block ELSE f.from]
    ELSE f

AskLogs ==
    /\ pc = "start" /\ query.kind = "logs"
    /\ pc' = "logs"
    /\ UNCHANGED <<asked, view, wanted, receipt, answers, logs, checked, result, disturbed>>

(* Mutant: one log more than the limit is accepted.                        *)
too_many_logs_off_by_one(ls) == Len(ls) > MAX_SUPPORTED_LOGS_NUMBER + 1

too_many_logs(ls) == Len(ls) > MAX_SUPPORTED_LOGS_NUMBER

LogsAnswer ==
    /\ pc = "logs"
    /\ \E ls \in LogAnswers(bounded(query.filter)) :
          /\ logs' = ls
          /\ \/ too_many_logs(ls) /\ Return(Err)
             \/ ls = <<>> /\ Return(<<>>)
             \/ /\ ls # <<>> /\ ~ too_many_logs(ls)
                /\ Begin(ls[1].tx)
                /\ UNCHANGED <<checked, result>>
    /\ UNCHANGED <<asked, view, disturbed>>

----------------------------------------------------------------------------
(* The answers of a provider that is not honest may lack a field.          *)

(* A receipt without its block, or, among those of a block, one without    *)
(* its status or its type: the unwrap panics.                              *)
IncompleteReceipt ==
    /\ ~ honest
    /\ \/ pc = "receipt"
       \/ pc = "block_receipts" /\ Answered /\ \A i \in DOMAIN answers : answers[i] # Err
    /\ Return(Panic)
    /\ UNCHANGED <<asked, view, logs, disturbed>>

(* A log without the hash of its transaction is an error; for one that is  *)
(* not in its receipt the index is unwrapped.                              *)
IncompleteLog ==
    /\ ~ honest /\ query.kind = "logs"
    /\ \/ pc \in {"logs", "receipt"} /\ Return(Err)
       \/ /\ pc = "block_receipts" /\ Answered
          /\ receipts_proved(payloads[Number[receipt.block]])
          /\ ~ log_proved(logs[checked + 1])
          /\ Return(Panic)
    /\ UNCHANGED <<asked, view, logs, disturbed>>

----------------------------------------------------------------------------
(* get_transaction, by hash and by block and index, and get_block with its *)
(* transactions: all of them check against the payloads in scope.          *)

Scope ==
    IF query.kind = "transaction" THEN payloads
    ELSE [n \in {Number[query.block]} |-> query.block]

check_transaction(t) ==
    IF t = None THEN None
    ELSE IF t.number = None \/ t.number \notin DOMAIN Scope THEN None
    ELSE IF t.tx \in ToSet(transactions[Scope[t.number]]) THEN t
    ELSE Err

AskTransaction ==
    /\ pc = "start" /\ query.kind \in {"transaction", "index"}
    /\ \/ /\ query.kind = "transaction" /\ wanted' = query.tx /\ pc' = "transaction"
          /\ UNCHANGED result
       \/ /\ query.kind = "index" /\ query.index \in DOMAIN transactions[query.block]
          /\ wanted' = transactions[query.block][query.index] /\ pc' = "transaction"
          /\ UNCHANGED result
       \/ /\ query.kind = "index" /\ query.index \notin DOMAIN transactions[query.block]
          /\ result' = Panic /\ pc' = "done"
          /\ UNCHANGED wanted
    /\ UNCHANGED <<asked, view, receipt, answers, logs, checked, disturbed>>

TransactionAnswer ==
    /\ pc = "transaction"
    /\ \E t \in TransactionAnswers(wanted) :
          LET checked_tx == check_transaction(t)
          IN  Return(IF checked_tx = None /\ query.kind = "index" THEN Err ELSE checked_tx)
    /\ UNCHANGED <<asked, view, logs, disturbed>>

AskBlock ==
    /\ pc = "start" /\ query.kind = "block"
    /\ answers' = [i \in DOMAIN transactions[query.block] |-> Pending]
    /\ pc' = "block_transactions"
    /\ UNCHANGED <<asked, view, wanted, receipt, logs, checked, result, disturbed>>

BlockTransaction(i) ==
    /\ pc = "block_transactions" /\ answers[i] = Pending
    /\ \/ /\ \E t \in TransactionAnswers(transactions[query.block][i]) :
                LET c == check_transaction(t)
                IN  answers' = [answers EXCEPT ![i] = IF c = None THEN Err ELSE c]
          /\ UNCHANGED disturbed
       \/ answers' = [answers EXCEPT ![i] = Err] /\ disturbed' = TRUE
    /\ UNCHANGED <<asked, view, pc, wanted, receipt, logs, checked, result>>

(* Mutant: the transactions that were not found are left out.              *)
BlockReturns_partial ==
    /\ pc = "block_transactions" /\ Answered
    /\ Return(SelectSeq(answers, LAMBDA a : a # Err))
    /\ UNCHANGED <<asked, view, logs, disturbed>>

BlockReturns ==
    /\ pc = "block_transactions" /\ Answered
    /\ Return(IF \E i \in DOMAIN answers : answers[i] = Err THEN Err ELSE answers)
    /\ UNCHANGED <<asked, view, logs, disturbed>>

----------------------------------------------------------------------------
(* get_fee_history: a computation on the payloads alone.                   *)

(* Mutant: a block that is not cached is left out.                         *)
fee_history_blocks_present(range) == range \cap DOMAIN payloads

(* The blocks of the range, an error if one is not cached.                 *)
fee_history_blocks(range) == IF range \subseteq DOMAIN payloads THEN range ELSE Err

get_fee_history(block_count, last_block) ==
    LET latest == newest(DOMAIN payloads)
        first == oldest(DOMAIN payloads)
        request_latest == IF last_block > latest THEN latest ELSE last_block
        difference == request_latest - block_count
        wrapped == IF difference >= 0 THEN difference ELSE difference + 2 ^ Width
        request_oldest == IF wrapped < first THEN first ELSE wrapped
    IN  IF last_block < first THEN Err
        ELSE fee_history_blocks(request_oldest .. request_latest)

----------------------------------------------------------------------------
(* The provider's chain changes while a query is under way.                *)
Reorg ==
    /\ honest /\ pc # "done"
    /\ view' \in Branches \ {view}
    /\ disturbed' = TRUE
    /\ UNCHANGED <<asked, pc, wanted, receipt, answers, logs, checked, result>>

Queries ==
    [kind : {"receipt", "transaction"}, tx : Tx]
        \cup [kind : {"logs"}, filter : Filters]
        \cup [kind : {"block"}, block : Block]
        \cup {[kind |-> "index", block |-> b, index |-> i] : b \in Block, i \in 1 .. 2}

Init ==
    /\ payloads \in Caches
    /\ honest \in BOOLEAN
    /\ view \in Branches
    /\ query \in {q \in Queries : q.kind \in {"block", "index"} =>
                                      \E n \in DOMAIN payloads : payloads[n] = q.block}
    /\ pc = "start" /\ wanted = None /\ receipt = None
    /\ answers = <<>> /\ logs = <<>> /\ checked = 0
    /\ result = None /\ disturbed = FALSE

Next ==
    \/ RequestFails
    \/ AskReceipt
    \/ ReceiptAnswer
    \/ \E i \in DOMAIN answers : BlockReceipt(i)
    \/ CheckReceipts
    \/ AskLogs
    \/ LogsAnswer
    \/ IncompleteReceipt
    \/ IncompleteLog
    \/ AskTransaction
    \/ TransactionAnswer
    \/ AskBlock
    \/ \E i \in DOMAIN answers : BlockTransaction(i)
    \/ BlockReturns
    \/ Reorg

Spec == Init /\ [][Next]_vars

----------------------------------------------------------------------------
(* Properties.                                                             *)

Finished(kind) == pc = "done" /\ query.kind = kind /\ result \notin {None, Err, Panic}

(* The type invariant of a query.                                          *)
TypeOK ==
    /\ payloads \in Caches /\ view \in Branches
    /\ wanted \in Tx \cup {None} /\ receipt \in Receipt \cup {None}
    /\ \A i \in DOMAIN answers :
          answers[i] \in Receipt \cup Transaction \cup {Pending, Err}
    /\ \A i \in DOMAIN logs : logs[i] \in Log
    /\ checked \in 0 .. MAX_SUPPORTED_LOGS_NUMBER
    /\ pc # "done" => Len(logs) <= MAX_SUPPORTED_LOGS_NUMBER

(* Whatever the provider answers to each of the requests of                *)
(* get_transaction_receipt, the content of the receipt it returns is one   *)
(* that the cached block of the receipt's number commits to.               *)
ReceiptIsCommitted ==
    Finished("receipt") =>
        /\ Number[result.block] \in DOMAIN payloads
        /\ result.content \in ToSet(contents[payloads[Number[result.block]]])

(* Whatever the provider answers to get_logs and to the requests for       *)
(* receipts that follow, every log returned is in a receipt that a cached  *)
(* block commits to.                                                       *)
LogsAreCommitted ==
    Finished("logs") =>
        \A k \in DOMAIN result : \E n \in DOMAIN payloads :
            \E c \in ToSet(contents[payloads[n]]) : result[k].data \in logs_of[c]

(* A transaction that is returned is one of the block it is said to be in; *)
(* so are those of a block with full transactions.                         *)
TransactionsAreCommitted ==
    /\ Finished("transaction") =>
          result.tx \in ToSet(transactions[payloads[result.number]])
    /\ Finished("index") => result.tx \in ToSet(transactions[query.block])
    /\ Finished("block") =>
          \A i \in DOMAIN result : result[i].tx \in ToSet(transactions[query.block])

(* Whatever the provider answers, only data that a cached block commits to *)
(* is returned.                                                            *)
AnswersAreCommitted == ReceiptIsCommitted /\ LogsAreCommitted /\ TransactionsAreCommitted

(* With an honest provider, even one that reorganises its chain between    *)
(* the requests of a query, a receipt is that of the transaction asked for *)
(* with its content in the cached block, and a block has its own           *)
(* transactions in their order: a mixture of two chains is an error.       *)
HonestAnswerIsRight ==
    honest =>
        /\ Finished("receipt") =>
              LET b == payloads[Number[result.block]]
              IN  /\ result.tx = query.tx
                  /\ \E i \in Positions(b, query.tx) : contents[b][i] = result.content
        /\ Finished("block") =>
              [i \in DOMAIN result |-> result[i].tx] = transactions[query.block]

(* An honest provider that stays on its chain, of which the cache holds    *)
(* the blocks from its oldest on, is never turned down: what is in the     *)
(* cache is found, and logs of blocks that the node has not seen yet do    *)
(* not fail a query that left its range open.                              *)
HonestAnswerIsAccepted ==
    (/\ pc = "done" /\ honest /\ ~ disturbed
     /\ \A n \in DOMAIN payloads : payloads[n] \in view
     /\ \A b \in view :
           oldest(DOMAIN payloads) <= Number[b] /\ Number[b] <= newest(DOMAIN payloads)
               => Number[b] \in DOMAIN payloads)
    =>  LET inCache(t) == \E n \in DOMAIN payloads : Positions(payloads[n], t) # {}
        IN  /\ query.kind \in {"receipt", "transaction"} =>
                  IF inCache(query.tx) THEN result.tx = query.tx ELSE result = None
            /\ query.kind = "block" => result # Err
            /\ query.kind = "logs" /\ query.filter.to = None /\ query.filter.block = None
                  /\ (query.filter.from # None =>
                          query.filter.from >= oldest(DOMAIN payloads))
                  /\ Len(logs) <= MAX_SUPPORTED_LOGS_NUMBER
                => result # Err

(* The last block of a fee history: the one asked for, if not too new.     *)
LastBlock(last_block) ==
    IF last_block > newest(DOMAIN payloads) THEN newest(DOMAIN payloads) ELSE last_block

(* The cached blocks that a fee history is asked for; Cached says that     *)
(* those from the oldest in the cache on are there.                        *)
AskedFor(block_count, last) == {n \in DOMAIN payloads : last - block_count <= n /\ n <= last}
Cached(last) ==
    /\ oldest(DOMAIN payloads) <= last
    /\ oldest(DOMAIN payloads) .. last \subseteq DOMAIN payloads

(* The fee history is one of consecutive cached blocks that ends at the    *)
(* block asked for or the newest: a gap in the cache is an error.  Without *)
(* one it has all the cached blocks that are asked for, however few of     *)
(* them the cache goes back to, if no more are asked for than the chain    *)
(* has: else the subtraction at execution.rs:382 wraps, see                *)
(* FeeHistoryIsComplete.                                                   *)
FeeHistoryHasNoGaps ==
    \A block_count, last_block \in 0 .. newest(DOMAIN payloads) + 1 :
        LET history == get_fee_history(block_count, last_block)
            last == LastBlock(last_block)
        IN  /\ history \notin {Err, {}} =>
                  /\ history \subseteq DOMAIN payloads
                  /\ history = oldest(history) .. last
            /\ Cached(last) /\ block_count <= last => history = AskedFor(block_count, last)

(* tests/feehistory.rs:66 says of a count that is larger than what the     *)
(* cache has "helios will return as many as it can", and the assertion     *)
(* after it that the history is not empty.                                 *)
FeeHistoryIsComplete ==
    \A block_count, last_block \in 0 .. newest(DOMAIN payloads) + 1 :
        LET last == LastBlock(last_block)
        IN  Cached(last) => get_fee_history(block_count, last_block) = AskedFor(block_count, last)
=============================================================================
