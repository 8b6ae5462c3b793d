-------------------------- MODULE ExecutionProofs ---------------------------
(***************************************************************************)
(* Proofs about the execution client (Execution), for every cache, chain   *)
(* and answer: what is returned is committed to by a cached block, it is   *)
(* right if the provider is honest, and then it is returned.               *)
(***************************************************************************)
EXTENDS Execution, OrderLemmas, SequenceTheorems

----------------------------------------------------------------------------
(* The inductive invariant.                                                *)

NoAnswer == {None, Err, Panic}

(* The query, the cache and the provider's chain.                          *)
Asked ==
    /\ payloads \in Caches /\ view \in Branches /\ honest \in BOOLEAN /\ query \in Queries
    /\ disturbed \in BOOLEAN
    /\ query.kind \in {"block", "index"} => \E n \in DOMAIN payloads : payloads[n] = query.block

(* The request being awaited is one that the kind of query makes.          *)
Where ==
    /\ pc \in {"start", "receipt", "block_receipts", "logs", "transaction",
               "block_transactions", "done"}
    /\ pc \in {"receipt", "block_receipts"} => query.kind \in {"receipt", "logs"}
    /\ pc = "logs" => query.kind = "logs"
    /\ pc \in {"start", "logs"} => checked = 0
    /\ pc = "transaction" => query.kind \in {"transaction", "index"}
    /\ pc = "block_transactions" => query.kind = "block"

(* The transaction that it is about.                                       *)
Wanted ==
    /\ pc \in {"receipt", "block_receipts", "transaction"} => wanted \in Tx
    /\ pc \in {"receipt", "block_receipts"} /\ query.kind = "receipt" => wanted = query.tx
    /\ pc \in {"receipt", "block_receipts"} /\ query.kind = "logs" =>
          checked < Len(logs) /\ wanted = logs[checked + 1].tx
    /\ pc = "transaction" /\ query.kind = "transaction" => wanted = query.tx

(* The provider is honest, has stayed on its chain, and the cache holds    *)
(* the blocks of that chain from its oldest on.                            *)
Followed ==
    /\ \A n \in DOMAIN payloads : payloads[n] \in view
    /\ \A b \in view :
          oldest(DOMAIN payloads) <= Number[b] /\ Number[b] <= newest(DOMAIN payloads)
              => Number[b] \in DOMAIN payloads

Steady == honest /\ ~ disturbed /\ Followed

(* The receipt is that of the transaction at position i of block b.        *)
ReceiptAt(r, b, i) == r = [tx |-> transactions[b][i], block |-> b, content |-> contents[b][i]]

(* The answers so far to the requests for the receipts of a block.         *)
ReceiptsSoFar ==
    pc = "block_receipts" =>
        /\ receipt \in Receipt /\ Number[receipt.block] \in DOMAIN payloads
        /\ LET b == payloads[Number[receipt.block]]
           IN  /\ answers \in [DOMAIN transactions[b] -> Receipt \cup {Pending, Err}]
               /\ honest => /\ receipt.tx = wanted
                            /\ \A i \in DOMAIN answers : answers[i] \in Receipt =>
                                  answers[i].tx = transactions[b][i]
               /\ Steady => /\ \E i \in DOMAIN answers : ReceiptAt(receipt, b, i)
                            /\ \A i \in DOMAIN answers :
                                  answers[i] = Pending \/ ReceiptAt(answers[i], b, i)

(* The answers so far to the requests for the transactions of a block.     *)
TransactionsSoFar ==
    pc = "block_transactions" =>
        /\ answers \in [DOMAIN transactions[query.block] -> Transaction \cup {Pending, Err}]
        /\ \A i \in DOMAIN answers : answers[i] \in Transaction =>
              /\ answers[i].tx \in ToSet(transactions[query.block])
              /\ honest => answers[i].tx = transactions[query.block][i]
        /\ Steady => \A i \in DOMAIN answers : answers[i] # Err

(* The logs that are proved so far.                                        *)
LogCommitted(log) ==
    \E n \in DOMAIN payloads : \E c \in ToSet(contents[payloads[n]]) : log.data \in logs_of[c]

LogsSoFar ==
    /\ logs \in Seq(Log)
    /\ pc \in {"receipt", "block_receipts"} /\ query.kind = "logs" =>
          \A k \in 1 .. checked : LogCommitted(logs[k])

(* The logs of a query with an open range are all of cached blocks.        *)
OpenRange ==
    /\ query.kind = "logs" /\ query.filter.to = None /\ query.filter.block = None
    /\ query.filter.from # None => query.filter.from >= oldest(DOMAIN payloads)

LogAt(log, b, i) == log.tx = transactions[b][i] /\ log.data \in logs_of[contents[b][i]]

LogsFound ==
    Steady /\ OpenRange =>
        \A k \in DOMAIN logs : \E b \in view :
            Number[b] \in DOMAIN payloads /\ \E i \in DOMAIN transactions[b] : LogAt(logs[k], b, i)

(* What is to be shown of a result.                                        *)
Committed(r) ==
    r \notin NoAnswer =>
        /\ query.kind = "receipt" =>
              /\ Number[r.block] \in DOMAIN payloads
              /\ r.content \in ToSet(contents[payloads[Number[r.block]]])
        /\ query.kind = "logs" => \A k \in DOMAIN r : LogCommitted(r[k])
        /\ query.kind = "transaction" => r.tx \in ToSet(transactions[payloads[r.number]])
        /\ query.kind = "index" => r.tx \in ToSet(transactions[query.block])
        /\ query.kind = "block" =>
              \A i \in DOMAIN r : r[i].tx \in ToSet(transactions[query.block])

Right(r) ==
    r \notin NoAnswer =>
        /\ query.kind = "receipt" =>
              LET b == payloads[Number[r.block]]
              IN  /\ r.tx = query.tx
                  /\ \E i \in Positions(b, query.tx) : contents[b][i] = r.content
        /\ query.kind = "block" => [i \in DOMAIN r |-> r[i].tx] = transactions[query.block]

InCache(t) == \E n \in DOMAIN payloads : Positions(payloads[n], t) # {}

Accepted(r, ls) ==
    /\ query.kind \in {"receipt", "transaction"} =>
          IF InCache(query.tx) THEN r.tx = query.tx ELSE r = None
    /\ query.kind = "block" => r # Err
    /\ OpenRange /\ Len(ls) <= MAX_SUPPORTED_LOGS_NUMBER => r # Err

Ended ==
    pc = "done" => /\ Committed(result) /\ (honest => Right(result))
                   /\ Steady => Accepted(result, logs)

Inv ==
    /\ TypeOK /\ Asked /\ Where /\ Wanted /\ ReceiptsSoFar /\ TransactionsSoFar
    /\ LogsSoFar /\ LogsFound /\ Ended

----------------------------------------------------------------------------
(* Facts about the chain and the answers.                                  *)

(* What is asked for.                                                      *)
LEMMA QueryFacts ==
    ASSUME Asked
    PROVE  /\ query.kind \in {"receipt", "transaction", "logs", "block", "index"}
           /\ query.kind \in {"receipt", "transaction"} => query.tx \in Tx
           /\ query.kind = "logs" => query.filter \in Filters
           /\ query.kind \in {"block", "index"} => query.block \in Block
<1>1. \/ query \in [kind : {"receipt", "transaction"}, tx : Tx]
      \/ query \in [kind : {"logs"}, filter : Filters]
      \/ query \in [kind : {"block"}, block : Block]
      \/ \E b \in Block, i \in 1 .. 2 : query = [kind |-> "index", block |-> b, index |-> i]
  BY DEF Asked, Queries
<1> QED BY <1>1

(* A block has as many receipts as transactions.                           *)
LEMMA BlockFacts ==
    ASSUME NEW b \in Block
    PROVE  /\ Number[b] \in Nat /\ Number[b] \in Numbers
           /\ DOMAIN contents[b] = DOMAIN transactions[b]
           /\ DOMAIN transactions[b] = 1 .. Len(transactions[b])
           /\ transactions[b] \in [DOMAIN transactions[b] -> Tx]
           /\ contents[b] \in [DOMAIN transactions[b] -> Content]
<1>1. /\ Number \in [Block -> Nat]
      /\ transactions[b] \in Seq(Tx) /\ contents[b] \in Seq(Content)
      /\ Len(contents[b]) = Len(transactions[b])
  BY ExecutionAssumption
<1>2. /\ DOMAIN transactions[b] = 1 .. Len(transactions[b])
      /\ transactions[b] \in [1 .. Len(transactions[b]) -> Tx]
  BY <1>1, LenProperties
<1>3. /\ DOMAIN contents[b] = 1 .. Len(contents[b])
      /\ contents[b] \in [1 .. Len(contents[b]) -> Content]
  BY <1>1, LenProperties
<1> QED BY <1>1, <1>2, <1>3 DEF Numbers

(* The cached payloads.                                                    *)
LEMMA CacheFacts ==
    ASSUME Asked
    PROVE  /\ DOMAIN payloads # {} /\ IsFiniteSet(DOMAIN payloads) /\ DOMAIN payloads \subseteq Nat
           /\ \A n \in DOMAIN payloads : payloads[n] \in Block /\ Number[payloads[n]] = n
           /\ view \subseteq Block
           /\ query.kind \in {"block", "index"} =>
                 /\ Number[query.block] \in DOMAIN payloads
                 /\ payloads[Number[query.block]] = query.block
<1>1. /\ DOMAIN payloads # {} /\ IsFiniteSet(DOMAIN payloads)
      /\ \A n \in DOMAIN payloads : payloads[n] \in Block /\ Number[payloads[n]] = n
  BY ExecutionAssumption DEF Asked
<1>2. DOMAIN payloads \subseteq Nat
  BY <1>1, BlockFacts
<1>3. view \subseteq Block
  BY ChainAssumption DEF Asked
<1> QED BY <1>1, <1>2, <1>3 DEF Asked

(* The last and the first key of a map.                                    *)
LEMMA EndFacts ==
    ASSUME NEW S \in SUBSET Nat, S # {}, IsFiniteSet(S)
    PROVE  /\ newest(S) \in S /\ \A m \in S : m <= newest(S)
           /\ oldest(S) \in S /\ \A m \in S : oldest(S) <= m
<1>1. \E n \in S : \A m \in S : m <= n
  <2> DEFINE f == [x \in S |-> x]
  <2>1. \A x \in S : f[x] \in Nat
    OBVIOUS
  <2>2. \E x \in S : \A y \in S : f[y] <= f[x]
    <3> HIDE DEF f
    <3> QED BY <2>1, GreatestValue
  <2> QED BY <2>2
<1>2. \E n \in S : \A m \in S : n <= m
  BY LeastElement
<1> QED BY <1>1, <1>2 DEF newest, oldest

(* A chain has a transaction once.                                         *)
LEMMA OncePerChain ==
    ASSUME Asked, NEW b \in view, NEW c \in view
    PROVE  /\ Number[b] = Number[c] => b = c
           /\ \A i \in DOMAIN transactions[b], j \in DOMAIN transactions[c] :
                 transactions[b][i] = transactions[c][j] => b = c /\ i = j
BY ChainAssumption DEF Asked

(* What the cache has of a block of the provider's chain is that block.    *)
LEMMA CachedIsFollowed ==
    ASSUME Asked, Followed, NEW b \in view, Number[b] \in DOMAIN payloads
    PROVE  payloads[Number[b]] = b
<1>1. payloads[Number[b]] \in view /\ Number[payloads[Number[b]]] = Number[b]
  BY CacheFacts DEF Followed
<1> QED BY <1>1, OncePerChain

(* A receipt that is given.                                                *)
LEMMA ReceiptFacts ==
    ASSUME Asked, NEW t \in Tx, NEW r \in ReceiptAnswers(t)
    PROVE  /\ r \in Receipt \cup {None} /\ None \notin Receipt
           /\ honest /\ r = None => BlocksWith(t) = {}
           /\ honest /\ r # None =>
                 \E b \in view : \E i \in DOMAIN transactions[b] :
                     transactions[b][i] = t /\ ReceiptAt(r, b, i)
<1>0. None \notin Receipt
  BY AnswerAssumption
<1>1. CASE ~ honest
  BY <1>0, <1>1, ExecutionAssumption DEF ReceiptAnswers, Receipt
<1>2. CASE honest /\ BlocksWith(t) = {}
  BY <1>0, <1>2 DEF ReceiptAnswers
<1>3. CASE honest /\ BlocksWith(t) # {}
  <2>1. PICK b \in BlocksWith(t) : r \in {[tx |-> t, block |-> b, content |-> contents[b][i]] :
                                              i \in Positions(b, t)}
    BY <1>3 DEF ReceiptAnswers
  <2>2. PICK i \in Positions(b, t) : r = [tx |-> t, block |-> b, content |-> contents[b][i]]
    BY <2>1
  <2>3. b \in view /\ b \in Block /\ i \in DOMAIN transactions[b] /\ transactions[b][i] = t
    BY <2>1, <2>2, CacheFacts DEF BlocksWith, Positions
  <2>4. contents[b][i] \in Content
    BY <2>3, BlockFacts
  <2>5. r \in Receipt
    BY <2>2, <2>3, <2>4 DEF Receipt
  <2> QED BY <1>0, <2>2, <2>3, <2>5 DEF ReceiptAt
<1> QED BY <1>1, <1>2, <1>3 DEF Asked

(* A transaction that is given.                                            *)
LEMMA TransactionFacts ==
    ASSUME Asked, NEW t \in Tx, NEW x \in TransactionAnswers(t)
    PROVE  /\ x \in Transaction \cup {None} /\ None \notin Transaction
           /\ honest => /\ x # None /\ x.tx = t
                        /\ \/ x.number = None /\ BlocksWith(t) = {}
                           \/ \E b \in BlocksWith(t) : x.number = Number[b]
<1>0. None \notin Transaction
  BY AnswerAssumption
<1>1. CASE ~ honest
  BY <1>0, <1>1 DEF TransactionAnswers
<1>2. CASE honest /\ BlocksWith(t) = {}
  <2>1. x = [tx |-> t, number |-> None]
    BY <1>2 DEF TransactionAnswers
  <2>2. x \in Transaction
    BY <2>1 DEF Transaction
  <2> QED BY <1>0, <1>2, <2>1, <2>2
<1>3. CASE honest /\ BlocksWith(t) # {}
  <2>1. PICK b \in BlocksWith(t) : x = [tx |-> t, number |-> Number[b]]
    BY <1>3 DEF TransactionAnswers
  <2>2. Number[b] \in Numbers
    BY <2>1, CacheFacts, BlockFacts DEF BlocksWith
  <2>3. x \in Transaction
    BY <2>1, <2>2 DEF Transaction
  <2> QED BY <1>0, <2>1, <2>3
<1> QED BY <1>1, <1>2, <1>3 DEF Asked

(* What is left of it after the check.                                     *)
LEMMA CheckFacts ==
    ASSUME NEW x \in Transaction \cup {None}
    PROVE  \/ check_transaction(x) = None /\ (x = None \/ x.number \notin DOMAIN Scope)
           \/ check_transaction(x) = None /\ x.number = None
           \/ /\ x # None /\ x.number \in DOMAIN Scope
              /\ \/ /\ check_transaction(x) = x
                    /\ x.tx \in ToSet(transactions[Scope[x.number]])
                 \/ /\ check_transaction(x) = Err
                    /\ x.tx \notin ToSet(transactions[Scope[x.number]])
BY DEF check_transaction

----------------------------------------------------------------------------
(* The steps of a query.                                                   *)

(* The query, the cache and, unless it says so, the chain stay.            *)
LEMMA Frame ==
    ASSUME Asked, UNCHANGED asked, view' = view, disturbed' \in {disturbed, TRUE}
    PROVE  /\ Asked' /\ payloads' = payloads /\ honest' = honest /\ query' = query
           /\ Steady' => Steady
           /\ OpenRange' <=> OpenRange
<1>1. payloads' = payloads /\ honest' = honest /\ query' = query
  BY DEF asked
<1>2. Asked'
  BY <1>1 DEF Asked
<1>3. Steady' => Steady
  BY <1>1 DEF Steady, Followed
<1>4. OpenRange' <=> OpenRange
  BY <1>1 DEF OpenRange
<1> QED BY <1>1, <1>2, <1>3, <1>4

(* The logs of the query stay what they are.                               *)
LEMMA SameLogs ==
    ASSUME Inv, UNCHANGED asked, view' = view, disturbed' \in {disturbed, TRUE}, logs' = logs
    PROVE  LogsFound'
BY Frame DEF Inv, LogsFound, LogAt

(* A query ends with r.                                                    *)
LEMMA EndKeeps ==
    ASSUME Inv, NEW r, result' = r, pc' = "done", wanted' = wanted, receipt' = receipt,
           answers' = answers, checked' \in 0 .. MAX_SUPPORTED_LOGS_NUMBER,
           UNCHANGED asked, view' = view,
           disturbed' \in {disturbed, TRUE}, logs' \in Seq(Log), LogsFound',
           Committed(r), honest => Right(r), Steady' => Accepted(r, logs')
    PROVE  Inv'
<1>1. /\ Asked' /\ payloads' = payloads /\ honest' = honest /\ query' = query
      /\ Steady' => Steady
      /\ OpenRange' <=> OpenRange
  BY Frame DEF Inv
<1>3. TypeOK'
  <2>1. \A i \in DOMAIN logs' : logs'[i] \in Log
    BY ElementOfSeq, LenProperties
  <2> QED BY <1>1, <2>1 DEF Inv, TypeOK
<1>4. Where' /\ Wanted'
  BY DEF Where, Wanted
<1>5. ReceiptsSoFar' /\ TransactionsSoFar' /\ LogsSoFar'
  BY DEF ReceiptsSoFar, TransactionsSoFar, LogsSoFar
<1>6. Ended'
  <2>1. Committed(result)'
    BY <1>1 DEF Committed, LogCommitted
  <2>2. honest => Right(result)'
    BY <1>1 DEF Right
  <2>3. Steady' => Accepted(result, logs)'
    BY <1>1 DEF Accepted, InCache
  <2> QED BY <1>1, <2>1, <2>2, <2>3 DEF Ended
<1> QED BY <1>1, <1>3, <1>4, <1>5, <1>6 DEF Inv

(* It does so at a return in between.                                      *)
LEMMA ReturnKeeps ==
    ASSUME Inv, NEW r, Return(r), UNCHANGED asked, view' = view,
           disturbed' \in {disturbed, TRUE}, logs' \in Seq(Log), LogsFound',
           Committed(r), honest => Right(r), Steady' => Accepted(r, logs')
    PROVE  Inv'
<1>1. /\ result' = r /\ pc' = "done" /\ wanted' = wanted /\ receipt' = receipt
      /\ answers' = answers /\ checked' \in 0 .. MAX_SUPPORTED_LOGS_NUMBER
  BY DEF Return, Inv, TypeOK
<1> QED BY <1>1, EndKeeps

(* A request fails.                                                        *)
LEMMA RequestFailsKeeps ==
    ASSUME Inv, RequestFails
    PROVE  Inv'
<1>1. /\ Return(Err) /\ disturbed' = TRUE /\ UNCHANGED asked /\ view' = view /\ logs' = logs
  BY DEF RequestFails
<1>2. Committed(Err) /\ Right(Err)
  BY DEF Committed, Right, NoAnswer
<1>3. ~ Steady'
  BY <1>1 DEF Steady
<1>4. logs' \in Seq(Log) /\ LogsFound'
  BY <1>1, SameLogs DEF Inv, LogsSoFar
<1> QED BY <1>1, <1>2, <1>3, <1>4, ReturnKeeps

(* The receipt of transaction t is asked for.                              *)
LEMMA BeginKeeps ==
    ASSUME Inv, NEW t \in Tx, Begin(t), UNCHANGED asked, view' = view, disturbed' = disturbed,
           logs' \in Seq(Log), Len(logs') <= MAX_SUPPORTED_LOGS_NUMBER, LogsFound',
           checked' \in 0 .. MAX_SUPPORTED_LOGS_NUMBER,
           query.kind \in {"receipt", "logs"},
           query.kind = "receipt" => t = query.tx,
           query.kind = "logs" => /\ checked' < Len(logs') /\ t = logs'[checked' + 1].tx
                                  /\ \A k \in 1 .. checked' : LogCommitted(logs'[k])
    PROVE  Inv'
<1>1. /\ Asked' /\ payloads' = payloads /\ query' = query
  BY Frame DEF Inv
<1>2. wanted' = t /\ pc' = "receipt" /\ receipt' = None /\ answers' = <<>>
  BY DEF Begin
<1>3. TypeOK'
  <2>1. \A i \in DOMAIN logs' : logs'[i] \in Log
    BY ElementOfSeq, LenProperties
  <2>2. DOMAIN answers' = {}
    <3>1. DOMAIN <<>> = 1 .. 0
      OBVIOUS
    <3> QED BY <1>2, <3>1
  <2> QED BY <1>1, <1>2, <2>1, <2>2 DEF Inv, Asked, TypeOK
<1>4. Where' /\ Wanted'
  BY <1>1, <1>2 DEF Where, Wanted
<1>5. ReceiptsSoFar' /\ TransactionsSoFar' /\ Ended'
  BY <1>2 DEF ReceiptsSoFar, TransactionsSoFar, Ended
<1>6. LogsSoFar'
  BY <1>1 DEF LogsSoFar, LogCommitted
<1> QED BY <1>1, <1>3, <1>4, <1>5, <1>6 DEF Inv

(* get_transaction_receipt is called.                                      *)
LEMMA AskReceiptKeeps ==
    ASSUME Inv, AskReceipt
    PROVE  Inv'
<1>1. /\ pc = "start" /\ query.kind = "receipt" /\ Begin(query.tx)
      /\ UNCHANGED asked /\ view' = view /\ disturbed' = disturbed
      /\ logs' = logs /\ checked' = checked
  BY DEF AskReceipt
<1>2. /\ logs' \in Seq(Log) /\ Len(logs') <= MAX_SUPPORTED_LOGS_NUMBER
      /\ checked' \in 0 .. MAX_SUPPORTED_LOGS_NUMBER
  BY <1>1 DEF Inv, TypeOK, LogsSoFar
<1>3. query.tx \in Tx
  BY <1>1, QueryFacts DEF Inv
<1> QED BY <1>1, <1>2, <1>3, SameLogs, BeginKeeps

(* No receipt is found, although the provider is honest and stays.         *)
LEMMA NotInCache ==
    ASSUME Asked, Followed, NEW t \in Tx,
           \/ BlocksWith(t) = {}
           \/ \E b \in BlocksWith(t) : Number[b] \notin DOMAIN payloads
    PROVE  /\ ~ InCache(t)
           /\ \A b \in view : Number[b] \in DOMAIN payloads =>
                 \A i \in DOMAIN transactions[b] : transactions[b][i] # t
<1>1. \A b \in view : Number[b] \in DOMAIN payloads =>
         \A i \in DOMAIN transactions[b] : transactions[b][i] # t
  <2>1. SUFFICES ASSUME NEW b \in view, Number[b] \in DOMAIN payloads,
                        NEW i \in DOMAIN transactions[b], transactions[b][i] = t
                 PROVE  FALSE
    OBVIOUS
  <2>2. b \in BlocksWith(t)
    BY <2>1 DEF BlocksWith, Positions
  <2>3. PICK c \in BlocksWith(t) : Number[c] \notin DOMAIN payloads
    BY <2>2
  <2>4. c \in view /\ \E j \in DOMAIN transactions[c] : transactions[c][j] = t
    BY <2>3 DEF BlocksWith, Positions
  <2> QED BY <2>1, <2>3, <2>4, OncePerChain
<1>2. ASSUME NEW n \in DOMAIN payloads
      PROVE  Positions(payloads[n], t) = {}
  <2>1. payloads[n] \in view /\ Number[payloads[n]] \in DOMAIN payloads
    BY <1>2, CacheFacts DEF Followed
  <2> QED BY <1>1, <2>1 DEF Positions
<1> QED BY <1>1, <1>2 DEF InCache

(* The first answer to get_transaction_receipt.                            *)
LEMMA ReceiptAnswerKeeps ==
    ASSUME Inv, ReceiptAnswer
    PROVE  Inv'
<1>1. /\ pc = "receipt" /\ UNCHANGED asked /\ view' = view /\ logs' = logs
      /\ disturbed' = disturbed
  BY DEF ReceiptAnswer
<1>2. PICK r \in ReceiptAnswers(wanted) :
         \/ (r = None \/ (r # None /\ Number[r.block] \notin DOMAIN payloads)) /\ NotFound
         \/ /\ r # None /\ Number[r.block] \in DOMAIN payloads
            /\ receipt' = r
            /\ answers' = [i \in DOMAIN transactions[payloads[Number[r.block]]] |-> Pending]
            /\ pc' = "block_receipts"
            /\ wanted' = wanted /\ checked' = checked /\ result' = result
  BY DEF ReceiptAnswer
<1>3. Asked /\ wanted \in Tx /\ query.kind \in {"receipt", "logs"}
  BY <1>1 DEF Inv, Wanted, Where
<1>4. /\ Asked' /\ payloads' = payloads /\ honest' = honest /\ query' = query
      /\ Steady' => Steady
      /\ LogsFound'
  BY <1>1, <1>3, Frame, SameLogs
<1>5. /\ r \in Receipt \cup {None} /\ None \notin Receipt
      /\ honest /\ r = None => BlocksWith(wanted) = {}
      /\ honest /\ r # None =>
            \E b \in view : \E i \in DOMAIN transactions[b] :
                transactions[b][i] = wanted /\ ReceiptAt(r, b, i)
  BY <1>2, <1>3, ReceiptFacts
<1>6. CASE (r = None \/ (r # None /\ Number[r.block] \notin DOMAIN payloads)) /\ NotFound
  <2> DEFINE e == IF query.kind = "logs" THEN Err ELSE None
  <2>1. Return(e) /\ e \in NoAnswer
    BY <1>6 DEF NotFound, NoAnswer
  <2>2. Committed(e) /\ Right(e)
    BY <2>1 DEF Committed, Right
  <2>3. ASSUME Steady
        PROVE  Accepted(e, logs)
    <3>1. honest /\ Followed
      BY <2>3 DEF Steady
    <3>2. \/ BlocksWith(wanted) = {}
          \/ \E b \in BlocksWith(wanted) : Number[b] \notin DOMAIN payloads
      <4>1. CASE r = None
        BY <1>5, <3>1, <4>1
      <4>2. CASE r # None
        <5>1. PICK b \in view : \E i \in DOMAIN transactions[b] :
                 transactions[b][i] = wanted /\ ReceiptAt(r, b, i)
          BY <1>5, <3>1, <4>2
        <5>2. r.block = b /\ b \in BlocksWith(wanted)
          BY <5>1 DEF ReceiptAt, BlocksWith, Positions
        <5> QED BY <1>6, <4>2, <5>2
      <4> QED BY <4>1, <4>2
    <3>3. /\ ~ InCache(wanted)
          /\ \A b \in view : Number[b] \in DOMAIN payloads =>
                \A i \in DOMAIN transactions[b] : transactions[b][i] # wanted
      BY <1>3, <3>1, <3>2, NotInCache
    <3>4. CASE query.kind = "receipt"
      <4>1. wanted = query.tx
        BY <1>1, <3>4 DEF Inv, Wanted
      <4> QED BY <3>3, <3>4, <4>1 DEF Accepted, OpenRange
    <3>5. CASE query.kind = "logs"
      <4>1. checked < Len(logs) /\ wanted = logs[checked + 1].tx
        BY <1>1, <3>5 DEF Inv, Wanted
      <4>2. checked + 1 \in DOMAIN logs
        <5>1. logs \in Seq(Log) /\ checked \in 0 .. MAX_SUPPORTED_LOGS_NUMBER
          BY DEF Inv, LogsSoFar, TypeOK
        <5>2. Len(logs) \in Nat /\ DOMAIN logs = 1 .. Len(logs)
          BY <5>1, LenProperties
        <5> QED BY <4>1, <5>1, <5>2
      <4>3. ~ OpenRange
        BY <2>3, <3>3, <4>1, <4>2 DEF Inv, LogsFound, LogAt
      <4> QED BY <3>5, <4>3 DEF Accepted
    <3> QED BY <1>3, <3>4, <3>5
  <2>4. logs' \in Seq(Log)
    BY <1>1 DEF Inv, LogsSoFar
  <2> HIDE DEF e
  <2> QED BY <1>1, <1>4, <2>1, <2>2, <2>3, <2>4, ReturnKeeps
<1>7. CASE /\ r # None /\ Number[r.block] \in DOMAIN payloads
           /\ receipt' = r
           /\ answers' = [i \in DOMAIN transactions[payloads[Number[r.block]]] |-> Pending]
           /\ pc' = "block_receipts"
           /\ wanted' = wanted /\ checked' = checked /\ result' = result
  <2> DEFINE b == payloads[Number[r.block]]
  <2>1. r \in Receipt /\ b \in Block
    BY <1>3, <1>5, <1>7, CacheFacts
  <2>2. TypeOK'
    BY <1>1, <1>4, <1>7, <2>1 DEF Inv, TypeOK
  <2>3. Where' /\ Wanted' /\ TransactionsSoFar' /\ Ended'
    BY <1>1, <1>4, <1>7 DEF Inv, Where, Wanted, TransactionsSoFar, Ended
  <2>4. LogsSoFar'
    BY <1>1, <1>4, <1>7 DEF Inv, LogsSoFar, LogCommitted
  <2>5. ReceiptsSoFar'
    <3>1. /\ DOMAIN answers' = DOMAIN transactions[b]
          /\ \A i \in DOMAIN answers' : answers'[i] = Pending
          /\ answers' \in [DOMAIN transactions[b] -> Receipt \cup {Pending, Err}]
      BY <1>7
    <3>2. Pending \notin Receipt
      BY AnswerAssumption
    <3>3. honest => receipt'.tx = wanted'
      BY <1>5, <1>7 DEF ReceiptAt
    <3>4. ASSUME Steady
          PROVE  \E i \in DOMAIN answers' : ReceiptAt(receipt', b, i)
      <4>1. PICK c \in view : \E i \in DOMAIN transactions[c] :
               transactions[c][i] = wanted /\ ReceiptAt(r, c, i)
        BY <1>5, <1>7, <3>4 DEF Steady
      <4>2. r.block = c
        BY <4>1 DEF ReceiptAt
      <4>3. b = c
        BY <1>3, <1>7, <3>4, <4>2, CachedIsFollowed DEF Steady
      <4> HIDE DEF b
      <4> QED BY <1>7, <3>1, <4>1, <4>3
    <3>5. b' = b /\ payloads'[Number[receipt'.block]] = b
      BY <1>4, <1>7
    <3>6. Number[receipt'.block] \in DOMAIN payloads' /\ receipt' \in Receipt
      BY <1>4, <1>7, <2>1
    <3> HIDE DEF b
    <3> QED BY <1>4, <3>1, <3>2, <3>3, <3>4, <3>5, <3>6 DEF ReceiptsSoFar, ReceiptAt
  <2> QED BY <1>4, <2>2, <2>3, <2>4, <2>5 DEF Inv
<1> QED BY <1>2, <1>6, <1>7

(* One of the answers about the receipts of a block.                       *)
LEMMA BlockReceiptKeeps ==
    ASSUME Inv, NEW i \in DOMAIN answers, BlockReceipt(i)
    PROVE  Inv'
<1> DEFINE b == payloads[Number[receipt.block]]
           t == transactions[b][i]
<1>1. /\ pc = "block_receipts" /\ answers[i] = Pending
      /\ UNCHANGED asked /\ view' = view /\ pc' = pc /\ wanted' = wanted
      /\ receipt' = receipt /\ logs' = logs /\ checked' = checked /\ result' = result
      /\ disturbed' \in {disturbed, TRUE}
  BY DEF BlockReceipt
<1>2. PICK a : /\ answers' = [answers EXCEPT ![i] = a]
               /\ \/ disturbed' = TRUE /\ a = Err
                  \/ /\ disturbed' = disturbed
                     /\ \E r \in ReceiptAnswers(t) : a = IF r = None THEN Err ELSE r
  BY DEF BlockReceipt
<1>3. /\ Asked' /\ payloads' = payloads /\ honest' = honest /\ query' = query
      /\ Steady' => Steady
      /\ LogsFound'
  BY <1>1, Frame, SameLogs DEF Inv
<1>4. /\ receipt \in Receipt /\ Number[receipt.block] \in DOMAIN payloads
      /\ answers \in [DOMAIN transactions[b] -> Receipt \cup {Pending, Err}]
      /\ honest => /\ receipt.tx = wanted
                   /\ \A j \in DOMAIN answers : answers[j] \in Receipt =>
                         answers[j].tx = transactions[b][j]
      /\ Steady => /\ \E j \in DOMAIN answers : ReceiptAt(receipt, b, j)
                   /\ \A j \in DOMAIN answers :
                         answers[j] = Pending \/ ReceiptAt(answers[j], b, j)
  BY <1>1 DEF Inv, ReceiptsSoFar
<1>5. b \in Block /\ t \in Tx /\ i \in DOMAIN transactions[b]
  BY <1>4, CacheFacts, BlockFacts DEF Inv
<1> HIDE DEF b, t
<1>6. {Pending, Err} \cap Receipt = {}
  BY AnswerAssumption
<1>7. /\ a \in Receipt \cup {Err}
      /\ honest /\ a \in Receipt => a.tx = t
  BY <1>2, <1>5, <1>6, ReceiptFacts DEF Inv, ReceiptAt
<1>8. ASSUME Steady'
      PROVE  ReceiptAt(a, b, i)
  <2>1. honest /\ Followed /\ disturbed' # TRUE /\ Asked
    BY <1>3, <1>8 DEF Steady, Inv
  <2>2. PICK r \in ReceiptAnswers(t) : a = IF r = None THEN Err ELSE r
    BY <1>2, <2>1
  <2>3. b \in view
    BY <1>4, <2>1 DEF Followed, b
  <2>4. b \in BlocksWith(t)
    BY <1>5, <2>3 DEF BlocksWith, Positions, t
  <2>5. r # None
    BY <1>5, <2>1, <2>2, <2>4, ReceiptFacts
  <2>6. PICK c \in view : \E j \in DOMAIN transactions[c] :
           transactions[c][j] = t /\ ReceiptAt(r, c, j)
    BY <1>5, <2>1, <2>2, <2>5, ReceiptFacts
  <2>7. PICK j \in DOMAIN transactions[c] : transactions[c][j] = t /\ ReceiptAt(r, c, j)
    BY <2>6
  <2>8. b = c /\ i = j
    BY <1>5, <2>1, <2>3, <2>6, <2>7, OncePerChain DEF t
  <2> QED BY <2>2, <2>5, <2>7, <2>8
<1>9. /\ answers' \in [DOMAIN transactions[b] -> Receipt \cup {Pending, Err}]
      /\ DOMAIN answers' = DOMAIN answers
      /\ answers'[i] = a /\ \A j \in DOMAIN answers \ {i} : answers'[j] = answers[j]
  BY <1>2, <1>4, <1>7
<1>10. TypeOK'
  BY <1>1, <1>3, <1>9 DEF Inv, TypeOK
<1>11. Where' /\ Wanted' /\ TransactionsSoFar' /\ Ended'
  BY <1>1, <1>3 DEF Inv, Where, Wanted, TransactionsSoFar, Ended
<1>12. LogsSoFar'
  BY <1>1, <1>3 DEF Inv, LogsSoFar, LogCommitted
<1>13. ReceiptsSoFar'
  <2>1. payloads'[Number[receipt'.block]] = b
    BY <1>1, <1>3 DEF b
  <2>2. honest => \A j \in DOMAIN answers' : answers'[j] \in Receipt =>
                     answers'[j].tx = transactions[b][j]
    BY <1>4, <1>7, <1>9 DEF t
  <2>3. Steady' => \A j \in DOMAIN answers' :
                      answers'[j] = Pending \/ ReceiptAt(answers'[j], b, j)
    BY <1>3, <1>4, <1>8, <1>9
  <2>4. Steady' => \E j \in DOMAIN answers' : ReceiptAt(receipt', b, j)
    BY <1>1, <1>3, <1>4, <1>9
  <2>5. /\ receipt' \in Receipt /\ Number[receipt'.block] \in DOMAIN payloads'
        /\ honest => receipt'.tx = wanted'
    BY <1>1, <1>3, <1>4
  <2> QED BY <1>3, <1>9, <2>1, <2>2, <2>3, <2>4, <2>5 DEF ReceiptsSoFar, ReceiptAt
<1> QED BY <1>3, <1>10, <1>11, <1>12, <1>13 DEF Inv

(* What it means that the root of the receipts is right.                   *)
LEMMA ProvedFacts ==
    ASSUME Inv, pc = "block_receipts", Answered, NEW b, b = payloads[Number[receipt.block]]
    PROVE  /\ b \in Block /\ Number[receipt.block] \in DOMAIN payloads
           /\ receipts_proved(b) =>
                 \E i \in DOMAIN transactions[b] :
                     /\ receipt.content = contents[b][i]
                     /\ honest => wanted = receipt.tx /\ transactions[b][i] = wanted
           /\ Steady =>
                 /\ receipts_proved(b)
                 /\ b \in view /\ \E i \in DOMAIN transactions[b] : ReceiptAt(receipt, b, i)
<1>1. /\ receipt \in Receipt /\ Number[receipt.block] \in DOMAIN payloads
      /\ answers \in [DOMAIN transactions[b] -> Receipt \cup {Pending, Err}]
      /\ honest => /\ receipt.tx = wanted
                   /\ \A j \in DOMAIN answers : answers[j] \in Receipt =>
                         answers[j].tx = transactions[b][j]
      /\ Steady => /\ \E j \in DOMAIN answers : ReceiptAt(receipt, b, j)
                   /\ \A j \in DOMAIN answers :
                         answers[j] = Pending \/ ReceiptAt(answers[j], b, j)
  BY DEF Inv, ReceiptsSoFar
<1>2. b \in Block
  BY <1>1, CacheFacts DEF Inv
<1>3. {Pending, Err} \cap Receipt = {}
  BY AnswerAssumption
<1>4. ASSUME receipts_proved(b)
      PROVE  \E i \in DOMAIN transactions[b] :
                 /\ receipt.content = contents[b][i]
                 /\ honest => wanted = receipt.tx /\ transactions[b][i] = wanted
  <2>1. PICK i \in DOMAIN answers : answers[i] = receipt
    BY <1>4 DEF receipts_proved
  <2>2. contents[b] = [j \in DOMAIN answers |-> answers[j].content]
    BY <1>4 DEF receipts_proved
  <2>3. contents[b][i] = receipt.content
    BY <2>1, <2>2
  <2> QED BY <1>1, <2>1, <2>3
<1>5. ASSUME Steady
      PROVE  /\ receipts_proved(b)
             /\ b \in view /\ \E i \in DOMAIN transactions[b] : ReceiptAt(receipt, b, i)
  <2>1. \A j \in DOMAIN answers : ReceiptAt(answers[j], b, j)
    BY <1>1, <1>5 DEF Answered
  <2>2. \A j \in DOMAIN answers : answers[j] # Err
    <3>1. TAKE j \in DOMAIN answers
    <3>2. contents[b][j] \in Content /\ transactions[b][j] \in Tx
      BY <1>1, <1>2, BlockFacts
    <3>3. answers[j] \in Receipt
      BY <1>2, <2>1, <3>2 DEF ReceiptAt, Receipt
    <3> QED BY <1>3, <3>3
  <2>3. [j \in DOMAIN answers |-> answers[j].content] = contents[b]
    <3>1. DOMAIN answers = DOMAIN transactions[b] /\ \A j \in DOMAIN answers :
             answers[j].content = contents[b][j]
      BY <1>1, <2>1 DEF ReceiptAt
    <3>2. contents[b] \in [DOMAIN transactions[b] -> Content]
      BY <1>2, BlockFacts
    <3> QED BY <3>1, <3>2
  <2>4. PICK i \in DOMAIN answers : ReceiptAt(receipt, b, i)
    BY <1>1, <1>5
  <2>5. answers[i] = receipt
    <3>1. ReceiptAt(answers[i], b, i)
      BY <2>1
    <3> QED BY <2>4, <3>1 DEF ReceiptAt
  <2>6. b \in view
    BY <1>1, <1>5 DEF Steady, Followed
  <2> QED BY <1>1, <2>2, <2>3, <2>4, <2>5, <2>6 DEF receipts_proved
<1> QED BY <1>1, <1>2, <1>4, <1>5

(* The receipts of the block have come.                                    *)
LEMMA CheckReceiptsKeeps ==
    ASSUME Inv, CheckReceipts
    PROVE  Inv'
<1> DEFINE b == payloads[Number[receipt.block]]
           log == logs[checked + 1]
<1>1. /\ pc = "block_receipts" /\ Answered /\ UNCHANGED asked /\ view' = view /\ logs' = logs
      /\ disturbed' = disturbed
  BY DEF CheckReceipts
<1>2. \/ ~ receipts_proved(b) /\ Return(Err)
      \/ receipts_proved(b) /\ query.kind = "receipt" /\ Return(receipt)
      \/ /\ receipts_proved(b) /\ query.kind = "logs"
         /\ IF log_proved(log) THEN NextLog(checked + 1) ELSE Return(Err)
  BY DEF CheckReceipts
<1>3. /\ Asked' /\ payloads' = payloads /\ honest' = honest /\ query' = query
      /\ Steady' => Steady
      /\ LogsFound' /\ logs \in Seq(Log)
  BY <1>1, Frame, SameLogs DEF Inv, LogsSoFar
<1>4. /\ b \in Block /\ Number[receipt.block] \in DOMAIN payloads
      /\ receipts_proved(b) =>
            \E i \in DOMAIN transactions[b] :
                /\ receipt.content = contents[b][i]
                /\ honest => wanted = receipt.tx /\ transactions[b][i] = wanted
      /\ Steady =>
            /\ receipts_proved(b)
            /\ b \in view /\ \E i \in DOMAIN transactions[b] : ReceiptAt(receipt, b, i)
  <2> HIDE DEF b
  <2>1. b = payloads[Number[receipt.block]]
    BY DEF b
  <2> QED BY <1>1, <2>1, ProvedFacts
<1>5. receipts_proved(b) => receipt.content \in ToSet(contents[b])
  <2>1. DOMAIN contents[b] = DOMAIN transactions[b]
    BY <1>4, BlockFacts
  <2> QED BY <1>4, <2>1 DEF ToSet
<1>6. Committed(Err) /\ Right(Err)
  BY DEF Committed, Right, NoAnswer
<1>7. CASE ~ receipts_proved(b) /\ Return(Err)
  BY <1>1, <1>3, <1>4, <1>6, <1>7, ReturnKeeps
<1>8. CASE receipts_proved(b) /\ query.kind = "receipt" /\ Return(receipt)
  <2>1. wanted = query.tx
    BY <1>1, <1>8 DEF Inv, Wanted
  <2>2. PICK i \in DOMAIN transactions[b] :
           /\ receipt.content = contents[b][i]
           /\ honest => wanted = receipt.tx /\ transactions[b][i] = wanted
    BY <1>4, <1>8
  <2>3. Committed(receipt)
    BY <1>4, <1>5, <1>8 DEF Committed
  <2>4. honest => Right(receipt) /\ InCache(query.tx) /\ receipt.tx = query.tx
    BY <1>4, <1>8, <2>1, <2>2 DEF Right, InCache, Positions
  <2>5. Steady => Accepted(receipt, logs)
    BY <1>8, <2>4 DEF Accepted, OpenRange, Steady
  <2> QED BY <1>1, <1>3, <1>8, <2>3, <2>4, <2>5, ReturnKeeps
<1>9. CASE receipts_proved(b) /\ query.kind = "logs"
  <2>1. /\ checked < Len(logs) /\ wanted = log.tx /\ checked \in Nat /\ Len(logs) \in Nat
        /\ DOMAIN logs = 1 .. Len(logs) /\ Len(logs) <= MAX_SUPPORTED_LOGS_NUMBER
        /\ \A k \in 1 .. checked : LogCommitted(logs[k])
        /\ MAX_SUPPORTED_LOGS_NUMBER \in Nat
    BY <1>1, <1>3, <1>9, LenProperties, ExecutionAssumption DEF Inv, Wanted, TypeOK, LogsSoFar
  <2>2. checked + 1 \in DOMAIN logs /\ checked + 1 \in 0 .. MAX_SUPPORTED_LOGS_NUMBER
    BY <2>1
  <2>3. CASE ~ log_proved(log)
    <3>1. Return(Err)
      BY <1>2, <1>9, <2>3
    <3>2. ASSUME Steady, OpenRange
          PROVE  FALSE
      <4>1. PICK c \in view : \E i \in DOMAIN transactions[c] : LogAt(log, c, i)
        BY <2>2, <3>2 DEF Inv, LogsFound
      <4>2. PICK i \in DOMAIN transactions[c] : LogAt(log, c, i)
        BY <4>1
      <4>3. PICK j \in DOMAIN transactions[b] : ReceiptAt(receipt, b, j)
        BY <1>4, <3>2
      <4>4. receipt.tx = transactions[b][j] /\ receipt.content = contents[b][j]
        BY <4>3 DEF ReceiptAt
      <4>5. transactions[b][j] = transactions[c][i]
        BY <1>4, <1>9, <2>1, <3>2, <4>2, <4>4 DEF LogAt, Steady
      <4>6. b = c /\ i = j
        BY <1>4, <3>2, <4>5, OncePerChain DEF Inv
      <4> QED BY <2>3, <4>2, <4>4, <4>6 DEF LogAt, log_proved
    <3>3. Steady => Accepted(Err, logs)
      BY <1>9, <3>2 DEF Accepted
    <3> QED BY <1>1, <1>3, <1>6, <3>1, <3>3, ReturnKeeps
  <2>4. CASE log_proved(log)
    <3> DEFINE k == checked + 1
    <3>1. NextLog(k)
      BY <1>2, <1>9, <2>4
    <3>2. LogCommitted(log)
      BY <1>4, <1>5, <1>9, <2>4 DEF LogCommitted, log_proved
    <3>3. \A j \in 1 .. k : LogCommitted(logs[j])
      <4>1. \A j \in 1 .. k : j \in 1 .. checked \/ j = k
        BY <2>1
      <4> QED BY <2>1, <3>2, <4>1
    <3>4. k \in Nat /\ k \in DOMAIN logs /\ k \in 0 .. MAX_SUPPORTED_LOGS_NUMBER /\ k <= Len(logs)
      BY <2>1, <2>2
    <3> HIDE DEF k
    <3>5. CASE k < Len(logs)
      <4>1. checked' = k /\ Begin(logs[k + 1].tx)
        BY <3>1, <3>5 DEF NextLog
      <4>2. logs[k + 1].tx \in Tx
        <5>1. k + 1 \in 1 .. Len(logs)
          BY <2>1, <3>4, <3>5
        <5>2. logs[k + 1] \in Log
          BY <1>3, <5>1, ElementOfSeq
        <5> QED BY <5>2 DEF Log
      <4> QED BY <1>1, <1>3, <1>9, <2>1, <3>3, <3>4, <3>5, <4>1, <4>2, BeginKeeps
    <3>6. CASE ~ (k < Len(logs))
      <4>1. /\ checked' = k /\ result' = logs /\ pc' = "done"
            /\ wanted' = wanted /\ receipt' = receipt /\ answers' = answers
        BY <3>1, <3>6 DEF NextLog
      <4>2. k = Len(logs)
        <5>1. k \in Nat /\ Len(logs) \in Nat /\ k <= Len(logs)
          BY <2>1, <3>4
        <5> QED BY <3>6, <5>1
      <4>3. Committed(logs) /\ Right(logs)
        BY <1>9, <2>1, <3>3, <4>2 DEF Committed, Right
      <4>4. Accepted(logs, logs)
        BY <1>3, <1>9, AnswerAssumption DEF Accepted
      <4> QED BY <1>1, <1>3, <3>4, <4>1, <4>3, <4>4, EndKeeps
    <3> QED BY <3>5, <3>6
  <2> QED BY <2>3, <2>4
<1> QED BY <1>2, <1>7, <1>8, <1>9

(* get_logs is called.                                                     *)
LEMMA AskLogsKeeps ==
    ASSUME Inv, AskLogs
    PROVE  Inv'
<1>1. /\ pc = "start" /\ query.kind = "logs" /\ pc' = "logs"
      /\ UNCHANGED asked /\ view' = view /\ wanted' = wanted /\ receipt' = receipt
      /\ answers' = answers /\ logs' = logs /\ checked' = checked /\ result' = result
      /\ disturbed' = disturbed
  BY DEF AskLogs
<1>2. /\ Asked' /\ payloads' = payloads /\ honest' = honest /\ query' = query /\ LogsFound'
  BY <1>1, Frame, SameLogs DEF Inv
<1>3. TypeOK'
  BY <1>1, <1>2 DEF Inv, TypeOK
<1>4. Where' /\ Wanted' /\ LogsSoFar'
  BY <1>1, <1>2 DEF Inv, Where, Wanted, LogsSoFar
<1>5. ReceiptsSoFar' /\ TransactionsSoFar' /\ Ended'
  BY <1>1 DEF ReceiptsSoFar, TransactionsSoFar, Ended
<1> QED BY <1>2, <1>3, <1>4, <1>5 DEF Inv

(* The logs of an honest provider in an open range.                        *)
LEMMA MatchingFacts ==
    ASSUME Asked, Followed, OpenRange, NEW l \in MatchingLogs(bounded(query.filter))
    PROVE  \E b \in view : /\ Number[b] \in DOMAIN payloads
                           /\ \E i \in DOMAIN transactions[b] : LogAt(l, b, i)
<1> DEFINE f == query.filter
           new == newest(DOMAIN payloads)
           g == bounded(f)
           last == newest({Number[b] : b \in view})
           from == IF g.from = None THEN last ELSE g.from
           to == IF g.to = None THEN last ELSE g.to
<1>1. /\ query.kind = "logs" /\ f.to = None /\ f.block = None
      /\ f.from # None => f.from >= oldest(DOMAIN payloads)
  BY DEF OpenRange
<1>2. f \in [from : Nat \cup {None}, to : Nat \cup {None}, block : Block \cup {None}]
  BY <1>1, QueryFacts, ExecutionAssumption
<1>3. /\ new \in Nat /\ oldest(DOMAIN payloads) \in Nat /\ oldest(DOMAIN payloads) <= new
  <2>1. DOMAIN payloads # {} /\ IsFiniteSet(DOMAIN payloads) /\ DOMAIN payloads \in SUBSET Nat
    BY CacheFacts
  <2> QED BY <2>1, EndFacts
<1> HIDE DEF new
<1>4. g = [f EXCEPT !.to = new, !.from = IF f.from = None THEN new ELSE f.from]
  BY <1>1 DEF bounded, new
<1>5. /\ g.to = new /\ g.block = None
      /\ g.from = IF f.from = None THEN new ELSE f.from
  BY <1>1, <1>2, <1>4
<1>6. None \notin Nat
  BY AnswerAssumption
<1>7. /\ g.from \in Nat /\ g.from # None /\ g.to # None
      /\ oldest(DOMAIN payloads) <= g.from
  BY <1>1, <1>2, <1>3, <1>5, <1>6
<1>8. PICK b \in view : /\ l \in LogsOf(b)
                        /\ IF g.block # None THEN b = g.block
                                             ELSE from <= Number[b] /\ Number[b] <= to
  BY DEF MatchingLogs
<1>9. g.from <= Number[b] /\ Number[b] <= new
  BY <1>5, <1>7, <1>8
<1> HIDE DEF f, g, last, from, to
<1>10. Number[b] \in Nat
  BY <1>8, CacheFacts, BlockFacts
<1>11. Number[b] \in DOMAIN payloads
  <2>1. oldest(DOMAIN payloads) <= Number[b]
    BY <1>3, <1>7, <1>9, <1>10
  <2> QED BY <1>8, <1>9, <2>1 DEF Followed, new
<1>12. PICK i \in DOMAIN transactions[b] :
          l \in {[tx |-> transactions[b][i], data |-> d] : d \in logs_of[contents[b][i]]}
  BY <1>8 DEF LogsOf
<1>13. LogAt(l, b, i)
  BY <1>12 DEF LogAt
<1> QED BY <1>8, <1>11, <1>12, <1>13

(* There are finitely many logs.                                           *)
LEMMA MatchingFinite ==
    ASSUME Asked, NEW f
    PROVE  IsFiniteSet(MatchingLogs(f)) /\ MatchingLogs(f) \subseteq Log
<1> DEFINE LogsAt(b, i) == {[tx |-> transactions[b][i], data |-> d] : d \in logs_of[contents[b][i]]}
<1>1. ASSUME NEW b \in view
      PROVE  IsFiniteSet(LogsOf(b)) /\ LogsOf(b) \subseteq Log
  <2>1. b \in Block
    BY CacheFacts
  <2> DEFINE D == DOMAIN transactions[b]
             g == [i \in D |-> LogsAt(b, i)]
             G == {g[i] : i \in D}
  <2>2. IsFiniteSet(D)
    <3>1. D = 1 .. Len(transactions[b]) /\ transactions[b] \in Seq(Tx)
      BY <2>1, BlockFacts, ExecutionAssumption
    <3>2. 1 \in Int /\ Len(transactions[b]) \in Int
      BY <3>1, LenProperties
    <3> QED BY <3>1, <3>2, FS_Interval
  <2>3. ASSUME NEW i \in D
        PROVE  IsFiniteSet(LogsAt(b, i)) /\ LogsAt(b, i) \subseteq Log
    <3> DEFINE S == logs_of[contents[b][i]]
               h == [d \in S |-> [tx |-> transactions[b][i], data |-> d]]
    <3>1. transactions[b][i] \in Tx /\ contents[b][i] \in Content
      BY <2>1, <2>3, BlockFacts
    <3>2. S \subseteq Data /\ IsFiniteSet(S)
      BY <3>1, ExecutionAssumption
    <3>3. LogsAt(b, i) = {h[d] : d \in S}
      OBVIOUS
    <3>4. LogsAt(b, i) \subseteq Log
      BY <3>1, <3>2 DEF Log
    <3>5. IsFiniteSet({h[d] : d \in S})
      <4> HIDE DEF S, h
      <4> QED BY <3>2, FiniteImage
    <3> QED BY <3>3, <3>4, <3>5
  <2>4. LogsOf(b) = UNION G
    BY DEF LogsOf
  <2>5. /\ \A x \in G : IsFiniteSet(x)
        /\ UNION G \subseteq Log
    BY <2>3
  <2>6. IsFiniteSet(G)
    <3> HIDE DEF D, g
    <3> QED BY <2>2, FiniteImage
  <2> HIDE DEF G
  <2>7. IsFiniteSet(UNION G)
    BY <2>5, <2>6, FS_UNION
  <2> QED BY <2>4, <2>5, <2>7
<1> DEFINE last == newest({Number[b] : b \in view})
           from == IF f.from = None THEN last ELSE f.from
           to == IF f.to = None THEN last ELSE f.to
           V == {c \in view : IF f.block # None THEN c = f.block
                                                ELSE from <= Number[c] /\ Number[c] <= to}
           k == [b \in V |-> LogsOf(b)]
           K == {k[b] : b \in V}
<1>2. MatchingLogs(f) = UNION K
  BY DEF MatchingLogs
<1>3. IsFiniteSet(V) /\ V \subseteq view
  <2>1. IsFiniteSet(view) /\ V \subseteq view
    BY ChainAssumption DEF Asked
  <2> HIDE DEF V
  <2> QED BY <2>1, FS_Subset
<1> HIDE DEF V
<1>4. (\A x \in K : IsFiniteSet(x)) /\ UNION K \subseteq Log
  BY <1>1, <1>3
<1>5. IsFiniteSet(K)
  <2> HIDE DEF k
  <2> QED BY <1>3, FiniteImage
<1> HIDE DEF K
<1>6. IsFiniteSet(UNION K)
  BY <1>4, <1>5, FS_UNION
<1> QED BY <1>2, <1>4, <1>6

(* The logs that come are logs.                                            *)
LEMMA LogAnswerFacts ==
    ASSUME Asked, NEW f, NEW ls \in LogAnswers(f)
    PROVE  /\ ls \in Seq(Log)
           /\ honest => \A k \in DOMAIN ls : ls[k] \in MatchingLogs(f)
<1>1. CASE ~ honest
  <2>1. PICK k \in 0 .. MAX_SUPPORTED_LOGS_NUMBER + 1 : ls \in [1 .. k -> AnyLogs]
    BY <1>1 DEF LogAnswers
  <2>2. k \in Nat /\ AnyLogs \subseteq Log
    BY ExecutionAssumption DEF Log
  <2> QED BY <1>1, <2>1, <2>2, SeqDef
<1>2. CASE honest
  <2> DEFINE n == Cardinality(MatchingLogs(f))
  <2>1. ls \in [1 .. n -> MatchingLogs(f)]
    BY <1>2 DEF LogAnswers, SetToSeqs
  <2>2. MatchingLogs(f) \subseteq Log
    BY MatchingFinite
  <2>3. n \in Nat
    BY MatchingFinite, FS_CardinalityType
  <2> QED BY <1>2, <2>1, <2>2, <2>3
<1> QED BY <1>1, <1>2 DEF Asked

(* The logs have come.                                                     *)
LEMMA LogsAnswerKeeps ==
    ASSUME Inv, LogsAnswer
    PROVE  Inv'
<1> DEFINE g == bounded(query.filter)
<1>1. /\ pc = "logs" /\ UNCHANGED asked /\ view' = view /\ disturbed' = disturbed
      /\ query.kind = "logs" /\ checked = 0 /\ Asked
  BY DEF LogsAnswer, Inv, Where
<1>2. PICK ls \in LogAnswers(g) :
         /\ logs' = ls
         /\ \/ too_many_logs(ls) /\ Return(Err)
            \/ ls = <<>> /\ Return(<<>>)
            \/ /\ ls # <<>> /\ ~ too_many_logs(ls)
               /\ Begin(ls[1].tx)
               /\ checked' = checked /\ result' = result
  BY DEF LogsAnswer
<1>3. /\ ls \in Seq(Log)
      /\ honest => \A k \in DOMAIN ls : ls[k] \in MatchingLogs(g)
  <2> HIDE DEF g
  <2> QED BY <1>1, <1>2, LogAnswerFacts
<1>4. /\ payloads' = payloads /\ honest' = honest /\ query' = query
      /\ Steady' => Steady
      /\ OpenRange' <=> OpenRange
  BY <1>1, Frame
<1>5. LogsFound'
  <2>1. ASSUME Steady, OpenRange, NEW k \in DOMAIN ls
        PROVE  \E b \in view : /\ Number[b] \in DOMAIN payloads
                               /\ \E i \in DOMAIN transactions[b] : LogAt(ls[k], b, i)
    <3>1. Followed /\ ls[k] \in MatchingLogs(g)
      BY <1>3, <2>1 DEF Steady
    <3> QED BY <1>1, <2>1, <3>1, MatchingFacts
  <2> QED BY <1>1, <1>2, <1>4, <2>1 DEF LogsFound, LogAt
<1> HIDE DEF g
<1>6. /\ Len(ls) \in Nat /\ MAX_SUPPORTED_LOGS_NUMBER \in Nat
      /\ DOMAIN ls = 1 .. Len(ls) /\ (ls # <<>> => Len(ls) # 0)
  BY <1>3, LenProperties, EmptySeq, ExecutionAssumption
<1>7. CASE too_many_logs(ls) /\ Return(Err)
  <2>1. ~ (Len(ls) <= MAX_SUPPORTED_LOGS_NUMBER)
    BY <1>6, <1>7 DEF too_many_logs
  <2>2. Committed(Err) /\ Right(Err)
    BY DEF Committed, Right, NoAnswer
  <2>3. Accepted(Err, logs')
    BY <1>1, <1>2, <2>1 DEF Accepted
  <2> QED BY <1>1, <1>2, <1>3, <1>5, <1>7, <2>2, <2>3, ReturnKeeps
<1>8. CASE ls = <<>> /\ Return(<<>>)
  <2>1. DOMAIN ls = {}
    <3>1. DOMAIN <<>> = 1 .. 0
      OBVIOUS
    <3> QED BY <1>8, <3>1
  <2>2. Committed(ls) /\ Right(ls)
    BY <1>1, <2>1 DEF Committed, Right
  <2>3. Accepted(ls, logs')
    BY <1>1, <1>3, AnswerAssumption DEF Accepted
  <2> QED BY <1>1, <1>2, <1>3, <1>5, <1>8, <2>2, <2>3, ReturnKeeps
<1>9. CASE ls # <<>> /\ ~ too_many_logs(ls) /\ Begin(ls[1].tx) /\ checked' = checked
  <2>1. Len(ls) <= MAX_SUPPORTED_LOGS_NUMBER /\ 0 < Len(ls) /\ 1 \in 1 .. Len(ls)
    BY <1>6, <1>9 DEF too_many_logs
  <2>2. ls[1].tx \in Tx
    <3>1. ls[1] \in Log
      BY <1>3, <2>1, ElementOfSeq
    <3> QED BY <3>1 DEF Log
  <2>3. checked' = 0 /\ checked' \in 0 .. MAX_SUPPORTED_LOGS_NUMBER /\ checked' + 1 = 1
    BY <1>1, <1>6, <1>9
  <2>4. \A k \in 1 .. checked' : LogCommitted(logs'[k])
    BY <2>3
  <2>5. /\ logs' \in Seq(Log) /\ Len(logs') <= MAX_SUPPORTED_LOGS_NUMBER
        /\ checked' < Len(logs') /\ ls[1].tx = logs'[checked' + 1].tx
    BY <1>2, <1>3, <2>1, <2>3
  <2> QED BY <1>1, <1>5, <1>9, <2>2, <2>3, <2>4, <2>5, BeginKeeps
<1> QED BY <1>2, <1>7, <1>8, <1>9

(* get_transaction is called.                                              *)
LEMMA AskTransactionKeeps ==
    ASSUME Inv, AskTransaction
    PROVE  Inv'
<1>1. /\ pc = "start" /\ query.kind \in {"transaction", "index"}
      /\ UNCHANGED asked /\ view' = view /\ receipt' = receipt /\ answers' = answers
      /\ logs' = logs /\ checked' = checked /\ disturbed' = disturbed
  BY DEF AskTransaction
<1>2. /\ Asked' /\ payloads' = payloads /\ honest' = honest /\ query' = query
      /\ LogsFound' /\ logs' \in Seq(Log)
  BY <1>1, Frame, SameLogs DEF Inv, LogsSoFar
<1>3. CASE pc' = "transaction" /\ wanted' \in Tx /\ (query.kind = "transaction" => wanted' = query.tx)
  <2>1. TypeOK'
    BY <1>1, <1>2, <1>3 DEF Inv, TypeOK
  <2>2. Where' /\ Wanted' /\ LogsSoFar'
    BY <1>1, <1>2, <1>3 DEF Inv, Where, Wanted, LogsSoFar
  <2>3. ReceiptsSoFar' /\ TransactionsSoFar' /\ Ended'
    BY <1>3 DEF ReceiptsSoFar, TransactionsSoFar, Ended
  <2> QED BY <1>2, <2>1, <2>2, <2>3 DEF Inv
<1>4. CASE query.kind = "index" /\ Return(Panic)
  <2>1. Committed(Panic) /\ Right(Panic)
    BY DEF Committed, Right, NoAnswer
  <2>2. Accepted(Panic, logs')
    BY <1>4 DEF Accepted, OpenRange
  <2> QED BY <1>1, <1>2, <1>4, <2>1, <2>2, ReturnKeeps
<1>5. CASE query.kind = "transaction" /\ wanted' = query.tx /\ pc' = "transaction"
  BY <1>3, <1>5, QueryFacts DEF Inv
<1>6. CASE /\ query.kind = "index" /\ query.index \in DOMAIN transactions[query.block]
           /\ wanted' = transactions[query.block][query.index] /\ pc' = "transaction"
  <2>1. query.block \in Block
    BY <1>6, QueryFacts DEF Inv
  <2>2. wanted' \in Tx
    BY <1>6, <2>1, BlockFacts
  <2> QED BY <1>3, <1>6, <2>2
<1>7. CASE query.kind = "index" /\ result' = Panic /\ pc' = "done" /\ wanted' = wanted
  BY <1>1, <1>4, <1>7 DEF Return
<1> QED BY <1>5, <1>6, <1>7 DEF AskTransaction

(* The payloads that a transaction is checked against.                     *)
LEMMA ScopeFacts ==
    ASSUME Asked
    PROVE  /\ query.kind = "transaction" => Scope = payloads
           /\ query.kind \in {"index", "block"} =>
                 /\ DOMAIN Scope = {Number[query.block]}
                 /\ Scope[Number[query.block]] = query.block
BY DEF Scope

(* The answer to get_transaction.                                          *)
LEMMA TransactionAnswerKeeps ==
    ASSUME Inv, TransactionAnswer
    PROVE  Inv'
<1>1. /\ pc = "transaction" /\ UNCHANGED asked /\ view' = view /\ logs' = logs
      /\ disturbed' = disturbed
  BY DEF TransactionAnswer
<1>2. /\ Asked /\ wanted \in Tx /\ query.kind \in {"transaction", "index"}
      /\ query.kind = "transaction" => wanted = query.tx
  BY <1>1 DEF Inv, Where, Wanted
<1>3. PICK t \in TransactionAnswers(wanted) :
         Return(IF check_transaction(t) = None /\ query.kind = "index" THEN Err
                ELSE check_transaction(t))
  BY DEF TransactionAnswer
<1> DEFINE c == check_transaction(t)
           r == IF c = None /\ query.kind = "index" THEN Err ELSE c
<1>4. /\ Steady' => Steady
      /\ LogsFound' /\ logs' \in Seq(Log)
  BY <1>1, Frame, SameLogs DEF Inv, LogsSoFar
<1>5. /\ t \in Transaction \cup {None} /\ None \notin Transaction
      /\ honest => /\ t # None /\ t.tx = wanted
                   /\ \/ t.number = None /\ BlocksWith(wanted) = {}
                      \/ \E b \in BlocksWith(wanted) : t.number = Number[b]
  BY <1>2, <1>3, TransactionFacts
<1>6. \/ c = None /\ (t = None \/ t.number \notin DOMAIN Scope)
      \/ c = None /\ t.number = None
      \/ /\ t # None /\ t.number \in DOMAIN Scope
         /\ \/ c = t /\ t.tx \in ToSet(transactions[Scope[t.number]])
            \/ c = Err /\ t.tx \notin ToSet(transactions[Scope[t.number]])
  BY <1>5, CheckFacts
<1>7. /\ query.kind = "transaction" => Scope = payloads
      /\ query.kind \in {"index", "block"} =>
            /\ DOMAIN Scope = {Number[query.block]}
            /\ Scope[Number[query.block]] = query.block
  BY <1>2, ScopeFacts
<1> HIDE DEF c
<1>8. Committed(r)
  <2>1. SUFFICES ASSUME r \notin NoAnswer
                 PROVE  /\ query.kind = "transaction" => r.tx \in ToSet(transactions[payloads[r.number]])
                        /\ query.kind = "index" => r.tx \in ToSet(transactions[query.block])
    BY <1>2 DEF Committed
  <2>2. r = t /\ t.number \in DOMAIN Scope /\ t.tx \in ToSet(transactions[Scope[t.number]])
    BY <1>6, <2>1 DEF NoAnswer
  <2> QED BY <1>7, <2>2
<1>9. Right(r)
  BY <1>2 DEF Right
<1>10. ASSUME Steady
       PROVE  Accepted(r, logs)
  <2>1. honest /\ Followed /\ t # None /\ t.tx = wanted
    BY <1>5, <1>10 DEF Steady
  <2>2. SUFFICES ASSUME query.kind = "transaction"
                 PROVE  IF InCache(query.tx) THEN c.tx = query.tx ELSE c = None
    BY <1>2 DEF Accepted, OpenRange
  <2>3. CASE BlocksWith(wanted) = {} /\ t.number = None
    <3>1. ~ InCache(wanted)
      BY <1>2, <2>1, <2>3, NotInCache
    <3>2. c = None
      <4>1. t.number \notin DOMAIN Scope
        BY <1>2, <1>7, <2>2, <2>3, CacheFacts, AnswerAssumption
      <4> QED BY <1>6, <2>1, <4>1
    <3> QED BY <1>2, <2>2, <3>1, <3>2
  <2>4. ASSUME NEW b \in BlocksWith(wanted), t.number = Number[b]
        PROVE  IF InCache(query.tx) THEN c.tx = query.tx ELSE c = None
    <3>1. b \in view /\ b \in Block /\ \E i \in DOMAIN transactions[b] : transactions[b][i] = wanted
      BY <1>2, <2>4, CacheFacts DEF BlocksWith, Positions
    <3>2. t.number \in Nat /\ t.number # None
      BY <2>4, <3>1, BlockFacts, AnswerAssumption
    <3>3. CASE Number[b] \notin DOMAIN payloads
      <4>1. ~ InCache(wanted)
        BY <1>2, <2>1, <2>4, <3>3, NotInCache
      <4>2. c = None
        BY <1>6, <1>7, <2>2, <2>4, <3>3
      <4> QED BY <1>2, <2>2, <4>1, <4>2
    <3>4. CASE Number[b] \in DOMAIN payloads
      <4>1. payloads[Number[b]] = b
        BY <1>2, <2>1, <3>1, <3>4, CachedIsFollowed
      <4>2. InCache(wanted)
        BY <2>4, <3>4, <4>1 DEF InCache, BlocksWith
      <4>3. t.tx \in ToSet(transactions[Scope[t.number]])
        BY <1>7, <2>1, <2>2, <2>4, <3>1, <4>1 DEF ToSet
      <4>4. c = t
        BY <1>6, <1>7, <2>1, <2>2, <2>4, <3>2, <3>4, <4>3
      <4> QED BY <1>2, <2>1, <2>2, <4>2, <4>4
    <3> QED BY <3>3, <3>4
  <2> QED BY <1>5, <2>1, <2>3, <2>4
<1>11. Return(r)
  BY <1>3 DEF c
<1> HIDE DEF r
<1> QED BY <1>1, <1>4, <1>8, <1>9, <1>10, <1>11, ReturnKeeps

(* A block is asked for with its transactions.                             *)
LEMMA AskBlockKeeps ==
    ASSUME Inv, AskBlock
    PROVE  Inv'
<1>1. /\ pc = "start" /\ query.kind = "block" /\ pc' = "block_transactions"
      /\ answers' = [i \in DOMAIN transactions[query.block] |-> Pending]
      /\ UNCHANGED asked /\ view' = view /\ wanted' = wanted /\ receipt' = receipt
      /\ logs' = logs /\ checked' = checked /\ result' = result /\ disturbed' = disturbed
  BY DEF AskBlock
<1>2. /\ Asked' /\ payloads' = payloads /\ honest' = honest /\ query' = query
      /\ Steady' => Steady
      /\ LogsFound'
  BY <1>1, Frame, SameLogs DEF Inv
<1>3. Pending \notin Transaction /\ Pending # Err
  BY AnswerAssumption
<1>4. TypeOK'
  BY <1>1, <1>2 DEF Inv, TypeOK
<1>5. Where' /\ Wanted' /\ LogsSoFar'
  BY <1>1, <1>2 DEF Inv, Where, Wanted, LogsSoFar
<1>6. ReceiptsSoFar' /\ Ended'
  BY <1>1 DEF ReceiptsSoFar, Ended
<1>7. TransactionsSoFar'
  BY <1>1, <1>2, <1>3 DEF TransactionsSoFar
<1> QED BY <1>2, <1>4, <1>5, <1>6, <1>7 DEF Inv

(* One of the answers about the transactions of a block.                   *)
LEMMA BlockTransactionKeeps ==
    ASSUME Inv, NEW i \in DOMAIN answers, BlockTransaction(i)
    PROVE  Inv'
<1> DEFINE q == query.block
           t == transactions[q][i]
<1>1. /\ pc = "block_transactions" /\ answers[i] = Pending
      /\ UNCHANGED asked /\ view' = view /\ pc' = pc /\ wanted' = wanted
      /\ receipt' = receipt /\ logs' = logs /\ checked' = checked /\ result' = result
      /\ disturbed' \in {disturbed, TRUE}
  BY DEF BlockTransaction
<1>2. PICK a : /\ answers' = [answers EXCEPT ![i] = a]
               /\ \/ disturbed' = TRUE /\ a = Err
                  \/ /\ disturbed' = disturbed
                     /\ \E x \in TransactionAnswers(t) :
                           a = IF check_transaction(x) = None THEN Err ELSE check_transaction(x)
  BY DEF BlockTransaction
<1>3. /\ Asked' /\ payloads' = payloads /\ honest' = honest /\ query' = query
      /\ Steady' => Steady
      /\ LogsFound'
  BY <1>1, Frame, SameLogs DEF Inv
<1>4. /\ Asked /\ query.kind = "block"
      /\ answers \in [DOMAIN transactions[q] -> Transaction \cup {Pending, Err}]
      /\ \A j \in DOMAIN answers : answers[j] \in Transaction =>
            /\ answers[j].tx \in ToSet(transactions[q])
            /\ honest => answers[j].tx = transactions[q][j]
      /\ Steady => \A j \in DOMAIN answers : answers[j] # Err
  BY <1>1 DEF Inv, Where, TransactionsSoFar
<1>5. q \in Block /\ Number[q] \in DOMAIN payloads /\ payloads[Number[q]] = q
  BY <1>4, QueryFacts, CacheFacts
<1>6. t \in Tx /\ i \in DOMAIN transactions[q] /\ t \in ToSet(transactions[q])
  BY <1>4, <1>5, BlockFacts DEF ToSet
<1>7. DOMAIN Scope = {Number[q]} /\ Scope[Number[q]] = q
  BY <1>4, ScopeFacts
<1> HIDE DEF q, t
<1>8. {None, Pending, Err} \cap Transaction = {}
  BY AnswerAssumption
<1>9. ASSUME NEW x \in TransactionAnswers(t)
      PROVE  LET c == check_transaction(x)
             IN  /\ c \in Transaction \cup {None, Err}
                 /\ c \in Transaction => /\ c.tx \in ToSet(transactions[q])
                                         /\ honest => c.tx = t
                 /\ honest /\ Followed => c \in Transaction
  <2> DEFINE c == check_transaction(x)
  <2>1. /\ x \in Transaction \cup {None}
        /\ honest => /\ x # None /\ x.tx = t
                     /\ \/ x.number = None /\ BlocksWith(t) = {}
                        \/ \E b \in BlocksWith(t) : x.number = Number[b]
    BY <1>4, <1>6, <1>9, TransactionFacts
  <2>2. \/ c = None /\ (x = None \/ x.number \notin DOMAIN Scope)
        \/ c = None /\ x.number = None
        \/ /\ x # None /\ x.number \in DOMAIN Scope
           /\ \/ c = x /\ x.tx \in ToSet(transactions[Scope[x.number]])
              \/ c = Err /\ x.tx \notin ToSet(transactions[Scope[x.number]])
    BY <2>1, CheckFacts
  <2> HIDE DEF c
  <2>3. ASSUME honest, Followed
        PROVE  c \in Transaction
    <3>1. q \in view
      BY <1>5, <2>3 DEF Followed
    <3>2. q \in BlocksWith(t)
      BY <1>6, <3>1 DEF BlocksWith, Positions, t
    <3>3. PICK b \in BlocksWith(t) : x.number = Number[b]
      BY <2>1, <2>3, <3>2
    <3>4. b \in view /\ \E j \in DOMAIN transactions[b] : transactions[b][j] = t
      BY <3>3 DEF BlocksWith, Positions
    <3>5. b = q
      BY <1>4, <1>6, <3>1, <3>4, OncePerChain DEF t
    <3>6. x.number \in DOMAIN Scope /\ x.number # None
      BY <1>5, <1>7, <3>3, <3>5, BlockFacts, AnswerAssumption
    <3>7. x.tx \in ToSet(transactions[Scope[x.number]])
      BY <1>6, <1>7, <2>1, <2>3, <3>3, <3>5
    <3> QED BY <2>1, <2>2, <2>3, <3>6, <3>7
  <2>4. c \in Transaction => c = x /\ x.tx \in ToSet(transactions[q])
    BY <1>7, <1>8, <2>2
  <2>5. c \in Transaction \cup {None, Err}
    BY <2>1, <2>2
  <2> QED BY <2>1, <2>3, <2>4, <2>5 DEF c
<1>10. /\ a \in Transaction \cup {Err}
       /\ a \in Transaction => /\ a.tx \in ToSet(transactions[q])
                               /\ honest => a.tx = t
       /\ Steady' => a \in Transaction
  <2>1. CASE disturbed' = TRUE /\ a = Err
    BY <1>8, <2>1 DEF Steady
  <2>2. CASE disturbed' = disturbed /\ \E x \in TransactionAnswers(t) :
                a = IF check_transaction(x) = None THEN Err ELSE check_transaction(x)
    <3>1. PICK x \in TransactionAnswers(t) :
             a = IF check_transaction(x) = None THEN Err ELSE check_transaction(x)
      BY <2>2
    <3>2. Steady' => honest /\ Followed
      BY <1>3 DEF Steady
    <3> QED BY <1>8, <1>9, <3>1, <3>2
  <2> QED BY <1>2, <2>1, <2>2
<1>11. /\ answers' \in [DOMAIN transactions[q] -> Transaction \cup {Pending, Err}]
       /\ DOMAIN answers' = DOMAIN answers
       /\ answers'[i] = a /\ \A j \in DOMAIN answers \ {i} : answers'[j] = answers[j]
  BY <1>2, <1>4, <1>10
<1>12. TypeOK'
  BY <1>1, <1>3, <1>11 DEF Inv, TypeOK
<1>13. Where' /\ Wanted' /\ ReceiptsSoFar' /\ Ended'
  BY <1>1, <1>3 DEF Inv, Where, Wanted, ReceiptsSoFar, Ended
<1>14. LogsSoFar'
  BY <1>1, <1>3 DEF Inv, LogsSoFar, LogCommitted
<1>15. TransactionsSoFar'
  <2>1. query'.block = q
    BY <1>3 DEF q
  <2>2. \A j \in DOMAIN answers' : answers'[j] \in Transaction =>
           /\ answers'[j].tx \in ToSet(transactions[q])
           /\ honest => answers'[j].tx = transactions[q][j]
    BY <1>4, <1>10, <1>11 DEF t
  <2>3. Steady' => \A j \in DOMAIN answers' : answers'[j] # Err
    BY <1>3, <1>4, <1>8, <1>10, <1>11
  <2> QED BY <1>3, <1>11, <2>1, <2>2, <2>3 DEF TransactionsSoFar
<1> QED BY <1>3, <1>12, <1>13, <1>14, <1>15 DEF Inv

(* A block is returned with its transactions.                              *)
LEMMA BlockReturnsKeeps ==
    ASSUME Inv, BlockReturns
    PROVE  Inv'
<1> DEFINE q == query.block
           r == IF \E i \in DOMAIN answers : answers[i] = Err THEN Err ELSE answers
<1>1. /\ pc = "block_transactions" /\ Answered /\ Return(r)
      /\ UNCHANGED asked /\ view' = view /\ logs' = logs /\ disturbed' = disturbed
  BY DEF BlockReturns
<1>2. /\ Asked /\ query.kind = "block"
      /\ answers \in [DOMAIN transactions[q] -> Transaction \cup {Pending, Err}]
      /\ \A j \in DOMAIN answers : answers[j] \in Transaction =>
            /\ answers[j].tx \in ToSet(transactions[q])
            /\ honest => answers[j].tx = transactions[q][j]
      /\ Steady => \A j \in DOMAIN answers : answers[j] # Err
  BY <1>1 DEF Inv, Where, TransactionsSoFar
<1>3. /\ Steady' => Steady
      /\ LogsFound' /\ logs' \in Seq(Log)
  BY <1>1, Frame, SameLogs DEF Inv, LogsSoFar
<1>4. q \in Block /\ transactions[q] \in [DOMAIN transactions[q] -> Tx]
  BY <1>2, QueryFacts, BlockFacts
<1> HIDE DEF q
<1>5. \/ r = Err /\ \E i \in DOMAIN answers : answers[i] = Err
      \/ /\ r = answers /\ answers \in [DOMAIN transactions[q] -> Transaction]
  BY <1>1, <1>2 DEF Answered
<1> HIDE DEF r
<1>6. CASE r = Err /\ \E i \in DOMAIN answers : answers[i] = Err
  <2>1. Committed(r) /\ Right(r)
    BY <1>6 DEF Committed, Right, NoAnswer
  <2>2. ~ Steady'
    BY <1>2, <1>3, <1>6
  <2> QED BY <1>1, <1>3, <2>1, <2>2, ReturnKeeps
<1>7. CASE r = answers /\ answers \in [DOMAIN transactions[q] -> Transaction]
  <2>1. Committed(r)
    BY <1>2, <1>7 DEF Committed, q
  <2>2. ASSUME honest
        PROVE  Right(r)
    <3>1. [i \in DOMAIN r |-> r[i].tx] = transactions[q]
      <4>1. DOMAIN r = DOMAIN transactions[q] /\ \A i \in DOMAIN r : r[i].tx = transactions[q][i]
        BY <1>2, <1>7, <2>2
      <4> QED BY <1>4, <4>1
    <3> QED BY <1>2, <3>1 DEF Right, q
  <2>3. Accepted(r, logs')
    BY <1>2, <1>4, <1>7, AnswerAssumption DEF Accepted, OpenRange
  <2> QED BY <1>1, <1>3, <2>1, <2>2, <2>3, ReturnKeeps
<1> QED BY <1>5, <1>6, <1>7

(* The provider's chain changes.                                           *)
LEMMA ReorgKeeps ==
    ASSUME Inv, Reorg
    PROVE  Inv'
<1>1. /\ pc # "done" /\ view' \in Branches /\ disturbed' = TRUE
      /\ UNCHANGED asked /\ pc' = pc /\ wanted' = wanted /\ receipt' = receipt
      /\ answers' = answers /\ logs' = logs /\ checked' = checked /\ result' = result
  BY DEF Reorg
<1>2. payloads' = payloads /\ honest' = honest /\ query' = query
  BY <1>1 DEF asked
<1>3. ~ Steady'
  BY <1>1 DEF Steady
<1>4. Asked'
  BY <1>1, <1>2 DEF Inv, Asked
<1>5. TypeOK'
  BY <1>1, <1>2 DEF Inv, TypeOK
<1>6. Where' /\ Wanted' /\ LogsFound' /\ Ended'
  BY <1>1, <1>2, <1>3 DEF Inv, Where, Wanted, LogsFound, Ended
<1>7. LogsSoFar'
  BY <1>1, <1>2 DEF Inv, LogsSoFar, LogCommitted
<1>8. ReceiptsSoFar'
  BY <1>1, <1>2, <1>3 DEF Inv, ReceiptsSoFar
<1>9. TransactionsSoFar'
  BY <1>1, <1>2, <1>3 DEF Inv, TransactionsSoFar
<1> QED BY <1>4, <1>5, <1>6, <1>7, <1>8, <1>9 DEF Inv

(* An answer of a provider that is not honest lacks a field.               *)
LEMMA IncompleteKeeps ==
    ASSUME Inv, IncompleteReceipt \/ IncompleteLog
    PROVE  Inv'
<1>1. /\ ~ honest /\ UNCHANGED asked /\ view' = view /\ logs' = logs
      /\ disturbed' = disturbed
  BY DEF IncompleteReceipt, IncompleteLog
<1>2. PICK r \in NoAnswer : Return(r)
  BY DEF IncompleteReceipt, IncompleteLog, NoAnswer
<1>3. Committed(r) /\ Right(r)
  BY <1>2 DEF Committed, Right
<1>4. ~ Steady'
  BY <1>1 DEF Steady, asked
<1>5. logs' \in Seq(Log) /\ LogsFound'
  BY <1>1, SameLogs DEF Inv, LogsSoFar
<1> QED BY <1>1, <1>2, <1>3, <1>4, <1>5, ReturnKeeps

----------------------------------------------------------------------------
(* The theorems.                                                           *)

(* No request has been made.                                               *)
LEMMA InitInv ==
    ASSUME Init
    PROVE  Inv
<1>1. /\ pc = "start" /\ wanted = None /\ receipt = None /\ answers = <<>> /\ logs = <<>>
      /\ checked = 0 /\ result = None /\ disturbed = FALSE
  BY DEF Init
<1>2. Asked
  BY DEF Init, Asked
<1>3. DOMAIN answers = {} /\ DOMAIN logs = {} /\ Len(logs) = 0 /\ logs \in Seq(Log)
  <2>1. DOMAIN <<>> = 1 .. 0 /\ Len(<<>>) = 0 /\ <<>> \in Seq(Log)
    OBVIOUS
  <2> QED BY <1>1, <2>1
<1>4. TypeOK
  <2>1. MAX_SUPPORTED_LOGS_NUMBER \in Nat
    BY ExecutionAssumption
  <2> QED BY <1>1, <1>2, <1>3, <2>1 DEF TypeOK, Asked
<1>5. Where /\ Wanted /\ ReceiptsSoFar /\ TransactionsSoFar /\ LogsSoFar /\ LogsFound /\ Ended
  BY <1>1, <1>3 DEF Where, Wanted, ReceiptsSoFar, TransactionsSoFar, LogsSoFar, LogsFound, Ended
<1> QED BY <1>2, <1>4, <1>5 DEF Inv

(* Nothing happens to the query.                                           *)
LEMMA StutterKeeps ==
    ASSUME Inv, UNCHANGED vars
    PROVE  Inv'
<1>1. /\ UNCHANGED asked /\ view' = view /\ pc' = pc /\ wanted' = wanted /\ receipt' = receipt
      /\ answers' = answers /\ logs' = logs /\ checked' = checked /\ result' = result
      /\ disturbed' = disturbed
  BY DEF vars
<1>2. payloads' = payloads /\ honest' = honest /\ query' = query
  BY <1>1 DEF asked
<1>3. Asked' /\ TypeOK' /\ Where' /\ Wanted'
  BY <1>1, <1>2 DEF Inv, Asked, TypeOK, Where, Wanted
<1>4. LogsSoFar' /\ LogsFound'
  BY <1>1, <1>2, SameLogs DEF Inv, LogsSoFar, LogCommitted
<1>5. ReceiptsSoFar' /\ TransactionsSoFar'
  BY <1>1, <1>2 DEF Inv, ReceiptsSoFar, TransactionsSoFar, Steady, Followed
<1>6. Ended'
  BY <1>1, <1>2 DEF Inv, Ended, Steady, Followed, Committed, LogCommitted, Right, Accepted,
                    InCache, OpenRange
<1> QED BY <1>3, <1>4, <1>5, <1>6 DEF Inv

(* Every step keeps the invariant.                                         *)
LEMMA NextInv ==
    ASSUME Inv, [Next]_vars
    PROVE  Inv'
<1>1. CASE RequestFails
  BY <1>1, RequestFailsKeeps
<1>2. CASE AskReceipt
  BY <1>2, AskReceiptKeeps
<1>3. CASE ReceiptAnswer
  BY <1>3, ReceiptAnswerKeeps
<1>4. ASSUME NEW i \in DOMAIN answers, BlockReceipt(i)
      PROVE  Inv'
  BY <1>4, BlockReceiptKeeps
<1>5. CASE CheckReceipts
  BY <1>5, CheckReceiptsKeeps
<1>6. CASE AskLogs
  BY <1>6, AskLogsKeeps
<1>7. CASE LogsAnswer
  BY <1>7, LogsAnswerKeeps
<1>8. CASE AskTransaction
  BY <1>8, AskTransactionKeeps
<1>9. CASE TransactionAnswer
  BY <1>9, TransactionAnswerKeeps
<1>10. CASE AskBlock
  BY <1>10, AskBlockKeeps
<1>11. ASSUME NEW i \in DOMAIN answers, BlockTransaction(i)
       PROVE  Inv'
  BY <1>11, BlockTransactionKeeps
<1>12. CASE BlockReturns
  BY <1>12, BlockReturnsKeeps
<1>13. CASE Reorg
  BY <1>13, ReorgKeeps
<1>14. CASE UNCHANGED vars
  BY <1>14, StutterKeeps
<1>15. CASE IncompleteReceipt \/ IncompleteLog
  BY <1>15, IncompleteKeeps
<1> QED BY <1>1, <1>2, <1>3, <1>4, <1>5, <1>6, <1>7, <1>8, <1>9, <1>10, <1>11, <1>12, <1>13,
           <1>14, <1>15 DEF Next

(* The invariant holds throughout a query.                                 *)
THEOREM ExecutionInvariant == Spec => []Inv
<1>1. Init => Inv
  BY InitInv
<1>2. Inv /\ [Next]_vars => Inv'
  BY NextInv
<1> QED BY <1>1, <1>2, PTL DEF Spec

(* The state of a query has its type: no more logs are looked at than the  *)
(* limit that get_logs has.                                                *)
THEOREM TypeCorrect == Spec => []TypeOK
<1>1. Inv => TypeOK
  BY DEF Inv
<1> QED BY <1>1, ExecutionInvariant, PTL

(* Whatever the provider answers, and however it changes its chain, what   *)
(* get_transaction_receipt, get_logs, get_transaction and get_block return *)
(* is data that a cached payload commits to.                               *)
THEOREM AnswersCorrect == Spec => []AnswersAreCommitted
<1>1. ASSUME Inv
      PROVE  AnswersAreCommitted
  <2>1. pc = "done" => Committed(result)
    BY <1>1 DEF Inv, Ended
  <2>2. ReceiptIsCommitted
    BY <2>1 DEF ReceiptIsCommitted, Finished, Committed, NoAnswer
  <2>3. LogsAreCommitted
    BY <2>1 DEF LogsAreCommitted, Finished, Committed, NoAnswer, LogCommitted
  <2>4. TransactionsAreCommitted
    BY <2>1 DEF TransactionsAreCommitted, Finished, Committed, NoAnswer
  <2> QED BY <2>2, <2>3, <2>4 DEF AnswersAreCommitted
<1>2. Inv => AnswersAreCommitted
  BY <1>1
<1> QED BY <1>2, ExecutionInvariant, PTL

(* With an honest provider that may change its chain between any two       *)
(* requests, a receipt is that of the transaction asked for and a block    *)
(* has its own transactions in their order.                                *)
THEOREM HonestCorrect == Spec => []HonestAnswerIsRight
<1>1. ASSUME Inv
      PROVE  HonestAnswerIsRight
  <2>1. pc = "done" /\ honest => Right(result)
    BY <1>1 DEF Inv, Ended
  <2> QED BY <2>1 DEF HonestAnswerIsRight, Finished, Right, NoAnswer
<1>2. Inv => HonestAnswerIsRight
  BY <1>1
<1> QED BY <1>2, ExecutionInvariant, PTL

(* An honest provider that stays on the chain that the cache holds is      *)
(* never turned down.                                                      *)
THEOREM AcceptedCorrect == Spec => []HonestAnswerIsAccepted
<1>1. ASSUME Inv
      PROVE  HonestAnswerIsAccepted
  <2>1. pc = "done" /\ Steady => Accepted(result, logs)
    BY <1>1 DEF Inv, Ended
  <2> SUFFICES ASSUME pc = "done" /\ Steady
               PROVE  /\ query.kind \in {"receipt", "transaction"} =>
                            IF InCache(query.tx) THEN result.tx = query.tx ELSE result = None
                      /\ query.kind = "block" => result # Err
                      /\ query.kind = "logs" /\ query.filter.to = None /\ query.filter.block = None
                            /\ (query.filter.from # None =>
                                    query.filter.from >= oldest(DOMAIN payloads))
                            /\ Len(logs) <= MAX_SUPPORTED_LOGS_NUMBER
                          => result # Err
    BY DEF HonestAnswerIsAccepted, Steady, Followed, InCache
  <2> QED BY <2>1 DEF Accepted, OpenRange
<1>2. Inv => HonestAnswerIsAccepted
  BY <1>1
<1> QED BY <1>2, ExecutionInvariant, PTL

(* The ends of an interval of numbers.                                     *)
LEMMA IntervalEnds ==
    ASSUME NEW a \in Int, NEW b \in Int, a .. b # {}, a .. b \subseteq Nat
    PROVE  oldest(a .. b) = a /\ newest(a .. b) = b
<1> DEFINE S == a .. b
<1>1. a \in S /\ b \in S /\ \A m \in S : a <= m /\ m <= b
  OBVIOUS
<1>2. IsFiniteSet(S) /\ S \in SUBSET Nat /\ S # {}
  BY FS_Interval
<1>3. /\ newest(S) \in S /\ \A m \in S : m <= newest(S)
      /\ oldest(S) \in S /\ \A m \in S : oldest(S) <= m
  <2> HIDE DEF S
  <2> QED BY <1>2, EndFacts
<1>4. b <= newest(S) /\ newest(S) <= b /\ oldest(S) <= a /\ a <= oldest(S)
  BY <1>1, <1>3
<1>5. newest(S) \in Int /\ oldest(S) \in Int
  BY <1>2, <1>3
<1> HIDE DEF S
<1>6. oldest(S) = a /\ newest(S) = b
  BY <1>4, <1>5
<1> QED BY <1>6 DEF S

(* get_fee_history never leaves out a block between two others, whatever   *)
(* the cache holds and whatever the width of the integers is, and gives    *)
(* all the cached blocks asked for if these are no more than the chain     *)
(* has and the cache has no gap.                                           *)
THEOREM FeeHistoryCorrect == Spec => []FeeHistoryHasNoGaps
<1>1. ASSUME Inv
      PROVE  FeeHistoryHasNoGaps
  <2> DEFINE S == DOMAIN payloads
             latest == newest(S)
             first == oldest(S)
  <2>1. S # {} /\ IsFiniteSet(S) /\ S \in SUBSET Nat
    BY <1>1, CacheFacts DEF Inv
  <2>2. latest \in Nat /\ first \in Nat /\ \A n \in S : n \in Nat /\ first <= n
    BY <2>1, EndFacts
  <2> SUFFICES ASSUME NEW block_count \in 0 .. latest + 1, NEW last_block \in 0 .. latest + 1
               PROVE  LET history == get_fee_history(block_count, last_block)
                          last == LastBlock(last_block)
                      IN  /\ history \notin {Err, {}} =>
                                /\ history \subseteq S
                                /\ history = oldest(history) .. last
                          /\ Cached(last) /\ block_count <= last =>
                                history = AskedFor(block_count, last)
    BY DEF FeeHistoryHasNoGaps
  <2> DEFINE last == LastBlock(last_block)
             history == get_fee_history(block_count, last_block)
             difference == last - block_count
             wrapped == IF difference >= 0 THEN difference ELSE difference + 2 ^ Width
             request_oldest == IF wrapped < first THEN first ELSE wrapped
             range == request_oldest .. last
  <2>3. history = IF last_block < first THEN Err
                  ELSE IF range \subseteq S THEN range ELSE Err
    BY DEF get_fee_history, fee_history_blocks, LastBlock
  <2>4. last \in Int /\ last \in {last_block, latest} /\ block_count \in Int
    BY <2>2 DEF LastBlock
  <2>5. difference \in Int /\ wrapped \in Int /\ request_oldest \in Int
    <3>1. 2 ^ Width \in Int
      BY ExecutionAssumption
    <3> HIDE DEF last
    <3>2. difference \in Int
      BY <2>4
    <3> HIDE DEF difference
    <3>3. wrapped \in Int
      BY <3>1, <3>2
    <3> HIDE DEF wrapped
    <3> QED BY <2>2, <3>2, <3>3
  <2>6. ASSUME history \notin {Err, {}}
        PROVE  history \subseteq S /\ history = oldest(history) .. last
    <3>1. history = range /\ range \subseteq S /\ range # {}
      BY <2>3, <2>6
    <3> HIDE DEF history, last, request_oldest, S
    <3>2. range \subseteq Nat
      BY <2>1, <3>1
    <3>3. oldest(range) = request_oldest
      BY <2>4, <2>5, <3>1, <3>2, IntervalEnds
    <3> QED BY <3>1, <3>3
  <2>7. ASSUME Cached(last), block_count <= last
        PROVE  history = AskedFor(block_count, last)
    <3>1. first <= last /\ first .. last \subseteq S
      BY <2>7 DEF Cached
    <3>2. ~ (last_block < first)
      BY <2>2, <2>4, <3>1 DEF LastBlock
    <3> HIDE DEF history, last, S, first
    <3>3. difference >= 0
      BY <2>4, <2>7
    <3>4. wrapped = difference /\ request_oldest = IF difference < first THEN first ELSE difference
      BY <3>3
    <3> HIDE DEF wrapped, request_oldest, difference
    <3>5. first <= request_oldest /\ difference <= request_oldest
      BY <2>2, <2>5, <3>4
    <3>6. range \subseteq first .. last
      BY <2>2, <2>4, <2>5, <3>5
    <3>7. history = range
      BY <2>3, <3>1, <3>2, <3>6
    <3>8. ASSUME NEW n \in S
          PROVE  n \in range <=> difference <= n /\ n <= last
      <4>1. n \in Nat /\ first <= n
        BY <2>2
      <4> QED BY <2>2, <2>4, <2>5, <3>4, <3>5, <4>1
    <3>9. range = {n \in S : difference <= n /\ n <= last}
      <4> HIDE DEF range
      <4> QED BY <3>1, <3>6, <3>8
    <3> QED BY <3>7, <3>9 DEF AskedFor, S, difference
  <2> QED BY <2>6, <2>7
<1>2. Inv => FeeHistoryHasNoGaps
  BY <1>1
<1> QED BY <1>2, ExecutionInvariant, PTL
=============================================================================
