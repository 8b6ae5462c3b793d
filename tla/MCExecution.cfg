SPECIFICATION Spec
CONSTANTS
    a2 = a2
    a3 = a3
    a4 = a4
    b2 = b2
    b3 = b3
    t1 = t1
    t2 = t2
    t3 = t3
    t4 = t4
    c1 = c1
    c2 = c2
    c3 = c3
    d1 = d1
    d2 = d2
    Tx = {t1, t2, t3, t4}
    Block <- Blocks
    Number <- BlockNumber
    transactions <- Transactions
    contents <- ReceiptContents
    Content = {c1, c2, c3}
    Data = {d1, d2}
    logs_of <- ContentLogs
    Branches <- Chains
    Caches <- SomeCaches
    Filters <- SomeFilters
    AnyReceipts <- SomeReceipts
    AnyLogs <- SomeLogs
    MAX_SUPPORTED_LOGS_NUMBER = 2
    Width = 4
    None = None
    Pending = Pending
    Err = Err
    Panic = Panic
INVARIANTS
    TypeOK
    AnswersAreCommitted
    HonestAnswerIsRight
    HonestAnswerIsAccepted
    FeeHistoryHasNoGaps
CHECK_DEADLOCK FALSE
