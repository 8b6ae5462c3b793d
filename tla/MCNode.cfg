SPECIFICATION Spec
CONSTANTS
    Blocks <- MCBlocks
    Forged <- MCForged
    Parent <- MCParent
    BlockHash <- MCBlockHash
    Number <- MCNumber
    Canon <- MCCanon
    HistorySize = 2
    FinalizedSize = 2
    MaxHeadDelay = 2
    MaxSlot = 6
    MaxFailures = 2
    None = None
INVARIANTS
    TypeOK
    OnlyVerifiedPayloads
    FinalizedTagIsFinal
    NoGapsInServedChain
    CachesBounded
PROPERTIES
    ReportedNumbersNeverDecrease
CHECK_DEADLOCK FALSE
