SPECIFICATION Spec
CONSTANTS
    Blocks <- MCLine
    Forged <- MCLineForged
    Parent <- MCLineParent
    BlockHash <- MCLineBlockHash
    Number <- MCLineNumber
    Canon <- MCLine
    HistorySize = 2
    FinalizedSize = 2
    MaxHeadDelay = 2
    MaxSlot = 6
    MaxFailures = 2
    None = None
INVARIANT AnsweredBlockIsRecent
CHECK_DEADLOCK FALSE
