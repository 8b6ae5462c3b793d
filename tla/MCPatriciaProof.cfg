SPECIFICATION Spec
CONSTANTS
    Nibble = {0, 1}
    PathLength = 3
    Value = {v1, v2}
    NodeHashes = {v2}
    EmptyValue = empty
    Inlined <- ShortLeaves
    MaxKeys = 4
    Tries <- SmallTries
INVARIANTS
    TypeOK
    InclusionIsSound
    ExclusionIsSoundOffPath
    CompleteProofIsAccepted
CHECK_DEADLOCK FALSE
