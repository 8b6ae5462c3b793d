SPECIFICATION Spec
CONSTANTS
    Nibble = {0, 1}
    PathLength = 3
    Value = {v1, v2}
    NodeHashes = {}
    EmptyValue = empty
    Inlined = {}
    MaxKeys = 3
    Tries <- SmallTries
INVARIANTS
    ExclusionIsSound
CHECK_DEADLOCK FALSE
