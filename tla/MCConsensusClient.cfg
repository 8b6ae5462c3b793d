SPECIFICATION Spec
CONSTANTS
    SlotsPerEpoch = 2
    EpochsPerPeriod = 2
    CommitteeSize = 4
    MaxFaulty = 2
    MaxSlot = 13
    FinalizedSlot <- MCFinalizedSlot
    Checkpoints = {0, 4}
    MaxCheckpointAge = 6
    StrictCheckpointAge = TRUE
    Served <- MCServed
    None = None
    Forged = Forged
INVARIANTS
    TypeOK
    StoreOnCanonicalChain
    HeadBetweenFinalizedAndClock
    SavedCheckpointIsTrustworthy
PROPERTIES
    HeadersNeverRegress
    FollowsFinalizedChain
    MinorityCannotMoveTheHead
