SPECIFICATION ScheduleSpec
CONSTANTS
    SlotsPerEpoch = 2
    EpochsPerPeriod = 3
    CommitteeSize = 3
    MaxFaulty = 1
    MaxSlot = 16
    FinalizedSlot <- MCFinalizedSlot
    Checkpoints = {0, 2, 4, 6, 8, 9}
    MaxCheckpointAge = 8
    StrictCheckpointAge = FALSE
    Served = {}
    MaxMissed = 2
    None = None
    Forged = Forged
INVARIANTS
    NeverStranded
PROPERTIES
    CatchesUp
