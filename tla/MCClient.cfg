SPECIFICATION FairSpec
CONSTANTS
    MaxEpoch = 2
    MaxBoots = 2
    Queries = {q1}
    Networks <- AllNetworks
    Dirs <- AllDirs
    Starts <- AllStarts
    default_checkpoint <- Genesis
    max_checkpoint_age = 2
    None = None
    Err = Err
    Torn = Torn
INVARIANTS
    TypeOK
    StartsFromKnownCheckpoint
    SavesDoNotOverlap
PROPERTIES
    SavedCheckpointNeverRegresses
    ShutdownCompletes
    NoTaskStarves
CHECK_DEADLOCK FALSE
