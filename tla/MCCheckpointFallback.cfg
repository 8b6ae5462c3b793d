SPECIFICATION Spec
CONSTANTS
    s1 = s1
    s2 = s2
    s3 = s3
    s4 = s4
    mainnet = mainnet
    goerli = goerli
    Services = {s1, s2, s3, s4}
    Honest = {s1, s2}
    Networks = {mainnet, goerli}
    Lists <- SomeLists
    Fakes = {fake}
    MaxEpoch = 3
    None = None
    Pending = Pending
    Err = Err
    Panic = Panic
INVARIANTS
    TypeOK
    HonestServicesPrevail
    OneServiceIsEnough
PROPERTIES
    FetchEnds
CHECK_DEADLOCK FALSE
