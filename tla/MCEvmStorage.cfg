SPECIFICATION Spec
CONSTANTS
    Calls = {1, 2}
    MaxCalls <- MCMaxCalls
    Workers = 2
    Address <- MCAddress
    Slot = {"s1", "s2"}
    Value = {"v0", "v1"}
    Code = {"none", "code1", "code2"}
    Precompiles = {"pre"}
    Block = {"b1", "b2", "b3"}
    Number <- MCNumber
    State <- MCState
    state_root <- MCRoot
    Claims <- MCClaims
    fee_recipient <- MCProducer
    Asked <- MCAsked
    AccessList <- MCAccessList
    AnyLists <- MCAnyLists
    Caches <- MCCaches
    Zero = "v0"
    NoCode = "none"
    None = None
    Err = Err
INVARIANTS
    StoragePositionsAreReturned
CHECK_DEADLOCK FALSE
