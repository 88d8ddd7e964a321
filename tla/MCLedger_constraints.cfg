SPECIFICATION Spec
CONSTANTS
    a1 = a1
    a2 = a2
    Addresses <- MCAddresses
    Data <- MCData
    MaxByte = 255
    MaxUint64 = 1000
    GenesisAddress = a1
    Supply = 30
    GenesisTime = 0
    MaxTxs = 3
    Submitted <- SubmitRelated
INVARIANTS
    CausalTime
    SpendAuthorised
    SenderAuthentic
    TimelockHolds
    ChainProvenance
    ChainLockControlled
    ImmutableKept
    RoyaltiesPaidUnlessData
    SiblingCommitted
PROPERTY MovesCoins
CHECK_DEADLOCK FALSE
