SPECIFICATION Spec
CONSTANTS
    a1 = a1
    a2 = a2
    Addresses <- MCAddresses
    Data <- MCData
    MaxByte = 255
    MaxUint64 = 1000
    GenesisAddress = a1
    Supply = 20
    GenesisTime = 0
    MaxTxs = 2
    Submitted <- SubmitLocks
INVARIANTS
    DeadlineRespected
CHECK_DEADLOCK FALSE
