SPECIFICATION DBSpec
CONSTANTS
    a1 = a1
    a2 = a2
    Addresses <- MCAddresses
    Data <- MCData
    MaxByte = 255
    MaxUint64 = 1000
    GenesisAddress = a1
    Supply = 30
    GenesisTime = 0
    MaxTxs = 3
    Submitted <- SubmitDB
INVARIANTS
    DBTypeOK
    AccountsExact
    AccountReadSound
    AccountReadComplete
    ChainReadSound
    ChainsExact
CHECK_DEADLOCK FALSE
