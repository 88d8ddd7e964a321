SPECIFICATION BuilderSpec
CONSTANTS
    a1 = a1
    c1 = c1
    c2 = c2
    Addresses <- MCAddresses
    Data <- MCData
    MaxByte = 255
    MaxUint64 = 1000
    GenesisAddress = a1
    Supply = 20
    GenesisTime = 1
    MaxTxs = 3
    MaxSize <- MCMaxSize
    Submitted <- NoSubmitted
    Clients <- MCClients
    Signer = a1
    Products <- MCProducts
    Now <- MCNow
    FinishTimes <- MCTimes
INVARIANT TransitionUnlocksLock
CHECK_DEADLOCK FALSE
