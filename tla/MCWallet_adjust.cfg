SPECIFICATION WalletSpec
CONSTANTS
    a1 = a1
    a2 = a2
    Addresses <- MCAddresses
    Data <- MCData
    MaxByte = 255
    MaxUint64 = 1000
    GenesisAddress = a1
    Supply = 20
    GenesisTime = 1
    MaxTxs = 3
    MaxDrafts = 3
    Submitted <- NoSubmitted
    Accounts <- MCAccounts
    Requests <- AdjustRequests
    FaucetCalls <- MCFaucetCalls
    Times <- MCTimes
INVARIANT AdjustedCoversDeposit
CHECK_DEADLOCK FALSE
