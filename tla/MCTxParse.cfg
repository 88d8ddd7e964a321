SPECIFICATION Spec
CONSTANTS
    a1 = a1
    a2 = a2
    Addresses <- MCAddresses
    Data <- MCData
    MaxByte = 255
    MaxUint64 = 10
    GenesisAddress = a1
    Supply = 7
    GenesisTime = 0
    MaxTxs = 4
    Submitted <- SubmitAmounts
    EndorsementLists <- MCEndorsementLists
INVARIANTS
    SupplyConserved
    SpentOnce
    UtxoExact
    ParserTakesValid
    ConsumedTransactionsExact
PROPERTY MovesCoins
CHECK_DEADLOCK FALSE
