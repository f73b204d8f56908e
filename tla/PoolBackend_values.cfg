SPECIFICATION Spec
CONSTANTS
    Addr <- OneAddr
    ValidAddr <- MCValidAddr
    PoolAddress <- MCPoolAddress
    COIN = 1
    MinPayout = 2
    AddrMinPayout <- OneAddrMinPayout
    Fee = 10
    MinShare = 8
    Lengths <- MCLengths
    GenValues <- MCGenValues
    TxFee = 0
    PayoutArg = FALSE
    FinalPayoutArg = FALSE
    FinalTick = 3
    PayoutPeriod = 2
    PayoutPhase = 1
    ValuePeriod = 4
    MatureConf = 2
    FinalConf = 2
    SendOutcomes <- NoFault
    MaxShares = 4
    MaxBlocks = 1
    MaxFunds = 5
    MaxOld = 3
    MaxFaults = 0
PROPERTIES
    PayoutBudget
