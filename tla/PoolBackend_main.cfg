SPECIFICATION FairSpec
CONSTANTS
    Addr <- MCAddr
    ValidAddr <- MCValidAddr
    PoolAddress <- MCPoolAddress
    COIN = 1
    MinPayout = 2
    AddrMinPayout <- MCAddrMinPayout
    Fee = 20
    MinShare = 8
    Lengths <- OneLength
    GenValues <- SmallGenValues
    TxFee = 0
    PayoutArg = TRUE
    FinalPayoutArg = TRUE
    FinalTick = 1
    PayoutPeriod = 3
    PayoutPhase = 2
    ValuePeriod = 3
    MatureConf = 1
    FinalConf = 1
    SendOutcomes <- Fault
    MaxShares = 3
    MaxBlocks = 1
    MaxFunds = 5
    MaxOld = 0
    MaxFaults = 1
INVARIANTS
    TypeOK
    LedgerBalanced
    RequestsBooked
    RequestedWithinBalance
    PaymentExactlyOnce
    NoPhantomPayment
    UnrequestedBounded
PROPERTIES
    ImplementsLedger
    EveryShareAccounted
    EveryRequestPaid
