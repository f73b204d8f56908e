SPECIFICATION Spec
CONSTANTS
    w1 = w1
    w2 = w2
    Worker <- One
    Solution <- Both
    MinShare = 8
    MayFail = FALSE
    MayStop = FALSE
    MaxBest = 2
    MaxWork = 2
INVARIANTS
    CoinbaseHeight
CHECK_DEADLOCK FALSE
