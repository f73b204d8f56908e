SPECIFICATION FairSpec
CONSTANTS
    w1 = w1
    w2 = w2
    Worker <- One
    Solution <- All
    MinShare = 8
    MayFail = TRUE
    MayStop = TRUE
    MaxBest = 2
    MaxWork = 3
INVARIANTS
    WorkUnique
    NeverCreditedTwice
    RefusedOnlyIfMoved
PROPERTIES
    EveryWorkerFollows
CHECK_DEADLOCK FALSE
