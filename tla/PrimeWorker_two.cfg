SPECIFICATION Spec
CONSTANTS
    w1 = w1
    w2 = w2
    Worker <- Two
    Solution <- OnlyBlock
    MinShare = 8
    MayFail = FALSE
    MayStop = FALSE
    MaxBest = 3
    MaxWork = 2
SYMMETRY Symmetry
INVARIANTS
    TypeOK
    FreshWhenIdle
    OneBlockPerTip
    BlockHeightRecorded
    
CHECK_DEADLOCK FALSE
