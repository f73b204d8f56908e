SPECIFICATION Spec
CONSTANTS
    Block <- MCBlock
    Work <- MCWork
    BadSets <- MCBadSets
INVARIANTS
    ChainShape
    MostWork
    NothingLeftBehind
PROPERTIES
    CheckpointAdvances
