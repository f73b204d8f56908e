SPECIFICATION Spec
CONSTANTS
    h1 = h1
    h2 = h2
    Holder <- MCHolder
    TargetSize = 1
    MaxKey = 7
SYMMETRY Symmetry
INVARIANTS
    TypeOK
    
    RowsExact
    
