CONSTANTS
    W = 8
    StartNodes <- MCTreeNodes
SPECIFICATION Spec
INVARIANTS
    TypeOK
    Log2IsFloorLog
PROPERTIES
    ImplementsTreeSpans
