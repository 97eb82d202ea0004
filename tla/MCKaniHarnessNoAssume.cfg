CONSTANTS
    W = 8
    AssumeBound <- MCNoAssume
SPECIFICATION Spec
INVARIANTS
    HarnessHolds
\* Every path of the harness ends at "done".
CHECK_DEADLOCK FALSE
