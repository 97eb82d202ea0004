CONSTANTS
    W = 8
    StartNodes <- MCTreeNodes
SPECIFICATION ClimbSpec
PROPERTIES
    ReachesRoot
\* The climb stops at the root, where GoUp is no longer enabled.
CHECK_DEADLOCK FALSE
