CONSTANTS
    W = 8
    StartNodes <- MCTreeNodes
SPECIFICATION UncheckedClimbSpec
PROPERTIES
    ParentOverflowAborts
\* An aborted parent_step ends the walk.
CHECK_DEADLOCK FALSE
