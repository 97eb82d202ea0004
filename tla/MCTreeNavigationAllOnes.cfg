CONSTANTS
    W = 8
    StartNodes <- MCAllOnes
SPECIFICATION Spec
PROPERTIES
    RightChildAbove
