CONSTANTS
    Seeds <- MCSeeds
    Program <- MCProgram
    MaxLength = 1
SPECIFICATION Spec
INVARIANTS
    PointersAgree
CHECK_DEADLOCK FALSE
