CONSTANTS
    Seeds <- MCSeeds
    Program <- MCProgram
    MaxLength = 4
SPECIFICATION Spec
INVARIANTS
    TypeOK
    WellSorted
    Agree
    PullGivesBack
PROPERTIES
    FrozenAfterExit
    ArithmeticIsRight
    GenerationsAgree
CHECK_DEADLOCK FALSE
