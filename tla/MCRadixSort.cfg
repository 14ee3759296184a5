CONSTANTS
    Record <- MCRecord
    Key <- MCKey
    Inputs <- MCInputs
    Chunk = 2
    MaxBits = 3
SPECIFICATION FairSpec
INVARIANTS
    LowBitsSorted
    SortedAtEnd
    Recoverable
PROPERTIES
    Terminates
