CONSTANTS
    Records <- MCRecords
    total_size = 3
    ChunkRecords = 2
    Garbage = {1, 9}
    MaxRecords = 4
    MaxKills = 1
SPECIFICATION Spec
INVARIANTS
    ReadBack
    FoundOnce
CHECK_DEADLOCK FALSE
