CONSTANTS
    N_THREADS = 3
    N_TASKS = 4
    MayThrow = {1, 3}
SPECIFICATION FairSpec
INVARIANTS
    TypeOK
    ExactlyOnce
    NoRaceOnStores
    CompleteResult
PROPERTIES
    Terminates
    ImplementsPool
