CONSTANTS
    Tried <- MCTried
    max_length = 3
    NonOptimal <- MCNonOptimal
SPECIFICATION Spec
INVARIANTS
    OnePerClass
    PruneIsSound
    NoKnownPair
CHECK_DEADLOCK FALSE
