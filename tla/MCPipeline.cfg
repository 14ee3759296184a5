CONSTANTS
    max_length = 3
    Tried <- MCTried
    Seeds <- MCSeeds
    SplitSeeds <- MCSplitSeeds
    Valuations <- MCValuations
    MaxTimeouts = 1
SPECIFICATION Spec
INVARIANTS
    NothingLost
    PassedOverIsReplaceable
    NeverDearer
