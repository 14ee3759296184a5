CONSTANTS
    Seqs <- MCSeqs
    Hash <- MCHash
    Rehash <- MCRehash
    Cost <- MCCost
    Operands <- MCOperands
    Canonical <- MCCanonical
    Meaning <- MCMeaning
    HashSpace = 7
    N_TASKS = 2
SPECIFICATION FairSpec
INVARIANTS
    TypeOK
    Sound
    OnePerOriginal
    OneTaskPerRun
PROPERTIES
    ImplementsSearch
    Terminates
