CONSTANTS
    Seeds <- MCSeeds
    Valuations <- MCValuations
    Program <- MCProgram
    Replacements <- MCReplacements
    MaxLength = 2
SPECIFICATION Spec
INVARIANTS
    HashTellsApart
    HashRuleInOrder
    SamplesFound
CHECK_DEADLOCK FALSE
