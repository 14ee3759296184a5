\* An exception leaves nothing to do.
CHECK_DEADLOCK FALSE
SPECIFICATION Spec
CONSTANTS
    t1 = t1
    t2 = t2
    Null = Null
    Term <- MCTerm
    MaxTerms = 3
INVARIANTS
    CountsHold
    QueryIsAlone
