CONSTANTS
    Table <- MCTable
    max_cost = 7
    Slots = 3
    MaxKills = 1
SPECIFICATION Spec
INVARIANTS
    CostRight
    EveryShape
CHECK_DEADLOCK FALSE
