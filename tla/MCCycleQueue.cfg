CONSTANTS
    Table <- instructions
    Limits <- MCLimits
    Slots = 7
    Modulus = 256
SPECIFICATION CountSpec
INVARIANTS
    Counted
PROPERTIES
    InCostOrder
