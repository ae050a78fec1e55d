CONSTANTS
    k1 = k1
    k2 = k2
    k3 = k3
    k4 = k4
    small = small
    middle = middle
    full = full
    huge = huge
    Keys = {k1, k2, k3, k4}
    Values = {small, middle, full, huge}
    Size <- MCSize
    TTLs <- MCTTLs
    Caps <- MCCaps
    Miss = Miss
SPECIFICATION Spec
INVARIANTS
    TypeOK
    BytesExact
    WithinBudgets
    RoomCanBeMade
PROPERTIES
    ForgetsAtMost
