CONSTANTS
    MaxGen = 2
    MaxHooks = 3
    MaxFails = 1
    MaxDups = 1
    MaxUnseen = 1
    Settle = 2
    MaxClock = 4
SPECIFICATION Spec
INVARIANTS
    TableIsTrue
PROPERTIES
    HooksCount
    RowSettles
CHECK_DEADLOCK FALSE
