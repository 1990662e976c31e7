CONSTANTS
    MaxGen = 1
    MaxHooks = 2
    MaxFails = 0
    MaxDups = 0
    MaxUnseen = 1
    Settle = 2
    MaxClock = 4
SPECIFICATION Spec
PROPERTIES
    DocStaleTurnEnds
CHECK_DEADLOCK FALSE
