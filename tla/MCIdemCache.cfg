CONSTANTS
    k1 = k1
    k2 = k2
    h1 = h1
    h2 = h2
    Nothing = Nothing
    NoJob = NoJob
    Async = {1, 2, 3}
    Blocking = {s1}
    Capacity = 1
    Keys = {k1, k2}
    Params = {h1, h2}
    Asks <- SomeAsks
    Cap = 1
    MaxInFlight = 2
    TTL = 1
    MaxClock = 1
SPECIFICATION Spec
INVARIANTS
    KeyWritesOnce
    CallsAreTrue
PROPERTIES
    AllEnd
CHECK_DEADLOCK FALSE
