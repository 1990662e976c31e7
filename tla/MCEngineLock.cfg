\* Two clients, three calls, three engines, one fault.
CONSTANTS
    c1 = c1
    c2 = c2
    Nobody = Nobody
    Clients = {c1, c2}
    MaxEngines = 3
    MaxCalls = 3
    MaxFaults = 1
SPECIFICATION Spec
INVARIANTS OneEngine StopsTheEngine StartIsTrue
PROPERTIES CallsEnd
CHECK_DEADLOCK FALSE
