CONSTANTS
    p = p
    q = q
    NoAgent = NoAgent
    Agents = {p}
    Asked <- OneAsked
    Clash = {}
    MaxDepth = 0
    MaxChildren = 0
    MaxTree = 1
    MaxGen = 3
    MaxBoots = 4
    StoreFails = TRUE
SPECIFICATION Spec
INVARIANTS
    RowsAgree
    ProcessesKept
PROPERTIES
    PausedWasIdle
    PromiseKept
CHECK_DEADLOCK FALSE
