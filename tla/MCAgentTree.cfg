CONSTANTS
    p = p
    q = q
    NoAgent = NoAgent
    Agents = {p, q}
    Asked <- TreeAsked
    Clash <- Nested
    MaxDepth = 1
    MaxChildren = 1
    MaxTree = 2
    MaxGen = 1
    MaxBoots = 1
    StoreFails = FALSE
SPECIFICATION FairSpec
INVARIANTS
    TreeIsTrue
PROPERTIES
    ChildrenFollow
    RetireAnswered
CHECK_DEADLOCK FALSE
