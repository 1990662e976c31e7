CONSTANTS
    s1 = s1
    s2 = s2
    NoSub = NoSub
    Subs = {s1, s2}
    MaxWorld = 1
    Start = {1}
    MaxChanges = 1
    MaxCrashes = 1
    MaxPrunes = 1
    MaxWire = 1
SPECIFICATION FairSpec
INVARIANTS
    FeedIsTrue
PROPERTIES
    NeverBack
    ShowsTheWorld
CHECK_DEADLOCK FALSE
