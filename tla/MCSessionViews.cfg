\* A session that comes and goes and returns, restarts, a lost db, and a
\* client that reconnects and resumes.
CONSTANTS
    c1 = c1
    k1 = k1
    k2 = k2
    Clients = {c1}
    Keys = {k1}
    Vers = {1}
    Keep = 2
    Batch = 2
    WriteQueue = 0
    MaxSeq = 6
    MaxWrite = 2
    MaxEpoch = 2
    MaxBoots = 1
    MaxChanges = 2
    MaxOther = 1
SPECIFICATION FairSpec
INVARIANTS CaughtUpIsTrue OneStoredView
PROPERTIES LogSpec LiveSessionsReachClient
CHECK_DEADLOCK FALSE
