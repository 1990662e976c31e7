\* Retention, compaction, restarts, a lost db, a client that resumes.
CONSTANTS
    c1 = c1
    view = view
    other = other
    Clients = {c1}
    Events = {view, other}
    ViewEvents = {view}
    Wanted <- MCWanted
    Keep = 3
    Batch = 2
    WriteQueue = 1
    MaxSeq = 4
    MaxWrite = 2
    MaxEpoch = 2
SPECIFICATION FairSpec
INVARIANTS LogIsTrue
PROPERTIES SeqNeverReused CommitExpiresNobody StreamCatchesUp
CHECK_DEADLOCK FALSE
