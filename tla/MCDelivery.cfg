SPECIFICATION DeliverySpec
CONSTANTS
  lead = lead
  worker = worker
  Agents = {lead, worker}
  Served = {worker}
  Managed = {}
  Parent <- NoParents
  People = {}
  Engine = engine
  Bodies = {b}
  NoBody = nobody
  Keys = {}
  NoKey = nokey
  MaxRows = 2
  MaxTakes = 2
  MaxNow = 1
  Window = 0
  PairLimit = 2
  MaxHop = 0
  LateWindow = 0
  NoticeDelay = 0
  Backoffs = {1}
  Routes = {"pty", "socket"}
  Results = {"delivered", "failed", "uncertain", "rejected", "expired"}
  Pausable = {}
  Corrected = {}
  Gates = {"socket", "bad", "pty"}
  MaxPtyAttempts = 2
  MaxSocketAttempts = 2
  MaxNotes = 0
  Moves = {}
  StoreFails = TRUE
  Refusals = {"dropped", "duplicate"}
INVARIANTS Withheld
PROPERTIES LedgerSpec KeepsPromise
CHECK_DEADLOCK FALSE
