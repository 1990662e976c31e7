SPECIFICATION Spec
CONSTANTS
  lead = lead
  worker = worker
  Agents = {lead, worker}
  Managed = {worker}
  Parent <- MCParent
  People = {}
  Engine = engine
  Bodies = {b}
  NoBody = nobody
  Keys = {k}
  NoKey = nokey
  MaxRows = 3
  MaxTakes = 1
  MaxNow = 1
  Window = 1
  PairLimit = 1
  MaxHop = 0
  LateWindow = 0
  NoticeDelay = 1
  Backoffs = {}
  Routes = {"pty"}
  Results = {"uncertain"}
  Pausable = {worker}
  Corrected = {}
INVARIANTS QueueIsTrue NoMailAfterEnd KeyOnce PairBound
PROPERTIES FinalStays NoticesTell
CHECK_DEADLOCK FALSE
