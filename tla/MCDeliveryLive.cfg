SPECIFICATION DeliveryFair
CONSTANTS
  lead = lead
  worker = worker
  Agents = {worker}
  Served = {worker}
  Managed = {}
  Parent <- NoParents
  People = {}
  Engine = engine
  Bodies = {b}
  NoBody = nobody
  Keys = {}
  NoKey = nokey
  MaxRows = 1
  MaxTakes = 2
  MaxNow = 0
  Window = 0
  PairLimit = 2
  MaxHop = 0
  LateWindow = 0
  NoticeDelay = 0
  Backoffs = {0}
  Routes = {"pty", "socket"}
  Results = {"delivered", "failed", "uncertain", "rejected", "expired"}
  Pausable = {}
  Corrected = {worker}
  Gates = {"socket", "pty"}
  MaxPtyAttempts = 2
  MaxSocketAttempts = 2
  MaxNotes = 2
  Moves <- AllMoves
  StoreFails = FALSE
  Refusals = {"dropped"}
INVARIANTS SocketIsTrue InHand
PROPERTIES Settles
CHECK_DEADLOCK FALSE
