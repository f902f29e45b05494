CONSTANTS
  c1 = c1
  c2 = c2
  c3 = c3
  e1 = e1
  None = None
  Clients = {c1, c3}
  Kind <- MCMixedKind
  SuppliedId <- MCSuppliedId
  QueueSize = 2
  WaitsForConnections = TRUE
  StoreMayFail = TRUE
  MaxAttempts = 2
  MaxRestarts = 1
SPECIFICATION FairSpec
INVARIANTS NothingLost AckedIsHeld
PROPERTIES QueuedIsStored ShutdownCompletes ConnectionsEnd
CHECK_DEADLOCK FALSE
