CONSTANTS
  c1 = c1
  c2 = c2
  c3 = c3
  e1 = e1
  None = None
  Clients = {c1, c2, c3}
  Kind <- MCKind
  SuppliedId <- MCSuppliedId
  QueueSize = 2
  WaitsForConnections = FALSE
  StoreMayFail = FALSE
  MaxAttempts = 2
  MaxRestarts = 1
SPECIFICATION Spec
INVARIANT RunsUntilSignal
CHECK_DEADLOCK FALSE
