CONSTANTS
  e1 = e1
  e2 = e2
  e3 = e3
  e4 = e4
  Singles = {e1}
  Batches <- MCBatches
  CallersCarryOn = TRUE
  MaxRowid = 4
SPECIFICATION Spec
INVARIANT NoDanglingEntry
