CONSTANTS
  Events <- MCEvents
  Topology <- MCTopology
  Window = 3
  LookBack = 4
  MaxStored = 4
SPECIFICATION Spec
INVARIANTS EveryEventOnce OneSignalPerService LinkedToP0IsUrgent ChangesReachGroups
