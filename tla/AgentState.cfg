\* update, declare_incident and resolve_incident in any order, with the
\* program's own ten-minute threshold
CONSTANTS
  Reports <- MCReports
  CalmPeriod = 10
  None = None
SPECIFICATION Spec
INVARIANTS CalmImpliesQuiet TwoAlarmsRaise
PROPERTY LatchSpec
