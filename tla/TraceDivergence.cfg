CONSTANTS
  None = None
  Services <- MCServices
  Directories <- MCDirectories
  CallSets <- MCCallSets
  SpanLimit = 3
  MaxQuiet = 1
  AlertAnswers <- MCAlertAnswers
  VerdictLists <- MCVerdictLists
  VerdictLimit = 1
  MaxBreaches = 1
SPECIFICATION Spec
INVARIANT UndeclaredIsUndeclared
