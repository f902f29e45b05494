CONSTANTS
  e1 = e1
  e2 = e2
  r1 = r1
  r2 = r2
  g1 = g1
  g2 = g2
  cause = cause
  None = None
  Evaluations = {e1, e2}
  Runs = {r1, r2}
  Calls = {1}
  MaxAssessed = 1
  Options <- MCOptions
  FoundSets <- MCFoundSets
  Answers <- MCAnswers
SPECIFICATION Spec
INVARIANTS TypeOK EffectsOfStored ExitCodesTell ThreadIsKept CausesAreTheModels CallsAreWhole LineageEnds
PROPERTY LedgerSpec
