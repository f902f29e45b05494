CONSTANTS
  s1 = s1
  s2 = s2
  None = None
  Reports <- MCReports
  Budget = 2
  Ttl <- MCTtl
  MaxAge = 3
SPECIFICATION GeneratorSpec
INVARIANTS P0InPrompt HitRepeatsLastBuild WithinBudget DroppedDidNotFit
