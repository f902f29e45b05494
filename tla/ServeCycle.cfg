CONSTANTS
  s1 = s1
  s2 = s2
  None = None
  Reports <- MCReports
  CalmPeriod = 10
  Interval <- MCInterval
  Ttl <- MCTtl
  MaxAge = 15
  Budget = 3
SPECIFICATION FairSpec
INVARIANTS TypeOK CacheAgesInWatching
PROPERTIES FreshOnAlert HitsRunOut AlertSubsides ShutsDown
