SPECIFICATION FairSpec
CONSTANTS
  Threads = {t1, t2, t3}
  None = None
  Rounds = 2
  Counts <- MCCounts
INVARIANTS
  StatusExact
  AtMostOneLate
  FirstResultMissesOne
PROPERTY AllRoundsEnd
CHECK_DEADLOCK FALSE
