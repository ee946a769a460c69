SPECIFICATION FairSpec
CONSTANTS
  Addrs <- MCAddrs
  Kinds <- MCKinds
  NoPath = NoPath
  Nothing = Nothing
  MaxChanges = 2
INVARIANTS
  SampleHonest
  ChangesLogged
  QuietNotLogged
PROPERTY EndsWithProcess
CHECK_DEADLOCK FALSE
