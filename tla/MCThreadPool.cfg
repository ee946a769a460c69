SPECIFICATION FairSpec
CONSTANTS
  Workers = {w1, w2, w3}
  Main = Main
  None = None
  MaxJobs = 3
INVARIANTS
  NoLostWakeup
  JobsAccounted
  IdleMeansDone
  IInv
PROPERTY PoolSpec
CHECK_DEADLOCK FALSE
