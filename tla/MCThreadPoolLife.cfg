SPECIFICATION LifeSpec
CONSTANTS
  Workers = {w1, w2}
  Main = main
  None = none
  MaxJobs = 2
INVARIANTS
  DestroyedClean
PROPERTIES
  WaitMeansDone
  CallsReturn
CHECK_DEADLOCK FALSE
