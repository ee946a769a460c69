SPECIFICATION QueueFairSpec
CONSTANTS
  TextSz = 2
  QBytes = 3
  NUL = 0
  Junk = 99
  Byte <- MCByte
  Sources <- MCSources
  MaxRuns = 2
INVARIANTS
  Inv
PROPERTIES
  RunsEnd
CHECK_DEADLOCK FALSE
