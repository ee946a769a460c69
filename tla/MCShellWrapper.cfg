SPECIFICATION FairSpec
CONSTANTS
  Scripts <- MCScripts
  PipeCap = 1
  OpenMax = 9
  MaxSize = 3
INVARIANTS
  FdsAccounted
  OutputWhole
  InputOrder
PROPERTIES
  ShellReturns
CHECK_DEADLOCK FALSE
