SPECIFICATION EchoFairSpec
CONSTANTS
  Base = 4
  PageSz = 4
  Pages = 3
  Sources <- MCSources
INVARIANTS
  FullPacketsWhole
  EchoIntact
PROPERTY BothEnd
CHECK_DEADLOCK FALSE
