SPECIFICATION FairSpec
CONSTANTS
  MaxRead = 2
  Cap = 7
  Ready = Ready
  Byte <- MCByte
  Sources <- MCSources
INVARIANTS
  InStep
PROPERTIES
  TransferSpec
  BothFinish
CHECK_DEADLOCK FALSE
