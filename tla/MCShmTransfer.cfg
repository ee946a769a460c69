SPECIFICATION FairSpec
CONSTANTS
  BufSz = 3
  Stale = Stale
  Byte <- MCByte
  Sources <- MCSources
INVARIANTS
  MutualExclusion
  IInv
  LosesAtMostLastByte
PROPERTIES
  ReceiverFinishes
  SenderFinishes
  TransferSpec
CHECK_DEADLOCK FALSE
