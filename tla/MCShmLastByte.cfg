SPECIFICATION FairSpec
CONSTANTS
  BufSz = 3
  Stale = Stale
  Byte <- MCByte
  Sources <- MCSources
INVARIANT CompleteTransfer
CHECK_DEADLOCK FALSE
