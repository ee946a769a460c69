SPECIFICATION FairSpec
CONSTANTS
  TopBit = 128
  Sources <- MCSources
INVARIANTS
  OneSignalInFlight
  CompleteUnlessTimeout
PROPERTY BothEnd
CHECK_DEADLOCK FALSE
