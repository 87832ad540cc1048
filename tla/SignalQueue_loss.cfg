SPECIFICATION FairSpec
CONSTANTS
  MaxSignals = 3
  BatchSize = 2
  MaxFaults = 1
CHECK_DEADLOCK FALSE
PROPERTY
  NoSignalLost
