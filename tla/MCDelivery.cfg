SPECIFICATION DeliveryFairSpec
CONSTANTS
  Scopes = {"queue", "delivery"}
  MaxSignals = 4
  BatchSize = 2
  MaxFaults = 2
  JointSignals = 2
  JointFaults = 1
  MaxSteps = 2
  MaxPosts = 1
  MaxKills = 1
  MaxMoves = 0
CHECK_DEADLOCK FALSE
INVARIANTS
  DeliveryAccounted
PROPERTIES
  Consistent
  ImplementsPromise
  SignalsMoveOn
