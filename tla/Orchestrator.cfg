SPECIFICATION FairSpec
CONSTANTS
  Signals = {s1, s2}
  MaxSteps = 2
  MaxPosts = 2
  MaxKills = 1
  MaxMoves = 1
  MaxFaults = 1
CHECK_DEADLOCK FALSE
INVARIANTS
  IInv
  HandedOnce
  AnswerTellsFate
  HaltBoundsWork
PROPERTIES
  EverySignalAnswered
