SPECIFICATION MailSpec
CONSTANTS
  Signals = {s1}
  MaxSteps = 2
  MaxPosts = 0
  MaxKills = 0
  MaxMoves = 1
  MaxFaults = 0
CHECK_DEADLOCK FALSE
PROPERTY NoDeadLetters
