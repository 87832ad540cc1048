SPECIFICATION FairSpec
CONSTANTS
  Scopes = {"cron", "polling", "index"}
  Poison = {j2}
  MaxTime = 3
  JobFaults = 2
  MaxCounted = 1
  MaxLog = 0
  LogTime = 0
  MaxEdits = 2
  Lengths = {3}
  MaxParagraphs = 1
  MaxUpdates = 4
  BatchSize = 2
  PollFaults = 2
  Hostile = {2}
  Agents = {a1}
  Interval = 1
  Hour = 3
  Limit = 3
  FreqT = 2
  ErrorT = 1
  LogFaults = 1
  Files = {f1, f2}
  Contents = {x, y}
  Empty = Empty
  MissingFile = MissingFile
  Unreadable = Unreadable
  IndexFaults = 1
  MaxTokens = 5
  OverlapTokens = 2
  Jobs = {j1, j2}
  Period = 2
  MaxCreates = 2
CHECK_DEADLOCK FALSE
PROPERTIES
  WorkersProgress
