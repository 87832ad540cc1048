SPECIFICATION Spec
CONSTANTS
  Scopes = {"cron", "polling", "auditor", "index", "chunker"}
  Poison = {}
  MaxTime = 5
  JobFaults = 1
  MaxCounted = 3
  MaxLog = 5
  LogTime = 5
  MaxEdits = 3
  Lengths = {3, 4, 9, 14, 24}
  MaxParagraphs = 6
  MaxUpdates = 4
  BatchSize = 2
  PollFaults = 2
  Hostile = {2}
  Agents = {a1}
  Interval = 1
  Hour = 3
  Limit = 3
  FreqT = 2
  ErrorT = 1
  LogFaults = 1
  Files = {f1, f2}
  Contents = {x, y}
  Empty = Empty
  MissingFile = MissingFile
  Unreadable = Unreadable
  IndexFaults = 1
  MaxTokens = 5
  OverlapTokens = 2
  Jobs = {j1, j2}
  Period = 2
  MaxCreates = 2
CHECK_DEADLOCK FALSE
INVARIANTS
  SlotsAccounted
PROPERTIES
  UpdatesAccounted
  ReportsAccounted
  IndexFaithful
