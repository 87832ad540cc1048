SPECIFICATION SharedSpec
CONSTANTS
  Scopes = {"bucket", "pool", "pool alone", "rules", "browser", "browser alone", "limiter"}
  Cost = 3
  Capacity = 6
  MaxTime = 14
  Requests = {r1, r2}
  MaxOpened = 3
  MaxRecords = 2
  PoolFaults = 1
  Writers = {w1, w2}
  AtWork = 2
  NumSeeds = 2
  MaxRules = 3
  NumSlots = 3
  RuleFaults = 1
  Calls = {c1, c2}
  SessionIds = {s1, s2}
  MaxAge = 1
  MaxPages = 3
  BrowserTime = 2
  Posts = {p1, p2, p3, p4}
  Limit = 1
  FallbackLimit = 1
  Minute = 2
  LimiterTime = 3
  LimiterFaults = 2
CHECK_DEADLOCK FALSE
SYMMETRY Symmetry
INVARIANTS
  IInv
  AtMostDoubleRate
  RulesInForce
  ResourcesAccounted
  CountersKept
