SPECIFICATION FairSpec
CONSTANTS
  Scopes = {"pool", "runtime", "sandbox"}
  Callers = {c1, c2, c3, c4}
  Delegates = {}
  Hanging = {c4}
  Limit = 2
  PoolFaults = 1
  Executions = {e1}
  MaxSteps = 2
  LockTtl = 4
  HeartbeatEvery = 2
  MaxLag = 1
  Evictable = {"kill", "lock"}
  MaxKills = 2
  ToolCalls = {t1}
  LocalTools = {safe}
  McpTools = {mcp}
  UnknownTools = {}
  HighRisk = {}
  ExternalRisk = {}
  MaxChanges = 0
  Runs = {r1, r2}
  MaxFlips = 3
CHECK_DEADLOCK FALSE
PROPERTIES
  WorkEnds
