SPECIFICATION Spec
CONSTANTS
  Scopes = {"pool", "runtime", "gate", "sandbox"}
  Callers = {c1, c2, c3, c4}
  Delegates = {d1}
  Hanging = {}
  Limit = 2
  PoolFaults = 2
  Executions = {e1, e2}
  MaxSteps = 2
  LockTtl = 3
  HeartbeatEvery = 1
  MaxLag = 1
  Evictable = {"lock"}
  MaxKills = 1
  ToolCalls = {t1, t2}
  LocalTools = {safe, high, external}
  McpTools = {mcp}
  UnknownTools = {ghost}
  HighRisk = {high}
  ExternalRisk = {external}
  MaxChanges = 2
  Runs = {r1, r2}
  MaxFlips = 3
CHECK_DEADLOCK FALSE
INVARIANTS
  LockAccounted
PROPERTIES
  PermitsAccounted
  EffectsAccounted
