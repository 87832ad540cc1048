SPECIFICATION FairSpec
CONSTANTS
  Scopes = {"lifespan", "webhook", "split", "nesting", "registry", "catalog", "calls", "notices", "search", "chain"}
  SendFaults = 3
  MaxText = 9
  Requests = {r1, r2, r3}
  Incoming = {1}
  Pieces = 2
  Limit = 3
  Threads = {t1}
  Agents = {a, b}
  MaxDepth = 3
  Permits = 1
  MaxEdits = 1
  MaxCalls = 2
  SystemAgent = cyb
  AgentNames = {a}
  Columns = {x, y}
  Values = {1, 2}
  BuiltIns = {b}
  ToolNames = {b, n, w}
  RefusedNames = {w}
  Outbound = {c1, c2}
  CallFaults = 2
  Attempts = 2
  ChunkIds = {a, b, c, d}
  K = 60
  TopK = 3
  Final = 2
  MaxPasses = 1
  MaxIterations = 3
  LifeFaults = 2
  NoticeFaults = 2
  MaxFiles = 3
  Users = 3
CHECK_DEADLOCK FALSE
SYMMETRY Symmetry
INVARIANTS
  StartupOrdered
  UsersAnswered
  DepthIsNesting
  AnswersFounded
PROPERTIES
  AgentsKept
  ServingProgress
