SPECIFICATION MCSpec
CONSTANTS
  ToolCalls = {t1}
  Routings = {p1}
  Requests = {r1, r2}
  Spare = r2
  NoApproval = NoApproval
  Ttl = 3
  PollInterval = 2
INVARIANTS
  IInv
  ToolRunsOnlyIfApproved
  RunsBounded
PROPERTIES
  LateAnswersWereUnderWay
  NoVerdictAfterLapse
  WaitEnds
