SPECIFICATION FairSpec
CONSTANTS
  Scopes = {"inbox", "manager", "together"}
  MaxMessages = 3
  MaxLen = 2
  PerCycle = 2
  InboxFaults = 2
  Daemons = {d1, d2}
  Served = d1
  MaxEvents = 2
  ManagerFaults = 2
  JointMessages = 2
  JointEvents = 1
  JointFaults = 1
CHECK_DEADLOCK FALSE
INVARIANTS
  InboxAccounted
PROPERTIES
  ImplementsPromise
  TasksAccounted
  LostByForceOnly
  DaemonsProgress
