------------------------------ MODULE MCDaemons ------------------------------
(***************************************************************************)
(* The daemons for model checking: the inbox and the loop of one daemon, the *)
(* manager of several, and the two together, where the manager's task of one *)
(* daemon is the loop that serves the inbox.  scope says which; the one that *)
(* is left out rests.                                                        *)
(***************************************************************************)
EXTENDS Integers, Sequences, FiniteSets

CONSTANTS
  MaxMessages, MaxLen, PerCycle, InboxFaults,
  Daemons, MaxEvents, ManagerFaults,
  Served,       \* the daemon of the inbox
  JointMessages, JointEvents, JointFaults, \* bounds for the two together
  Scopes        \* what this run is about

VARIABLES
  scope,
  sent, stream, delivered, pel, publishing, wakeups, loop, batch, inTool, seen, inHours,
  inboxFaults,
  defined, entry, task, stopSet, manager, events, handling, published, managerFaults

inboxVars   == <<sent, stream, delivered, pel, publishing, wakeups, loop, batch, inTool,
                 seen, inHours, inboxFaults>>
managerVars == <<defined, entry, task, stopSet, manager, events, handling, published,
                 managerFaults>>
bothVars    == <<inboxVars, managerVars>>
vars        == <<scope, bothVars>>

\* The components as they are in scope "inbox" and "manager", and the two together.
Inbox        == INSTANCE DaemonInbox WITH faults <- inboxFaults, MaxFaults <- InboxFaults
Manager      == INSTANCE DaemonManager WITH faults <- managerFaults, MaxFaults <- ManagerFaults
JointInbox   == INSTANCE DaemonInbox WITH faults <- inboxFaults, MaxMessages <- JointMessages,
                                          MaxFaults <- JointFaults
JointManager == INSTANCE DaemonManager WITH faults <- managerFaults, MaxEvents <- JointEvents,
                                            MaxFaults <- JointFaults

ASSUME DaemonsAssumption ==
  /\ Inbox!InboxAssumption /\ Manager!ManagerAssumption
  /\ Served \in Daemons
  /\ JointMessages \in 0 .. MaxMessages /\ JointEvents \in 0 .. MaxEvents
  /\ JointFaults \in 0 .. InboxFaults /\ JointFaults \in 0 .. ManagerFaults

\* Of the two together, one is defined at the start.
Init == /\ scope \in Scopes
        /\ Inbox!Init /\ Manager!Init
        /\ scope # "manager" => defined = {Served}

-----------------------------------------------------------------------------
(* The two together, with one daemon only, and without its read_messages tool. *)

\* The loop lives and dies with its task.
TaskTakesLoop ==
  IF loop # "off" /\ task'[Served] # "running"
  THEN JointInbox!LoopGone /\ UNCHANGED inboxFaults
  ELSE UNCHANGED inboxVars

RunsLoop ==
  /\ JointManager!RunLoop(Served)
  /\ IF task'[Served] = "running" THEN JointInbox!StartLoop ELSE UNCHANGED inboxVars

LoopReturns == JointManager!LoopReturns(Served) /\ JointInbox!StopLoop
LoopRaises  == JointManager!LoopRaises(Served) /\ JointInbox!LoopEnds

\* The stop event is looked at again after the wait.
WakesByMessage == JointInbox!WakeByMessage /\ ~stopSet[Served] /\ UNCHANGED managerVars
WakesByTick    == JointInbox!WakeByTick /\ ~stopSet[Served] /\ UNCHANGED managerVars
LoopWorks      == JointInbox!Cycle /\ UNCHANGED managerVars
Sleeps         == JointInbox!SleepOver /\ UNCHANGED managerVars

\* The backoff after a crash, which no stop event cuts short.
Recovers ==
  (JointManager!Backoff(Served) \/ JointManager!BackoffEnds(Served)) /\ UNCHANGED inboxVars

\* The coroutine of the daemon's task, and the one that starts and stops it.
DaemonTask == \/ RunsLoop \/ LoopReturns \/ WakesByMessage \/ WakesByTick
              \/ LoopWorks \/ Recovers

Keeper == JointManager!Keeper /\ TaskTakesLoop

Manages == JointManager!Managing /\ defined' \subseteq {Served} /\ TaskTakesLoop

ClockMoves == JointInbox!ClockMoves /\ UNCHANGED managerVars

Together == \/ Manages \/ DaemonTask \/ LoopRaises \/ ClockMoves
            \/ /\ JointInbox!AddMessage \/ JointInbox!Notify \/ JointInbox!CycleFails
               /\ UNCHANGED managerVars

Next ==
  /\ UNCHANGED scope
  /\ \/ scope = "inbox" /\ Inbox!Next /\ UNCHANGED managerVars
     \/ scope = "manager" /\ Manager!Next /\ UNCHANGED inboxVars
     \/ scope = "together" /\ Together

Spec == Init /\ [][Next]_vars

\* The fairness of each component, owed where it is in scope.  Together, the coroutine
\* that keeps the tasks and the daemon's own run on, and the polling loop looks at its
\* stop event within a second (loop.py:126).
InScopeInbox(A) == scope = "inbox" /\ A /\ UNCHANGED managerVars
LoopRuns == InScopeInbox(Inbox!Loop) \/ (scope = "together" /\ DaemonTask)
TimeGoes == InScopeInbox(Inbox!ClockMoves) \/ (scope = "together" /\ ClockMoves)
WakesUp  == InScopeInbox(Inbox!SleepOver) \/ (scope = "together" /\ Sleeps)
Ticks    == InScopeInbox(Inbox!WakeByTick) \/ (scope = "together" /\ WakesByTick)
Keeps    == \/ scope = "manager" /\ Manager!Keeper /\ UNCHANGED inboxVars
            \/ scope = "together" /\ Keeper

FairSpec == /\ Spec
            /\ WF_bothVars(LoopRuns) /\ WF_bothVars(Keeps) /\ WF_bothVars(TimeGoes)
            /\ SF_bothVars(WakesUp /\ inHours) /\ SF_bothVars(Ticks /\ inHours)
            /\ WF_inboxVars(scope = "inbox" /\ Inbox!ToolReturns)
            /\ \A d \in Daemons : WF_managerVars(scope = "manager" /\ Manager!Task(d))

-----------------------------------------------------------------------------
(* The properties of the components, stated and explained part by part in     *)
(* their modules.                                                             *)

\* The loop lives in the running task of the manager only.
LoopHasTask == loop # "off" => task[Served] = "running"

\* A message leaves the inbox only after an execution was given it or because the
\* stream was full, and daemon and tool never hold the same one (loop.py:97); and
\* no loop serves the inbox that the manager does not know to run.
InboxAccounted ==
  /\ scope \in {"inbox", "together"} => Inbox!Consistent
  /\ scope = "together" => LoopHasTask

\* The inbox keeps the promise of a lossy AtMostOnceQueue (inbox.py:62), also when the
\* manager starts, stops and restarts its loop.
ImplementsPromise == Inbox!ImplementsPromise

\* The dictionary of the manager and the tasks tell one story, and what is stopped
\* stays stopped and is not forgotten before it is (manager.py:68).
TasksAccounted == Manager!Consistent

\* The manager never costs the daemon its mail by a graceful stop or restart: a message
\* that was taken is lost by a failure, or by the cancellation after the 60 seconds or
\* at shutdown (manager.py:78); one that waits, by trimming only.
LostByForceOnly ==
  [][scope = "together" =>
       \A i \in 1 .. JointMessages :
         /\ JointInbox!FateOf(i) = "taken" /\ JointInbox!FateOf(i)' = "lost" =>
              inboxFaults' # inboxFaults \/ task'[Served] = "cancelled"
         /\ JointInbox!FateOf(i) = "queued" /\ JointInbox!FateOf(i)' = "lost" =>
              sent' # sent]_vars

\* A message in the inbox is delivered or trimmed, also if its notification was lost; and
\* if the manager runs the loop, unless the daemon's task ends (loop.py:136).
MailIsRead ==
  \A i \in 1 .. MaxMessages :
    i \in Inbox!Fresh ~> \/ i \notin Inbox!Fresh
                         \/ scope = "together" /\ task[Served] \notin Manager!Alive

\* The mail is read, and the listener comes back from every stop and restart and from a
\* shutdown, however busy the daemon is (manager.py:74).
DaemonsProgress == MailIsRead /\ Manager!ListenerReturns
=============================================================================
