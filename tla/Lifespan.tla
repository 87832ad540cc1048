------------------------------ MODULE Lifespan ------------------------------
(***************************************************************************)
(* Start-up and shutdown of the process: lifespan() of src/main.py.  The    *)
(* stages come up one by one; each awaits something and may raise, or only  *)
(* creates a task.  Shutdown cancels every background task at once, awaits  *)
(* them one by one and then closes what they used, in the same coroutine.   *)
(*                                                                         *)
(* A task is asked to end by a CancelledError.  The tasks that run agents   *)
(* pass runtime.py:321-325 on the way out, whose release_lock raises when   *)
(* Redis is gone: the error replaces the CancelledError, the task's         *)
(* "except Exception" takes it and the task goes on.                        *)
(***************************************************************************)
EXTENDS Naturals, Sequences, SequencesExt

CONSTANT MaxFaults \* bound: awaits that raise

LifespanAssumption == MaxFaults \in Nat

VARIABLES
  off,    \* stages the settings leave out
  phase,  \* "starting", "serving", "stopping", "stopped" or "aborted"
  at,     \* the stage, or the step of the shutdown, that comes next
  up,     \* stages that are through and not yet closed
  task,   \* background task -> "none", "running", "cancelling", "ended"
  deaf,   \* tasks that swallowed their cancellation
  faults

vars == <<off, phase, at, up, task, deaf, faults>>

Stages == <<"tables", "group", "tools", "interceptor", "agents", "retriever", "reindex",
            "telegram", "consumer", "escalation", "polling", "auditor", "scheduler",
            "cleanup", "daemons", "mcp">>
Awaited == <<"consumer", "escalation", "auditor", "scheduler", "reindex", "cleanup", "polling">>
Closings == <<"daemons", "mcp", "browser", "telegram">>
Shutdown == Awaited \o Closings

Tasks == ToSet(Awaited)
RunAgents == {"consumer", "scheduler", "polling"}
Optional == {"interceptor", "polling", "daemons"}
MayRaise == {"tables", "group", "tools", "agents", "retriever", "telegram", "daemons", "mcp"}

\* What a task or the daemons use while they run.
Uses(w) ==
  CASE w \in RunAgents \cup {"daemons"} ->
         {"tables", "tools", "interceptor", "agents", "retriever", "telegram"}
           \cup (IF w = "consumer" THEN {"group"} ELSE {})
    [] w \in {"reindex", "auditor"} -> {"tables"}
    [] OTHER -> {}
\* What those that run agents can still have open when they are told to stop.
Holds(w) == IF w \in RunAgents \cup {"daemons"} THEN {"telegram", "mcp", "browser"} ELSE {}

Alive == {w \in Tasks : task[w] \in {"running", "cancelling"}}
                \cup ({"daemons"} \cap up)

Init ==
  /\ off \in SUBSET Optional
  /\ phase = "starting" /\ at = 1 /\ up = {} /\ deaf = {} /\ faults = 0
  /\ task = [w \in Tasks |-> "none"]

\* The browser pool opens its browser on first use, so it is up from the start.
StageDone ==
  /\ phase = "starting" /\ at <= Len(Stages)
  /\ LET s == Stages[at] IN
       /\ up' = IF s \in off THEN up ELSE up \cup {s}
       /\ task' = IF s \in Tasks \ off THEN [task EXCEPT ![s] = "running"] ELSE task
  /\ at' = at + 1
  /\ UNCHANGED <<off, phase, deaf, faults>>

Ready ==
  /\ phase = "starting" /\ at = Len(Stages) + 1
  /\ phase' = "serving" /\ up' = up \cup {"browser"}
  /\ UNCHANGED <<off, at, task, deaf, faults>>

\* An exception leaves the generator: what follows is not reached, and the end
\* of the event loop cancels whatever still runs.
Aborts ==
  /\ phase' = "aborted" /\ faults' = faults + 1
  /\ task' = [w \in Tasks |-> IF task[w] = "running" THEN "cancelling" ELSE task[w]]
  /\ UNCHANGED <<off, at, up, deaf>>

StageRaises ==
  /\ phase = "starting" /\ faults < MaxFaults /\ at <= Len(Stages)
  /\ Stages[at] \in MayRaise \ off
  /\ Aborts

\* Mutant: one task is awaited and was not cancelled.
ToldAllButOne == {w \in Tasks \ {"cleanup"} : task[w] = "running"}
ToldToEnd == {w \in Tasks : task[w] = "running"}

BeginShutdown ==
  /\ phase = "serving" /\ phase' = "stopping" /\ at' = 1
  /\ task' = [w \in Tasks |-> IF w \in ToldToEnd THEN "cancelling" ELSE task[w]]
  /\ UNCHANGED <<off, up, deaf, faults>>

TaskEnds(w) ==
  /\ task[w] = "cancelling"
  /\ task' = [task EXCEPT ![w] = "ended"]
  /\ UNCHANGED <<off, phase, at, up, deaf, faults>>

CancelSwallowed(w) ==
  /\ task[w] = "cancelling" /\ w \in RunAgents /\ faults < MaxFaults
  /\ task' = [task EXCEPT ![w] = "running"]
  /\ deaf' = deaf \cup {w} /\ faults' = faults + 1
  /\ UNCHANGED <<off, phase, at, up>>

\* Mutant: goes on although the task has not ended.
AwaitedNotAtAll(w) == TRUE
AwaitReturns(w) == task[w] \in {"none", "ended"}

AwaitsNext ==
  /\ phase = "stopping" /\ at <= Len(Awaited)
  /\ AwaitReturns(Awaited[at])
  /\ at' = at + 1
  /\ UNCHANGED <<off, phase, up, task, deaf, faults>>

\* daemon_manager.stop(), disconnect_all(), shutdown_browser_pool(), close():
\* the first raises when the end of a daemon or its audit entry fails, or when the
\* manager's listener had failed before (manager.py:44).
Closes ==
  /\ phase = "stopping" /\ at > Len(Awaited) /\ at <= Len(Shutdown)
  /\ up' = up \ {Shutdown[at]}
  /\ at' = at + 1
  /\ UNCHANGED <<off, phase, task, deaf, faults>>

StopRaises ==
  /\ phase = "stopping" /\ at <= Len(Shutdown) /\ Shutdown[at] = "daemons"
  /\ "daemons" \in up /\ faults < MaxFaults
  /\ Aborts

Down ==
  /\ phase = "stopping" /\ at = Len(Shutdown) + 1
  /\ phase' = "stopped"
  /\ UNCHANGED <<off, at, up, task, deaf, faults>>

Next ==
  \/ StageDone \/ Ready \/ StageRaises \/ BeginShutdown
  \/ \E w \in Tasks : TaskEnds(w) \/ CancelSwallowed(w)
  \/ AwaitsNext \/ Closes \/ StopRaises \/ Down

Spec == Init /\ [][Next]_vars

\* The event loop runs the lifespan and what its tasks have left to do.
Steps == StageDone \/ Ready \/ AwaitsNext \/ Closes \/ Down \/ (\E w \in Tasks : TaskEnds(w))
FairSpec == Spec /\ WF_vars(Steps)

-----------------------------------------------------------------------------
TypeOK ==
  /\ off \subseteq Optional
  /\ phase \in {"starting", "serving", "stopping", "stopped", "aborted"}
  /\ at \in 1 .. Len(Stages) + 1
  /\ up \subseteq ToSet(Stages) \cup {"browser"}
  /\ task \in [Tasks -> {"none", "running", "cancelling", "ended"}]
  /\ deaf \subseteq RunAgents /\ faults \in 0 .. MaxFaults

\* No task or daemon is alive before what it uses is wired: no agent can run a
\* tool before the interceptor is set (main.py:276-282), and none is left without
\* it before all of them have ended.
AliveIsServed == \A w \in Alive : Uses(w) \ off \subseteq up

\* Nothing is closed under somebody who may still use it (main.py:394-424), a
\* task that swallowed its cancellation included.
ClosedAfterUse ==
  phase \in {"stopping", "stopped"} =>
    \A w \in Alive \cap Tasks : Holds(w) \subseteq up

\* A shutdown comes to its end, unless a task swallowed its cancellation.
ShutdownEnds == phase = "stopping" ~> (phase \in {"stopped", "aborted"} \/ deaf # {})

-----------------------------------------------------------------------------
(* What the repository says and the code does not do.                       *)

\* main.py:411 "# Stop daemons gracefully": a shutdown that is not aborted gets
\* there.  It awaits a task that swallowed its cancellation for ever.
DaemonsStopped == phase = "stopping" ~> ("daemons" \notin up \/ phase = "aborted")
=============================================================================
