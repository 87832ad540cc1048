----------------------------- MODULE AgentRuntime -----------------------------
(***************************************************************************)
(* Executions of agents (execute_agent in src/agents/runtime.py) against    *)
(* the kill switch and the fenced lock in Redis (redis_store.py).  The lock *)
(* of an execution is named after the execution itself, so nobody else ever *)
(* takes it: what the fencing check sees is only whether the key, kept      *)
(* alive by a heartbeat task, still exists.  Time is counted in Tick steps. *)
(***************************************************************************)
EXTENDS Integers

CONSTANTS Executions,
          MaxSteps,       \* agent.max_steps
          LockTtl,        \* ttl_seconds of the lock
          HeartbeatEvery, \* sleep of the heartbeat task
          MaxLag,         \* bound: how late the event loop runs the heartbeat
          Evictable,      \* keys Redis may drop: a subset of {"kill", "lock"}
          MaxKills        \* bound: activations of the kill switch

RuntimeAssumption ==
  /\ {MaxSteps, MaxKills, LockTtl, MaxLag} \subseteq Nat /\ HeartbeatEvery \in Nat \ {0}
  /\ HeartbeatEvery + MaxLag < LockTtl
  /\ Evictable \subseteq {"kill", "lock"}

VARIABLES
  pc,        \* where each execution is
  step,      \* iterations of its for loop that were begun
  outcome,   \* execution.status
  lock,      \* remaining life of its lock key, 0 when there is none
  heartbeat, \* ticks since its heartbeat task last woke, Off when there is none
  lost,      \* history: the key was evicted or the heartbeat task died
  key,       \* the kill switch key exists
  halted,    \* history: the operator has halted the system
  late,      \* history: tools the execution started since the halt
  kills

agentVars == <<pc, step, outcome>>
lockVars  == <<lock, heartbeat, lost>>
killVars  == <<key, halted, kills>>
vars == <<pc, step, outcome, lock, heartbeat, lost, key, halted, late, kills>>

Off == -1

Pc == {"new", "starting", "killCheck", "fenceCheck", "thinking", "calling", "inTool",
       "leaving", "ended", "unreleased", "aborted", "crashed"}
Outcomes == {"none", "running", "halted", "fenced", "failed", "completed"}

\* In the body of the try statement.
Working(e) == pc[e] \in {"killCheck", "fenceCheck", "thinking", "calling", "inTool"}

Goto(e, p) == pc' = [pc EXCEPT ![e] = p]

Init ==
  /\ pc = [e \in Executions |-> "new"]
  /\ step = [e \in Executions |-> 0]
  /\ outcome = [e \in Executions |-> "none"]
  /\ lock = [e \in Executions |-> 0]
  /\ heartbeat = [e \in Executions |-> Off]
  /\ lost = [e \in Executions |-> FALSE]
  /\ key = FALSE /\ halted = FALSE /\ kills = 0
  /\ late = [e \in Executions |-> 0]

-----------------------------------------------------------------------------
(* execute_agent *)

AcquireLock(e) ==
  /\ pc[e] = "new"
  /\ Goto(e, "starting")
  /\ outcome'   = [outcome EXCEPT ![e] = "running"]
  /\ lock'      = [lock EXCEPT ![e] = LockTtl]
  /\ heartbeat' = [heartbeat EXCEPT ![e] = 0]
  /\ UNCHANGED <<step, lost, killVars, late>>

\* The AGENT_STARTED row is written and the conversation is loaded.
Started(e) ==
  /\ pc[e] = "starting"
  /\ Goto(e, "killCheck")
  /\ UNCHANGED <<step, outcome, lockVars, killVars, late>>

\* Writing that row raises: it stands before the try, so the heartbeat task
\* lives on.
StartFails(e) ==
  /\ pc[e] = "starting"
  /\ Goto(e, "aborted")
  /\ UNCHANGED <<step, outcome, lockVars, killVars, late>>

Leave(e, o) == Goto(e, "leaving") /\ outcome' = [outcome EXCEPT ![e] = o]

Halts(e) == key

\* range(1, max_steps + 1) is exhausted.
OutOfSteps(e) == step[e] = MaxSteps

Counted(e) == [step EXCEPT ![e] = @ + 1]

\* The head of the for loop and is_killed.
BeginStep(e) ==
  /\ pc[e] = "killCheck"
  /\ IF OutOfSteps(e) THEN Leave(e, "completed") /\ UNCHANGED step
     ELSE /\ step' = Counted(e)
          /\ IF Halts(e) THEN Leave(e, "halted")
             ELSE Goto(e, "fenceCheck") /\ UNCHANGED outcome
  /\ UNCHANGED <<lockVars, killVars, late>>

\* validate_fencing_token
CheckFence(e) ==
  /\ pc[e] = "fenceCheck"
  /\ IF lock[e] = 0 THEN Leave(e, "fenced")
     ELSE Goto(e, "thinking") /\ UNCHANGED outcome
  /\ UNCHANGED <<step, lockVars, killVars, late>>

\* adapter.complete returns a tool call or an answer.
Think(e) ==
  /\ pc[e] = "thinking"
  /\ \/ Goto(e, "calling") /\ UNCHANGED outcome
     \/ Leave(e, "completed")
  /\ UNCHANGED <<step, lockVars, killVars, late>>

\* Nothing is checked between the answer of the LLM and the tool.
CallTool(e) ==
  /\ pc[e] = "calling"
  /\ Goto(e, "inTool")
  /\ late' = [late EXCEPT ![e] = IF halted THEN @ + 1 ELSE @]
  /\ UNCHANGED <<step, outcome, lockVars, killVars>>

ToolReturns(e) ==
  /\ pc[e] = "inTool"
  /\ Goto(e, "killCheck")
  /\ UNCHANGED <<step, outcome, lockVars, killVars, late>>

\* Any exception of the body.
Fails(e) ==
  /\ Working(e)
  /\ Leave(e, "failed")
  /\ UNCHANGED <<step, lockVars, killVars, late>>

\* Mutant: the heartbeat task is not cancelled.
KeepsHeartbeat(e) == heartbeat

StopsHeartbeat(e) == [heartbeat EXCEPT ![e] = Off]
ReleasesLock(e) == [lock EXCEPT ![e] = 0]

\* The finally clause.
CleanUp(e) ==
  /\ pc[e] = "leaving"
  /\ Goto(e, "ended")
  /\ heartbeat' = StopsHeartbeat(e)
  /\ lock' = ReleasesLock(e)
  /\ UNCHANGED <<step, outcome, lost, killVars, late>>

\* release_lock raises in it.
CleanUpFails(e) ==
  /\ pc[e] = "leaving"
  /\ Goto(e, "unreleased")
  /\ heartbeat' = StopsHeartbeat(e)
  /\ UNCHANGED <<step, outcome, lock, lost, killVars, late>>

Agent(e) == \/ AcquireLock(e) \/ Started(e) \/ BeginStep(e) \/ CheckFence(e) \/ Think(e)
            \/ CallTool(e) \/ ToolReturns(e) \/ CleanUp(e)

-----------------------------------------------------------------------------
(* The heartbeat task *)

\* EXPIRE does nothing when the key is gone.
Extended(e) == IF lock[e] > 0 THEN [lock EXCEPT ![e] = LockTtl] ELSE lock

Beat(e) ==
  /\ heartbeat[e] >= HeartbeatEvery
  /\ heartbeat' = [heartbeat EXCEPT ![e] = 0]
  /\ lock' = Extended(e)
  /\ UNCHANGED <<agentVars, lost, killVars, late>>

\* extend_lock raises: nobody notices that the task is gone.
HeartbeatDies(e) ==
  /\ heartbeat[e] >= HeartbeatEvery
  /\ heartbeat' = [heartbeat EXCEPT ![e] = Off]
  /\ lost' = [lost EXCEPT ![e] = TRUE]
  /\ UNCHANGED <<agentVars, lock, killVars, late>>

-----------------------------------------------------------------------------
(* The kill switch, Redis, time and the process. *)

Activate ==
  /\ kills < MaxKills
  /\ key' = TRUE /\ halted' = TRUE /\ kills' = kills + 1
  /\ late' = [e \in Executions |-> 0]
  /\ UNCHANGED <<agentVars, lockVars>>

Deactivate ==
  /\ halted
  /\ key' = FALSE /\ halted' = FALSE
  /\ UNCHANGED <<agentVars, lockVars, late, kills>>

\* maxmemory-policy allkeys-lru: no key is exempt.
EvictKillSwitch ==
  /\ "kill" \in Evictable /\ key
  /\ key' = FALSE
  /\ UNCHANGED <<agentVars, lockVars, halted, kills, late>>

EvictLock(e) ==
  /\ "lock" \in Evictable /\ lock[e] > 0
  /\ lock' = [lock EXCEPT ![e] = 0]
  /\ lost' = [lost EXCEPT ![e] = TRUE]
  /\ UNCHANGED <<agentVars, heartbeat, killVars, late>>

Aged(n) == IF n > 0 THEN n - 1 ELSE 0

\* Time passes; a due heartbeat is run at most MaxLag ticks late.
Tick ==
  /\ \A e \in Executions : heartbeat[e] < HeartbeatEvery + MaxLag
  /\ \E e \in Executions : lock[e] > 0 \/ heartbeat[e] # Off
  /\ lock' = [e \in Executions |-> Aged(lock[e])]
  /\ heartbeat' = [e \in Executions |-> IF heartbeat[e] = Off THEN Off ELSE heartbeat[e] + 1]
  /\ UNCHANGED <<agentVars, lost, killVars, late>>

\* The process dies with every execution in it; Redis remains.
Crash ==
  /\ pc' = [e \in Executions |-> IF pc[e] \in {"new", "ended", "unreleased"} THEN pc[e] ELSE "crashed"]
  /\ heartbeat' = [e \in Executions |-> Off]
  /\ UNCHANGED <<step, outcome, lock, lost, killVars, late>>

Next ==
  \/ \E e \in Executions : \/ Agent(e) \/ StartFails(e) \/ Fails(e) \/ CleanUpFails(e) \/ Beat(e)
                           \/ HeartbeatDies(e) \/ EvictLock(e)
  \/ Activate \/ Deactivate \/ EvictKillSwitch \/ Tick \/ Crash

Spec == Init /\ [][Next]_vars

\* What the code sees to: everything but the end of a tool, which may be a call of an
\* MCP server without a timeout or code that runs for ever.
GoesOn(e) == pc[e] # "inTool" /\ Agent(e)

\* Coroutines run on, the LLM answers (its client has a timeout), time passes.
FairSpec == /\ Spec
            /\ \A e \in Executions : WF_vars(GoesOn(e)) /\ WF_vars(Beat(e))
            /\ WF_vars(Tick)

-----------------------------------------------------------------------------
TypeOK ==
  /\ pc \in [Executions -> Pc]
  /\ step \in [Executions -> 0 .. MaxSteps]
  /\ outcome \in [Executions -> Outcomes]
  /\ lock \in [Executions -> 0 .. LockTtl]
  /\ heartbeat \in [Executions -> {Off} \cup 0 .. (HeartbeatEvery + MaxLag)]
  /\ lost \in [Executions -> BOOLEAN]
  /\ key \in BOOLEAN /\ halted \in BOOLEAN
  /\ late \in [Executions -> Nat]
  /\ kills \in 0 .. MaxKills

\* After the operator's halt an execution starts at most the one tool it had
\* already been told to call (given that Redis keeps the key).
AtMostOneToolAfterHalt ==
  "kill" \notin Evictable => \A e \in Executions : halted => late[e] <= 1

\* Why: the execution that has started it meets the kill switch before it comes to
\* another one.
ToolAfterHaltIsLast ==
  "kill" \notin Evictable =>
    /\ key = halted
    /\ \A e \in Executions :
         halted /\ late[e] > 0
           => pc[e] \in {"inTool", "killCheck", "leaving", "ended", "unreleased", "crashed"}

\* As long as its heartbeat task lives and Redis keeps the key, a working
\* execution never loses its lock: the heartbeat outpaces the TTL even when the
\* event loop is MaxLag late.
LockHeldWhileWorking ==
  \A e \in Executions : Working(e) /\ ~lost[e] => lock[e] > 0

\* An execution that ended left no lock behind, and no heartbeat outlives its
\* execution, except the one of an execution whose first audit row failed.
NothingLeftBehind ==
  \A e \in Executions :
    /\ pc[e] = "ended" => lock[e] = 0
    /\ heartbeat[e] # Off => Working(e) \/ pc[e] \in {"starting", "leaving", "aborted"}

\* Why LockHeldWhileWorking holds: the key outlives the next heartbeat.
BeatBeforeExpiry ==
  \A e \in Executions :
    /\ ~lost[e] /\ (pc[e] \in {"starting", "leaving"} \/ Working(e))
         => heartbeat[e] # Off /\ lock[e] + heartbeat[e] >= LockTtl
    /\ heartbeat[e] # Off => heartbeat[e] <= HeartbeatEvery + MaxLag

\* Every execution ends, since the loop is bounded, or it is for ever in one tool.
Terminates ==
  \A e \in Executions : Working(e) ~> \/ pc[e] \in {"ended", "unreleased", "crashed"}
                                     \/ [](pc[e] = "inTool")

\* The lock of an execution that died with the process, or could not release it,
\* is free again in the end.
AbandonedLockExpires ==
  \A e \in Executions : pc[e] \in {"crashed", "unreleased"} ~> lock[e] = 0

-----------------------------------------------------------------------------
(* What the repository says and the code does not do. *)

\* DOCUMENTATION.md:565, "Kill Switch - immediately halts all operations": no
\* tool is started after the halt.
NoToolAfterHalt == \A e \in Executions : halted => late[e] = 0

\* DOCUMENTATION.md:565, "deactivated via POST /api/resume": only by that.
HaltSticks == halted => key

\* DOCUMENTATION.md:581, "prevents stale agent processes from corrupting state
\* after lock expiration": no tool starts without the lock.
ToolsStartUnderLock ==
  [][\A e \in Executions : pc[e] = "calling" /\ pc'[e] = "inTool" => lock[e] > 0]_vars
=============================================================================
