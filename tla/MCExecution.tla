----------------------------- MODULE MCExecution -----------------------------
(***************************************************************************)
(* The way of one piece of work through an agent, for model checking: the   *)
(* pool that admits it, the execution with its lock and the kill switch,    *)
(* the gate its tool calls pass and the sandbox its code runs in.  What one *)
(* of them hands to the next is an action that returns or raises in each,   *)
(* so they share no variable.  scope is chosen at the start and says which  *)
(* of the four takes the steps; the others rest, and one run covers the sum *)
(* of the four state spaces and not their product.                          *)
(***************************************************************************)
EXTENDS Integers, Sequences, FiniteSets

CONSTANTS Callers, Delegates, Hanging, Limit, PoolFaults,
          Executions, MaxSteps, LockTtl, HeartbeatEvery, MaxLag, Evictable, MaxKills,
          ToolCalls, LocalTools, McpTools, UnknownTools, HighRisk, ExternalRisk, MaxChanges,
          Runs, MaxFlips,
          Scopes \* the components this run is about

VARIABLES
  scope,
  poolPc, value, waiters, queued, poolFaults,
  pc, step, outcome, lock, heartbeat, lost, key, halted, late, kills,
  gatePc, call, verdict, agreed, effects, gateAnswer, connected, changes,
  daemon, known, runPc, place, alive, file, limit, answer, flips

poolVars    == <<poolPc, value, waiters, queued, poolFaults>>
runtimeVars == <<pc, step, outcome, lock, heartbeat, lost, key, halted, late, kills>>
gateVars    == <<gatePc, call, verdict, agreed, effects, gateAnswer, connected, changes>>
sandboxVars == <<daemon, known, runPc, place, alive, file, limit, answer, flips>>
vars == <<scope, poolVars, runtimeVars, gateVars, sandboxVars>>

Pool    == INSTANCE AgentPool WITH pc <- poolPc, faults <- poolFaults,
                                   Calls <- Callers, MaxFaults <- PoolFaults
Runtime == INSTANCE AgentRuntime
Gate    == INSTANCE ToolGate WITH pc <- gatePc, answer <- gateAnswer, Calls <- ToolCalls,
                                  Enabled <- TRUE
Sandbox == INSTANCE CodeSandbox WITH pc <- runPc, Enabled <- TRUE

ASSUME ExecutionAssumption == /\ Pool!PoolAssumption /\ Runtime!RuntimeAssumption
                              /\ Gate!GateAssumption /\ Sandbox!SandboxAssumption

Init == /\ scope \in Scopes
        /\ Pool!Init /\ Runtime!Init
        /\ Gate!Init /\ (scope # "gate" => connected = {})
        /\ Sandbox!Init /\ (scope # "sandbox" => daemon)

Next == /\ UNCHANGED scope
        /\ \/ scope = "pool" /\ Pool!Next /\ UNCHANGED <<runtimeVars, gateVars, sandboxVars>>
           \/ scope = "runtime" /\ Runtime!Next /\ UNCHANGED <<poolVars, gateVars, sandboxVars>>
           \/ scope = "gate" /\ Gate!Next /\ UNCHANGED <<poolVars, runtimeVars, sandboxVars>>
           \/ scope = "sandbox" /\ Sandbox!Next /\ UNCHANGED <<poolVars, runtimeVars, gateVars>>

Spec == Init /\ [][Next]_vars

\* The fairness of each component, owed by the one that is in scope.
FairSpec ==
  /\ Spec
  /\ \A c \in Callers : WF_poolVars(scope = "pool" /\ Pool!GoesOn(c))
  /\ \A e \in Executions : /\ WF_runtimeVars(scope = "runtime" /\ Runtime!GoesOn(e))
                           /\ WF_runtimeVars(scope = "runtime" /\ Runtime!Beat(e))
  /\ WF_runtimeVars(scope = "runtime" /\ Runtime!Tick)
  /\ \A r \in Runs : WF_sandboxVars(scope = "sandbox" /\ Sandbox!Tool(r))

-----------------------------------------------------------------------------
(* The properties of the components, stated and explained part by part in     *)
(* their modules; an invariant speaks about the component in scope.           *)

\* The pool loses no permit and makes none up, leaves none idle while somebody
\* waits, never reports a longer queue than there is, and nobody overtakes.
PermitsAccounted ==
  /\ [](scope = "pool" => /\ Pool!TypeOK
                          /\ Pool!PermitsConserved
                          /\ Pool!NoIdlePermit
                          /\ Pool!LineIsWaiting
                          /\ Pool!QueuedNeverOvercounts)
  /\ Pool!FirstComeFirstServed

\* An execution starts at most one tool after a halt, it works under its lock while
\* its heartbeat lives, the lock outlives the next beat, and neither survives it.
LockAccounted ==
  scope = "runtime" => /\ Runtime!TypeOK
                       /\ Runtime!AtMostOneToolAfterHalt
                       /\ Runtime!ToolAfterHaltIsLast
                       /\ Runtime!LockHeldWhileWorking
                       /\ Runtime!BeatBeforeExpiry
                       /\ Runtime!NothingLeftBehind

\* A tool that needs a human has one, whoever calls it, the caller is told whether
\* it has run, a gate that fails has let nothing through, and a call is over once; a
\* written file of sandboxed code is removed, and all code runs where the first answer
\* about Docker said.
EffectsAccounted ==
  /\ [](scope = "gate" => /\ Gate!TypeOK
                          /\ Gate!EffectsAreApproved
                          /\ Gate!AnswerTellsEffect
                          /\ Gate!RaisedBeforeEffect
                          /\ Gate!UnderWay)
  /\ Gate!EndsOnce
  /\ [](scope = "sandbox" => /\ Sandbox!TypeOK
                             /\ Sandbox!WrittenIsRemoved
                             /\ Sandbox!OnePlace
                             /\ Sandbox!PlaceIsKnown)

\* Whoever waits for the pool runs in the end unless as many executions hang as it
\* admits; every execution ends or is in a tool that never answers; the lock of one
\* that died expires; a run is answered, also when its code never ends, unless it was
\* to wait for ever.
WorkEnds ==
  /\ Pool!WaiterRuns
  /\ Runtime!Terminates
  /\ Runtime!AbandonedLockExpires
  /\ Sandbox!EveryRunAnswered
=============================================================================
