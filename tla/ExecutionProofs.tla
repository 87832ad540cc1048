--------------------------- MODULE ExecutionProofs ---------------------------
(***************************************************************************)
(* Theorems about the components of MCExecution and about their composition, *)
(* for every number of callers, executions, tool calls and runs and every    *)
(* timing that the assumptions on the constants allow: the lock and the kill *)
(* switch (AgentRuntime), the gate of the tool calls (ToolGate), the sandbox *)
(* (CodeSandbox) and the pool (AgentPool).  Each has an inductive invariant   *)
(* over its own variables, preserved by its steps; a step of MCExecution is a *)
(* step of each component or leaves it alone.                                 *)
(***************************************************************************)
EXTENDS MCExecution, FiniteSetTheorems, SequenceTheorems, TLAPS

(* The inductive invariant of AgentRuntime: LockAccounted without what follows *)
(* from the rest of it.                                                         *)
RuntimeInv ==
  /\ Runtime!TypeOK
  /\ Runtime!AtMostOneToolAfterHalt
  /\ Runtime!ToolAfterHaltIsLast
  /\ Runtime!BeatBeforeExpiry
  /\ Runtime!NothingLeftBehind

(* RuntimeAssumption, as the provers use it. *)
RuntimeConstants ==
  /\ MaxSteps \in Nat /\ MaxKills \in Nat /\ LockTtl \in Nat /\ MaxLag \in Nat
  /\ HeartbeatEvery \in Nat /\ HeartbeatEvery > 0
  /\ HeartbeatEvery + MaxLag < LockTtl

LEMMA RuntimeConstantsHold == Runtime!RuntimeAssumption => RuntimeConstants
  BY DEF Runtime!RuntimeAssumption, RuntimeConstants

(* Every initial state of AgentRuntime satisfies its invariant. *)
LEMMA RuntimeInit == RuntimeConstants /\ Runtime!Init => RuntimeInv
  <1> SUFFICES ASSUME RuntimeConstants, Runtime!Init PROVE RuntimeInv
    OBVIOUS
  <1> USE DEF RuntimeConstants, Runtime!Init, Runtime!Off
  <1>1. Runtime!TypeOK
    <2>1. lost \in [Executions -> BOOLEAN]
      OBVIOUS
    <2>2. key \in BOOLEAN /\ halted \in BOOLEAN
      OBVIOUS
    <2>3. kills \in 0 .. MaxKills
      OBVIOUS
    <2>4. lock \in [Executions -> 0 .. LockTtl] /\ step \in [Executions -> 0 .. MaxSteps]
      OBVIOUS
    <2>5. heartbeat \in [Executions -> {Runtime!Off} \cup 0 .. (HeartbeatEvery + MaxLag)]
      OBVIOUS
    <2>6. QED
      BY <2>1, <2>2, <2>3, <2>4, <2>5 DEF Runtime!TypeOK, Runtime!Pc, Runtime!Outcomes
  <1>2. Runtime!AtMostOneToolAfterHalt /\ Runtime!ToolAfterHaltIsLast
    BY DEF Runtime!AtMostOneToolAfterHalt, Runtime!ToolAfterHaltIsLast
  <1>3. Runtime!BeatBeforeExpiry /\ Runtime!NothingLeftBehind
    BY DEF Runtime!BeatBeforeExpiry, Runtime!NothingLeftBehind, Runtime!Working
  <1>4. QED
    BY <1>1, <1>2, <1>3 DEF RuntimeInv

(* Every step of an execution, its heartbeat, the kill switch, Redis and time *)
(* preserves the types.                                                        *)
LEMMA RuntimeTypeStep ==
  RuntimeConstants /\ RuntimeInv /\ [Runtime!Next]_runtimeVars => Runtime!TypeOK'
  <1> SUFFICES ASSUME RuntimeConstants, RuntimeInv, [Runtime!Next]_runtimeVars
               PROVE  Runtime!TypeOK'
    OBVIOUS
  <1> USE DEF RuntimeConstants, RuntimeInv, Runtime!TypeOK, Runtime!Off, Runtime!Pc,
              Runtime!Outcomes, Runtime!Goto, Runtime!Leave,
              Runtime!agentVars, Runtime!lockVars, Runtime!killVars
  <1>1. CASE UNCHANGED runtimeVars
    BY <1>1 DEF runtimeVars
  <1>2. ASSUME NEW e \in Executions,
               \/ Runtime!AcquireLock(e) \/ Runtime!Started(e) \/ Runtime!StartFails(e)
               \/ Runtime!CheckFence(e) \/ Runtime!Think(e) \/ Runtime!ToolReturns(e)
               \/ Runtime!Fails(e)
        PROVE  Runtime!TypeOK'
    BY <1>2 DEF Runtime!AcquireLock, Runtime!Started, Runtime!StartFails, Runtime!CheckFence,
                Runtime!Think, Runtime!ToolReturns, Runtime!Fails
  <1>3. ASSUME NEW e \in Executions, Runtime!BeginStep(e) PROVE Runtime!TypeOK'
    BY <1>3 DEF Runtime!BeginStep, Runtime!OutOfSteps, Runtime!Counted, Runtime!Halts
  <1>4. ASSUME NEW e \in Executions, Runtime!CallTool(e) PROVE Runtime!TypeOK'
    BY <1>4 DEF Runtime!CallTool
  <1>5. ASSUME NEW e \in Executions, Runtime!CleanUp(e) \/ Runtime!CleanUpFails(e)
        PROVE  Runtime!TypeOK'
    BY <1>5 DEF Runtime!CleanUp, Runtime!CleanUpFails, Runtime!StopsHeartbeat, Runtime!ReleasesLock
  <1>6. ASSUME NEW e \in Executions,
               Runtime!Beat(e) \/ Runtime!HeartbeatDies(e) \/ Runtime!EvictLock(e)
        PROVE  Runtime!TypeOK'
    <2>1. lock' \in [Executions -> 0 .. LockTtl]
      BY <1>6 DEF Runtime!Beat, Runtime!HeartbeatDies, Runtime!EvictLock, Runtime!Extended
    <2>2. heartbeat' \in [Executions -> {Runtime!Off} \cup 0 .. (HeartbeatEvery + MaxLag)]
      BY <1>6 DEF Runtime!Beat, Runtime!HeartbeatDies, Runtime!EvictLock
    <2>3. lost' \in [Executions -> BOOLEAN]
      BY <1>6 DEF Runtime!Beat, Runtime!HeartbeatDies, Runtime!EvictLock
    <2>4. UNCHANGED <<pc, step, outcome, key, halted, late, kills>>
      BY <1>6 DEF Runtime!Beat, Runtime!HeartbeatDies, Runtime!EvictLock
    <2>5. QED
      BY <2>1, <2>2, <2>3, <2>4
  <1>7. CASE Runtime!Activate \/ Runtime!Deactivate \/ Runtime!EvictKillSwitch
    <2>1. key' \in BOOLEAN /\ halted' \in BOOLEAN
      BY <1>7, Zenon DEF Runtime!Activate, Runtime!Deactivate, Runtime!EvictKillSwitch
    <2>2. late' \in [Executions -> Nat]
      BY <1>7 DEF Runtime!Activate, Runtime!Deactivate, Runtime!EvictKillSwitch
    <2>3. kills' \in 0 .. MaxKills
      BY <1>7 DEF Runtime!Activate, Runtime!Deactivate, Runtime!EvictKillSwitch
    <2>4. UNCHANGED <<pc, step, outcome, lock, heartbeat, lost>>
      BY <1>7 DEF Runtime!Activate, Runtime!Deactivate, Runtime!EvictKillSwitch
    <2>5. QED
      BY <2>1, <2>2, <2>3, <2>4
  <1>8. CASE Runtime!Tick \/ Runtime!Crash
    <2>1. lock' \in [Executions -> 0 .. LockTtl]
      BY <1>8 DEF Runtime!Tick, Runtime!Crash, Runtime!Aged
    <2>2. heartbeat' \in [Executions -> {Runtime!Off} \cup 0 .. (HeartbeatEvery + MaxLag)]
      BY <1>8 DEF Runtime!Tick, Runtime!Crash
    <2>3. pc' \in [Executions -> Runtime!Pc]
      BY <1>8 DEF Runtime!Tick, Runtime!Crash
    <2>4. UNCHANGED <<step, outcome, lost, key, halted, late, kills>>
      BY <1>8 DEF Runtime!Tick, Runtime!Crash
    <2>5. QED
      BY <2>1, <2>2, <2>3, <2>4
  <1>9. QED
    BY <1>1, <1>2, <1>3, <1>4, <1>5, <1>6, <1>7, <1>8 DEF Runtime!Next, Runtime!Agent

(* Once it has begun a tool after the halt, an execution is past the kill        *)
(* switch only when the switch was lifted: every other way leads to BeginStep.   *)
LEMMA HaltStep ==
  RuntimeConstants /\ RuntimeInv /\ [Runtime!Next]_runtimeVars
    => Runtime!AtMostOneToolAfterHalt' /\ Runtime!ToolAfterHaltIsLast'
  <1> SUFFICES ASSUME RuntimeConstants, RuntimeInv, [Runtime!Next]_runtimeVars,
                      "kill" \notin Evictable
               PROVE  /\ key' = halted'
                      /\ \A e \in Executions :
                           halted' => /\ late'[e] <= 1
                                      /\ late'[e] > 0 => pc'[e] \in {"inTool", "killCheck", "leaving",
                                                                     "ended", "unreleased", "crashed"}
    BY DEF Runtime!AtMostOneToolAfterHalt, Runtime!ToolAfterHaltIsLast
  <1> DEFINE Done == {"inTool", "killCheck", "leaving", "ended", "unreleased", "crashed"}
             Good(e) == halted' => late'[e] <= 1 /\ (late'[e] > 0 => pc'[e] \in Done)
  <1>a. pc \in [Executions -> Runtime!Pc] /\ late \in [Executions -> Nat]
    BY DEF RuntimeInv, Runtime!TypeOK
  <1>b. /\ key = halted
        /\ \A e \in Executions : halted => late[e] <= 1 /\ (late[e] > 0 => pc[e] \in Done)
    BY DEF RuntimeInv, Runtime!AtMostOneToolAfterHalt, Runtime!ToolAfterHaltIsLast
  <1> USE <1>a, <1>b DEF Runtime!Goto, Runtime!Leave, Runtime!agentVars, Runtime!lockVars,
                         Runtime!killVars
  <1>1. CASE UNCHANGED runtimeVars
    BY <1>1 DEF runtimeVars
  <1>2. ASSUME NEW e \in Executions,
               \/ Runtime!AcquireLock(e) \/ Runtime!Started(e) \/ Runtime!StartFails(e)
               \/ Runtime!CheckFence(e) \/ Runtime!Think(e) \/ Runtime!ToolReturns(e)
               \/ Runtime!Fails(e) \/ Runtime!CleanUp(e) \/ Runtime!CleanUpFails(e)
        PROVE  key' = halted' /\ \A x \in Executions : Good(x)
    <2>1. UNCHANGED <<key, halted, late>>
      BY <1>2 DEF Runtime!AcquireLock, Runtime!Started, Runtime!StartFails, Runtime!CheckFence,
                Runtime!Think, Runtime!ToolReturns, Runtime!Fails, Runtime!CleanUp, Runtime!CleanUpFails
    <2>2. \A x \in Executions : x # e => pc'[x] = pc[x]
      BY <1>2 DEF Runtime!AcquireLock, Runtime!Started, Runtime!StartFails, Runtime!CheckFence,
                Runtime!Think, Runtime!ToolReturns, Runtime!Fails, Runtime!CleanUp, Runtime!CleanUpFails
    <2>3. pc[e] \in Done => pc'[e] \in Done
      BY <1>2 DEF Runtime!AcquireLock, Runtime!Started, Runtime!StartFails, Runtime!CheckFence,
                Runtime!Think, Runtime!ToolReturns, Runtime!Fails, Runtime!CleanUp, Runtime!CleanUpFails
    <2>4. QED
      BY <2>1, <2>2, <2>3
  <1>3. ASSUME NEW e \in Executions, Runtime!BeginStep(e)
        PROVE  key' = halted' /\ \A x \in Executions : Good(x)
    BY <1>3 DEF Runtime!BeginStep, Runtime!Halts
  <1>4. ASSUME NEW e \in Executions, Runtime!CallTool(e)
        PROVE  key' = halted' /\ \A x \in Executions : Good(x)
    <2>1. halted => late[e] = 0
      BY <1>4 DEF Runtime!CallTool
    <2>2. QED
      BY <2>1, <1>4 DEF Runtime!CallTool
  <1>5. ASSUME NEW e \in Executions,
               Runtime!Beat(e) \/ Runtime!HeartbeatDies(e) \/ Runtime!EvictLock(e)
        PROVE  key' = halted' /\ \A x \in Executions : Good(x)
    <2>1. UNCHANGED <<pc, key, halted, late>>
      BY <1>5 DEF Runtime!Beat, Runtime!HeartbeatDies, Runtime!EvictLock
    <2>2. QED
      BY <2>1
  <1>6. CASE Runtime!Activate \/ Runtime!Deactivate \/ Runtime!EvictKillSwitch
    <2>1. CASE Runtime!Activate
      BY <2>1 DEF Runtime!Activate
    <2>2. CASE Runtime!Deactivate
      BY <2>2 DEF Runtime!Deactivate
    <2>3. ~Runtime!EvictKillSwitch
      BY DEF Runtime!EvictKillSwitch
    <2>4. QED
      BY <1>6, <2>1, <2>2, <2>3
  <1>7. CASE Runtime!Tick \/ Runtime!Crash
    BY <1>7 DEF Runtime!Tick, Runtime!Crash
  <1>8. QED
    BY <1>1, <1>2, <1>3, <1>4, <1>5, <1>6, <1>7 DEF Runtime!Next, Runtime!Agent

(* Lock and heartbeat move together, so that the time since the last beat never *)
(* uses the lock up, and both go with the execution.                             *)
LEMMA LockStep ==
  RuntimeConstants /\ RuntimeInv /\ [Runtime!Next]_runtimeVars
    => Runtime!BeatBeforeExpiry' /\ Runtime!NothingLeftBehind'
  <1> SUFFICES ASSUME RuntimeConstants, RuntimeInv, [Runtime!Next]_runtimeVars
               PROVE  Runtime!BeatBeforeExpiry' /\ Runtime!NothingLeftBehind'
    OBVIOUS
  <1> DEFINE Live(p) == p \in {"starting", "leaving", "killCheck", "fenceCheck", "thinking",
                               "calling", "inTool"}
             Beats(p, l, h, gone) ==
               /\ ~gone /\ Live(p) => h # -1 /\ l + h >= LockTtl
               /\ h # -1 => h <= HeartbeatEvery + MaxLag
             Gone(p, l, h) == /\ p = "ended" => l = 0
                              /\ h # -1 => Live(p) \/ p = "aborted"
             Fine(p, l, h, gone) == Beats(p, l, h, gone) /\ Gone(p, l, h)
  <1>a. /\ pc \in [Executions -> Runtime!Pc] /\ lock \in [Executions -> 0 .. LockTtl]
        /\ heartbeat \in [Executions -> {-1} \cup 0 .. (HeartbeatEvery + MaxLag)]
        /\ lost \in [Executions -> BOOLEAN]
    BY DEF RuntimeInv, Runtime!TypeOK, Runtime!Off
  <1>b. \A e \in Executions : Fine(pc[e], lock[e], heartbeat[e], lost[e])
    BY DEF RuntimeInv, Runtime!BeatBeforeExpiry, Runtime!NothingLeftBehind, Runtime!Off,
           Runtime!Working
  <1>c. SUFFICES \A e \in Executions : Fine(pc'[e], lock'[e], heartbeat'[e], lost'[e])
    BY DEF Runtime!BeatBeforeExpiry, Runtime!NothingLeftBehind, Runtime!Off, Runtime!Working
  <1> USE <1>a, <1>b DEF RuntimeConstants, Runtime!Goto, Runtime!Leave, Runtime!agentVars,
                         Runtime!lockVars, Runtime!killVars, Runtime!Off
  <1>1. CASE UNCHANGED runtimeVars \/ Runtime!Activate \/ Runtime!Deactivate \/ Runtime!EvictKillSwitch
    <2>1. UNCHANGED <<pc, lock, heartbeat, lost>>
      BY <1>1 DEF runtimeVars, Runtime!Activate, Runtime!Deactivate, Runtime!EvictKillSwitch
    <2>2. QED
      BY <2>1
  <1>2. ASSUME NEW e \in Executions, Runtime!AcquireLock(e)
        PROVE  \A x \in Executions : Fine(pc'[x], lock'[x], heartbeat'[x], lost'[x])
    BY <1>2 DEF Runtime!AcquireLock
  <1>3. ASSUME NEW e \in Executions,
               \/ Runtime!Started(e) \/ Runtime!StartFails(e) \/ Runtime!BeginStep(e)
               \/ Runtime!CheckFence(e) \/ Runtime!Think(e) \/ Runtime!CallTool(e)
               \/ Runtime!ToolReturns(e) \/ Runtime!Fails(e)
        PROVE  \A x \in Executions : Fine(pc'[x], lock'[x], heartbeat'[x], lost'[x])
    <2>1. UNCHANGED <<lock, heartbeat, lost>>
      BY <1>3 DEF Runtime!Started, Runtime!StartFails, Runtime!BeginStep, Runtime!CheckFence,
                  Runtime!Think, Runtime!CallTool, Runtime!ToolReturns, Runtime!Fails
    <2>2. \A x \in Executions : x # e => pc'[x] = pc[x]
      BY <1>3 DEF Runtime!Started, Runtime!StartFails, Runtime!BeginStep, Runtime!CheckFence,
                  Runtime!Think, Runtime!CallTool, Runtime!ToolReturns, Runtime!Fails
    <2>3. Live(pc[e]) /\ (Live(pc'[e]) \/ pc'[e] = "aborted")
      BY <1>3 DEF Runtime!Started, Runtime!StartFails, Runtime!BeginStep, Runtime!CheckFence,
                  Runtime!Think, Runtime!CallTool, Runtime!ToolReturns, Runtime!Fails, Runtime!Working
    <2>4. QED
      BY <2>1, <2>2, <2>3
  <1>4. ASSUME NEW e \in Executions, Runtime!CleanUp(e) \/ Runtime!CleanUpFails(e)
        PROVE  \A x \in Executions : Fine(pc'[x], lock'[x], heartbeat'[x], lost'[x])
    BY <1>4 DEF Runtime!CleanUp, Runtime!CleanUpFails, Runtime!StopsHeartbeat, Runtime!ReleasesLock
  <1>5. ASSUME NEW e \in Executions, Runtime!Beat(e)
        PROVE  \A x \in Executions : Fine(pc'[x], lock'[x], heartbeat'[x], lost'[x])
    BY <1>5 DEF Runtime!Beat, Runtime!Extended
  <1>6. ASSUME NEW e \in Executions, Runtime!HeartbeatDies(e) \/ Runtime!EvictLock(e)
        PROVE  \A x \in Executions : Fine(pc'[x], lock'[x], heartbeat'[x], lost'[x])
    BY <1>6 DEF Runtime!HeartbeatDies, Runtime!EvictLock
  <1>7. CASE Runtime!Tick
    BY <1>7 DEF Runtime!Tick, Runtime!Aged
  <1>8. CASE Runtime!Crash
    BY <1>8 DEF Runtime!Crash
  <1>9. QED
    BY <1>1, <1>2, <1>3, <1>4, <1>5, <1>6, <1>7, <1>8 DEF Runtime!Next, Runtime!Agent

(* RuntimeInv is inductive, and implies what the run checks of AgentRuntime. *)
LEMMA RuntimeStep ==
  RuntimeConstants /\ RuntimeInv /\ [Runtime!Next]_runtimeVars => RuntimeInv'
  BY RuntimeTypeStep, HaltStep, LockStep DEF RuntimeInv

LEMMA RuntimeInvLock == RuntimeConstants /\ RuntimeInv => Runtime!LockHeldWhileWorking
  BY DEF RuntimeConstants, RuntimeInv, Runtime!TypeOK, Runtime!BeatBeforeExpiry,
         Runtime!LockHeldWhileWorking, Runtime!Working, Runtime!Off

(* A step of the composition is a step of AgentRuntime or leaves it alone. *)
LEMMA RuntimeSteps == [Next]_vars => [Runtime!Next]_runtimeVars
  BY DEF Next, vars, runtimeVars

(* However executions, heartbeats, halts, evictions and crashes interleave, an   *)
(* execution starts at most one tool after a halt, works under its lock while    *)
(* its heartbeat lives and leaves neither behind (execute_agent in               *)
(* src/agents/runtime.py with the lock and kill switch of redis_store.py).       *)
THEOREM LockIsAccounted == Spec => []LockAccounted
  <1>1. RuntimeConstants
    BY ExecutionAssumption, RuntimeConstantsHold
  <1>2. Init => RuntimeInv
    BY <1>1, RuntimeInit DEF Init
  <1>3. RuntimeInv /\ [Next]_vars => RuntimeInv'
    BY <1>1, RuntimeStep, RuntimeSteps
  <1>4. RuntimeInv => LockAccounted
    BY <1>1, RuntimeInvLock DEF RuntimeInv, LockAccounted
  <1>5. QED
    BY <1>2, <1>3, <1>4, PTL DEF Spec

-----------------------------------------------------------------------------
(* ToolGate *)

GateInv ==
  /\ Gate!TypeOK
  /\ Gate!EffectsAreApproved
  /\ Gate!AnswerTellsEffect
  /\ Gate!RaisedBeforeEffect
  /\ Gate!UnderWay

LEMMA GateInit == Gate!GateAssumption /\ Gate!Init => GateInv
  <1> SUFFICES ASSUME Gate!GateAssumption, Gate!Init PROVE GateInv
    OBVIOUS
  <1> USE DEF Gate!GateAssumption, Gate!Init
  <1>1. Gate!TypeOK
    BY DEF Gate!TypeOK, Gate!Refusals
  <1>2. Gate!EffectsAreApproved /\ Gate!AnswerTellsEffect /\ Gate!RaisedBeforeEffect
    BY DEF Gate!EffectsAreApproved, Gate!AnswerTellsEffect, Gate!RaisedBeforeEffect
  <1>3. Gate!UnderWay
    BY DEF Gate!UnderWay
  <1>4. QED
    BY <1>1, <1>2, <1>3 DEF GateInv

(* The types of the gate's variables, one by one. *)
GateTypes ==
  /\ gatePc \in [ToolCalls -> {"new", "asking", "waiting", "running", "done"}]
  /\ call \in [ToolCalls -> Gate!Requests \cup {Gate!NoRequest}]
  /\ verdict \in [ToolCalls -> {"none", "pending", "granted", "refused"}]
  /\ agreed \subseteq ToolCalls
  /\ effects \in [ToolCalls -> 0 .. 1]
  /\ gateAnswer \in [ToolCalls -> {"none", "result", "blocked", "not_found", "failed",
                                   "raised", "cancelled"}]
  /\ connected \subseteq McpTools
  /\ changes \in 0 .. MaxChanges

LEMMA GateTypesAreTypeOK == GateTypes <=> Gate!TypeOK
  BY DEF GateTypes, Gate!TypeOK, Gate!Refusals

LEMMA GateTypeStep ==
  Gate!GateAssumption /\ GateInv /\ [Gate!Next]_gateVars => GateTypes'
  <1> SUFFICES ASSUME Gate!GateAssumption, GateInv, [Gate!Next]_gateVars PROVE GateTypes'
    OBVIOUS
  <1>a. GateTypes
    BY GateTypesAreTypeOK DEF GateInv
  <1>b. \A c \in ToolCalls : gatePc[c] # "done" => effects[c] = 0
    BY DEF GateInv, Gate!UnderWay
  <1> USE <1>a DEF GateTypes
  <1>1. CASE UNCHANGED gateVars
    BY <1>1 DEF gateVars
  <1>2. ASSUME NEW c \in ToolCalls, NEW r \in Gate!Requests, Gate!Call(c, r) PROVE GateTypes'
    BY <1>2 DEF Gate!Call, Gate!Entry, Gate!OnValueError
  <1>3. ASSUME NEW c \in ToolCalls,
               \/ Gate!AskHuman(c) \/ Gate!GateFails(c) \/ Gate!Waited(c) \/ Gate!ServerGone(c)
        PROVE  GateTypes'
    BY <1>3 DEF Gate!AskHuman, Gate!GateFails, Gate!Waited, Gate!ServerGone, Gate!End,
                Gate!FailureOf
  <1>4. ASSUME NEW c \in ToolCalls, NEW g \in BOOLEAN, Gate!Decide(c, g) PROVE GateTypes'
    BY <1>4 DEF Gate!Decide
  <1>5. ASSUME NEW c \in ToolCalls, Gate!RunLocal(c) \/ Gate!RunRemote(c) \/ Gate!Cancelled(c)
        PROVE  GateTypes'
    <2>1. effects[c] = 0
      BY <1>5, <1>b DEF Gate!RunLocal, Gate!RunRemote, Gate!Cancelled
    <2>2. effects' \in [ToolCalls -> 0 .. 1]
      BY <1>5, <2>1 DEF Gate!RunLocal, Gate!RunRemote, Gate!RemoteEnds, Gate!Cancelled
    <2>3. /\ gatePc' = [gatePc EXCEPT ![c] = "done"]
          /\ UNCHANGED <<call, verdict, agreed, connected, changes>>
      BY <1>5 DEF Gate!RunLocal, Gate!RunRemote, Gate!RemoteEnds, Gate!Cancelled, Gate!End
    <2>4. \E a \in {"result", "not_found", "failed", "cancelled"} :
            gateAnswer' = [gateAnswer EXCEPT ![c] = a]
      BY <1>5 DEF Gate!RunLocal, Gate!RunRemote, Gate!RemoteEnds, Gate!Cancelled, Gate!End,
                  Gate!OnValueError
    <2>5. QED
      BY <2>2, <2>3, <2>4
  <1>6. CASE Gate!Connection
    BY <1>6 DEF Gate!Connection, Gate!GateAssumption
  <1>7. QED
    BY <1>1, <1>2, <1>3, <1>4, <1>5, <1>6 DEF Gate!Next, Gate!Step

(* What one call has come to, in one formula. *)
CallInv(p, r, v, g, n, a) ==
  /\ v = "granted" => g
  /\ p # "done" => n = 0 /\ a = "none"
  /\ p \in {"asking", "waiting", "running"}
       => r.tool \in LocalTools \/ (r.tool \in McpTools /\ r.by = "agent")
  /\ p = "running" /\ Gate!Intercepts(r) => g
  /\ n > 0 /\ Gate!MustAsk(r) => g
  /\ a = "blocked" => n = 0
  /\ a = "result" => n = 1
  /\ a = "raised" => r.tool \in McpTools /\ r.by = "agent" /\ n = 0

CallsInv ==
  \A c \in ToolCalls :
    CallInv(gatePc[c], call[c], verdict[c], c \in agreed, effects[c], gateAnswer[c])

LEMMA CallsInvIsGateInv == GateInv <=> GateTypes /\ CallsInv
  <1>1. ASSUME GateInv PROVE CallsInv
    BY <1>1 DEF GateInv, CallsInv, CallInv, Gate!EffectsAreApproved, Gate!AnswerTellsEffect,
                Gate!RaisedBeforeEffect, Gate!UnderWay
  <1>2. ASSUME CallsInv
        PROVE  /\ Gate!EffectsAreApproved /\ Gate!AnswerTellsEffect
               /\ Gate!RaisedBeforeEffect /\ Gate!UnderWay
    BY <1>2 DEF CallsInv, CallInv, Gate!EffectsAreApproved, Gate!AnswerTellsEffect,
                Gate!RaisedBeforeEffect, Gate!UnderWay
  <1>3. QED
    BY <1>1, <1>2, GateTypesAreTypeOK DEF GateInv

(* A step of one call leaves the others alone. *)
LEMMA CallsAreSeparate ==
  ASSUME GateTypes, CallsInv, NEW c \in ToolCalls, Gate!Step(c),
         CallInv(gatePc[c], call[c], verdict[c], c \in agreed, effects[c], gateAnswer[c])'
  PROVE  CallsInv'
  <1> DEFINE Untouched(x) == /\ gatePc'[x] = gatePc[x] /\ call'[x] = call[x]
                             /\ verdict'[x] = verdict[x] /\ (x \in agreed' <=> x \in agreed)
                             /\ effects'[x] = effects[x] /\ gateAnswer'[x] = gateAnswer[x]
  <1> SUFFICES ASSUME NEW x \in ToolCalls, x # c PROVE Untouched(x)
    BY DEF CallsInv
  <1> USE DEF GateTypes
  <1>1. ASSUME NEW r \in Gate!Requests, Gate!Call(c, r) PROVE Untouched(x)
    BY <1>1 DEF Gate!Call
  <1>2. CASE Gate!AskHuman(c) \/ Gate!GateFails(c) \/ Gate!Waited(c) \/ Gate!ServerGone(c)
    BY <1>2 DEF Gate!AskHuman, Gate!GateFails, Gate!Waited, Gate!ServerGone, Gate!End
  <1>3. ASSUME NEW g \in BOOLEAN, Gate!Decide(c, g) PROVE Untouched(x)
    BY <1>3 DEF Gate!Decide
  <1>4. CASE Gate!RunLocal(c) \/ Gate!RunRemote(c) \/ Gate!Cancelled(c)
    BY <1>4 DEF Gate!RunLocal, Gate!RunRemote, Gate!RemoteEnds, Gate!Cancelled, Gate!End
  <1>5. QED
    BY <1>1, <1>2, <1>3, <1>4 DEF Gate!Step

LEMMA CallsStep ==
  Gate!GateAssumption /\ GateInv /\ [Gate!Next]_gateVars => CallsInv'
  <1> SUFFICES ASSUME Gate!GateAssumption, GateInv, [Gate!Next]_gateVars PROVE CallsInv'
    OBVIOUS
  <1>a. GateTypes /\ CallsInv
    BY CallsInvIsGateInv
  <1> DEFINE After(c) ==
        CallInv(gatePc[c], call[c], verdict[c], c \in agreed, effects[c], gateAnswer[c])'
  <1>1. CASE UNCHANGED gateVars \/ Gate!Connection
    <2>1. UNCHANGED <<gatePc, call, verdict, agreed, effects, gateAnswer>>
      BY <1>1 DEF gateVars, Gate!Connection
    <2>2. QED
      BY <2>1, <1>a DEF CallsInv
  <1>2. ASSUME NEW c \in ToolCalls, Gate!Step(c) PROVE After(c)
    <2>a. CallInv(gatePc[c], call[c], verdict[c], c \in agreed, effects[c], gateAnswer[c])
      BY <1>a DEF CallsInv
    <2> USE <1>a, <2>a DEF GateTypes
    <2>1. ASSUME NEW r \in Gate!Requests, Gate!Call(c, r) PROVE After(c)
      <3>1. /\ gatePc[c] = "new" /\ gatePc'[c] = Gate!Entry(r) /\ call'[c] = r
            /\ gateAnswer'[c] = IF Gate!Entry(r) = "done" THEN Gate!OnValueError(r) ELSE "none"
            /\ UNCHANGED <<verdict, agreed, effects>>
        BY <2>1 DEF Gate!Call
      <3>2. Gate!Entry(r) # "done"
              => r.tool \in LocalTools \/ (r.tool \in McpTools /\ r.by = "agent")
        BY DEF Gate!Entry, Gate!Offered
      <3>3. Gate!Entry(r) \in {"asking", "running", "done"}
            /\ (Gate!Entry(r) = "running" => ~Gate!Intercepts(r))
        BY DEF Gate!Entry
      <3>4. Gate!OnValueError(r) \in {"not_found", "failed"}
        BY DEF Gate!OnValueError
      <3>5. QED
        BY <3>1, <3>2, <3>3, <3>4 DEF CallInv
    <2>2. CASE Gate!AskHuman(c)
      BY <2>2 DEF Gate!AskHuman, CallInv
    <2>3. CASE Gate!GateFails(c)
      <3>1. /\ gatePc[c] \in {"asking", "waiting"} /\ gatePc'[c] = "done"
            /\ gateAnswer'[c] = Gate!FailureOf(c)
            /\ UNCHANGED <<call, verdict, agreed, effects>>
        BY <2>3 DEF Gate!GateFails, Gate!End
      <3>2. QED
        BY <3>1 DEF CallInv, Gate!FailureOf, Gate!GateAssumption
    <2>4. ASSUME NEW g \in BOOLEAN, Gate!Decide(c, g) PROVE After(c)
      <3>1. /\ UNCHANGED <<gatePc, call, effects, gateAnswer>>
            /\ c \in agreed => c \in agreed'
            /\ verdict'[c] = "granted" => c \in agreed'
        BY <2>4 DEF Gate!Decide
      <3>2. QED
        BY <3>1 DEF CallInv
    <2>5. CASE Gate!Waited(c)
      BY <2>5 DEF Gate!Waited, Gate!Agreed, Gate!End, CallInv
    <2>6. CASE Gate!ServerGone(c)
      BY <2>6 DEF Gate!ServerGone, Gate!End, CallInv
    <2>7. CASE Gate!RunLocal(c) \/ Gate!RunRemote(c) \/ Gate!Cancelled(c)
      <3>1. PICK n \in 0 .. 1, a \in {"result", "not_found", "failed", "cancelled"} :
              /\ effects' = [effects EXCEPT ![c] = @ + n]
              /\ gateAnswer' = [gateAnswer EXCEPT ![c] = a]
              /\ a = "result" => n = 1
              /\ n = 1 => gatePc[c] = "running"
        BY <2>7 DEF Gate!RunLocal, Gate!RunRemote, Gate!RemoteEnds, Gate!Cancelled, Gate!End,
                    Gate!OnValueError
      <3>2. /\ gatePc[c] # "done" /\ gatePc'[c] = "done"
            /\ UNCHANGED <<call, verdict, agreed>>
        BY <2>7 DEF Gate!RunLocal, Gate!RunRemote, Gate!RemoteEnds, Gate!Cancelled, Gate!End
      <3>3. effects[c] = 0 /\ effects'[c] = n /\ gateAnswer'[c] = a
        BY <3>1, <3>2 DEF CallInv
      <3>4. Gate!MustAsk(call[c]) => Gate!Intercepts(call[c])
        BY DEF Gate!MustAsk, Gate!Intercepts, Gate!Risky
      <3>5. QED
        BY <3>1, <3>2, <3>3, <3>4 DEF CallInv
    <2>8. QED
      BY <1>2, <2>1, <2>2, <2>3, <2>4, <2>5, <2>6, <2>7 DEF Gate!Step
  <1>3. QED
    BY <1>1, <1>2, <1>a, CallsAreSeparate DEF Gate!Next

LEMMA GateStep ==
  Gate!GateAssumption /\ GateInv /\ [Gate!Next]_gateVars => GateInv'
  BY GateTypeStep, CallsStep, CallsInvIsGateInv, PTL

(* A call that is done stays as it is, and a tool takes effect only where its    *)
(* registry or its server is.                                                     *)
LEMMA GateEndsOnce ==
  ASSUME GateInv, [Gate!Next]_gateVars
  PROVE  [\A c \in ToolCalls :
            /\ gatePc[c] = "done" => UNCHANGED <<gatePc[c], gateAnswer[c], effects[c]>>
            /\ effects[c]' # effects[c] => call[c].tool \in LocalTools \cup connected]_gateVars
  <1> DEFINE Kept(x) ==
        /\ gatePc[x] = "done" => /\ gatePc'[x] = gatePc[x] /\ gateAnswer'[x] = gateAnswer[x]
                                 /\ effects'[x] = effects[x]
        /\ effects'[x] # effects[x] => call[x].tool \in LocalTools \cup connected
  <1>a. GateTypes
    BY GateTypesAreTypeOK DEF GateInv
  <1> SUFFICES ASSUME Gate!Next, NEW x \in ToolCalls PROVE Kept(x)
    BY DEF gateVars
  <1> USE <1>a DEF GateTypes
  <1>1. CASE Gate!Connection
    BY <1>1 DEF Gate!Connection
  <1>2. ASSUME NEW c \in ToolCalls, NEW r \in Gate!Requests, Gate!Call(c, r) PROVE Kept(x)
    BY <1>2 DEF Gate!Call
  <1>3. ASSUME NEW c \in ToolCalls,
               \/ Gate!AskHuman(c) \/ Gate!GateFails(c) \/ Gate!Waited(c) \/ Gate!ServerGone(c)
        PROVE  Kept(x)
    BY <1>3 DEF Gate!AskHuman, Gate!GateFails, Gate!Waited, Gate!ServerGone, Gate!End
  <1>4. ASSUME NEW c \in ToolCalls, NEW g \in BOOLEAN, Gate!Decide(c, g) PROVE Kept(x)
    BY <1>4 DEF Gate!Decide
  <1>5. ASSUME NEW c \in ToolCalls, Gate!RunLocal(c) \/ Gate!RunRemote(c) PROVE Kept(x)
    BY <1>5 DEF Gate!RunLocal, Gate!RunRemote, Gate!RemoteEnds, Gate!HasSession, Gate!End
  <1>6. ASSUME NEW c \in ToolCalls, Gate!Cancelled(c) PROVE Kept(x)
    BY <1>6 DEF Gate!Cancelled, Gate!End
  <1>7. QED
    BY <1>1, <1>2, <1>3, <1>4, <1>5, <1>6 DEF Gate!Next, Gate!Step

-----------------------------------------------------------------------------
(* CodeSandbox *)

SandboxInv == Sandbox!TypeOK /\ Sandbox!WrittenIsRemoved /\ Sandbox!PlaceIsKnown

LEMMA SandboxInit == Sandbox!SandboxAssumption /\ Sandbox!Init => SandboxInv
  BY DEF Sandbox!SandboxAssumption, Sandbox!Init, SandboxInv, Sandbox!TypeOK, Sandbox!Limits,
         Sandbox!WrittenIsRemoved, Sandbox!PlaceIsKnown

LEMMA SandboxOnePlace == SandboxInv => Sandbox!OnePlace
  BY DEF SandboxInv, Sandbox!PlaceIsKnown, Sandbox!OnePlace

LEMMA SandboxStep ==
  Sandbox!SandboxAssumption /\ SandboxInv /\ [Sandbox!Next]_sandboxVars => SandboxInv'
  <1> SUFFICES ASSUME Sandbox!SandboxAssumption, SandboxInv, [Sandbox!Next]_sandboxVars
               PROVE  SandboxInv'
    OBVIOUS
  <1> USE DEF SandboxInv, Sandbox!TypeOK, Sandbox!Limits, Sandbox!WrittenIsRemoved, Sandbox!PlaceIsKnown
  <1>1. CASE UNCHANGED sandboxVars
    BY <1>1 DEF sandboxVars
  <1>2. ASSUME NEW r \in Runs, Sandbox!Start(r) \/ Sandbox!WriteFails(r) PROVE SandboxInv'
    <2>1. CASE Sandbox!Start(r)
      <3>1. Sandbox!TypeOK'
        BY <2>1 DEF Sandbox!Start, Sandbox!Found, Sandbox!Check, Sandbox!Seen, Sandbox!Place,
                    Sandbox!WritesFile
      <3>2. Sandbox!WrittenIsRemoved'
        BY <2>1 DEF Sandbox!Start
      <3>3. Sandbox!PlaceIsKnown'
        BY <2>1 DEF Sandbox!Start, Sandbox!Found, Sandbox!Check, Sandbox!Seen, Sandbox!Place,
                    Sandbox!WritesFile
      <3>4. QED
        BY <3>1, <3>2, <3>3 DEF SandboxInv
    <2>2. CASE Sandbox!WriteFails(r)
      BY <2>2 DEF Sandbox!WriteFails, Sandbox!Found, Sandbox!Check, Sandbox!Seen, Sandbox!Place,
                  Sandbox!WritesFile
    <2>3. QED
      BY <1>2, <2>1, <2>2
  <1>3. ASSUME NEW r \in Runs,
               Sandbox!SpawnFails(r) \/ Sandbox!NoDaemon(r) \/ Sandbox!Collect(r) \/ Sandbox!TimesOut(r)
        PROVE  SandboxInv'
    <2>1. PICK a \in {"error", "no_daemon", "result", "timeout"} : Sandbox!End(r, a) /\ UNCHANGED alive
      BY <1>3 DEF Sandbox!SpawnFails, Sandbox!NoDaemon, Sandbox!Collect, Sandbox!TimesOut
    <2>2. Sandbox!TypeOK'
      BY <2>1 DEF Sandbox!End, Sandbox!Removed
    <2>3. Sandbox!WrittenIsRemoved'
      BY <2>1 DEF Sandbox!End, Sandbox!Removed
    <2>4. Sandbox!PlaceIsKnown'
      BY <2>1 DEF Sandbox!End, Sandbox!Removed
    <2>5. QED
      BY <2>2, <2>3, <2>4 DEF SandboxInv
  <1>4. ASSUME NEW r \in Runs, Sandbox!Spawn(r) \/ Sandbox!CodeEnds(r) PROVE SandboxInv'
    <2>1. Sandbox!TypeOK'
      BY <1>4 DEF Sandbox!Spawn, Sandbox!CanSpawn, Sandbox!CodeEnds
    <2>2. Sandbox!WrittenIsRemoved'
      BY <1>4 DEF Sandbox!Spawn, Sandbox!CanSpawn, Sandbox!CodeEnds
    <2>3. Sandbox!PlaceIsKnown'
      BY <1>4 DEF Sandbox!Spawn, Sandbox!CanSpawn, Sandbox!CodeEnds
    <2>4. QED
      BY <2>1, <2>2, <2>3 DEF SandboxInv
  <1>5. ASSUME NEW r \in Runs, Sandbox!Refuse(r) \/ Sandbox!SpawnUnwatched(r) PROVE SandboxInv'
    <2>1. Sandbox!TypeOK'
      BY <1>5 DEF Sandbox!Refuse, Sandbox!SpawnUnwatched, Sandbox!CanSpawn, Sandbox!End,
             Sandbox!Removed
    <2>2. Sandbox!WrittenIsRemoved'
      BY <1>5 DEF Sandbox!Refuse, Sandbox!SpawnUnwatched, Sandbox!CanSpawn, Sandbox!End,
             Sandbox!Removed
    <2>3. Sandbox!PlaceIsKnown'
      BY <1>5 DEF Sandbox!Refuse, Sandbox!SpawnUnwatched, Sandbox!CanSpawn, Sandbox!End,
             Sandbox!Removed
    <2>4. QED
      BY <2>1, <2>2, <2>3 DEF SandboxInv
  <1>6. CASE Sandbox!Flip
    <2>1. Sandbox!TypeOK'
      BY <1>6 DEF Sandbox!Flip, Sandbox!SandboxAssumption
    <2>2. Sandbox!WrittenIsRemoved'
      BY <1>6 DEF Sandbox!Flip, Sandbox!SandboxAssumption
    <2>3. Sandbox!PlaceIsKnown'
      BY <1>6 DEF Sandbox!Flip, Sandbox!SandboxAssumption
    <2>4. QED
      BY <2>1, <2>2, <2>3 DEF SandboxInv
  <1> HIDE DEF SandboxInv
  <1>7. QED
    BY <1>1, <1>2, <1>3, <1>4, <1>5, <1>6 DEF Sandbox!Next, Sandbox!Tool

LEMMA GateSteps == [Next]_vars => [Gate!Next]_gateVars /\ [Sandbox!Next]_sandboxVars
  BY DEF Next, vars, gateVars, sandboxVars

(* Whoever calls a tool, and whichever servers come and go while a human thinks: *)
(* a tool that needs a human has one, its caller is told what has happened, a    *)
(* gate that fails has let nothing through and a call is over once               *)
(* (default_tool_executor, ToolRegistry.execute and check_tool_call); sandboxed  *)
(* code leaves no file that was written, and runs in one place (execute_code.py). *)
THEOREM EffectsAreAccounted == Spec => EffectsAccounted
  <1>1. Gate!GateAssumption /\ Sandbox!SandboxAssumption
    BY ExecutionAssumption
  <1>2. Init => GateInv /\ SandboxInv
    BY <1>1, GateInit, SandboxInit DEF Init
  <1>3. GateInv /\ SandboxInv /\ [Next]_vars => GateInv' /\ SandboxInv'
    BY <1>1, GateStep, SandboxStep, GateSteps
  <1>4. /\ GateInv => /\ Gate!TypeOK /\ Gate!EffectsAreApproved /\ Gate!AnswerTellsEffect
                      /\ Gate!RaisedBeforeEffect /\ Gate!UnderWay
        /\ SandboxInv => /\ Sandbox!TypeOK /\ Sandbox!WrittenIsRemoved /\ Sandbox!OnePlace
                         /\ Sandbox!PlaceIsKnown
    BY SandboxOnePlace DEF GateInv, SandboxInv
  <1>5. GateInv /\ [Next]_vars
          => [\A c \in ToolCalls :
                /\ gatePc[c] = "done" => UNCHANGED <<gatePc[c], gateAnswer[c], effects[c]>>
                /\ effects[c]' # effects[c] => call[c].tool \in LocalTools \cup connected]_gateVars
    BY GateEndsOnce, GateSteps
  <1>6. QED
    BY <1>2, <1>3, <1>4, <1>5, PTL DEF Spec, EffectsAccounted, Gate!EndsOnce, Gate!vars, gateVars

-----------------------------------------------------------------------------
(* AgentPool.  Its invariants speak about four sets of callers, here as functions *)
(* of the program counter.                                                          *)

Busy(p)  == {c \in Callers : p[c] \in {"granted", "running"}}
Line(p)  == {c \in Callers : p[c] \in {"waiting", "granted"}}
Queue(p) == {c \in Callers : p[c] \in {"logging", "waiting", "granted"}}
Sleeping(p) == {c \in Callers : p[c] = "waiting"}

PoolTypes ==
  /\ poolPc \in [Callers \cup Delegates -> Pool!Pc]
  /\ value \in Nat
  /\ waiters \in Seq(Callers)
  /\ queued \in Nat
  /\ poolFaults \in 0 .. PoolFaults

LineInv ==
  /\ \A i, j \in DOMAIN waiters : waiters[i] = waiters[j] => i = j
  /\ \A c \in Callers : c \in Line(poolPc) <=> \E i \in DOMAIN waiters : waiters[i] = c

PermitInv == value + Cardinality(Busy(poolPc)) = Limit

IdleInv == value > 0 /\ Sleeping(poolPc) # {} => \E c \in Callers : poolPc[c] = "granted"

QueueInv == queued <= Cardinality(Queue(poolPc)) + poolFaults

PoolInv == PoolTypes /\ LineInv /\ PermitInv /\ IdleInv /\ QueueInv

PoolConstants ==
  /\ IsFiniteSet(Callers) /\ Callers \cap Delegates = {}
  /\ Limit \in Nat \ {0} /\ PoolFaults \in Nat

(* AgentPool counts with the Cardinality of the same module. *)
LEMMA PoolCounts ==
  ASSUME NEW S
  PROVE  Pool!Cardinality(S) = Cardinality(S) /\ (Pool!IsFiniteSet(S) <=> IsFiniteSet(S))
  BY DEF Pool!Cardinality, Cardinality, Pool!IsFiniteSet, IsFiniteSet

LEMMA PoolConstantsHold == Pool!PoolAssumption => PoolConstants
  BY PoolCounts DEF Pool!PoolAssumption, PoolConstants

LEMMA CallersAreFinite ==
  ASSUME PoolConstants, NEW S \in SUBSET Callers
  PROVE  IsFiniteSet(S) /\ Cardinality(S) \in Nat
  BY FS_Subset, FS_CardinalityType DEF PoolConstants

LEMMA MinOfThree ==
  ASSUME NEW a \in Nat, NEW b \in Nat, NEW c \in Nat
  PROVE  /\ Pool!Min({a, b, c}) \in {a, b, c}
         /\ Pool!Min({a, b, c}) <= a /\ Pool!Min({a, b, c}) <= b /\ Pool!Min({a, b, c}) <= c
  <1>1. \E x \in {a, b, c} : \A y \in {a, b, c} : x <= y
    OBVIOUS
  <1>2. QED
    BY <1>1 DEF Pool!Min

LEMMA EnteredIsLess ==
  ASSUME NEW q \in Nat
  PROVE  Pool!Entered(q) \in Nat /\ Pool!Entered(q) = IF q = 0 THEN 0 ELSE q - 1
  <1> DEFINE m == Pool!Max({0, q - 1})
  <1>1. \E x \in {0, q - 1} : \A y \in {0, q - 1} : x >= y
    OBVIOUS
  <1>2. m \in {0, q - 1} /\ m >= 0 /\ m >= q - 1
    BY <1>1 DEF Pool!Max
  <1> HIDE DEF m
  <1>3. m \in Nat /\ m = IF q = 0 THEN 0 ELSE q - 1
    BY <1>2
  <1>4. QED
    BY <1>3 DEF Pool!Entered, m

(* What the semaphore does when it hands out permits: it wakes a set of sleepers  *)
(* no larger than the permits allow, keeps the rest of the permits, and stops only *)
(* where permits, sleepers or its order end.                                        *)
LEMMA GrantWakes ==
  ASSUME PoolConstants, NEW p \in [Callers \cup Delegates -> Pool!Pc],
         NEW v \in Nat, NEW k \in Nat, Pool!Grant(p, v, k)
  PROVE  \E woken \in SUBSET Sleeping(p) :
           /\ poolPc' = [c \in Callers \cup Delegates |-> IF c \in woken THEN "granted" ELSE p[c]]
           /\ Cardinality(woken) \in Nat /\ Cardinality(woken) <= v
           /\ value' = v - Cardinality(woken)
           /\ \/ value' = 0
              \/ woken = Sleeping(p)
              \/ Cardinality(woken) = k
           /\ \A c \in woken, d \in Sleeping(p) \ woken : Pool!Before(c, d)
  <1> DEFINE asleep == {c \in Callers : p[c] = "waiting"}
             n == Pool!Min({v, k, Cardinality(asleep)})
  <1>1. PICK woken \in SUBSET asleep :
          /\ Cardinality(woken) = n
          /\ \A c \in woken, d \in asleep \ woken : Pool!Before(c, d)
          /\ poolPc' = [c \in DOMAIN p |-> IF c \in woken THEN "granted" ELSE p[c]]
          /\ value' = v - n
    BY PoolCounts DEF Pool!Grant
  <1>2. IsFiniteSet(asleep) /\ Cardinality(asleep) \in Nat
    BY CallersAreFinite
  <1>3. n \in {v, k, Cardinality(asleep)} /\ n <= v
    BY <1>2, MinOfThree
  <1>4. n = Cardinality(asleep) => woken = asleep
    BY <1>1, <1>2, FS_Subset
  <1>5. DOMAIN p = Callers \cup Delegates
    OBVIOUS
  <1> HIDE DEF n
  <1>6. QED
    BY <1>1, <1>2, <1>3, <1>4, <1>5 DEF Sleeping

(* The line without the one who leaves it. *)
LEMMA LineWithout ==
  ASSUME PoolTypes, LineInv, NEW c \in Callers, Pool!LeaveLine(c)
  PROVE  /\ waiters' \in Seq(Callers)
         /\ Len(waiters) > 0
         /\ \A i, j \in DOMAIN waiters' : waiters'[i] = waiters'[j] => i = j
         /\ \A d \in Callers : (\E i \in DOMAIN waiters' : waiters'[i] = d)
                                 <=> d # c /\ \E i \in DOMAIN waiters : waiters[i] = d
  <1>a. waiters \in Seq(Callers) /\ DOMAIN waiters = 1 .. Len(waiters) /\ Len(waiters) \in Nat
    BY DEF PoolTypes
  <1>1. PICK k \in DOMAIN waiters : waiters[k] = c /\ waiters' = Pool!RemoveAt(waiters, k)
    BY DEF Pool!LeaveLine
  <1> DEFINE front == SubSeq(waiters, 1, k - 1)
             back  == SubSeq(waiters, k + 1, Len(waiters))
  <1>2. /\ front \in Seq(Callers) /\ Len(front) = k - 1
        /\ \A i \in 1 .. k - 1 : front[i] = waiters[i]
    BY <1>a, SubSeqProperties
  <1>3. /\ back \in Seq(Callers) /\ Len(back) = Len(waiters) - k
        /\ \A i \in 1 .. Len(waiters) - k : back[i] = waiters[k + i]
    BY <1>a, SubSeqProperties
  <1>4. waiters' = front \o back
    BY <1>1 DEF Pool!RemoveAt
  <1> HIDE DEF front, back
  <1>5. /\ waiters' \in Seq(Callers) /\ Len(waiters') = Len(waiters) - 1
        /\ \A i \in 1 .. Len(waiters) - 1 :
             waiters'[i] = IF i < k THEN waiters[i] ELSE waiters[i + 1]
    <2>a. /\ waiters' \in Seq(Callers) /\ Len(waiters') = Len(front) + Len(back)
          /\ \A i \in 1 .. Len(front) + Len(back) :
               waiters'[i] = IF i <= Len(front) THEN front[i] ELSE back[i - Len(front)]
      <3>1. front \in Seq(Callers) /\ back \in Seq(Callers)
        BY <1>2, <1>3
      <3>2. QED
        BY <3>1, <1>4, ConcatProperties
    <2>1. /\ waiters' \in Seq(Callers) /\ Len(waiters') = k - 1 + (Len(waiters) - k)
          /\ \A i \in 1 .. k - 1 + (Len(waiters) - k) :
               waiters'[i] = IF i <= k - 1 THEN front[i] ELSE back[i - (k - 1)]
      BY <1>2, <1>3, <2>a
    <2>2. Len(waiters') = Len(waiters) - 1
      BY <1>a, <2>1
    <2>3. ASSUME NEW i \in 1 .. Len(waiters) - 1
          PROVE  waiters'[i] = IF i < k THEN waiters[i] ELSE waiters[i + 1]
      <3>1. CASE i < k
        BY <1>a, <1>2, <2>1, <3>1
      <3>2. CASE i >= k
        <4>1. waiters'[i] = back[i - (k - 1)] /\ i - (k - 1) \in 1 .. Len(waiters) - k
          BY <1>a, <2>1, <3>2
        <4>2. QED
          BY <1>a, <1>3, <3>2, <4>1
      <3>3. QED
        BY <1>a, <3>1, <3>2
    <2>4. QED
      BY <2>1, <2>2, <2>3
  <1>b. DOMAIN waiters' = 1 .. Len(waiters) - 1
    BY <1>5
  <1>6. \A i, j \in DOMAIN waiters : waiters[i] = waiters[j] => i = j
    BY DEF LineInv
  <1>7. ASSUME NEW d \in Callers, d # c, NEW i \in DOMAIN waiters, waiters[i] = d
        PROVE  \E j \in DOMAIN waiters' : waiters'[j] = d
    <2>1. i # k
      BY <1>1, <1>7
    <2>2. CASE i < k
      <3>1. i \in DOMAIN waiters' /\ waiters'[i] = d
        BY <2>2, <1>a, <1>b, <1>5, <1>7
      <3>2. QED
        BY <3>1
    <2>3. CASE i > k
      <3>1. i - 1 \in DOMAIN waiters' /\ waiters'[i - 1] = d
        BY <2>3, <1>a, <1>b, <1>5, <1>7
      <3>2. QED
        BY <3>1
    <2>4. QED
      BY <1>a, <2>1, <2>2, <2>3
  <1>8. ASSUME NEW d \in Callers, NEW j \in DOMAIN waiters', waiters'[j] = d
        PROVE  d # c /\ \E i \in DOMAIN waiters : waiters[i] = d
    <2>1. PICK i \in DOMAIN waiters : i # k /\ waiters[i] = d
      <3>1. CASE j < k
        BY <3>1, <1>a, <1>b, <1>5, <1>8
      <3>2. CASE j >= k
        <4>1. j + 1 \in DOMAIN waiters /\ waiters[j + 1] = d /\ j + 1 # k
          BY <3>2, <1>a, <1>b, <1>5, <1>8
        <4>2. QED
          BY <4>1
      <3>3. QED
        BY <1>a, <1>b, <3>1, <3>2
    <2>2. QED
      BY <2>1, <1>1, <1>6
  <1>9. ASSUME NEW i \in DOMAIN waiters', NEW j \in DOMAIN waiters', waiters'[i] = waiters'[j]
        PROVE  i = j
    <2> DEFINE Old(n) == IF n < k THEN n ELSE n + 1
    <2>1. Old(i) \in DOMAIN waiters /\ Old(j) \in DOMAIN waiters
      BY <1>a, <1>b
    <2>2. waiters[Old(i)] = waiters[Old(j)]
      BY <1>b, <1>5, <1>9
    <2>3. Old(i) = Old(j)
      BY <1>6, <2>1, <2>2
    <2>4. QED
      BY <1>a, <1>b, <2>3
  <1>10. Len(waiters) > 0
    BY <1>a
  <1>11. QED
    BY <1>5, <1>7, <1>8, <1>9, <1>10

(* What Grant makes of the callers p and the permits v that it is given. *)
LEMMA GrantKeeps ==
  ASSUME PoolConstants, NEW p \in [Callers \cup Delegates -> Pool!Pc],
         NEW v \in Nat, NEW k \in Nat \ {0}, Pool!Grant(p, v, k), v + Cardinality(Busy(p)) = Limit
  PROVE  /\ poolPc' \in [Callers \cup Delegates -> Pool!Pc]
         /\ value' \in Nat
         /\ PermitInv'
         /\ IdleInv'
         /\ Line(poolPc') = Line(p) /\ Queue(poolPc') = Queue(p)
  <1>1. PICK woken \in SUBSET Sleeping(p) :
           /\ poolPc' = [c \in Callers \cup Delegates |-> IF c \in woken THEN "granted" ELSE p[c]]
           /\ Cardinality(woken) \in Nat /\ Cardinality(woken) <= v
           /\ value' = v - Cardinality(woken)
           /\ value' = 0 \/ woken = Sleeping(p) \/ Cardinality(woken) = k
    BY GrantWakes
  <1>2. poolPc' \in [Callers \cup Delegates -> Pool!Pc]
    BY <1>1 DEF Pool!Pc
  <1>3. value' \in Nat
    BY <1>1
  <1>4. PermitInv'
    <2>1. Busy(poolPc') = Busy(p) \cup woken /\ Busy(p) \cap woken = {}
      BY <1>1 DEF Busy, Sleeping
    <2>2. IsFiniteSet(Busy(p)) /\ IsFiniteSet(woken) /\ Cardinality(Busy(p)) \in Nat
      BY CallersAreFinite DEF Busy, Sleeping
    <2>3. Cardinality(Busy(p) \cup woken)
            = Cardinality(Busy(p)) + Cardinality(woken) - Cardinality(Busy(p) \cap woken)
      BY <2>2, FS_Union
    <2>a. Cardinality(Busy(p) \cap woken) = 0
      BY <2>1, FS_EmptySet
    <2>4. Cardinality(Busy(poolPc')) = Cardinality(Busy(p)) + Cardinality(woken)
      <3>1. Cardinality(woken) \in Nat
        BY <1>1
      <3>2. QED
        BY <3>1, <2>1, <2>2, <2>3, <2>a
    <2>5. QED
      BY <1>1, <2>2, <2>4 DEF PermitInv
  <1>5. IdleInv'
    <2>1. SUFFICES ASSUME value' > 0, Sleeping(poolPc') # {}
                   PROVE  \E c \in Callers : poolPc'[c] = "granted"
      BY DEF IdleInv
    <2>2. woken # Sleeping(p)
      BY <1>1, <2>1 DEF Sleeping
    <2>3. Cardinality(woken) = k /\ Cardinality({}) = 0
      BY <1>1, <2>1, <2>2, FS_EmptySet
    <2>4. QED
      BY <1>1, <2>3 DEF Sleeping
  <1>6. Line(poolPc') = Line(p) /\ Queue(poolPc') = Queue(p)
    BY <1>1 DEF Line, Queue, Sleeping
  <1>7. QED
    BY <1>2, <1>3, <1>4, <1>5, <1>6

(* One caller moves: how the four sets change, and how many they are. *)
Moved(p, c, q) ==
  /\ p \in [Callers \cup Delegates -> Pool!Pc]
  /\ \A x \in Callers : p[x] = IF x = c THEN q ELSE poolPc[x]
  /\ Line(p) = IF q \in {"waiting", "granted"} THEN Line(poolPc) \cup {c} ELSE Line(poolPc) \ {c}
  /\ Cardinality(Busy(poolPc)) \in Nat /\ Cardinality(Queue(poolPc)) \in Nat
  /\ Cardinality(Busy(p)) = Cardinality(Busy(poolPc))
                              + (IF q \in {"granted", "running"} THEN 1 ELSE 0)
                              - (IF poolPc[c] \in {"granted", "running"} THEN 1 ELSE 0)
  /\ Cardinality(Queue(p)) = Cardinality(Queue(poolPc))
                              + (IF q \in {"logging", "waiting", "granted"} THEN 1 ELSE 0)
                              - (IF poolPc[c] \in {"logging", "waiting", "granted"} THEN 1 ELSE 0)

LEMMA OneMoves ==
  ASSUME PoolConstants, PoolTypes, NEW c \in Callers, NEW q \in Pool!Pc
  PROVE  Moved([poolPc EXCEPT ![c] = q], c, q)
  <1> DEFINE p == [poolPc EXCEPT ![c] = q]
             B == {"granted", "running"}
             Q == {"logging", "waiting", "granted"}
  <1>1. p \in [Callers \cup Delegates -> Pool!Pc] /\ poolPc[c] \in Pool!Pc
    BY DEF PoolTypes
  <1>2. \A x \in Callers : p[x] = IF x = c THEN q ELSE poolPc[x]
    BY DEF PoolTypes
  <1> HIDE DEF p
  <1>3. Line(p) = IF q \in {"waiting", "granted"} THEN Line(poolPc) \cup {c} ELSE Line(poolPc) \ {c}
    BY <1>2 DEF Line
  <1>4. Busy(p) = IF q \in B THEN Busy(poolPc) \cup {c} ELSE Busy(poolPc) \ {c}
    BY <1>2 DEF Busy
  <1>5. Queue(p) = IF q \in Q THEN Queue(poolPc) \cup {c} ELSE Queue(poolPc) \ {c}
    BY <1>2 DEF Queue
  <1>6. /\ IsFiniteSet(Busy(poolPc)) /\ Cardinality(Busy(poolPc)) \in Nat
        /\ IsFiniteSet(Queue(poolPc)) /\ Cardinality(Queue(poolPc)) \in Nat
    BY CallersAreFinite DEF Busy, Queue
  <1>7. c \in Busy(poolPc) <=> poolPc[c] \in B
    BY DEF Busy
  <1>8. c \in Queue(poolPc) <=> poolPc[c] \in Q
    BY DEF Queue
  <1>9. Cardinality(Busy(p)) = Cardinality(Busy(poolPc)) + (IF q \in B THEN 1 ELSE 0)
                                  - (IF poolPc[c] \in B THEN 1 ELSE 0)
    <2>1. /\ Cardinality(Busy(poolPc) \cup {c})
               = IF c \in Busy(poolPc) THEN Cardinality(Busy(poolPc)) ELSE Cardinality(Busy(poolPc)) + 1
          /\ Cardinality(Busy(poolPc) \ {c})
               = IF c \in Busy(poolPc) THEN Cardinality(Busy(poolPc)) - 1 ELSE Cardinality(Busy(poolPc))
      BY <1>6, FS_AddElement, FS_RemoveElement
    <2>2. QED
      BY <2>1, <1>4, <1>6, <1>7
  <1>10. Cardinality(Queue(p)) = Cardinality(Queue(poolPc)) + (IF q \in Q THEN 1 ELSE 0)
                                  - (IF poolPc[c] \in Q THEN 1 ELSE 0)
    <2>1. /\ Cardinality(Queue(poolPc) \cup {c})
               = IF c \in Queue(poolPc) THEN Cardinality(Queue(poolPc)) ELSE Cardinality(Queue(poolPc)) + 1
          /\ Cardinality(Queue(poolPc) \ {c})
               = IF c \in Queue(poolPc) THEN Cardinality(Queue(poolPc)) - 1 ELSE Cardinality(Queue(poolPc))
      BY <1>6, FS_AddElement, FS_RemoveElement
    <2>2. QED
      BY <2>1, <1>5, <1>6, <1>8
  <1>11. QED
    BY <1>1, <1>2, <1>3, <1>6, <1>9, <1>10 DEF p, Moved

LEMMA PoolInit == PoolConstants /\ Pool!Init => PoolInv
  <1> SUFFICES ASSUME PoolConstants, Pool!Init PROVE PoolInv
    OBVIOUS
  <1>1. /\ poolPc = [c \in Callers \cup Delegates |-> "idle"]
        /\ value = Limit /\ waiters = <<>> /\ queued = 0 /\ poolFaults = 0
    BY DEF Pool!Init
  <1>2. PoolTypes
    BY <1>1 DEF PoolTypes, PoolConstants, Pool!Pc
  <1>3. Busy(poolPc) = {} /\ Line(poolPc) = {} /\ Queue(poolPc) = {} /\ Sleeping(poolPc) = {}
    BY <1>1 DEF Busy, Line, Queue, Sleeping
  <1>4. DOMAIN waiters = {}
    <2>1. Len(waiters) = 0 /\ DOMAIN waiters = 1 .. Len(waiters)
      BY <1>1, <1>2 DEF PoolTypes
    <2>2. QED
      BY <2>1
  <1>5. LineInv
    BY <1>3, <1>4 DEF LineInv
  <1>6. PermitInv /\ IdleInv /\ QueueInv
    <2>1. Cardinality(Busy(poolPc)) = 0 /\ Cardinality(Queue(poolPc)) = 0
      BY <1>3, FS_EmptySet
    <2>2. QED
      BY <1>1, <1>3, <2>1 DEF PermitInv, IdleInv, QueueInv, PoolConstants
  <1>7. QED
    BY <1>2, <1>5, <1>6 DEF PoolInv

(* The steps that hand out no permit: into the pool, past the audit row, and those *)
(* of delegates.                                                                     *)
LEMMA WalkStep ==
  ASSUME PoolConstants, PoolInv, NEW c \in Callers,
         \/ Pool!ExecuteNow(c) \/ Pool!ExecuteQueued(c) \/ Pool!Logged(c) \/ Pool!LogFails(c)
  PROVE  PoolInv'
  <1>a. PoolTypes /\ LineInv /\ PermitInv /\ IdleInv /\ QueueInv
    BY DEF PoolInv
  <1>b. /\ waiters \in Seq(Callers) /\ DOMAIN waiters = 1 .. Len(waiters) /\ Len(waiters) \in Nat
        /\ value \in Nat /\ queued \in Nat /\ poolFaults \in 0 .. PoolFaults /\ PoolFaults \in Nat
        /\ Limit \in Nat
    BY <1>a DEF PoolTypes, PoolConstants
  <1>c. Pool!Entered(queued) \in Nat /\ Pool!Entered(queued) = IF queued = 0 THEN 0 ELSE queued - 1
    BY <1>b, EnteredIsLess
  <1>1. ASSUME waiters = <<>>, value # 0, poolPc[c] \in {"idle", "logging"},
               poolPc' = [poolPc EXCEPT ![c] = "running"], value' = value - 1,
               queued' = Pool!Entered(queued), UNCHANGED <<waiters, poolFaults>>
        PROVE  PoolInv'
    <2>0. "running" \in Pool!Pc
      BY DEF Pool!Pc
    <2>m. Moved(poolPc', c, "running")
      BY <1>1, <2>0, <1>a, OneMoves
    <2>1. PoolTypes'
      BY <1>1, <1>b, <1>c, <2>m DEF Moved, PoolTypes
    <2>2. Line(poolPc) = {}
      <3>1. DOMAIN waiters = {}
        BY <1>1, <1>b
      <3>2. QED
        BY <3>1, <1>a DEF LineInv, Line
    <2>3. Line(poolPc') = {} /\ Sleeping(poolPc') = {}
      BY <1>1, <2>2, <2>m DEF Moved, Line, Sleeping
    <2>4. LineInv'
      <3>1. DOMAIN waiters' = {}
        BY <1>1, <1>b
      <3>2. QED
        BY <3>1, <2>3 DEF LineInv
    <2>5. PermitInv'
      BY <1>1, <1>a, <1>b, <2>m DEF Moved, PermitInv
    <2>6. QueueInv'
      <3>1. CASE poolPc[c] = "idle"
        <4>1. Cardinality(Queue(poolPc')) = Cardinality(Queue(poolPc))
          BY <2>m, <3>1 DEF Moved
        <4>2. QED
          BY <4>1, <1>1, <1>a, <1>b, <1>c, <2>m DEF Moved, QueueInv
      <3>2. CASE poolPc[c] = "logging"
        <4>1. /\ Cardinality(Queue(poolPc')) = Cardinality(Queue(poolPc)) - 1
              /\ Cardinality(Queue(poolPc)) \in Nat
          BY <2>m, <3>2 DEF Moved
        <4>2. Cardinality(Queue(poolPc')) \in Nat
          BY CallersAreFinite DEF Queue
        <4>3. QED
          BY <4>1, <4>2, <1>1, <1>a, <1>b, <1>c DEF QueueInv
      <3>3. QED
        BY <1>1, <3>1, <3>2
    <2>7. QED
      BY <2>1, <2>3, <2>4, <2>5, <2>6 DEF PoolInv, IdleInv
  <1>2. CASE Pool!ExecuteNow(c)
    BY <1>1, <1>2 DEF Pool!ExecuteNow, Pool!Locked
  <1>3. CASE Pool!ExecuteQueued(c)
    <2>0. "logging" \in Pool!Pc
      BY DEF Pool!Pc
    <2>1. /\ poolPc[c] = "idle" /\ poolPc' = [poolPc EXCEPT ![c] = "logging"]
          /\ queued' = queued + 1 /\ UNCHANGED <<value, waiters, poolFaults>>
      BY <1>3 DEF Pool!ExecuteQueued
    <2>m. Moved(poolPc', c, "logging")
      BY <2>0, <2>1, <1>a, OneMoves
    <2>2. PoolTypes'
      BY <2>1, <1>b, <2>m DEF Moved, PoolTypes
    <2>3. Line(poolPc') = Line(poolPc) /\ Sleeping(poolPc') = Sleeping(poolPc)
      BY <2>1, <2>m DEF Moved, Line, Sleeping
    <2>4. LineInv' /\ IdleInv'
      BY <2>1, <2>3, <1>a, <2>m DEF Moved, LineInv, IdleInv
    <2>5. PermitInv'
      BY <2>1, <1>a, <1>b, <2>m DEF Moved, PermitInv
    <2>6. QueueInv'
      BY <2>1, <1>a, <1>b, <2>m DEF Moved, QueueInv
    <2>7. QED
      BY <2>2, <2>4, <2>5, <2>6 DEF PoolInv
  <1>4. CASE Pool!LogFails(c)
    <2>0. "idle" \in Pool!Pc
      BY DEF Pool!Pc
    <2>1. /\ poolPc[c] = "logging" /\ poolPc' = [poolPc EXCEPT ![c] = "idle"]
          /\ poolFaults < PoolFaults /\ poolFaults' = poolFaults + 1
          /\ UNCHANGED <<value, waiters, queued>>
      BY <1>4 DEF Pool!LogFails
    <2>m. Moved(poolPc', c, "idle")
      BY <2>0, <2>1, <1>a, OneMoves
    <2>2. PoolTypes'
      BY <2>1, <1>b, <2>m DEF Moved, PoolTypes
    <2>3. Line(poolPc') = Line(poolPc) /\ Sleeping(poolPc') = Sleeping(poolPc)
      BY <2>1, <2>m DEF Moved, Line, Sleeping
    <2>4. LineInv' /\ IdleInv'
      BY <2>1, <2>3, <1>a, <2>m DEF Moved, LineInv, IdleInv
    <2>5. PermitInv'
      BY <2>1, <1>a, <1>b, <2>m DEF Moved, PermitInv
    <2>6. QueueInv'
      BY <2>1, <1>a, <1>b, <2>m DEF Moved, QueueInv
    <2>7. QED
      BY <2>2, <2>4, <2>5, <2>6 DEF PoolInv
  <1>5. CASE Pool!Logged(c) /\ Pool!Locked
    <2>0. "waiting" \in Pool!Pc
      BY DEF Pool!Pc
    <2>1. /\ poolPc[c] = "logging" /\ poolPc' = [poolPc EXCEPT ![c] = "waiting"]
          /\ waiters' = Append(waiters, c) /\ UNCHANGED <<value, queued, poolFaults>>
      BY <1>5 DEF Pool!Logged
    <2>m. Moved(poolPc', c, "waiting")
      BY <2>0, <2>1, <1>a, OneMoves
    <2>2. PoolTypes'
      BY <2>1, <1>b, <2>m DEF Moved, PoolTypes
    <2>3. Line(poolPc') = Line(poolPc) \cup {c} /\ c \notin Line(poolPc)
      BY <2>1, <2>m DEF Moved, Line
    <2>4. /\ DOMAIN waiters' = 1 .. Len(waiters) + 1 /\ waiters'[Len(waiters) + 1] = c
          /\ \A i \in 1 .. Len(waiters) : waiters'[i] = waiters[i]
      BY <2>1, <1>b
    <2>5. LineInv'
      <3>1. ASSUME NEW i \in DOMAIN waiters', NEW j \in DOMAIN waiters', waiters'[i] = waiters'[j]
            PROVE  i = j
        <4>1. \A h \in DOMAIN waiters : waiters[h] # c
          BY <2>3, <1>a DEF LineInv
        <4>2. QED
          BY <3>1, <4>1, <2>4, <1>a, <1>b DEF LineInv
      <3>2. ASSUME NEW x \in Callers
            PROVE  x \in Line(poolPc') <=> \E i \in DOMAIN waiters' : waiters'[i] = x
        <4>1. (\E i \in DOMAIN waiters' : waiters'[i] = x)
                <=> x = c \/ \E i \in DOMAIN waiters : waiters[i] = x
          BY <2>4, <1>b
        <4>2. QED
          BY <4>1, <2>3, <1>a DEF LineInv
      <3>3. QED
        BY <3>1, <3>2 DEF LineInv
    <2>6. IdleInv'
      <3>1. SUFFICES ASSUME value > 0 PROVE \E x \in Callers : poolPc'[x] = "granted"
        BY <2>1 DEF IdleInv
      <3>2. waiters # <<>>
        BY <3>1, <1>5 DEF Pool!Locked
      <3>3. waiters[1] \in Callers /\ waiters[1] \in Line(poolPc)
        BY <3>2, <1>a, <1>b DEF LineInv
      <3>4. \E x \in Callers : poolPc[x] = "granted"
        BY <3>1, <3>3, <1>a DEF IdleInv, Line, Sleeping
      <3>5. QED
        BY <3>4, <2>1, <2>m DEF Moved
    <2>7. PermitInv'
      BY <2>1, <1>a, <1>b, <2>m DEF Moved, PermitInv
    <2>8. QueueInv'
      BY <2>1, <1>a, <1>b, <2>m DEF Moved, QueueInv
    <2>9. QED
      BY <2>2, <2>5, <2>6, <2>7, <2>8 DEF PoolInv
  <1>6. CASE Pool!Logged(c) /\ ~Pool!Locked
    BY <1>1, <1>6 DEF Pool!Logged, Pool!Locked
  <1>7. QED
    BY <1>2, <1>3, <1>4, <1>5, <1>6

(* The steps that hand out permits: out of the line, and out of the pool. *)
LEMMA PermitStep ==
  ASSUME PoolConstants, PoolInv, NEW c \in Callers,
         \/ Pool!Enter(c) \/ Pool!Return(c) \/ Pool!Raise(c)
         \/ Pool!CancelRunning(c) \/ Pool!CancelWaiting(c)
  PROVE  PoolInv'
  <1>a. PoolTypes /\ LineInv /\ PermitInv /\ QueueInv
    BY DEF PoolInv
  <1>b. /\ waiters \in Seq(Callers) /\ DOMAIN waiters = 1 .. Len(waiters) /\ Len(waiters) \in Nat
        /\ value \in Nat /\ queued \in Nat /\ poolFaults \in 0 .. PoolFaults /\ PoolFaults \in Nat
        /\ Limit \in Nat
    BY <1>a DEF PoolTypes, PoolConstants
  <1>c. Pool!Entered(queued) \in Nat /\ Pool!Entered(queued) = IF queued = 0 THEN 0 ELSE queued - 1
    BY <1>b, EnteredIsLess
  <1>d. "running" \in Pool!Pc /\ "idle" \in Pool!Pc
    BY DEF Pool!Pc
  <1>e. Cardinality(Queue(poolPc)) \in Nat /\ Cardinality(Queue(poolPc')) \in Nat
    BY <1>a, CallersAreFinite DEF Queue
  \* A caller leaves the pool and gives its permit back.
  <1>1. ASSUME poolPc[c] = "running", Pool!Grant([poolPc EXCEPT ![c] = "idle"], value + 1, 1),
               UNCHANGED waiters
        PROVE  /\ poolPc' \in [Callers \cup Delegates -> Pool!Pc] /\ value' \in Nat
               /\ LineInv' /\ PermitInv' /\ IdleInv'
               /\ Cardinality(Queue(poolPc')) = Cardinality(Queue(poolPc))
    <2> DEFINE p == [poolPc EXCEPT ![c] = "idle"]
    <2>1. Moved(p, c, "idle")
      BY <1>a, <1>d, OneMoves
    <2> HIDE DEF p
    <2>2. /\ p \in [Callers \cup Delegates -> Pool!Pc]
          /\ value + 1 + Cardinality(Busy(p)) = Limit
          /\ Cardinality(Queue(p)) = Cardinality(Queue(poolPc))
          /\ Line(p) = Line(poolPc)
      <3>1. c \notin Line(poolPc)
        BY <1>1 DEF Line
      <3>2. Cardinality(Busy(p)) = Cardinality(Busy(poolPc)) - 1 /\ Cardinality(Busy(poolPc)) \in Nat
        BY <2>1, <1>1 DEF Moved
      <3>3. value + 1 + Cardinality(Busy(p)) = Limit
        BY <3>2, <1>a, <1>b DEF PermitInv
      <3>4. QED
        BY <2>1, <3>1, <3>3, <1>1, <1>e DEF Moved
    <2>3. Pool!Grant(p, value + 1, 1) /\ value + 1 \in Nat /\ 1 \in Nat \ {0}
      BY <1>1, <1>b DEF p
    <2>4. /\ poolPc' \in [Callers \cup Delegates -> Pool!Pc] /\ value' \in Nat
          /\ PermitInv' /\ IdleInv' /\ Line(poolPc') = Line(p) /\ Queue(poolPc') = Queue(p)
      BY <2>2, <2>3, GrantKeeps
    <2>5. LineInv'
      BY <1>1, <1>a, <2>2, <2>4 DEF LineInv
    <2>6. QED
      BY <2>2, <2>4, <2>5
  \* A caller leaves the line, with v permits for those behind it.
  <1>2. ASSUME NEW q \in {"idle", "running"}, NEW v \in Nat,
               Pool!LeaveLine(c), Pool!Grant([poolPc EXCEPT ![c] = q], v, Len(waiters)),
               \/ /\ poolPc[c] = "granted"
                  /\ v = IF q = "idle" THEN value + 1 ELSE value
               \/ poolPc[c] = "waiting" /\ q = "idle" /\ v = value
        PROVE  /\ poolPc' \in [Callers \cup Delegates -> Pool!Pc] /\ value' \in Nat
               /\ waiters' \in Seq(Callers)
               /\ LineInv' /\ PermitInv' /\ IdleInv'
               /\ Cardinality(Queue(poolPc')) = Cardinality(Queue(poolPc)) - 1
    <2> DEFINE p == [poolPc EXCEPT ![c] = q]
    <2>1. Moved(p, c, q)
      BY <1>a, <1>d, OneMoves
    <2> HIDE DEF p
    <2>2. /\ p \in [Callers \cup Delegates -> Pool!Pc]
          /\ v + Cardinality(Busy(p)) = Limit
          /\ Cardinality(Queue(p)) = Cardinality(Queue(poolPc)) - 1
          /\ Line(p) = Line(poolPc) \ {c}
      <3>1. Cardinality(Busy(poolPc)) \in Nat /\ value + Cardinality(Busy(poolPc)) = Limit
        BY <2>1, <1>a DEF Moved, PermitInv
      <3>2. CASE poolPc[c] = "granted" /\ q = "idle" /\ v = value + 1
        <4>1. Cardinality(Busy(p)) = Cardinality(Busy(poolPc)) - 1
          BY <2>1, <3>2 DEF Moved
        <4>2. QED
          BY <4>1, <3>1, <3>2, <2>1, <1>b DEF Moved
      <3>3. CASE poolPc[c] = "granted" /\ q = "running" /\ v = value
        <4>1. Cardinality(Busy(p)) = Cardinality(Busy(poolPc))
          BY <2>1, <3>3 DEF Moved
        <4>2. QED
          BY <4>1, <3>1, <3>3, <2>1, <1>b DEF Moved
      <3>4. CASE poolPc[c] = "waiting" /\ q = "idle" /\ v = value
        <4>1. Cardinality(Busy(p)) = Cardinality(Busy(poolPc))
          BY <2>1, <3>4 DEF Moved
        <4>2. QED
          BY <4>1, <3>1, <3>4, <2>1, <1>b DEF Moved
      <3>5. QED
        BY <1>2, <3>2, <3>3, <3>4
    <2>3. /\ waiters' \in Seq(Callers) /\ Len(waiters) > 0
          /\ \A i, j \in DOMAIN waiters' : waiters'[i] = waiters'[j] => i = j
          /\ \A d \in Callers : (\E i \in DOMAIN waiters' : waiters'[i] = d)
                                  <=> d # c /\ \E i \in DOMAIN waiters : waiters[i] = d
      BY <1>2, <1>a, LineWithout
    <2>4. Pool!Grant(p, v, Len(waiters)) /\ Len(waiters) \in Nat \ {0}
      BY <1>2, <1>b, <2>3 DEF p
    <2>5. /\ poolPc' \in [Callers \cup Delegates -> Pool!Pc] /\ value' \in Nat
          /\ PermitInv' /\ IdleInv' /\ Line(poolPc') = Line(p) /\ Queue(poolPc') = Queue(p)
      BY <1>2, <2>2, <2>4, GrantKeeps
    <2>6. LineInv'
      BY <1>a, <2>2, <2>3, <2>5 DEF LineInv
    <2>7. QED
      BY <2>2, <2>3, <2>5, <2>6
  <1>3. CASE Pool!Enter(c)
    <2>1. /\ poolPc[c] = "granted" /\ Pool!LeaveLine(c)
          /\ Pool!Grant([poolPc EXCEPT ![c] = "running"], value, Len(waiters))
          /\ queued' = Pool!Entered(queued) /\ UNCHANGED poolFaults
      BY <1>3 DEF Pool!Enter, Pool!WakesAll
    <2>2. /\ poolPc' \in [Callers \cup Delegates -> Pool!Pc] /\ value' \in Nat
          /\ waiters' \in Seq(Callers) /\ LineInv' /\ PermitInv' /\ IdleInv'
          /\ Cardinality(Queue(poolPc')) = Cardinality(Queue(poolPc)) - 1
      BY <2>1, <1>2, <1>b
    <2>3. QueueInv'
      BY <2>1, <2>2, <1>a, <1>b, <1>c, <1>e DEF QueueInv
    <2>4. QED
      BY <2>1, <2>2, <2>3, <1>b, <1>c DEF PoolInv, PoolTypes
  <1>4. CASE Pool!CancelWaiting(c)
    <2>1. /\ poolPc[c] \in {"waiting", "granted"} /\ Pool!LeaveLine(c)
          /\ Pool!Grant([poolPc EXCEPT ![c] = "idle"],
                        IF poolPc[c] = "granted" THEN value + 1 ELSE value, Len(waiters))
          /\ UNCHANGED queued /\ poolFaults' = poolFaults + 1 /\ poolFaults < PoolFaults
      BY <1>4 DEF Pool!CancelWaiting, Pool!WakesAll
    <2>2. /\ poolPc' \in [Callers \cup Delegates -> Pool!Pc] /\ value' \in Nat
          /\ waiters' \in Seq(Callers) /\ LineInv' /\ PermitInv' /\ IdleInv'
          /\ Cardinality(Queue(poolPc')) = Cardinality(Queue(poolPc)) - 1
      <3>1. CASE poolPc[c] = "granted"
        <4>1. Pool!Grant([poolPc EXCEPT ![c] = "idle"], value + 1, Len(waiters)) /\ value + 1 \in Nat
          BY <2>1, <3>1, <1>b
        <4>2. QED
          BY <2>1, <3>1, <4>1, <1>2
      <3>2. CASE poolPc[c] = "waiting"
        <4>1. Pool!Grant([poolPc EXCEPT ![c] = "idle"], value, Len(waiters))
          BY <2>1, <3>2
        <4>2. QED
          BY <2>1, <3>2, <4>1, <1>2, <1>b
      <3>3. QED
        BY <2>1, <3>1, <3>2
    <2>3. QueueInv'
      BY <2>1, <2>2, <1>a, <1>b, <1>e DEF QueueInv
    <2>4. QED
      BY <2>1, <2>2, <2>3, <1>b DEF PoolInv, PoolTypes
  <1>5. CASE Pool!Return(c) \/ Pool!Raise(c) \/ Pool!CancelRunning(c)
    <2>1. /\ poolPc[c] = "running" /\ Pool!Grant([poolPc EXCEPT ![c] = "idle"], value + 1, 1)
          /\ UNCHANGED waiters
          /\ queued' = queued \/ queued' = Pool!Entered(queued)
          /\ \/ UNCHANGED poolFaults
             \/ poolFaults' = poolFaults + 1 /\ poolFaults < PoolFaults
      BY <1>5 DEF Pool!Return, Pool!Raise, Pool!CancelRunning
    <2>2. /\ poolPc' \in [Callers \cup Delegates -> Pool!Pc] /\ value' \in Nat
          /\ LineInv' /\ PermitInv' /\ IdleInv'
          /\ Cardinality(Queue(poolPc')) = Cardinality(Queue(poolPc))
      BY <2>1, <1>1
    <2>3. QueueInv'
      BY <2>1, <2>2, <1>a, <1>b, <1>c, <1>e DEF QueueInv
    <2>4. QED
      BY <2>1, <2>2, <2>3, <1>b, <1>c DEF PoolInv, PoolTypes
  <1>6. QED
    BY <1>3, <1>4, <1>5

LEMMA DelegateStep ==
  ASSUME PoolConstants, PoolInv, NEW d \in Delegates,
         Pool!DelegateStart(d) \/ Pool!DelegateEnd(d)
  PROVE  PoolInv'
  <1>1. /\ \E q \in Pool!Pc : poolPc' = [poolPc EXCEPT ![d] = q]
        /\ UNCHANGED <<value, waiters, queued, poolFaults>>
    BY DEF Pool!DelegateStart, Pool!DelegateEnd, Pool!Pc
  <1>2. PoolTypes'
    BY <1>1 DEF PoolInv, PoolTypes
  <1>3. \A x \in Callers : poolPc'[x] = poolPc[x]
    BY <1>1 DEF PoolInv, PoolTypes, PoolConstants
  <1>4. /\ Busy(poolPc') = Busy(poolPc) /\ Line(poolPc') = Line(poolPc)
        /\ Queue(poolPc') = Queue(poolPc) /\ Sleeping(poolPc') = Sleeping(poolPc)
    BY <1>3 DEF Busy, Line, Queue, Sleeping
  <1>5. LineInv' /\ PermitInv' /\ IdleInv' /\ QueueInv'
    BY <1>1, <1>3, <1>4 DEF PoolInv, LineInv, PermitInv, IdleInv, QueueInv
  <1>6. QED
    BY <1>2, <1>5 DEF PoolInv

LEMMA PoolStep == PoolConstants /\ PoolInv /\ [Pool!Next]_poolVars => PoolInv'
  <1> SUFFICES ASSUME PoolConstants, PoolInv, [Pool!Next]_poolVars PROVE PoolInv'
    OBVIOUS
  <1>1. CASE UNCHANGED poolVars
    BY <1>1 DEF poolVars, PoolInv, PoolTypes, LineInv, PermitInv, IdleInv, QueueInv
  <1>2. QED
    BY <1>1, WalkStep, PermitStep, DelegateStep DEF Pool!Next, Pool!Progress

(* PoolInv says what the run checks of the pool, in the words of AgentPool. *)
LEMMA PoolInvAccounts ==
  PoolConstants /\ PoolInv => /\ Pool!TypeOK /\ Pool!PermitsConserved /\ Pool!NoIdlePermit
                              /\ Pool!LineIsWaiting /\ Pool!QueuedNeverOvercounts
  <1> SUFFICES ASSUME PoolConstants, PoolInv
               PROVE  /\ Pool!TypeOK /\ Pool!PermitsConserved /\ Pool!NoIdlePermit
                      /\ Pool!LineIsWaiting /\ Pool!QueuedNeverOvercounts
    OBVIOUS
  <1>a. PoolTypes /\ LineInv /\ PermitInv /\ IdleInv /\ QueueInv
    BY DEF PoolInv
  <1>b. /\ IsFiniteSet(Busy(poolPc)) /\ Cardinality(Busy(poolPc)) \in Nat
        /\ IsFiniteSet(Queue(poolPc)) /\ Cardinality(Queue(poolPc)) \in Nat
        /\ IsFiniteSet(Callers) /\ Cardinality(Callers) \in Nat
    BY CallersAreFinite DEF Busy, Queue
  <1>1. Pool!QueuedNeverOvercounts
    <2>1. Pool!Queuing = Queue(poolPc)
      BY DEF Pool!Queuing, Pool!At, Queue
    <2>2. QED
      BY <2>1, <1>a, PoolCounts DEF Pool!QueuedNeverOvercounts, QueueInv
  <1>2. Pool!TypeOK
    <2>1. Cardinality(Queue(poolPc)) <= Cardinality(Callers)
      BY <1>b, FS_Subset DEF Queue
    <2>2. queued \in 0 .. (Cardinality(Callers) + PoolFaults)
      BY <2>1, <1>a, <1>b DEF PoolTypes, QueueInv, PoolConstants
    <2>3. value \in 0 .. Limit
      BY <1>a, <1>b DEF PoolTypes, PermitInv, PoolConstants
    <2>4. QED
      BY <2>2, <2>3, <1>a, PoolCounts DEF PoolTypes, Pool!TypeOK
  <1>3. Pool!PermitsConserved
    <2> DEFINE running == Pool!At("running")
               granted == Pool!At("granted")
    <2>1. Busy(poolPc) = running \cup granted /\ running \cap granted = {}
      BY DEF Busy, Pool!At
    <2>2. /\ IsFiniteSet(running) /\ Cardinality(running) \in Nat
          /\ IsFiniteSet(granted) /\ Cardinality(granted) \in Nat
      BY CallersAreFinite DEF Pool!At
    <2> HIDE DEF running, granted
    <2>3. Cardinality(running \cup granted)
            = Cardinality(running) + Cardinality(granted) - Cardinality(running \cap granted)
      BY <2>2, FS_Union
    <2>4. Cardinality(running \cap granted) = 0
      BY <2>1, FS_EmptySet
    <2>5. value + Cardinality(running) + Cardinality(granted) = Limit
      BY <2>1, <2>2, <2>3, <2>4, <1>a DEF PermitInv, PoolTypes
    <2>6. QED
      BY <2>5, PoolCounts DEF Pool!PermitsConserved, Pool!Running, running, granted
  <1>4. Pool!NoIdlePermit
    BY <1>a DEF IdleInv, Sleeping, Pool!NoIdlePermit, Pool!At
  <1>5. Pool!LineIsWaiting
    <2>1. Pool!At("waiting") \cup Pool!At("granted") = Line(poolPc)
      BY DEF Pool!At, Line
    <2>2. Pool!Range(waiters) = Line(poolPc)
      <3>1. \A i \in DOMAIN waiters : waiters[i] \in Callers
        BY <1>a DEF PoolTypes
      <3>2. QED
        BY <3>1, <1>a DEF Pool!Range, LineInv, Line
    <2>3. QED
      BY <2>1, <2>2, <1>a DEF LineInv, Pool!LineIsWaiting
  <1>6. QED
    BY <1>1, <1>2, <1>3, <1>4, <1>5

(* d is served while c, who waits, is not. *)
Overtakes(d, c) ==
  /\ poolPc[c] = "waiting" /\ poolPc'[c] = "waiting"
  /\ poolPc[d] \in {"idle", "logging", "waiting"} /\ poolPc'[d] \in {"granted", "running"}

(* Who is woken stood before whoever is not. *)
LEMMA GrantInOrder ==
  ASSUME PoolConstants, PoolTypes, NEW x \in Callers, NEW q \in {"idle", "running"},
         q = "running" => poolPc[x] = "granted",
         NEW v \in Nat, NEW k \in Nat, Pool!Grant([poolPc EXCEPT ![x] = q], v, k),
         NEW c \in Callers, NEW d \in Callers, Overtakes(d, c)
  PROVE  Pool!Before(d, c)
  <1> DEFINE p == [poolPc EXCEPT ![x] = q]
  <1>1. /\ p \in [Callers \cup Delegates -> Pool!Pc]
        /\ \A y \in Callers : p[y] = IF y = x THEN q ELSE poolPc[y]
    BY DEF PoolTypes, Pool!Pc
  <1> HIDE DEF p
  <1>2. Pool!Grant(p, v, k)
    BY DEF p
  <1>3. PICK woken \in SUBSET Sleeping(p) :
          /\ poolPc' = [y \in Callers \cup Delegates |-> IF y \in woken THEN "granted" ELSE p[y]]
          /\ \A a \in woken, b \in Sleeping(p) \ woken : Pool!Before(a, b)
    BY <1>1, <1>2, GrantWakes
  <1>4. c \in Sleeping(p) \ woken
    BY <1>1, <1>3 DEF Overtakes, Sleeping
  <1>5. d \in woken
    BY <1>1, <1>3 DEF Overtakes
  <1>6. QED
    BY <1>3, <1>4, <1>5

LEMMA PoolServesInOrder ==
  ASSUME PoolConstants, PoolInv, Pool!Next, NEW c \in Callers, NEW d \in Callers, Overtakes(d, c)
  PROVE  Pool!Before(d, c)
  <1>a. PoolTypes /\ LineInv
    BY DEF PoolInv
  <1>b. value \in Nat /\ value + 1 \in Nat /\ Len(waiters) \in Nat /\ 1 \in Nat
    BY <1>a DEF PoolTypes
  <1>1. waiters # <<>>
    <2>1. c \in Line(poolPc)
      BY DEF Overtakes, Line
    <2>2. PICK i \in DOMAIN waiters : waiters[i] = c
      BY <2>1, <1>a DEF LineInv
    <2>3. DOMAIN waiters = 1 .. Len(waiters)
      BY <1>a DEF PoolTypes
    <2>4. QED
      BY <2>2, <2>3
  <1>2. ASSUME NEW x \in Callers, Pool!ExecuteNow(x) PROVE FALSE
    BY <1>1, <1>2 DEF Pool!ExecuteNow, Pool!Locked
  <1>3. ASSUME NEW x \in Callers, Pool!ExecuteQueued(x) \/ Pool!LogFails(x) PROVE FALSE
    BY <1>3, <1>a DEF Pool!ExecuteQueued, Pool!LogFails, Overtakes, PoolTypes
  <1>4. ASSUME NEW x \in Callers, Pool!Logged(x) PROVE FALSE
    BY <1>1, <1>4, <1>a DEF Pool!Logged, Pool!Locked, Overtakes, PoolTypes
  <1>5. ASSUME NEW x \in Callers, Pool!Enter(x) PROVE Pool!Before(d, c)
    <2>1. poolPc[x] = "granted" /\ Pool!Grant([poolPc EXCEPT ![x] = "running"], value, Len(waiters))
      BY <1>5 DEF Pool!Enter, Pool!WakesAll
    <2>2. QED
      BY <2>1, <1>a, <1>b, GrantInOrder
  <1>6. ASSUME NEW x \in Callers, Pool!Return(x) \/ Pool!Raise(x) \/ Pool!CancelRunning(x)
        PROVE  Pool!Before(d, c)
    <2>1. Pool!Grant([poolPc EXCEPT ![x] = "idle"], value + 1, 1)
      BY <1>6 DEF Pool!Return, Pool!Raise, Pool!CancelRunning
    <2>2. QED
      BY <2>1, <1>a, <1>b, GrantInOrder
  <1>7. ASSUME NEW x \in Callers, Pool!CancelWaiting(x) PROVE Pool!Before(d, c)
    <2> DEFINE v == IF poolPc[x] = "granted" THEN value + 1 ELSE value
    <2>1. Pool!Grant([poolPc EXCEPT ![x] = "idle"], v, Len(waiters))
      BY <1>7 DEF Pool!CancelWaiting, Pool!WakesAll
    <2>2. v \in Nat
      BY <1>b
    <2> HIDE DEF v
    <2>3. QED
      BY <2>1, <2>2, <1>a, <1>b, GrantInOrder
  <1>8. ASSUME NEW x \in Delegates, Pool!DelegateStart(x) \/ Pool!DelegateEnd(x) PROVE FALSE
    <2>1. poolPc'[d] = poolPc[d]
      BY <1>8, <1>a DEF Pool!DelegateStart, Pool!DelegateEnd, PoolTypes, PoolConstants
    <2>2. QED
      BY <2>1 DEF Overtakes
  <1>9. QED
    BY <1>2, <1>3, <1>4, <1>5, <1>6, <1>7, <1>8 DEF Pool!Next, Pool!Progress

LEMMA PoolSteps == [Next]_vars => [Pool!Next]_poolVars
  BY DEF Next, vars, poolVars

(* However callers come, are cancelled and fail, the pool of AgentPool.execute    *)
(* (src/orchestrator/concurrency.py) keeps every permit, leaves none idle while   *)
(* somebody waits, counts no more waiters than there are and serves them in the   *)
(* order in which they came, for every number of callers and every limit.          *)
THEOREM PermitsAreAccounted == Spec => PermitsAccounted
  <1>1. PoolConstants
    BY ExecutionAssumption, PoolConstantsHold
  <1>2. Init => PoolInv
    BY <1>1, PoolInit DEF Init
  <1>3. PoolInv /\ [Next]_vars => PoolInv'
    BY <1>1, PoolStep, PoolSteps
  <1>4. PoolInv => /\ Pool!TypeOK /\ Pool!PermitsConserved /\ Pool!NoIdlePermit
                   /\ Pool!LineIsWaiting /\ Pool!QueuedNeverOvercounts
    BY <1>1, PoolInvAccounts
  <1>5. PoolInv /\ [Next]_vars
          => [\A c, d \in Callers :
                /\ poolPc[c] = "waiting" /\ poolPc'[c] = "waiting"
                /\ poolPc[d] \in {"idle", "logging", "waiting"} /\ poolPc'[d] \in {"granted", "running"}
                => Pool!Before(d, c)]_poolVars
    <2> SUFFICES ASSUME PoolInv, Pool!Next
                 PROVE  \A c, d \in Callers : Overtakes(d, c) => Pool!Before(d, c)
      BY PoolSteps DEF Overtakes
    <2> QED
      BY <1>1, PoolServesInOrder
  <1>6. QED
    BY <1>2, <1>3, <1>4, <1>5, PTL DEF Spec, PermitsAccounted, Pool!FirstComeFirstServed,
                                       Pool!vars, poolVars
=============================================================================
