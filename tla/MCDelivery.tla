------------------------------ MODULE MCDelivery ------------------------------
(***************************************************************************)
(* The signal queue for model checking, alone (scope "queue") and with the   *)
(* orchestrator that processes its signals (scope "delivery"), from the      *)
(* webhook's XADD to the answer, the agents and the approvals.  The worker    *)
(* awaits process() for one signal at a time; the process dies with all of   *)
(* it, and Redis and Postgres remain.                                         *)
(***************************************************************************)
EXTENDS SignalQueue

CONSTANTS JointSignals, JointFaults,   \* bounds in scope "delivery"
          MaxSteps, MaxPosts, MaxKills, MaxMoves,
          Scopes                       \* what this run is about

VARIABLES
  scope,
  pc, out, target, risky, steps, approval, posts, granted, looking, cleared, handed,
  inbox, read, daemon, killed, before, late, passes, kills, moves, coreFaults

coreVars == <<pc, out, target, risky, steps, approval, posts, granted, looking, cleared,
              handed, inbox, read, daemon, killed, before, late, passes, kills, moves,
              coreFaults>>
bothVars == <<vars, coreVars>>

Accepted == 1 .. JointSignals

Core == INSTANCE Orchestrator
          WITH Signals <- Accepted, faults <- coreFaults, MaxFaults <- JointFaults

ASSUME DeliveryAssumption ==
  /\ JointSignals \in 0 .. MaxSignals /\ JointFaults \in 0 .. MaxFaults
  /\ Core!OrchestratorAssumption

DeliveryInit == scope \in Scopes /\ Init /\ Core!Init

-----------------------------------------------------------------------------
\* The signal that is being processed.
InHand(s) == worker = "processing" /\ s = Head(batch)

\* The status of the dictionary that process() returns.
Status(s) == CASE out[s] \in {"halted", "stopped"} -> "halted"
               [] out[s] \in {"error", "failed"}   -> "error"
               [] OTHER                            -> "ok"

Accepts == sent < JointSignals /\ EnqueueSignal /\ UNCHANGED coreVars

\* The await of process(): its steps, its return and its exception, which leaves the
\* worker's loop.
Processes(s) ==
  /\ InHand(s)
  /\ Core!Receive(s) \/ (pc[s] # "answering" /\ Core!Process(s))
  /\ UNCHANGED vars

Returns(s) == InHand(s) /\ Core!Answer(s) /\ ProcessReturns(Status(s))

Raises(s) == InHand(s) /\ Core!Raise(s) /\ WorkerFails

\* A signal that cannot be read as one, or a failure of XACK or XDEL.
FailsAround ==
  /\ worker = "processing" => pc[Head(batch)] = "new"
  /\ faults < JointFaults /\ WorkerFails /\ UNCHANGED coreVars

GoesOn == (Dequeue \/ AckSignal \/ DeleteSignal \/ Resume) /\ UNCHANGED coreVars

Dies == Restart /\ Core!Crash

\* The approval route, the daemon and the administrators.
Others == \/ \E s \in Accepted : \/ Core!Granted(s) \/ Core!ReadMail(s)
                                 \/ \E v \in {"approved", "rejected"} : Core!Resolve(s, v)
          \/ Core!MoveDaemon \/ Core!DaemonEnds \/ Core!Kill \/ Core!Resume

Delivery == \/ Accepts \/ GoesOn \/ FailsAround \/ Dies
            \/ \E s \in Accepted : Processes(s) \/ Returns(s) \/ Raises(s)
            \/ Others /\ UNCHANGED vars

DeliveryNext ==
  /\ UNCHANGED scope
  /\ \/ scope = "queue" /\ Next /\ UNCHANGED coreVars
     \/ scope = "delivery" /\ Delivery

DeliverySpec == DeliveryInit /\ [][DeliveryNext]_<<scope, bothVars>>

\* The worker runs on, and what it awaits does; nobody has to resolve, kill or resume.
WorkerRuns ==
  \/ scope = "queue" /\ Worker /\ UNCHANGED coreVars
  \/ scope = "delivery" /\ (GoesOn \/ \E s \in Accepted : Processes(s) \/ Returns(s))

DeliveryFairSpec == DeliverySpec /\ WF_bothVars(WorkerRuns)

-----------------------------------------------------------------------------
\* Why: a signal is in process() only while the worker holds it first, is new as long
\* as it waits for the worker, and has a result when process() answered it.
Linked ==
  /\ Core!IInv
  /\ sent <= JointSignals
  /\ \A s \in Accepted :
       /\ pc[s] \notin {"new", "answered"} => InHand(s)
       /\ s > delivered \/ (\E i \in 2 .. Len(batch) : s = batch[i]) => pc[s] = "new"
       /\ result[s] # "none" => pc[s] = "answered" /\ out[s] # "raised"
       /\ out[s] = "raised" => pc[s] = "answered"

\* From the webhook to the agent: no signal reaches process() a second time, also not
\* after an exception or a restart, so that its work is handed on once; and one that was
\* deleted was answered by process(), whose answer is still true (main.py:154-157).
DeliveryAccounted ==
  scope = "delivery" =>
    /\ worker = "processing" => pc[Head(batch)] # "answered"
    /\ \A s \in 1 .. sent : s \notin stream => pc[s] = "answered" /\ out[s] # "raised"
    /\ \A s \in Stranded : pc[s] = "new" \/ out[s] = "raised"
    /\ Core!HandedOnce /\ Core!AnswerTellsFate /\ Core!HaltBoundsWork
    /\ Linked

\* SignalsMoveOn now says that the queue moves on behind a process() that waits for the
\* LLM, an agent or the inbox, in whatever state kill switch and daemon are; with
\* DeliveryAccounted, that every accepted signal is answered.
=============================================================================
