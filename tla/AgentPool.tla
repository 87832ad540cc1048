------------------------------ MODULE AgentPool ------------------------------
(***************************************************************************)
(* The pool that bounds the parallel executions of one agent type           *)
(* (src/orchestrator/concurrency.py): an asyncio.Semaphore, and the counter *)
(* that GET /status reports as "queued".  Agent types share nothing, so one *)
(* type is modelled.  The semaphore is Python 3.12's.                       *)
(***************************************************************************)
EXTENDS Integers, Sequences, FiniteSets, SequencesExt, FiniteSetsExt

CONSTANTS Calls,     \* callers of AgentPool.execute
          Delegates, \* callers of execute_agent that go around the pool
          Hanging,   \* those whose execution may never end: a tool has no timeout
          Limit,     \* value of the semaphore
          MaxFaults  \* bound: failed audit inserts and cancellations

PoolAssumption ==
  /\ IsFiniteSet(Calls) /\ Calls \cap Delegates = {}
  /\ Limit \in Nat \ {0} /\ MaxFaults \in Nat

VARIABLES
  pc,      \* where each caller is
  value,   \* Semaphore._value
  waiters, \* Semaphore._waiters, a future that was set included
  queued,  \* AgentPool._queued of this type
  faults

vars == <<pc, value, waiters, queued, faults>>

Pc == {"idle", "logging", "waiting", "granted", "running"}

At(p) == {c \in Calls : pc[c] = p}
Running == At("running")

Init == /\ pc = [c \in Calls \cup Delegates |-> "idle"]
        /\ value = Limit /\ waiters = <<>> /\ queued = 0 /\ faults = 0

-----------------------------------------------------------------------------
(* asyncio.Semaphore *)


Locked == value = 0 \/ waiters # <<>>

\* d stands before c in the line.
Before(d, c) == \E i, j \in DOMAIN waiters : i < j /\ waiters[i] = d /\ waiters[j] = c

\* With v permits free, hands at most k of them to the waiters that sleep, oldest
\* first.  p is the program counter of the callers so far.
Grant(p, v, k) ==
  LET asleep == {c \in Calls : p[c] = "waiting"}
      n      == Min({v, k, Cardinality(asleep)})
  IN  \E woken \in SUBSET asleep :
        /\ Cardinality(woken) = n
        /\ \A c \in woken, d \in asleep \ woken : Before(c, d)
        /\ pc'    = [c \in DOMAIN p |-> IF c \in woken THEN "granted" ELSE p[c]]
        /\ value' = v - n

\* A caller leaves the line, wherever it stands.
LeaveLine(c) == \E i \in DOMAIN waiters : waiters[i] = c /\ waiters' = RemoveAt(waiters, i)

\* Mutant: a caller that was woken does not pass the free permits on.
WakesNobody == 0

\* A caller that leaves the line wakes as many others as there are permits.
WakesAll == Len(waiters)

-----------------------------------------------------------------------------
(* AgentPool.execute *)

\* Every caller that enters takes one off the counter, whether it put one on or
\* not.
Entered(q) == Max({0, q - 1})

\* Not locked: the semaphore is taken without leaving the event loop.
ExecuteNow(c) ==
  /\ pc[c] = "idle" /\ ~Locked
  /\ pc'     = [pc EXCEPT ![c] = "running"]
  /\ value'  = value - 1
  /\ queued' = Entered(queued)
  /\ UNCHANGED <<waiters, faults>>

\* Locked: counted as queued, then the audit row is written.
ExecuteQueued(c) ==
  /\ pc[c] = "idle" /\ Locked
  /\ pc'     = [pc EXCEPT ![c] = "logging"]
  /\ queued' = queued + 1
  /\ UNCHANGED <<value, waiters, faults>>

\* The semaphore may have become free while the row was written.
Logged(c) ==
  /\ pc[c] = "logging"
  /\ IF Locked
     THEN /\ pc' = [pc EXCEPT ![c] = "waiting"]
          /\ waiters' = Append(waiters, c)
          /\ UNCHANGED <<value, queued>>
     ELSE /\ pc' = [pc EXCEPT ![c] = "running"]
          /\ value' = value - 1
          /\ queued' = Entered(queued)
          /\ UNCHANGED waiters
  /\ UNCHANGED faults

\* The audit insert raises, or the caller is cancelled in it: outside the try.
LogFails(c) ==
  /\ pc[c] = "logging" /\ faults < MaxFaults
  /\ pc' = [pc EXCEPT ![c] = "idle"]
  /\ faults' = faults + 1
  /\ UNCHANGED <<value, waiters, queued>>

Enter(c) ==
  /\ pc[c] = "granted"
  /\ LeaveLine(c)
  /\ Grant([pc EXCEPT ![c] = "running"], value, WakesAll)
  /\ queued' = Entered(queued)
  /\ UNCHANGED faults

\* The execution returns; release() wakes one waiter.
Return(c) ==
  /\ pc[c] = "running"
  /\ Grant([pc EXCEPT ![c] = "idle"], value + 1, 1)
  /\ UNCHANGED <<waiters, queued, faults>>

\* execute_agent raises: the counter is decremented a second time.
Raise(c) ==
  /\ pc[c] = "running"
  /\ Grant([pc EXCEPT ![c] = "idle"], value + 1, 1)
  /\ queued' = Entered(queued)
  /\ UNCHANGED <<waiters, faults>>

\* asyncio.CancelledError is no Exception: the counter keeps the caller.
CancelRunning(c) ==
  /\ pc[c] = "running" /\ faults < MaxFaults
  /\ Grant([pc EXCEPT ![c] = "idle"], value + 1, 1)
  /\ faults' = faults + 1
  /\ UNCHANGED <<waiters, queued>>

CancelWaiting(c) ==
  /\ pc[c] \in {"waiting", "granted"} /\ faults < MaxFaults
  /\ LeaveLine(c)
  /\ Grant([pc EXCEPT ![c] = "idle"],
           IF pc[c] = "granted" THEN value + 1 ELSE value, WakesAll)
  /\ faults' = faults + 1
  /\ UNCHANGED queued

\* delegate_to_agent and the code review chain call execute_agent directly.
DelegateStart(d) ==
  /\ pc[d] = "idle"
  /\ pc' = [pc EXCEPT ![d] = "running"]
  /\ UNCHANGED <<value, waiters, queued, faults>>

DelegateEnd(d) ==
  /\ pc[d] = "running"
  /\ pc' = [pc EXCEPT ![d] = "idle"]
  /\ UNCHANGED <<value, waiters, queued, faults>>

Progress(c) == Logged(c) \/ Enter(c) \/ Return(c) \/ Raise(c)

Next ==
  \/ \E c \in Calls : \/ ExecuteNow(c) \/ ExecuteQueued(c) \/ Progress(c)
                      \/ LogFails(c) \/ CancelRunning(c) \/ CancelWaiting(c)
  \/ \E d \in Delegates : DelegateStart(d) \/ DelegateEnd(d)

Spec == Init /\ [][Next]_vars

\* Every coroutine of the event loop runs on; some executions may hang in a tool.
GoesOn(c) == (pc[c] = "running" => c \notin Hanging) /\ Progress(c)

FairSpec == Spec /\ \A c \in Calls : WF_vars(GoesOn(c))

-----------------------------------------------------------------------------
TypeOK ==
  /\ pc \in [Calls \cup Delegates -> Pc]
  /\ value \in 0 .. Limit
  /\ waiters \in Seq(Calls)
  /\ queued \in 0 .. (Cardinality(Calls) + MaxFaults)
  /\ faults \in 0 .. MaxFaults

\* Every permit is free, running, or on its way to a woken waiter: none is lost
\* or made up, whoever is cancelled when.
PermitsConserved ==
  value + Cardinality(Running) + Cardinality(At("granted")) = Limit

\* A free permit never stays with the semaphore while somebody waits, unless a
\* woken waiter is about to pass it on.
NoIdlePermit == value > 0 /\ At("waiting") # {} => At("granted") # {}

\* Why: the line is made of the callers that wait and of those that were woken but
\* have not run since, each of them once.
LineIsWaiting ==
  /\ \A i, j \in DOMAIN waiters : waiters[i] = waiters[j] => i = j
  /\ Range(waiters) = At("waiting") \cup At("granted")

\* Nobody overtakes a caller that is waiting: neither one behind it in the line
\* nor one that has just come.
FirstComeFirstServed ==
  [][\A c, d \in Calls :
       /\ pc[c] = "waiting" /\ pc'[c] = "waiting"
       /\ pc[d] \in {"idle", "logging", "waiting"} /\ pc'[d] \in {"granted", "running"}
       => Before(d, c)]_vars

Queuing == At("logging") \cup At("waiting") \cup At("granted")

\* The reported counter exceeds the callers that wait by no more than the
\* cancellations and failed audit inserts.  (It may fall below: see Entered and Raise.)
QueuedNeverOvercounts == queued <= Cardinality(Queuing) + faults

\* Whoever queues up runs in the end or is cancelled, as long as fewer executions hang
\* than there are permits: one that hangs costs its own permit and no other.
WaiterRuns ==
  Cardinality(Hanging) < Limit
    => \A c \in Calls : pc[c] = "waiting" ~> pc[c] \in {"running", "idle"}

-----------------------------------------------------------------------------
(* What the repository says and the code does not do. *)

\* DOCUMENTATION.md:205, "Each agent type has a semaphore limiting parallel
\* executions": no more than Limit executions run at once.
ExecutionsLimited ==
  Cardinality({c \in Calls \cup Delegates : pc[c] = "running"}) <= Limit
=============================================================================
