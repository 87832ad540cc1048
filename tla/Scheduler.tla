------------------------------ MODULE Scheduler ------------------------------
(***************************************************************************)
(* Cron jobs: the worker loop (src/scheduler/worker.py), the rows of        *)
(* cron_jobs (src/scheduler/store.py) and the administration routes that    *)
(* change them while a tick is under way (src/api/routes.py).               *)
(*                                                                          *)
(* A tick reads the due jobs once and then runs them one after the other,   *)
(* in no particular order, each for as long as its agent takes.             *)
(***************************************************************************)
EXTENDS Integers, FiniteSets

CONSTANTS Jobs,       \* names of jobs
          Poison,     \* jobs whose execution always raises (unknown agent)
          Period,     \* every schedule fires at the multiples of Period
          MaxTime,    \* bound: last instant of the clock
          MaxCreates, \* bound: jobs created
          MaxFaults,  \* bound: failed database calls and process crashes
          MaxCounted  \* bound: runs of one slot that are told apart

SchedulerAssumption ==
  /\ Poison \subseteq Jobs
  /\ Period \in Nat \ {0}
  /\ {MaxTime, MaxCreates, MaxFaults, MaxCounted} \subseteq Nat

Ids   == 1 .. MaxCreates
Slots == 0 .. MaxTime + Period

\* What a tick keeps of a row; id 0 stands for no row.
Snapshots == [job : Jobs, id : Ids, slot : Slots]
None      == [job |-> "none", id |-> 0, slot |-> 0]

VARIABLES
  now,     \* the clock
  row,     \* cron_jobs, by name
  created, \* ids given out
  worker,  \* where the worker is
  due,     \* due jobs of the present tick it has not come to
  job,     \* the job it is at
  runs,    \* history: executions started, by row and slot
  faults   \* faults so far

vars == <<now, row, created, worker, due, job, runs, faults>>

WorkerPc == {"sleeping", "choosing", "firing", "running", "reporting", "marking", "failing"}

\* croniter.get_next: the first instant of the schedule after now.
NextSlot == (now \div Period + 1) * Period

Absent == [id |-> 0, active |-> FALSE, next |-> 0]

Init ==
  /\ now = 0 /\ row = [j \in Jobs |-> Absent] /\ created = 0
  /\ worker = "sleeping" /\ due = {} /\ job = None
  /\ runs = [i \in Ids |-> [s \in Slots |-> 0]]
  /\ faults = 0

-----------------------------------------------------------------------------
(* The routes. *)

\* next_run_at is computed when the job is created ...
Create(j, a) ==
  /\ row[j].id = 0 /\ created < MaxCreates
  /\ created' = created + 1
  /\ row' = [row EXCEPT ![j] = [id |-> created + 1, active |-> a, next |-> NextSlot]]
  /\ UNCHANGED <<now, worker, due, job, runs, faults>>

Delete(j) ==
  /\ row[j].id # 0
  /\ row' = [row EXCEPT ![j] = Absent]
  /\ UNCHANGED <<now, created, worker, due, job, runs, faults>>

\* ... and again when it is switched on.
Toggle(j, a) ==
  /\ row[j].id # 0
  /\ row' = [row EXCEPT ![j].active = a, ![j].next = IF a THEN NextSlot ELSE @]
  /\ UNCHANGED <<now, created, worker, due, job, runs, faults>>

-----------------------------------------------------------------------------
(* The worker. *)

IsDue(j) == row[j].id # 0 /\ row[j].active /\ row[j].next <= now

Fetch ==
  /\ worker = "sleeping"
  /\ due' = {[job |-> j, id |-> row[j].id, slot |-> row[j].next] : j \in {k \in Jobs : IsDue(k)}}
  /\ worker' = "choosing"
  /\ UNCHANGED <<now, row, created, job, runs, faults>>

TickEnds ==
  /\ worker = "choosing" /\ due = {}
  /\ worker' = "sleeping"
  /\ UNCHANGED <<now, row, created, due, job, runs, faults>>

\* The next job of the list; CRON_FIRED is being logged.
Pick(d) ==
  /\ worker = "choosing" /\ d \in due
  /\ job' = d
  /\ due' = due \ {d}
  /\ worker' = "firing"
  /\ UNCHANGED <<now, row, created, runs, faults>>

Counted(n) == IF n < MaxCounted THEN n + 1 ELSE n

\* The execution is handed to the agent pool.
Start ==
  /\ worker = "firing"
  /\ worker' = "running"
  /\ runs' = [runs EXCEPT ![job.id][job.slot] = Counted(@)]
  /\ UNCHANGED <<now, row, created, due, job, faults>>

\* The agent returns, with whatever status.
Return ==
  /\ worker = "running" /\ job.job \notin Poison
  /\ worker' = "reporting"
  /\ UNCHANGED <<now, row, created, due, job, runs, faults>>

Raise ==
  /\ worker = "running" /\ job.job \in Poison
  /\ worker' = "failing"
  /\ UNCHANGED <<now, row, created, due, job, runs, faults>>

\* CRON_COMPLETED is logged and the result sent; a failure to send is swallowed.
Report ==
  /\ worker = "reporting"
  /\ worker' = "marking"
  /\ UNCHANGED <<now, row, created, due, job, runs, faults>>

\* Mutant: the list is given up with the job that failed.
DropsList == {}

RestOfList == due

\* CRON_FAILED is logged; the row is left as it was.
LogFailure ==
  /\ worker = "failing"
  /\ worker' = "choosing"
  /\ job' = None
  /\ due' = RestOfList
  /\ UNCHANGED <<now, row, created, runs, faults>>

\* An exception leaves the tick; the loop logs it and sleeps.
TickAborts == worker' = "sleeping" /\ due' = {} /\ job' = None

RowRemains == row[job.job].id = job.id

\* Mutant: the new slot is computed but not committed.
Unmarked == row

Marked == [row EXCEPT ![job.job].next = NextSlot]

\* mark_executed.
Mark ==
  /\ worker = "marking" /\ RowRemains
  /\ row' = Marked
  /\ worker' = "choosing" /\ job' = None
  /\ UNCHANGED <<now, created, due, runs, faults>>

\* The row is gone: the update matches none, and after the roll back job.name,
\* which the handler reads, cannot be loaded either.
MarkDeleted ==
  /\ worker = "marking" /\ ~RowRemains
  /\ TickAborts
  /\ UNCHANGED <<now, row, created, runs, faults>>

Fault == faults < MaxFaults /\ faults' = faults + 1

\* The execution fails, or an audit record before or after it.
JobFails ==
  /\ Fault
  /\ worker \in {"firing", "running", "reporting"}
  /\ worker' = "failing"
  /\ UNCHANGED <<now, row, created, due, job, runs>>

\* The same outside the try, in its handler, in the update; or a restart.
TickFails ==
  /\ Fault
  /\ worker # "sleeping"
  /\ TickAborts
  /\ UNCHANGED <<now, row, created, runs>>

Tick ==
  /\ now < MaxTime
  /\ now' = now + 1
  /\ UNCHANGED <<row, created, worker, due, job, runs, faults>>

Admin  == \E j \in Jobs : Delete(j) \/ \E a \in BOOLEAN : Create(j, a) \/ Toggle(j, a)
Worker == \/ Fetch \/ TickEnds \/ (\E d \in due : Pick(d)) \/ Start \/ Return \/ Raise
          \/ Report \/ LogFailure \/ Mark \/ MarkDeleted
Next   == Admin \/ Worker \/ JobFails \/ TickFails \/ Tick

Spec == Init /\ [][Next]_vars

\* The worker task goes on as long as the process lives, and agents return.
FairSpec == Spec /\ WF_vars(Worker)

-----------------------------------------------------------------------------
TypeOK ==
  /\ now \in 0 .. MaxTime
  /\ row \in [Jobs -> [id : {0} \cup Ids, active : BOOLEAN, next : Slots]]
  /\ \A j, k \in Jobs : row[j].id # 0 /\ row[j].id = row[k].id => j = k
  /\ created \in 0 .. MaxCreates
  /\ worker \in WorkerPc
  /\ due \subseteq Snapshots
  /\ job \in Snapshots \cup {None}
  /\ worker \in {"firing", "running", "reporting", "marking", "failing"} <=> job # None
  /\ runs \in [Ids -> [Slots -> 0 .. MaxCounted]]
  /\ faults \in 0 .. MaxFaults

Healthy == {j \in Jobs \ Poison : row[j].id # 0}

\* What the tick still holds, and what of it has not been started.
Held    == due \cup ({job} \ {None})
Waiting == due \cup (IF worker = "firing" THEN {job} ELSE {})

\* A row's id is its own, and given out: snapshots of a deleted row never speak of the
\* row that took its name.
HeldIsNamed ==
  /\ \A j \in Jobs : row[j].id <= created
  /\ \A d \in Held : d.id <= created /\ \A j \in Jobs : row[j].id = d.id => j = d.job
  /\ \A d, e \in Held : d.id = e.id => d = e
  /\ job \notin due

\* A held slot has come, and the row has at most moved on from it; the row offers no
\* slot beyond the next one.
HeldIsDue ==
  /\ \A d \in Held : d.slot <= now /\ (row[d.job].id = d.id => d.slot <= row[d.job].next)
  /\ \A j \in Jobs : row[j].id # 0 => row[j].next <= NextSlot

\* The slot is being run and the row not yet marked.
UnderWay(i, s) == job.id = i /\ job.slot = s /\ worker \in {"running", "reporting", "marking"}

\* A slot that is offered or waits to be started was run before only if a fault
\* intervened, one that is still to come never.
RunsAreMarked ==
  /\ \A i \in Ids : i > created => \A s \in Slots : runs[i][s] = 0
  /\ \A j \in Healthy, s \in Slots :
       /\ s > row[j].next => runs[row[j].id][s] = 0
       /\ s = row[j].next /\ ~UnderWay(row[j].id, s) => runs[row[j].id][s] <= faults
  /\ \A d \in Waiting : d.job \notin Poison => runs[d.id][d.slot] <= faults

\* However long a run takes and whatever is created, deleted or switched in the
\* meantime, a slot of a job is run once, and once more per fault.
OncePerSlot ==
  \A j \in Healthy, s \in Slots : runs[row[j].id][s] <= 1 + faults

\* Slots that passed during a long run are not made up for in a burst: without
\* a fault the row never again offers a slot that was run, except while that run
\* is not marked yet.
MovesPastRunSlot ==
  \A j \in Healthy :
    runs[row[j].id][row[j].next] > 0 /\ faults = 0 =>
      job # None /\ job.id = row[j].id /\ job.slot = row[j].next

\* A due job runs, or is deleted or switched, although others raise in every
\* tick and ticks are aborted.
DueJobHandled ==
  \A j \in Jobs \ Poison : IsDue(j) ~> ~IsDue(j)

-----------------------------------------------------------------------------
(* What the repository says and the code does not do. *)

\* DOCUMENTATION.md:527, "Enable/disable": a job that is disabled or deleted
\* is not started.
StartsOnlyEnabled ==
  [][worker = "firing" /\ worker' = "running" => RowRemains /\ row[job.job].active]_vars

\* DOCUMENTATION.md:490, "run automatically on a cron expression": one run for
\* each instant of the schedule, as long as no fault intervenes.
RunsOnSchedule ==
  faults = 0 => \A i \in Ids, s \in Slots : runs[i][s] <= 1
=============================================================================
