---------------------------- MODULE WorkersProofs ----------------------------
(***************************************************************************)
(* Theorems about the background tasks of src/main.py, the scheduler, the   *)
(* Telegram polling, the security auditor and the reindexing of the runbooks *)
(* with its chunker, for every value of the constants.                      *)
(*                                                                          *)
(* Scheduler: CronInv relates the snapshots a tick holds to the rows they   *)
(* were taken from, which the routes change meanwhile, and counts the runs  *)
(* of a slot against the faults.  Polling: PollInv says that the worker     *)
(* holds a run of consecutive updates and is through with what precedes its *)
(* offset; an update is begun (Turns) or the worker is idle (Settles).      *)
(* Auditor: AuditInv says of every past instant that a burst since then is  *)
(* reported or that an audit is due before the worker's patience is over.   *)
(* Index: IndexInv follows each path through a pass.  Chunker: ChunkInv is  *)
(* about the chunks and the one being collected; the sums of the estimates  *)
(* are computed recursively, and that they exist and are whole numbers      *)
(* follows from the least number of a set (LeastNumber).                    *)
(***************************************************************************)
EXTENDS MCWorkers, SequenceTheorems, FiniteSetTheorems, WellFoundedInduction,
        TLAPS

-----------------------------------------------------------------------------
(* The scheduler. *)

(* The next slot of the schedule is to come, and does not move back.           *)
LEMMA NextSlotLaws ==
  ASSUME Cron!SchedulerAssumption, now \in 0 .. MaxTime
  PROVE  /\ Cron!NextSlot \in Cron!Slots
         /\ Cron!NextSlot > now
         /\ now' = now + 1 => Cron!NextSlot <= (Cron!NextSlot)'
  <1>1. MaxTime \in Nat /\ Period \in Nat \ {0} /\ now \in Nat /\ now <= MaxTime
    BY DEF Cron!SchedulerAssumption
  <1>2. \A n \in Nat, p \in Nat \ {0} :
          n \div p \in Nat /\ (n \div p) * p <= n /\ n < (n \div p + 1) * p
    OBVIOUS
  <1>3. \A n \in Nat, p \in Nat \ {0} :
          (n \div p + 1) * p \in Nat /\ (n \div p + 1) * p <= n + p /\ n < (n \div p + 1) * p
    BY <1>2
  <1>4. \A n \in Nat, p \in Nat \ {0} : (n \div p + 1) * p <= ((n + 1) \div p + 1) * p
    OBVIOUS
  <1>5. Cron!NextSlot \in Nat /\ Cron!NextSlot <= now + Period /\ Cron!NextSlot > now
    BY <1>1, <1>3 DEF Cron!NextSlot
  <1>6. ASSUME now' = now + 1
        PROVE  Cron!NextSlot <= (Cron!NextSlot)'
    BY <1>1, <1>4, <1>6 DEF Cron!NextSlot
  <1>7. QED
    BY <1>1, <1>5, <1>6 DEF Cron!Slots

(* What the types say, in the form the proofs need.                            *)
LEMMA CronTypes ==
  ASSUME Cron!SchedulerAssumption, Cron!TypeOK
  PROVE  /\ MaxTime \in Nat /\ Period \in Nat /\ MaxCreates \in Nat
         /\ JobFaults \in Nat /\ MaxCounted \in Nat
         /\ now \in Nat /\ created \in Nat /\ jobFaults \in Nat
         /\ \A j \in Jobs : /\ row[j] \in [id : {0} \cup Cron!Ids, active : BOOLEAN, next : Cron!Slots]
                          /\ row[j].id \in Nat /\ row[j].next \in Nat
         /\ \A d \in Cron!Snapshots :
              /\ d.job \in Jobs /\ d.id \in Cron!Ids /\ d.id \in Nat /\ d.id # 0
              /\ d.slot \in Cron!Slots /\ d.slot \in Nat
         /\ Cron!Held \subseteq Cron!Snapshots /\ Cron!Waiting \subseteq Cron!Held
         /\ Cron!None.id = 0 /\ Cron!None \notin Cron!Snapshots
         /\ \A i \in Cron!Ids, s \in Cron!Slots : runs[i][s] \in Nat /\ runs[i][s] <= MaxCounted
         /\ 0 \notin Cron!Ids
  <1>1. /\ MaxTime \in Nat /\ Period \in Nat /\ MaxCreates \in Nat
        /\ JobFaults \in Nat /\ MaxCounted \in Nat
    BY DEF Cron!SchedulerAssumption
  <1>2. /\ now \in Nat /\ created \in Nat /\ jobFaults \in Nat
    BY <1>1 DEF Cron!TypeOK
  <1>3. 0 \notin Cron!Ids /\ Cron!Ids \subseteq Nat /\ Cron!Slots \subseteq Nat
    BY <1>1 DEF Cron!Ids, Cron!Slots
  <1>4. \A j \in Jobs : /\ row[j] \in [id : {0} \cup Cron!Ids, active : BOOLEAN, next : Cron!Slots]
                      /\ row[j].id \in Nat /\ row[j].next \in Nat
    <2>1. row \in [Jobs -> [id : {0} \cup Cron!Ids, active : BOOLEAN, next : Cron!Slots]]
      BY DEF Cron!TypeOK
    <2>2. SUFFICES ASSUME NEW j \in Jobs
                   PROVE  /\ row[j] \in [id : {0} \cup Cron!Ids, active : BOOLEAN, next : Cron!Slots]
                          /\ row[j].id \in Nat /\ row[j].next \in Nat
      OBVIOUS
    <2>3. row[j] \in [id : {0} \cup Cron!Ids, active : BOOLEAN, next : Cron!Slots]
      BY <2>1
    <2>4. row[j].id = 0 \/ row[j].id \in Cron!Ids
      BY <2>3
    <2>5. row[j].next \in Cron!Slots
      BY <2>3
    <2>6. row[j].id \in Nat
      <3>1. CASE row[j].id = 0
        BY <3>1
      <3>2. CASE row[j].id \in Cron!Ids
        BY <1>3, <3>2
      <3>3. QED
        BY <2>4, <3>1, <3>2
    <2>7. row[j].next \in Nat
      BY <1>3, <2>5
    <2>8. QED
      BY <2>3, <2>6, <2>7, Zenon
  <1>5. \A d \in Cron!Snapshots :
          /\ d.job \in Jobs /\ d.id \in Cron!Ids /\ d.id \in Nat /\ d.id # 0
          /\ d.slot \in Cron!Slots /\ d.slot \in Nat
    BY <1>3 DEF Cron!Snapshots
  <1>6. Cron!None.id = 0 /\ Cron!None \notin Cron!Snapshots
    BY <1>3, <1>5 DEF Cron!None
  <1>7. Cron!Held \subseteq Cron!Snapshots /\ Cron!Waiting \subseteq Cron!Held
    <2>1. due \subseteq Cron!Snapshots /\ job \in Cron!Snapshots \cup {Cron!None}
      BY DEF Cron!TypeOK
    <2>2. worker = "firing" => job # Cron!None
      BY DEF Cron!TypeOK
    <2>3. QED
      BY <2>1, <2>2 DEF Cron!Held, Cron!Waiting
  <1>8. \A i \in Cron!Ids, s \in Cron!Slots : runs[i][s] \in Nat /\ runs[i][s] <= MaxCounted
    BY <1>1 DEF Cron!TypeOK
  <1>9. QED
    BY <1>1, <1>2, <1>3, <1>4, <1>5, <1>6, <1>7, <1>8

(* What a step makes of the row of a name: it is kept, or offers the next slot *)
(* from now; it is deleted; it is created under a new id.                      *)
RowKept(k) == /\ row'[k].id = row[k].id
              /\ row'[k].next \in {row[k].next, Cron!NextSlot}
RowGone(k) == row'[k].id = 0
RowMade(k) == /\ row[k].id = 0 /\ created' = created + 1 /\ created < MaxCreates
              /\ row'[k].id = created + 1 /\ row'[k].next = Cron!NextSlot
              /\ \A j \in Jobs : j # k => RowKept(j)

RowType == row \in [Jobs -> [id : {0} \cup Cron!Ids, active : BOOLEAN, next : Cron!Slots]]

(* The routes change rows only, each one of them.                              *)
LEMMA RoutesMove ==
  ASSUME Cron!SchedulerAssumption, Cron!TypeOK, Cron!Admin
  PROVE  /\ UNCHANGED <<now, worker, due, job, runs, jobFaults>>
         /\ RowType'
         /\ created' \in 0 .. MaxCreates /\ created' >= created
         /\ \A k \in Jobs : RowKept(k) \/ RowGone(k) \/ RowMade(k)
  <1>1. /\ Cron!NextSlot \in Cron!Slots /\ RowType /\ created \in Nat /\ MaxCreates \in Nat
        /\ created \in 0 .. MaxCreates
    BY NextSlotLaws, CronTypes DEF Cron!TypeOK, RowType
  <1>2. PICK j \in Jobs : Cron!Delete(j) \/ \E a \in BOOLEAN : Cron!Create(j, a) \/ Cron!Toggle(j, a)
    BY DEF Cron!Admin
  <1>3. CASE Cron!Delete(j)
    <2>1. /\ row' = [row EXCEPT ![j] = Cron!Absent] /\ created' = created
          /\ UNCHANGED <<now, worker, due, job, runs, jobFaults>>
      BY <1>3 DEF Cron!Delete
    <2>2. Cron!Absent \in [id : {0} \cup Cron!Ids, active : BOOLEAN, next : Cron!Slots]
      BY <1>1, CronTypes DEF Cron!Absent, Cron!Slots
    <2>3. QED
      BY <1>1, <2>1, <2>2 DEF RowKept, RowGone, RowType, Cron!Absent
  <1>4. ASSUME NEW a \in BOOLEAN, Cron!Create(j, a)
        PROVE  /\ UNCHANGED <<now, worker, due, job, runs, jobFaults>>
               /\ RowType'
               /\ created' \in 0 .. MaxCreates /\ created' >= created
               /\ \A k \in Jobs : RowKept(k) \/ RowGone(k) \/ RowMade(k)
    <2> DEFINE new == [id |-> created + 1, active |-> a, next |-> Cron!NextSlot]
    <2>1. /\ row' = [row EXCEPT ![j] = new] /\ created' = created + 1 /\ row[j].id = 0
          /\ created < MaxCreates
          /\ UNCHANGED <<now, worker, due, job, runs, jobFaults>>
      BY <1>4 DEF Cron!Create
    <2>2. created + 1 \in Cron!Ids /\ created' \in 0 .. MaxCreates /\ created' >= created
      BY <1>1, <2>1 DEF Cron!Ids
    <2>3. new \in [id : {0} \cup Cron!Ids, active : BOOLEAN, next : Cron!Slots]
      BY <1>1, <2>2
    <2>4. \A k \in Jobs : k # j => row'[k] = row[k]
      BY <1>1, <2>1 DEF RowType
    <2>5. row'[j] = new
      BY <1>1, <2>1 DEF RowType
    <2>6. RowMade(j)
      BY <2>1, <2>4, <2>5 DEF RowMade, RowKept
    <2>7. RowType'
      BY <1>1, <2>1, <2>3 DEF RowType
    <2>8. \A k \in Jobs : RowKept(k) \/ RowGone(k) \/ RowMade(k)
      BY <2>4, <2>6 DEF RowKept
    <2>9. QED
      BY <2>1, <2>2, <2>7, <2>8
  <1>5. ASSUME NEW a \in BOOLEAN, Cron!Toggle(j, a)
        PROVE  /\ UNCHANGED <<now, worker, due, job, runs, jobFaults>>
               /\ RowType'
               /\ created' \in 0 .. MaxCreates /\ created' >= created
               /\ \A k \in Jobs : RowKept(k) \/ RowGone(k) \/ RowMade(k)
    <2> DEFINE to == IF a THEN Cron!NextSlot ELSE row[j].next
    <2>1. /\ row' = [row EXCEPT ![j].active = a, ![j].next = to] /\ created' = created
          /\ UNCHANGED <<now, worker, due, job, runs, jobFaults>>
      BY <1>5 DEF Cron!Toggle
    <2>2. to \in Cron!Slots /\ to \in {row[j].next, Cron!NextSlot}
      BY <1>1 DEF RowType
    <2> HIDE DEF to
    <2>3. /\ \A k \in Jobs : k # j => row'[k] = row[k]
          /\ row'[j].id = row[j].id /\ row'[j].next = to
          /\ RowType'
      BY <1>1, <2>1, <2>2 DEF RowType
    <2>4. \A k \in Jobs : RowKept(k)
      BY <2>2, <2>3 DEF RowKept
    <2>5. created' \in 0 .. MaxCreates /\ created' >= created
      BY <1>1, <2>1
    <2>6. QED
      BY <2>1, <2>3, <2>4, <2>5
  <1>6. QED
    BY <1>2, <1>3, <1>4, <1>5

(* The worker changes the row of its job only, and only when it marks it.      *)
LEMMA WorkerMovesRows ==
  ASSUME Cron!SchedulerAssumption, Cron!TypeOK,
         Cron!Worker \/ Cron!JobFails \/ Cron!TickFails \/ Cron!Tick
  PROVE  /\ RowType' /\ created' = created
         /\ \A k \in Jobs : RowKept(k)
         /\ ~Cron!Mark => row' = row
         /\ Cron!Mark => /\ job \in Cron!Snapshots /\ row[job.job].id = job.id
                         /\ row'[job.job].next = Cron!NextSlot
                         /\ \A k \in Jobs : k # job.job => row'[k] = row[k]
  <1>1. Cron!NextSlot \in Cron!Slots /\ RowType
    BY NextSlotLaws, CronTypes DEF Cron!TypeOK, RowType
  <1>2. CASE Cron!Mark
    <2>1. /\ row' = [row EXCEPT ![job.job].next = Cron!NextSlot] /\ created' = created
          /\ row[job.job].id = job.id /\ worker = "marking"
      BY <1>2 DEF Cron!Mark, Cron!Marked, Cron!RowRemains
    <2>2. job \in Cron!Snapshots /\ job.job \in Jobs
      BY <2>1, CronTypes DEF Cron!TypeOK
    <2>3. /\ RowType'
          /\ row'[job.job].id = row[job.job].id /\ row'[job.job].next = Cron!NextSlot
          /\ \A k \in Jobs : k # job.job => row'[k] = row[k]
      BY <1>1, <2>1, <2>2 DEF RowType
    <2>4. QED
      BY <1>2, <2>1, <2>2, <2>3 DEF RowKept
  <1>3. CASE ~Cron!Mark
    <2>1. row' = row /\ created' = created
      BY <1>3 DEF Cron!Worker, Cron!JobFails, Cron!TickFails, Cron!Tick, Cron!Fetch, Cron!TickEnds, Cron!Pick,
                  Cron!Start, Cron!Return, Cron!Raise, Cron!Report, Cron!LogFailure, Cron!MarkDeleted
    <2>2. QED
      BY <1>1, <1>3, <2>1 DEF RowKept, RowType
  <1>4. QED
    BY <1>2, <1>3

(* What a tick holds: only Fetch adds to it.                                   *)
LEMMA HeldMoves ==
  ASSUME Cron!SchedulerAssumption, Cron!TypeOK,
         Cron!Worker \/ Cron!JobFails \/ Cron!TickFails \/ Cron!Tick
  PROVE  /\ due' \subseteq Cron!Snapshots /\ job' \in Cron!Snapshots \cup {Cron!None}
         /\ worker' \in Cron!WorkerPc
         /\ worker' \in {"firing", "running", "reporting", "marking", "failing"} <=> job' # Cron!None
         /\ ~Cron!Fetch => /\ Cron!Held' \subseteq Cron!Held /\ Cron!Waiting' \subseteq Cron!Waiting
                           /\ (job \notin due => job' \notin due')
         /\ Cron!Fetch => /\ Cron!Held' = due' /\ Cron!Waiting' = due' /\ job' = Cron!None
                          /\ due' = {[job |-> j, id |-> row[j].id, slot |-> row[j].next] :
                                       j \in {k \in Jobs : Cron!IsDue(k)}}
                          /\ UNCHANGED <<now, row, created, job, runs, jobFaults>>
         /\ ~Cron!Tick => now' = now
  <1> DEFINE Busy == {"firing", "running", "reporting", "marking", "failing"}
  <1>1. /\ due \subseteq Cron!Snapshots /\ job \in Cron!Snapshots \cup {Cron!None}
        /\ worker \in Cron!WorkerPc
        /\ worker \in Busy <=> job # Cron!None
    BY DEF Cron!TypeOK
  <1>2. /\ Cron!None \notin Cron!Snapshots
        /\ \A j \in Jobs : row[j] \in [id : {0} \cup Cron!Ids, active : BOOLEAN, next : Cron!Slots]
    BY CronTypes
  <1>3. CASE Cron!Fetch
    <2>1. /\ worker = "sleeping" /\ worker' = "choosing" /\ job' = Cron!None /\ job = Cron!None
          /\ due' = {[job |-> j, id |-> row[j].id, slot |-> row[j].next] :
                       j \in {k \in Jobs : Cron!IsDue(k)}}
          /\ UNCHANGED <<now, row, created, job, runs, jobFaults>>
      BY <1>1, <1>3 DEF Cron!Fetch
    <2>2. due' \subseteq Cron!Snapshots
      <3>1. ASSUME NEW j \in Jobs, Cron!IsDue(j)
            PROVE  [job |-> j, id |-> row[j].id, slot |-> row[j].next] \in Cron!Snapshots
        <4>1. row[j].id \in Cron!Ids /\ row[j].next \in Cron!Slots
          BY <1>2, <3>1 DEF Cron!IsDue
        <4>2. QED
          BY <4>1 DEF Cron!Snapshots
      <3>2. QED
        BY <2>1, <3>1
    <2>3. Cron!Held' = due' /\ Cron!Waiting' = due'
      BY <2>1 DEF Cron!Held, Cron!Waiting
    <2>4. ~Cron!Tick
      BY <2>1 DEF Cron!Tick
    <2>5. worker' \in Cron!WorkerPc /\ worker' \notin Busy
      BY <2>1 DEF Cron!WorkerPc
    <2>6. QED
      BY <1>3, <2>1, <2>2, <2>3, <2>4, <2>5
  <1>4. CASE \E d \in due : Cron!Pick(d)
    <2>1. PICK d \in due : Cron!Pick(d)
      BY <1>4
    <2>2. /\ worker = "choosing" /\ worker' = "firing" /\ job' = d /\ due' = due \ {d} /\ now' = now
          /\ job = Cron!None /\ d # Cron!None /\ d \in Cron!Snapshots
      BY <1>1, <1>2, <2>1 DEF Cron!Pick
    <2>3. Cron!Held' = Cron!Held /\ Cron!Waiting' = Cron!Waiting
      BY <2>2 DEF Cron!Held, Cron!Waiting
    <2>4. ~Cron!Fetch
      BY <2>2 DEF Cron!Fetch
    <2>5. worker' \in Cron!WorkerPc /\ worker' \in Busy
      BY <2>2 DEF Cron!WorkerPc
    <2>6. due' \subseteq Cron!Snapshots /\ job' \notin due' /\ job' \in Cron!Snapshots /\ ~Cron!Tick
      BY <1>1, <2>2 DEF Cron!Tick
    <2>7. worker' \in Busy <=> job' # Cron!None
      BY <2>2, <2>5
    <2>8. QED
      BY <2>2, <2>3, <2>4, <2>5, <2>6, <2>7, Zenon
  <1>5. CASE Cron!Start \/ Cron!Return \/ Cron!Raise \/ Cron!Report \/ Cron!JobFails
    <2>1. /\ due' = due /\ job' = job /\ now' = now /\ worker \in Busy /\ worker' \in Busy \ {"firing"}
      BY <1>5 DEF Cron!Start, Cron!Return, Cron!Raise, Cron!Report, Cron!JobFails
    <2>2. Cron!Held' = Cron!Held /\ Cron!Waiting' \subseteq Cron!Waiting
      BY <2>1 DEF Cron!Held, Cron!Waiting
    <2>3. ~Cron!Fetch
      BY <2>1 DEF Cron!Fetch
    <2>4. worker' \in Cron!WorkerPc
      BY <2>1 DEF Cron!WorkerPc
    <2>5. due' \subseteq Cron!Snapshots /\ (job \notin due => job' \notin due')
          /\ job' \in Cron!Snapshots \cup {Cron!None} /\ (worker' \in Busy <=> job' # Cron!None)
          /\ Cron!Held' \subseteq Cron!Held
      BY <1>1, <2>1, <2>2
    <2>6. QED
      BY <2>1, <2>2, <2>3, <2>4, <2>5
  <1>6. CASE Cron!TickEnds \/ Cron!LogFailure \/ Cron!Mark \/ Cron!MarkDeleted \/ Cron!TickFails
    <2>1. /\ due' \subseteq due /\ job' = Cron!None /\ now' = now /\ worker' \in {"choosing", "sleeping"}
          /\ worker # "sleeping"
      BY <1>1, <1>6 DEF Cron!TickEnds, Cron!LogFailure, Cron!RestOfList, Cron!Mark, Cron!MarkDeleted,
                        Cron!TickFails, Cron!TickAborts
    <2>2. Cron!Held' \subseteq Cron!Held /\ Cron!Waiting' \subseteq Cron!Waiting
      BY <2>1 DEF Cron!Held, Cron!Waiting
    <2>3. ~Cron!Fetch
      BY <2>1 DEF Cron!Fetch
    <2>4. worker' \in Cron!WorkerPc /\ worker' \notin Busy
      BY <2>1 DEF Cron!WorkerPc
    <2>5. due' \subseteq Cron!Snapshots /\ job' \notin due'
      BY <1>1, <1>2, <2>1
    <2>6. worker' \in Busy <=> job' # Cron!None
      BY <2>1, <2>4
    <2>7. QED
      BY <2>1, <2>2, <2>3, <2>4, <2>5, <2>6, Zenon
  <1>7. CASE Cron!Tick
    <2>1. due' = due /\ job' = job /\ worker' = worker /\ now' # now
      BY <1>7, CronTypes DEF Cron!Tick
    <2>2. Cron!Held' = Cron!Held /\ Cron!Waiting' = Cron!Waiting
      BY <2>1 DEF Cron!Held, Cron!Waiting
    <2>3. ~Cron!Fetch
      BY <2>1 DEF Cron!Fetch
    <2>4. due' \subseteq Cron!Snapshots /\ (job \notin due => job' \notin due')
          /\ job' \in Cron!Snapshots \cup {Cron!None} /\ (worker' \in Busy <=> job' # Cron!None)
          /\ Cron!Held' \subseteq Cron!Held /\ Cron!Waiting' \subseteq Cron!Waiting
          /\ worker' \in Cron!WorkerPc
      BY <1>1, <2>1, <2>2
    <2>5. QED
      BY <1>7, <2>3, <2>4
  <1>8. QED
    BY <1>3, <1>4, <1>5, <1>6, <1>7 DEF Cron!Worker

(* The rows, under any step.                                                   *)
LEMMA RowsMove ==
  ASSUME Cron!SchedulerAssumption, Cron!TypeOK, Cron!Next
  PROVE  /\ RowType' /\ created' \in 0 .. MaxCreates /\ created' >= created
         /\ \A k \in Jobs : RowKept(k) \/ RowGone(k) \/ RowMade(k)
  <1>1. CASE Cron!Admin
    BY <1>1, RoutesMove
  <1>2. CASE Cron!Worker \/ Cron!JobFails \/ Cron!TickFails \/ Cron!Tick
    <2>1. created' = created /\ RowType' /\ \A k \in Jobs : RowKept(k)
      BY <1>2, WorkerMovesRows
    <2>2. created \in 0 .. MaxCreates /\ created >= created
      BY CronTypes DEF Cron!TypeOK
    <2>3. QED
      BY <2>1, <2>2
  <1>3. QED
    BY <1>1, <1>2 DEF Cron!Next

(* A history of counts stays one.                                              *)
LEMMA RunsKept ==
  ASSUME Cron!SchedulerAssumption, Cron!TypeOK, Cron!Next
  PROVE  /\ runs' \in [Cron!Ids -> [Cron!Slots -> 0 .. MaxCounted]]
         /\ ~Cron!Start => runs' = runs
         /\ Cron!Start => /\ job \in Cron!Snapshots /\ worker = "firing"
                          /\ \A i \in Cron!Ids, s \in Cron!Slots :
                               \/ ~(i = job.id /\ s = job.slot) /\ runs'[i][s] = runs[i][s]
                               \/ i = job.id /\ s = job.slot /\ runs'[i][s] <= runs[i][s] + 1
  <1>1. /\ runs \in [Cron!Ids -> [Cron!Slots -> 0 .. MaxCounted]] /\ MaxCounted \in Nat
    BY CronTypes DEF Cron!TypeOK
  <1>2. CASE Cron!Start
    <2>1. /\ worker = "firing"
          /\ runs' = [runs EXCEPT ![job.id][job.slot] = Cron!Counted(@)]
      BY <1>2 DEF Cron!Start
    <2>2. job \in Cron!Snapshots
      BY <2>1 DEF Cron!TypeOK
    <2>3. job.id \in Cron!Ids /\ job.slot \in Cron!Slots
      BY <2>2, CronTypes
    <2>4. PICK i0 \in Cron!Ids, s0 \in Cron!Slots : i0 = job.id /\ s0 = job.slot
      BY <2>3
    <2>5. PICK n \in 0 .. MaxCounted : n = Cron!Counted(runs[i0][s0]) /\ n <= runs[i0][s0] + 1
      <3>1. runs[i0][s0] \in 0 .. MaxCounted
        BY <1>1
      <3>2. QED
        BY <1>1, <3>1 DEF Cron!Counted
    <2>6. runs' = [runs EXCEPT ![i0][s0] = n]
      BY <2>1, <2>4, <2>5
    <2>7. runs' \in [Cron!Ids -> [Cron!Slots -> 0 .. MaxCounted]]
      BY <1>1, <2>5, <2>6
    <2>8. \A i \in Cron!Ids, s \in Cron!Slots :
            runs'[i][s] = IF i = i0 /\ s = s0 THEN n ELSE runs[i][s]
      BY <1>1, <2>6
    <2>9. QED
      BY <1>2, <2>1, <2>2, <2>4, <2>5, <2>7, <2>8
  <1>3. CASE ~Cron!Start
    <2>1. runs' = runs
      BY <1>3, RoutesMove DEF Cron!Next, Cron!Worker, Cron!JobFails, Cron!TickFails, Cron!Tick, Cron!Fetch,
           Cron!TickEnds, Cron!Pick, Cron!Return, Cron!Raise, Cron!Report, Cron!LogFailure, Cron!Mark, Cron!MarkDeleted
    <2>2. QED
      BY <1>1, <1>3, <2>1
  <1>4. QED
    BY <1>2, <1>3

(* Faults are counted, and the others are none.                                *)
LEMMA FaultsKept ==
  ASSUME Cron!SchedulerAssumption, Cron!TypeOK, Cron!Next
  PROVE  /\ jobFaults' \in 0 .. JobFaults
         /\ Cron!JobFails \/ Cron!TickFails => jobFaults' = jobFaults + 1
         /\ jobFaults' >= jobFaults
         /\ now' \in 0 .. MaxTime /\ now' >= now /\ Cron!NextSlot <= (Cron!NextSlot)'
  <1>1. /\ jobFaults \in 0 .. JobFaults /\ JobFaults \in Nat
        /\ now \in 0 .. MaxTime /\ MaxTime \in Nat
    BY CronTypes DEF Cron!TypeOK
  <1>2. CASE Cron!JobFails \/ Cron!TickFails
    <2>1. /\ jobFaults < JobFaults /\ jobFaults' = jobFaults + 1 /\ now' = now
      BY <1>2 DEF Cron!JobFails, Cron!TickFails, Cron!Fault, Cron!TickAborts
    <2>2. Cron!NextSlot <= (Cron!NextSlot)'
      <3>1. (Cron!NextSlot)' = Cron!NextSlot
        BY <2>1 DEF Cron!NextSlot
      <3>2. Cron!NextSlot \in Nat
        BY <1>1, NextSlotLaws, CronTypes DEF Cron!Slots
      <3>3. QED
        BY <3>1, <3>2
    <2>3. QED
      BY <1>1, <2>1, <2>2
  <1>3. CASE Cron!Tick
    <2>1. jobFaults' = jobFaults /\ now' = now + 1 /\ now < MaxTime
      BY <1>3 DEF Cron!Tick
    <2>2. ~(Cron!JobFails \/ Cron!TickFails)
      BY <1>1, <2>1 DEF Cron!JobFails, Cron!TickFails, Cron!Fault, Cron!TickAborts
    <2>3. Cron!NextSlot <= (Cron!NextSlot)'
      BY <1>1, <2>1, NextSlotLaws
    <2>4. QED
      BY <1>1, <2>1, <2>2, <2>3
  <1>4. CASE ~(Cron!JobFails \/ Cron!TickFails) /\ ~Cron!Tick
    <2>1. jobFaults' = jobFaults /\ now' = now
      BY <1>4, RoutesMove DEF Cron!Next, Cron!Worker, Cron!Start, Cron!Fetch,
           Cron!TickEnds, Cron!Pick, Cron!Return, Cron!Raise, Cron!Report, Cron!LogFailure, Cron!Mark, Cron!MarkDeleted
    <2>2. Cron!NextSlot <= (Cron!NextSlot)'
      <3>1. (Cron!NextSlot)' = Cron!NextSlot
        BY <2>1 DEF Cron!NextSlot
      <3>2. Cron!NextSlot \in Nat
        BY <1>1, NextSlotLaws, CronTypes DEF Cron!Slots
      <3>3. QED
        BY <3>1, <3>2
    <2>3. QED
      BY <1>1, <1>4, <2>1, <2>2
  <1>5. QED
    BY <1>2, <1>3, <1>4

LEMMA CronTypeKept ==
  ASSUME Cron!SchedulerAssumption, Cron!TypeOK, Cron!HeldIsNamed, Cron!Next
  PROVE  Cron!TypeOK'
  <1>1. /\ now' \in 0 .. MaxTime /\ jobFaults' \in 0 .. JobFaults
        /\ RowType' /\ created' \in 0 .. MaxCreates
        /\ runs' \in [Cron!Ids -> [Cron!Slots -> 0 .. MaxCounted]]
    BY FaultsKept, RowsMove, RunsKept
  <1>2. \A j, k \in Jobs : row'[j].id # 0 /\ row'[j].id = row'[k].id => j = k
    <2>1. SUFFICES ASSUME NEW j \in Jobs, NEW k \in Jobs, row'[j].id # 0, row'[j].id = row'[k].id, j # k
                   PROVE  FALSE
      OBVIOUS
    <2>2. /\ row[j].id \in Nat /\ row[k].id \in Nat /\ created \in Nat
          /\ row[j].id <= created /\ row[k].id <= created
          /\ row[j].id # 0 => row[j].id # row[k].id
      BY <2>1, CronTypes DEF Cron!TypeOK, Cron!HeldIsNamed
    <2>3. /\ RowKept(j) \/ RowGone(j) \/ RowMade(j)
          /\ RowKept(k) \/ RowGone(k) \/ RowMade(k)
      BY RowsMove
    <2>4. QED
      BY <2>1, <2>2, <2>3 DEF RowKept, RowGone, RowMade
  <1>3. /\ worker' \in Cron!WorkerPc /\ due' \subseteq Cron!Snapshots
        /\ job' \in Cron!Snapshots \cup {Cron!None}
        /\ worker' \in {"firing", "running", "reporting", "marking", "failing"} <=> job' # Cron!None
    <2>1. CASE Cron!Admin
      <3>1. worker' = worker /\ due' = due /\ job' = job
        BY <2>1, RoutesMove
      <3>2. QED
        BY <3>1 DEF Cron!TypeOK
    <2>2. CASE ~Cron!Admin
      BY <2>2, HeldMoves DEF Cron!Next
    <2>3. QED
      BY <2>1, <2>2
  <1>4. QED
    BY <1>1, <1>2, <1>3 DEF Cron!TypeOK, RowType

(* What is held, under any step but a fetch.                                   *)
LEMMA HeldShrinks ==
  ASSUME Cron!SchedulerAssumption, Cron!TypeOK, Cron!Next, ~Cron!Fetch
  PROVE  /\ Cron!Held' \subseteq Cron!Held /\ Cron!Waiting' \subseteq Cron!Waiting
         /\ job \notin due => job' \notin due'
  <1>1. CASE Cron!Admin
    <2>1. worker' = worker /\ due' = due /\ job' = job
      BY <1>1, RoutesMove
    <2>2. Cron!Held' = Cron!Held /\ Cron!Waiting' = Cron!Waiting
      BY <2>1 DEF Cron!Held, Cron!Waiting
    <2>3. QED
      BY <2>1, <2>2
  <1>2. CASE ~Cron!Admin
    BY <1>2, HeldMoves DEF Cron!Next
  <1>3. QED
    BY <1>1, <1>2

(* A fetch holds the due rows, and nothing else.                               *)
LEMMA FetchHolds ==
  ASSUME Cron!SchedulerAssumption, Cron!TypeOK, Cron!Fetch
  PROVE  /\ UNCHANGED <<now, row, created, runs, jobFaults>>
         /\ job' \notin due'
         /\ \A d \in Cron!Held' \cup Cron!Waiting' :
              /\ d \in Cron!Snapshots
              /\ row[d.job].id = d.id /\ row[d.job].next = d.slot /\ d.slot <= now
  <1>1. /\ Cron!Held' = due' /\ Cron!Waiting' = due' /\ job' = Cron!None
        /\ due' = {[job |-> j, id |-> row[j].id, slot |-> row[j].next] :
                     j \in {k \in Jobs : Cron!IsDue(k)}}
        /\ UNCHANGED <<now, row, created, runs, jobFaults>>
        /\ due' \subseteq Cron!Snapshots
    BY HeldMoves DEF Cron!Worker
  <1>2. job' \notin due'
    BY <1>1, CronTypes
  <1>3. ASSUME NEW d \in due'
        PROVE  row[d.job].id = d.id /\ row[d.job].next = d.slot /\ d.slot <= now
    BY <1>1 DEF Cron!IsDue
  <1>4. QED
    BY <1>1, <1>2, <1>3

LEMMA NamedKept ==
  ASSUME Cron!SchedulerAssumption, Cron!TypeOK, Cron!HeldIsNamed, Cron!Next
  PROVE  Cron!HeldIsNamed'
  <1>1. /\ \A j \in Jobs : row[j].id \in Nat /\ row[j].id <= created
        /\ created \in Nat /\ created' \in Nat /\ created' >= created
        /\ \A k \in Jobs : RowKept(k) \/ RowGone(k) \/ RowMade(k)
    <2>1. created' \in 0 .. MaxCreates /\ created' >= created /\ MaxCreates \in Nat
      BY RowsMove, CronTypes
    <2>2. \A j \in Jobs : row[j].id \in Nat /\ row[j].id <= created
      BY CronTypes DEF Cron!HeldIsNamed
    <2>3. QED
      BY <2>1, <2>2, RowsMove, CronTypes
  <1>2. \A j \in Jobs : row'[j].id <= created'
    BY <1>1 DEF RowKept, RowGone, RowMade
  <1>3. CASE Cron!Fetch
    <2>1. /\ UNCHANGED <<row, created>> /\ job' \notin due'
          /\ \A d \in Cron!Held' : d \in Cron!Snapshots /\ row[d.job].id = d.id /\ row[d.job].next = d.slot
      BY <1>3, FetchHolds
    <2>2. \A j, k \in Jobs : row[j].id # 0 /\ row[j].id = row[k].id => j = k
      BY DEF Cron!TypeOK
    <2>3. ASSUME NEW d \in Cron!Held'
          PROVE  d.id <= created' /\ \A j \in Jobs : row'[j].id = d.id => j = d.job
      <3>1. d.job \in Jobs /\ d.id # 0 /\ row[d.job].id = d.id
        BY <2>1, CronTypes
      <3>2. QED
        BY <1>1, <2>1, <2>2, <3>1
    <2>4. ASSUME NEW d \in Cron!Held', NEW e \in Cron!Held', d.id = e.id
          PROVE  d = e
      <3>1. /\ d \in Cron!Snapshots /\ e \in Cron!Snapshots /\ d.job \in Jobs /\ e.job \in Jobs /\ d.id # 0
            /\ row[d.job].id = d.id /\ row[d.job].next = d.slot
            /\ row[e.job].id = e.id /\ row[e.job].next = e.slot
        BY <2>1, CronTypes
      <3>2. d.job = e.job
        BY <2>2, <2>4, <3>1
      <3>3. QED
        BY <2>4, <3>1, <3>2 DEF Cron!Snapshots
    <2>5. QED
      BY <1>2, <2>1, <2>3, <2>4 DEF Cron!HeldIsNamed
  <1>4. CASE ~Cron!Fetch
    <2>1. Cron!Held' \subseteq Cron!Held /\ job' \notin due'
      BY <1>4, HeldShrinks DEF Cron!HeldIsNamed
    <2>2. ASSUME NEW d \in Cron!Held'
          PROVE  d.id <= created' /\ \A j \in Jobs : row'[j].id = d.id => j = d.job
      <3>1. d \in Cron!Held
        BY <2>1
      <3>2. d.id \in Nat /\ d.id # 0 /\ d.id <= created /\ \A j \in Jobs : row[j].id = d.id => j = d.job
        BY <3>1, CronTypes DEF Cron!HeldIsNamed
      <3>3. QED
        BY <1>1, <3>2 DEF RowKept, RowGone, RowMade
    <2>3. \A d, e \in Cron!Held' : d.id = e.id => d = e
      BY <2>1 DEF Cron!HeldIsNamed
    <2>4. QED
      BY <1>2, <2>1, <2>2, <2>3 DEF Cron!HeldIsNamed
  <1>5. QED
    BY <1>3, <1>4

LEMMA DueKept ==
  ASSUME Cron!SchedulerAssumption, Cron!TypeOK, Cron!HeldIsNamed, Cron!HeldIsDue, Cron!Next
  PROVE  Cron!HeldIsDue'
  <1>1. /\ now \in Nat /\ now' \in Nat /\ now' >= now
        /\ Cron!NextSlot \in Nat /\ Cron!NextSlot > now /\ (Cron!NextSlot)' \in Nat
        /\ Cron!NextSlot <= (Cron!NextSlot)'
    <2>1. now \in 0 .. MaxTime /\ now' \in 0 .. MaxTime /\ now' >= now /\ Cron!NextSlot <= (Cron!NextSlot)'
      BY FaultsKept DEF Cron!TypeOK
    <2>2. Cron!NextSlot \in Cron!Slots /\ Cron!NextSlot > now
      BY <2>1, NextSlotLaws
    <2>3. (Cron!NextSlot)' \in Int
      BY <2>1 DEF Cron!NextSlot, Cron!SchedulerAssumption
    <2>4. QED
      BY <2>1, <2>2, <2>3, CronTypes DEF Cron!Slots
  <1>2. /\ \A j \in Jobs : row[j].next \in Nat /\ (row[j].id # 0 => row[j].next <= Cron!NextSlot)
        /\ \A k \in Jobs : RowKept(k) \/ RowGone(k) \/ RowMade(k)
    BY RowsMove, CronTypes DEF Cron!HeldIsDue
  <1>3. \A j \in Jobs : row'[j].id # 0 => row'[j].next <= (Cron!NextSlot)'
    BY <1>1, <1>2 DEF RowKept, RowGone, RowMade
  <1>4. CASE Cron!Fetch
    <2>1. /\ UNCHANGED <<row, now>>
          /\ \A d \in Cron!Held' : d \in Cron!Snapshots /\ row[d.job].next = d.slot /\ d.slot <= now
      BY <1>4, FetchHolds
    <2>2. \A d \in Cron!Held' : d.slot <= now' /\ d.slot <= row'[d.job].next
      BY <1>1, <2>1, CronTypes
    <2>3. QED
      BY <1>3, <2>2 DEF Cron!HeldIsDue
  <1>5. CASE ~Cron!Fetch
    <2>1. ASSUME NEW d \in Cron!Held'
          PROVE  d.slot <= now' /\ (row'[d.job].id = d.id => d.slot <= row'[d.job].next)
      <3>1. d \in Cron!Held
        BY <1>5, HeldShrinks
      <3>2. /\ d.job \in Jobs /\ d.id \in Nat /\ d.id # 0 /\ d.slot \in Nat /\ d.slot <= now
            /\ row[d.job].id = d.id => d.slot <= row[d.job].next
            /\ d.id <= created /\ created \in Nat
        BY <3>1, CronTypes DEF Cron!HeldIsDue, Cron!HeldIsNamed
      <3>3. QED
        BY <1>1, <1>2, <3>2 DEF RowKept, RowGone, RowMade
    <2>2. QED
      BY <1>3, <2>1 DEF Cron!HeldIsDue
  <1>6. QED
    BY <1>4, <1>5

(* A run that was under way and is not any more failed, was marked, or is of a *)
(* job that is not counted.                                                    *)
LEMMA RunEnds ==
  ASSUME Cron!Next, NEW i, NEW s, Cron!UnderWay(i, s), ~(Cron!UnderWay(i, s)')
  PROVE  \/ Cron!Raise \/ Cron!JobFails \/ Cron!TickFails
         \/ Cron!Mark \/ Cron!MarkDeleted
  <1>1. /\ job.id = i /\ job.slot = s /\ worker \in {"running", "reporting", "marking"}
        /\ ~(job' = job /\ worker' \in {"running", "reporting", "marking"})
    BY DEF Cron!UnderWay
  <1>2. CASE Cron!Admin
    <2>1. worker' = worker /\ job' = job
      BY <1>2 DEF Cron!Admin, Cron!Delete, Cron!Create, Cron!Toggle
    <2>2. QED
      BY <1>1, <2>1
  <1>3. ~Cron!Fetch /\ ~Cron!TickEnds /\ ~Cron!Start /\ ~Cron!LogFailure /\ ~(\E d \in due : Cron!Pick(d))
    BY <1>1 DEF Cron!Fetch, Cron!TickEnds, Cron!Start, Cron!LogFailure, Cron!Pick
  <1>4. ~Cron!Return /\ ~Cron!Report /\ ~Cron!Tick
    BY <1>1 DEF Cron!Return, Cron!Report, Cron!Tick
  <1>5. QED
    BY <1>2, <1>3, <1>4 DEF Cron!Next, Cron!Worker

LEMMA MarkedKept ==
  ASSUME Cron!SchedulerAssumption, Cron!TypeOK, Cron!HeldIsNamed, Cron!HeldIsDue,
         Cron!RunsAreMarked, Cron!OncePerSlot, Cron!Next
  PROVE  Cron!RunsAreMarked' /\ Cron!OncePerSlot'
  <1>1. /\ created \in Nat /\ created' \in Nat /\ created' >= created /\ created <= MaxCreates
        /\ jobFaults \in Nat /\ jobFaults' \in Nat /\ jobFaults' >= jobFaults
        /\ now \in Nat /\ Cron!NextSlot \in Nat /\ Cron!NextSlot > now
    <2>1. /\ created \in 0 .. MaxCreates /\ created' \in 0 .. MaxCreates /\ created' >= created
          /\ jobFaults \in 0 .. JobFaults /\ jobFaults' \in 0 .. JobFaults /\ jobFaults' >= jobFaults
          /\ now \in 0 .. MaxTime /\ MaxCreates \in Nat /\ JobFaults \in Nat /\ MaxTime \in Nat
      BY RowsMove, FaultsKept, CronTypes DEF Cron!TypeOK
    <2>2. Cron!NextSlot \in Cron!Slots /\ Cron!NextSlot > now
      BY <2>1, NextSlotLaws
    <2>3. QED
      BY <2>1, <2>2, CronTypes DEF Cron!Slots
  <1>2. /\ \A i \in Cron!Ids, s \in Cron!Slots : runs[i][s] \in Nat /\ runs'[i][s] \in Nat
        /\ Cron!Ids \subseteq Nat /\ Cron!Slots \subseteq Nat /\ 0 \notin Cron!Ids
    <2>1. runs' \in [Cron!Ids -> [Cron!Slots -> 0 .. MaxCounted]] /\ MaxCounted \in Nat
      BY RunsKept, CronTypes
    <2>2. \A i \in Cron!Ids, s \in Cron!Slots : runs'[i][s] \in 0 .. MaxCounted
      BY <2>1
    <2>3. Cron!Ids \subseteq Nat /\ Cron!Slots \subseteq Nat
      BY CronTypes DEF Cron!Ids, Cron!Slots
    <2>4. QED
      BY <2>1, <2>2, <2>3, CronTypes
  <1>3. Cron!Start => /\ job \in Cron!Snapshots /\ worker = "firing" /\ worker' = "running" /\ job' = job
                      /\ job \in Cron!Held /\ job \in Cron!Waiting /\ Cron!Waiting' = due
                      /\ row' = row /\ created' = created
    <2>1. ASSUME Cron!Start
          PROVE  /\ worker = "firing" /\ worker' = "running" /\ job' = job /\ due' = due
                 /\ row' = row /\ created' = created
      BY <2>1 DEF Cron!Start
    <2>2. ASSUME Cron!Start
          PROVE  job \in Cron!Snapshots
      BY <2>2, RunsKept
    <2>3. QED
      BY <2>1, <2>2, CronTypes DEF Cron!Held, Cron!Waiting
  <1>4. \A i \in Cron!Ids : i > created' => \A s \in Cron!Slots : runs'[i][s] = 0
    <2>1. SUFFICES ASSUME NEW i \in Cron!Ids, i > created', NEW s \in Cron!Slots
                   PROVE  runs'[i][s] = 0
      OBVIOUS
    <2>2. i > created /\ runs[i][s] = 0
      BY <1>1, <1>2, <2>1 DEF Cron!RunsAreMarked
    <2>3. Cron!Start => job.id # i
      BY <1>1, <1>2, <1>3, <2>2, CronTypes DEF Cron!HeldIsNamed
    <2>4. QED
      BY <2>2, <2>3, RunsKept
  <1>5. ASSUME NEW d \in Cron!Waiting', d.job \notin Poison
        PROVE  runs'[d.id][d.slot] <= jobFaults'
    <2>1. CASE Cron!Fetch
      <3>1. /\ d \in Cron!Snapshots /\ row[d.job].id = d.id /\ row[d.job].next = d.slot
            /\ runs' = runs /\ jobFaults' = jobFaults
        BY <2>1, FetchHolds
      <3>2. d.job \in Cron!Healthy /\ d.slot \in Cron!Slots
        BY <1>5, <3>1, CronTypes DEF Cron!Healthy
      <3>3. ~Cron!UnderWay(d.id, d.slot)
        BY <2>1 DEF Cron!Fetch, Cron!UnderWay
      <3>4. QED
        BY <3>1, <3>2, <3>3 DEF Cron!RunsAreMarked
    <2>2. CASE Cron!Start
      <3>1. d \in due /\ d \in Cron!Held /\ d # job
        BY <1>3, <2>2 DEF Cron!Held, Cron!HeldIsNamed
      <3>2. d.id # job.id
        BY <1>3, <2>2, <3>1 DEF Cron!HeldIsNamed
      <3>3. runs[d.id][d.slot] <= jobFaults
        BY <1>5, <3>1 DEF Cron!RunsAreMarked, Cron!Waiting
      <3>4. d.id \in Cron!Ids /\ d.slot \in Cron!Slots
        BY <3>1, CronTypes
      <3>5. runs'[d.id][d.slot] = runs[d.id][d.slot]
        BY <2>2, <3>2, <3>4, RunsKept
      <3>6. runs[d.id][d.slot] \in Nat
        BY <1>2, <3>4
      <3>7. QED
        BY <1>1, <3>3, <3>5, <3>6
    <2>3. CASE ~Cron!Fetch /\ ~Cron!Start
      <3>1. d \in Cron!Waiting /\ runs' = runs
        BY <2>3, HeldShrinks, RunsKept
      <3>2. d.id \in Cron!Ids /\ d.slot \in Cron!Slots
        BY <3>1, CronTypes
      <3>3. runs[d.id][d.slot] <= jobFaults
        BY <1>5, <3>1 DEF Cron!RunsAreMarked
      <3>4. runs[d.id][d.slot] \in Nat
        BY <1>2, <3>2
      <3>5. runs'[d.id][d.slot] = runs[d.id][d.slot]
        BY <3>1
      <3>6. QED
        BY <1>1, <3>3, <3>4, <3>5
    <2>4. QED
      BY <2>1, <2>2, <2>3
  <1>6. ASSUME NEW j \in Cron!Healthy', NEW s \in Cron!Slots
        PROVE  /\ runs'[row'[j].id][s] <= 1 + jobFaults'
               /\ s > row'[j].next => runs'[row'[j].id][s] = 0
               /\ s = row'[j].next /\ ~(Cron!UnderWay(row[j].id, s)') /\ row'[j].id = row[j].id
                    => runs'[row'[j].id][s] <= jobFaults'
               /\ row'[j].id # row[j].id => runs'[row'[j].id][s] <= jobFaults'
    <2>1. /\ j \in Jobs /\ j \notin Poison /\ row'[j].id # 0 /\ row'[j].id \in Cron!Ids
          /\ row[j].id \in Nat /\ row[j].next \in Nat /\ row'[j].next \in Nat /\ s \in Nat
      <3>1. j \in Jobs /\ j \notin Poison /\ row'[j].id # 0
        BY DEF Cron!Healthy
      <3>2. row'[j] \in [id : {0} \cup Cron!Ids, active : BOOLEAN, next : Cron!Slots]
        BY <3>1, RowsMove DEF RowType
      <3>3. (row'[j].id = 0 \/ row'[j].id \in Cron!Ids) /\ row'[j].next \in Cron!Slots
        BY <3>2
      <3>4. QED
        BY <1>2, <3>1, <3>3, CronTypes
    <2> DEFINE i == row'[j].id
    <2>2. RowKept(j) \/ RowMade(j)
      BY <2>1, RowsMove DEF RowGone
    <2>3. CASE RowMade(j)
      <3>1. i > created /\ i # row[j].id
        BY <1>1, <2>1, <2>3 DEF RowMade
      <3>2. runs[i][s] = 0
        BY <2>1, <3>1 DEF Cron!RunsAreMarked
      <3>3. Cron!Start => job.id # i
        BY <1>3, <2>3, <1>1 DEF RowMade
      <3>4. runs'[i][s] = runs[i][s]
        <4>1. CASE Cron!Start
          BY <2>1, <3>3, <4>1, RunsKept
        <4>2. CASE ~Cron!Start
          BY <4>2, RunsKept
        <4>3. QED
          BY <4>1, <4>2
      <3>5. runs'[i][s] = 0 /\ i # row[j].id
        BY <3>1, <3>2, <3>4
      <3>6. jobFaults' \in Nat
        BY <1>1, Zenon
      <3>7. 0 <= jobFaults' /\ 0 <= 1 + jobFaults'
        <4>1. \A n \in Nat : 0 <= n /\ 0 <= 1 + n
          OBVIOUS
        <4>2. QED
          BY <3>6, <4>1, Zenon
      <3>8. QED
        BY <3>5, <3>7, Zenon
    <2>4. CASE RowKept(j)
      <3> DEFINE n == row[j].next
                 n1 == row'[j].next
      <3>1. /\ row[j].id = i /\ j \in Cron!Healthy /\ i \in Cron!Ids
            /\ n1 = n \/ n1 = Cron!NextSlot
        BY <2>1, <2>4 DEF RowKept, Cron!Healthy
      <3>2. n <= Cron!NextSlot /\ n1 >= n
        BY <1>1, <2>1, <3>1 DEF Cron!HeldIsDue
      <3>3. /\ runs[i][s] \in Nat /\ runs'[i][s] \in Nat
            /\ runs[i][s] <= 1 + jobFaults
            /\ s > n => runs[i][s] = 0
            /\ s = n /\ ~Cron!UnderWay(i, s) => runs[i][s] <= jobFaults
        BY <1>2, <3>1 DEF Cron!RunsAreMarked, Cron!OncePerSlot
      <3>4. \A d \in Cron!Held : d.id = i => /\ d.job = j /\ d.slot <= now /\ d.slot <= n /\ d.slot \in Nat
        BY <2>1, <3>1, CronTypes DEF Cron!HeldIsNamed, Cron!HeldIsDue
      <3>5. CASE Cron!Start
        <4>1. /\ worker = "firing" /\ worker' = "running" /\ job' = job /\ n1 = n
              /\ job \in Cron!Held /\ job \in Cron!Waiting
          BY <1>3, <3>5
        <4>2. CASE i = job.id /\ s = job.slot
          <5>1. job.job = j /\ s <= n
            BY <3>4, <4>1, <4>2
          <5>2. runs[i][s] <= jobFaults
            BY <2>1, <4>1, <4>2, <5>1 DEF Cron!RunsAreMarked
          <5>3. runs'[i][s] <= runs[i][s] + 1
            BY <3>1, <3>5, <4>2, RunsKept
          <5>4. Cron!UnderWay(row[j].id, s)'
            <6>1. Cron!UnderWay(row[j].id, s)' <=> job'.id = i /\ job'.slot = s /\ worker' \in {"running", "reporting", "marking"}
              BY <2>1, <2>4 DEF Cron!UnderWay
            <6>2. QED
              BY <4>1, <4>2, <6>1
          <5>5. QED
            BY <1>1, <2>1, <3>1, <3>3, <4>1, <5>1, <5>2, <5>3, <5>4
        <4>3. CASE ~(i = job.id /\ s = job.slot)
          <5>1. runs'[i][s] = runs[i][s]
            BY <3>1, <3>5, <4>3, RunsKept
          <5>2. ~Cron!UnderWay(i, s)
            BY <4>1 DEF Cron!UnderWay
          <5>3. QED
            BY <1>1, <2>1, <3>1, <3>3, <4>1, <5>1, <5>2
        <4>4. QED
          BY <4>2, <4>3
      <3>6. CASE ~Cron!Start
        <4>1. runs'[i][s] = runs[i][s]
          BY <3>6, RunsKept
        <4>2. ASSUME s = n1, n1 = n, Cron!UnderWay(i, s), ~(Cron!UnderWay(row[j].id, s)')
              PROVE  jobFaults' = jobFaults + 1
          <5>1. PICK i0 : i0 = i
            OBVIOUS
          <5>2. Cron!UnderWay(i0, s) /\ ~(Cron!UnderWay(i0, s)')
            BY <2>4, <4>2, <5>1 DEF Cron!UnderWay, RowKept
          <5>3. Cron!Raise \/ Cron!JobFails \/ Cron!TickFails \/ Cron!Mark \/ Cron!MarkDeleted
            BY <5>2, RunEnds
          <5>4. /\ job.id = i /\ job.slot = s /\ job \in Cron!Held
            <6>1. job.id = i /\ job.slot = s
              BY <4>2 DEF Cron!UnderWay
            <6>2. job # Cron!None
              BY <1>2, <3>1, <6>1, CronTypes
            <6>3. QED
              BY <6>1, <6>2 DEF Cron!Held
          <5>5. job.job = j /\ s <= now
            BY <3>4, <5>4
          <5>6. ~Cron!Raise
            BY <2>1, <5>5 DEF Cron!Raise
          <5>7. ~Cron!MarkDeleted
            BY <3>1, <5>4, <5>5 DEF Cron!MarkDeleted, Cron!RowRemains
          <5>8. ~Cron!Mark
            <6>1. Cron!Mark => n1 = Cron!NextSlot
              BY <5>5, WorkerMovesRows DEF Cron!Worker
            <6>2. QED
              BY <1>1, <2>1, <4>2, <5>5, <6>1
          <5>9. QED
            BY <5>3, <5>6, <5>7, <5>8, FaultsKept
        <4>3. QED
          BY <1>1, <2>1, <3>1, <3>2, <3>3, <4>1, <4>2
      <3>7. QED
        BY <3>5, <3>6
    <2>5. QED
      BY <2>2, <2>3, <2>4
  <1>7. Cron!OncePerSlot'
    BY <1>6 DEF Cron!OncePerSlot
  <1>8. ASSUME NEW j \in Cron!Healthy', NEW s \in Cron!Slots,
               s = row'[j].next, ~(Cron!UnderWay(row[j].id, s)') \/ row'[j].id # row[j].id
        PROVE  runs'[row'[j].id][s] <= jobFaults'
    BY <1>6, <1>8
  <1>9. Cron!RunsAreMarked'
    <2>1. \A j \in Cron!Healthy', s \in Cron!Slots :
            /\ s > row'[j].next => runs'[row'[j].id][s] = 0
            /\ s = row'[j].next /\ ~(Cron!UnderWay(row[j].id, s)') => runs'[row'[j].id][s] <= jobFaults'
      BY <1>6, <1>8
    <2>2. QED
      BY <1>4, <1>5, <2>1 DEF Cron!RunsAreMarked, Cron!UnderWay
  <1>10. QED
    BY <1>7, <1>9

(* The parts of the inductive invariant, and what follows from them.           *)
CronInv == /\ Cron!TypeOK
           /\ Cron!HeldIsNamed /\ Cron!HeldIsDue /\ Cron!RunsAreMarked
           /\ Cron!OncePerSlot

LEMMA CronStep ==
  ASSUME Cron!SchedulerAssumption, CronInv, Cron!Next
  PROVE  CronInv'
  BY CronTypeKept, NamedKept, DueKept, MarkedKept DEF CronInv

LEMMA CronRests ==
  ASSUME CronInv, UNCHANGED cronVars
  PROVE  CronInv'
  <1>1. /\ now' = now /\ row' = row /\ created' = created /\ worker' = worker /\ due' = due
        /\ job' = job /\ runs' = runs /\ jobFaults' = jobFaults
    BY DEF cronVars
  <1>2. Cron!TypeOK'
    BY <1>1 DEF CronInv, Cron!TypeOK
  <1>3. Cron!Held' = Cron!Held /\ Cron!Waiting' = Cron!Waiting /\ Cron!Healthy' = Cron!Healthy
        /\ (Cron!NextSlot)' = Cron!NextSlot
    BY <1>1 DEF Cron!Held, Cron!Waiting, Cron!Healthy, Cron!NextSlot
  <1>4. Cron!HeldIsNamed' /\ Cron!HeldIsDue'
    BY <1>1, <1>3 DEF CronInv, Cron!HeldIsNamed, Cron!HeldIsDue
  <1>5. Cron!RunsAreMarked' /\ Cron!OncePerSlot'
    BY <1>1, <1>3 DEF CronInv, Cron!RunsAreMarked, Cron!OncePerSlot, Cron!UnderWay
  <1>6. QED
    BY <1>2, <1>4, <1>5 DEF CronInv

LEMMA CronInit ==
  ASSUME Cron!SchedulerAssumption, Cron!Init
  PROVE  CronInv
  <1>1. /\ now = 0 /\ row = [j \in Jobs |-> Cron!Absent] /\ created = 0
        /\ worker = "sleeping" /\ due = {} /\ job = Cron!None
        /\ runs = [i \in Cron!Ids |-> [s \in Cron!Slots |-> 0]]
        /\ jobFaults = 0
    BY DEF Cron!Init
  <1>2. /\ MaxTime \in Nat /\ Period \in Nat /\ MaxCreates \in Nat
        /\ JobFaults \in Nat /\ MaxCounted \in Nat
    BY DEF Cron!SchedulerAssumption
  <1>3. Cron!Absent \in [id : {0} \cup Cron!Ids, active : BOOLEAN, next : Cron!Slots] /\ Cron!Absent.id = 0
    BY <1>2 DEF Cron!Absent, Cron!Slots
  <1>4. \A j \in Jobs : row[j].id = 0
    BY <1>1, <1>3
  <1>5. Cron!Held = {} /\ Cron!Waiting = {} /\ Cron!Healthy = {}
    BY <1>1, <1>4 DEF Cron!Held, Cron!Waiting, Cron!Healthy
  <1>6. Cron!TypeOK
    <2>1. row \in [Jobs -> [id : {0} \cup Cron!Ids, active : BOOLEAN, next : Cron!Slots]]
      BY <1>1, <1>3
    <2>2. runs \in [Cron!Ids -> [Cron!Slots -> 0 .. MaxCounted]]
      BY <1>1, <1>2
    <2>3. /\ now \in 0 .. MaxTime /\ created \in 0 .. MaxCreates /\ jobFaults \in 0 .. JobFaults
          /\ worker \in Cron!WorkerPc /\ due \subseteq Cron!Snapshots
          /\ job \in Cron!Snapshots \cup {Cron!None}
      BY <1>1, <1>2 DEF Cron!WorkerPc
    <2>4. worker \in {"firing", "running", "reporting", "marking", "failing"} <=> job # Cron!None
      BY <1>1
    <2>5. QED
      BY <1>4, <2>1, <2>2, <2>3, <2>4 DEF Cron!TypeOK
  <1>7. Cron!HeldIsNamed /\ Cron!HeldIsDue /\ Cron!OncePerSlot
    BY <1>1, <1>2, <1>4, <1>5 DEF Cron!HeldIsNamed, Cron!HeldIsDue, Cron!OncePerSlot
  <1>8. Cron!RunsAreMarked
    BY <1>1, <1>5 DEF Cron!RunsAreMarked
  <1>9. QED
    BY <1>6, <1>7, <1>8 DEF CronInv

(* A run that is not marked is the one under way, as long as nothing failed.   *)
LEMMA PastSlots ==
  ASSUME Cron!SchedulerAssumption, CronInv
  PROVE  Cron!MovesPastRunSlot
  <1>1. SUFFICES ASSUME NEW j \in Cron!Healthy,
                        runs[row[j].id][row[j].next] > 0, jobFaults = 0
                 PROVE  job # Cron!None /\ job.id = row[j].id /\ job.slot = row[j].next
    BY DEF Cron!MovesPastRunSlot
  <1>2. /\ j \in Jobs /\ row[j].id # 0 /\ row[j] \in [id : {0} \cup Cron!Ids, active : BOOLEAN, next : Cron!Slots]
    BY CronTypes DEF Cron!Healthy, CronInv
  <1>3. row[j].id \in Cron!Ids /\ row[j].next \in Cron!Slots
    BY <1>2
  <1>4. runs[row[j].id][row[j].next] \in Nat
    BY <1>3, CronTypes DEF CronInv
  <1>5. Cron!UnderWay(row[j].id, row[j].next)
    BY <1>1, <1>3, <1>4 DEF CronInv, Cron!RunsAreMarked
  <1>6. job # Cron!None
    BY <1>2, <1>5, CronTypes DEF CronInv, Cron!UnderWay
  <1>7. QED
    BY <1>5, <1>6 DEF Cron!UnderWay

(* However the worker, the routes, faults and the clock interleave, a slot of a *)
(* job runs once and once more per fault, and no row offers a slot again that   *)
(* was run (src/scheduler/worker.py, src/scheduler/store.py).                   *)
THEOREM SlotsRunOnce == Spec => []SlotsAccounted
  <1>1. Cron!SchedulerAssumption
    BY WorkersAssumption
  <1>2. Init => CronInv
    BY <1>1, CronInit DEF Init
  <1>3. CronInv /\ [Next]_vars => CronInv'
    <2>1. CASE UNCHANGED vars
      <3>1. UNCHANGED cronVars
        BY <2>1 DEF vars
      <3>2. QED
        BY <3>1, CronRests
    <2>2. ASSUME Next
          PROVE  Cron!Next \/ UNCHANGED cronVars
      BY <2>2 DEF Next
    <2>3. QED
      BY <1>1, <2>1, <2>2, CronStep, CronRests
  <1>4. CronInv => SlotsAccounted
    BY <1>1, PastSlots DEF CronInv, SlotsAccounted
  <1>5. QED
    BY <1>2, <1>3, <1>4, PTL DEF Spec

-----------------------------------------------------------------------------
(* The polling of Telegram. *)

PollInv == /\ Polling!TypeOK
           /\ Polling!ForgottenOnlyIfFinished /\ Polling!RepeatsBoundedByRestarts
           /\ Polling!BatchIsRun /\ Polling!NothingSkipped /\ Polling!OffsetFollows

LEMMA PollTypes ==
  ASSUME Polling!PollingAssumption, Polling!TypeOK
  PROVE  /\ MaxUpdates \in Nat /\ PollFaults \in Nat /\ BatchSize \in Nat \ {0}
         /\ sent \in Nat /\ sent <= MaxUpdates /\ 1 .. sent \subseteq Polling!Updates
         /\ confirmed \in Nat /\ confirmed <= sent
         /\ offset \in Nat /\ offset <= sent + 1
         /\ batch \in Seq(1 .. sent) /\ Len(batch) \in Nat /\ Len(batch) <= BatchSize
         /\ pollFaults \in Nat /\ pollFaults <= PollFaults
         /\ tried \in [Polling!Updates -> 0 .. PollFaults + 1]
         /\ \A u \in Polling!Updates : u \in Nat /\ tried[u] \in Nat
  <1>1. MaxUpdates \in Nat /\ PollFaults \in Nat /\ BatchSize \in Nat \ {0}
    BY DEF Polling!PollingAssumption
  <1>2. /\ sent \in 0 .. MaxUpdates /\ confirmed \in 0 .. sent /\ offset \in 0 .. sent + 1
        /\ batch \in Seq(1 .. sent) /\ Len(batch) <= BatchSize
        /\ pollFaults \in 0 .. PollFaults
        /\ tried \in [Polling!Updates -> 0 .. PollFaults + 1]
    BY DEF Polling!TypeOK
  <1>3. /\ sent \in Nat /\ sent <= MaxUpdates /\ confirmed \in Nat /\ confirmed <= sent
        /\ offset \in Nat /\ offset <= sent + 1
        /\ pollFaults \in Nat /\ pollFaults <= PollFaults
    BY <1>1, <1>2
  <1>4. 1 .. sent \subseteq Polling!Updates
    BY <1>1, <1>3 DEF Polling!Updates
  <1>5. \A u \in Polling!Updates : u \in Nat /\ tried[u] \in Nat
    <2>1. \A u \in Polling!Updates : tried[u] \in 0 .. PollFaults + 1
      BY <1>2
    <2>2. QED
      BY <1>1, <2>1 DEF Polling!Updates
  <1>6. Len(batch) \in Nat
    BY <1>2
  <1>7. QED
    BY <1>1, <1>2, <1>3, <1>4, <1>5, <1>6

LEMMA GreaterOfTwo ==
  ASSUME NEW a \in Int, NEW b \in Int
  PROVE  /\ Polling!Max({a, b}) = IF a >= b THEN a ELSE b
         /\ Polling!Min({a, b}) = IF a <= b THEN a ELSE b
  <1>1. \A x \in {a, b} : (\A y \in {a, b} : x >= y) <=> x = IF a >= b THEN a ELSE b
    OBVIOUS
  <1>2. (IF a >= b THEN a ELSE b) \in {a, b}
    OBVIOUS
  <1>3. \A x \in {a, b} : (\A y \in {a, b} : x <= y) <=> x = IF a <= b THEN a ELSE b
    OBVIOUS
  <1>4. (IF a <= b THEN a ELSE b) \in {a, b}
    OBVIOUS
  <1>5. Polling!Max({a, b}) = IF a >= b THEN a ELSE b
    <2>1. Polling!Max({a, b}) = CHOOSE x \in {a, b} : \A y \in {a, b} : x >= y
      BY DEF Polling!Max
    <2>2. QED
      BY <1>1, <1>2, <2>1
  <1>6. Polling!Min({a, b}) = IF a <= b THEN a ELSE b
    <2>1. Polling!Min({a, b}) = CHOOSE x \in {a, b} : \A y \in {a, b} : x <= y
      BY DEF Polling!Min
    <2>2. QED
      BY <1>3, <1>4, <2>1
  <1>7. QED
    BY <1>5, <1>6

(* What the server may forget when it is polled.                               *)
LEMMA ForgottenFacts ==
  ASSUME Polling!PollingAssumption, PollInv, poller # "processing"
  PROVE  /\ Polling!Forgotten \in Nat /\ Polling!Forgotten <= sent
         /\ confirmed <= Polling!Forgotten /\ offset <= Polling!Forgotten + 1
         /\ 1 .. Polling!Forgotten \subseteq finished
  <1>1. /\ sent \in Nat /\ confirmed \in Nat /\ confirmed <= sent /\ offset \in Nat /\ offset <= sent + 1
    BY PollTypes DEF PollInv
  <1>2. Polling!Forgotten = IF confirmed >= offset - 1 THEN confirmed ELSE offset - 1
    BY <1>1, GreaterOfTwo DEF Polling!Forgotten
  <1>3. 1 .. confirmed \subseteq finished
    BY DEF PollInv, Polling!ForgottenOnlyIfFinished
  <1>4. 1 .. (offset - 1) \subseteq finished
    BY DEF PollInv, Polling!NothingSkipped
  <1>5. QED
    BY <1>1, <1>2, <1>3, <1>4

(* What it answers: a run of updates from the first it keeps.                  *)
LEMMA AnswerFacts ==
  ASSUME Polling!PollingAssumption, PollInv, poller # "processing"
  PROVE  /\ Polling!Answer \in Seq(1 .. sent) /\ Len(Polling!Answer) <= BatchSize
         /\ \A i \in DOMAIN Polling!Answer : Polling!Answer[i] = Polling!Forgotten + i
         /\ Polling!Answer # <<>> => Head(Polling!Answer) = Polling!Forgotten + 1
  <1> DEFINE n == Polling!Min({BatchSize, sent - Polling!Forgotten})
  <1>1. /\ sent \in Nat /\ BatchSize \in Nat /\ Polling!Forgotten \in Nat /\ Polling!Forgotten <= sent
    BY PollTypes, ForgottenFacts DEF PollInv
  <1>2. n \in Nat /\ n <= BatchSize /\ Polling!Forgotten + n <= sent
    <2>1. BatchSize \in Int /\ sent - Polling!Forgotten \in Int
      BY <1>1
    <2>2. n = IF BatchSize <= sent - Polling!Forgotten THEN BatchSize ELSE sent - Polling!Forgotten
      BY <2>1, GreaterOfTwo, Zenon
    <2> HIDE DEF n
    <2>3. QED
      BY <1>1, <2>2
  <1>3. Polling!Answer = [i \in 1 .. n |-> Polling!Forgotten + i]
    BY DEF Polling!Answer
  <1> HIDE DEF n
  <1>4. \A i \in 1 .. n : Polling!Forgotten + i \in 1 .. sent
    BY <1>1, <1>2
  <1>5. Polling!Answer \in Seq(1 .. sent) /\ Len(Polling!Answer) = n /\ DOMAIN Polling!Answer = 1 .. n
    BY <1>2, <1>3, <1>4
  <1>6. \A i \in DOMAIN Polling!Answer : Polling!Answer[i] = Polling!Forgotten + i
    BY <1>3, <1>5
  <1>7. ASSUME Polling!Answer # <<>>
        PROVE  Head(Polling!Answer) = Polling!Forgotten + 1
    <2>1. Head(Polling!Answer) = Polling!Answer[1] /\ 1 \in DOMAIN Polling!Answer
      BY <1>5, <1>7
    <2>2. QED
      BY <1>6, <2>1
  <1>8. QED
    BY <1>2, <1>5, <1>6, <1>7

(* The worker begins with the first of some updates: the ones an answer brought,*)
(* or the rest of the batch.                                                   *)
Turns(ups) ==
  /\ ups \in Seq(1 .. sent) /\ ups # <<>> /\ Len(ups) <= BatchSize
  /\ \A i \in DOMAIN ups : ups[i] = Head(ups) + i - 1
  /\ offset <= Head(ups)
  /\ batch' = ups /\ poller' = "processing" /\ Polling!Begin(ups)
  /\ sent' = sent /\ pollFaults' = pollFaults
  /\ confirmed' \in Nat /\ confirmed' < Head(ups)
  /\ 1 .. (Head(ups) - 1) \subseteq finished'
  /\ finished' \subseteq {u \in Polling!Updates : tried[u] > 0}

InOrder == \A u \in Polling!Updates : tried[u] = 0 /\ tried'[u] > 0 =>
             \A v \in 1 .. (u - 1) : tried[v] > 0

LEMMA TurnKeeps ==
  ASSUME Polling!PollingAssumption, PollInv, NEW ups, Turns(ups)
  PROVE  PollInv' /\ InOrder
  <1> DEFINE h == Head(ups)
  <1>1. /\ ups \in Seq(1 .. sent) /\ ups # <<>> /\ Len(ups) <= BatchSize
        /\ \A i \in DOMAIN ups : ups[i] = h + i - 1
        /\ offset <= h
        /\ batch' = ups /\ poller' = "processing"
        /\ offset' = h + 1 /\ tried' = [tried EXCEPT ![h] = @ + 1]
        /\ sent' = sent /\ pollFaults' = pollFaults
        /\ confirmed' \in Nat /\ confirmed' < h
        /\ 1 .. (h - 1) \subseteq finished'
        /\ finished' \subseteq {u \in Polling!Updates : tried[u] > 0}
    BY DEF Turns, Polling!Begin, Polling!NextOffset
  <1>2. h \in 1 .. sent
    BY <1>1, HeadTailProperties, Zenon
  <1> HIDE DEF h
  <1>3. /\ MaxUpdates \in Nat /\ PollFaults \in Nat /\ sent \in Nat /\ sent <= MaxUpdates
        /\ h \in Polling!Updates /\ h \in Nat /\ h <= sent /\ h >= 1
        /\ offset \in Nat /\ pollFaults \in Nat /\ pollFaults <= PollFaults
        /\ tried \in [Polling!Updates -> 0 .. PollFaults + 1]
        /\ \A u \in Polling!Updates : u \in Nat /\ tried[u] \in Nat
    <2>1. h \in Polling!Updates
      BY <1>2, PollTypes DEF PollInv
    <2>2. QED
      BY <1>2, <2>1, PollTypes DEF PollInv
  <1>4. \A u \in Polling!Updates : tried'[u] = IF u = h THEN tried[u] + 1 ELSE tried[u]
    BY <1>1, <1>3
  <1>5. \A u \in Polling!Updates : /\ u >= offset => tried[u] <= pollFaults
                                /\ tried[u] <= 1 + pollFaults
    BY DEF PollInv, Polling!OffsetFollows, Polling!RepeatsBoundedByRestarts
  <1>6. \A u \in Polling!Updates : tried'[u] \in Nat /\ tried'[u] <= 1 + pollFaults
    BY <1>1, <1>3, <1>4, <1>5
  <1>7. \A u \in Polling!Updates : tried'[u] \in 0 .. PollFaults + 1
    BY <1>3, <1>6
  <1>8. tried' \in [Polling!Updates -> 0 .. PollFaults + 1]
    <2>1. tried' = [u \in Polling!Updates |-> tried'[u]]
      BY <1>1, <1>3
    <2>2. QED
      BY <1>7, <2>1
  <1>9. \A u \in finished' : u \in Polling!Updates /\ tried[u] > 0 /\ tried'[u] > 0
    BY <1>1, <1>3, <1>4
  <1>10. Polling!TypeOK'
    <2>1. confirmed' \in 0 .. sent' /\ offset' \in 0 .. sent' + 1 /\ sent' \in 0 .. MaxUpdates
          /\ pollFaults' \in 0 .. PollFaults
      BY <1>1, <1>3
    <2>2. batch' \in Seq(1 .. sent') /\ Len(batch') <= BatchSize
      BY <1>1
    <2>3. poller' \in {"polling", "processing", "resting"} /\ (poller' = "processing" <=> batch' # <<>>)
      BY <1>1
    <2>4. finished' \subseteq {u \in Polling!Updates : tried'[u] > 0}
      BY <1>9
    <2>5. QED
      BY <1>8, <2>1, <2>2, <2>3, <2>4 DEF Polling!TypeOK
  <1>11. Polling!ForgottenOnlyIfFinished'
    <2>1. 1 .. confirmed' \subseteq 1 .. (h - 1)
      BY <1>1, <1>3
    <2>2. QED
      BY <1>1, <2>1 DEF Polling!ForgottenOnlyIfFinished
  <1>12. Polling!RepeatsBoundedByRestarts'
    BY <1>1, <1>6 DEF Polling!RepeatsBoundedByRestarts
  <1>13. Head(batch') = h
    BY <1>1 DEF h
  <1>14. Polling!BatchIsRun' /\ Polling!NothingSkipped'
    BY <1>1, <1>13 DEF Polling!BatchIsRun, Polling!NothingSkipped
  <1>15. Polling!OffsetFollows'
    <2>1. \A u \in Polling!Updates : u >= h + 1 => tried'[u] <= pollFaults
      BY <1>1, <1>3, <1>4, <1>5
    <2>2. tried'[h] > 0
      BY <1>3, <1>4
    <2>3. QED
      BY <1>1, <1>13, <2>1, <2>2 DEF Polling!OffsetFollows
  <1>16. InOrder
    <2>1. SUFFICES ASSUME NEW u \in Polling!Updates, tried[u] = 0, tried'[u] > 0, NEW v \in 1 .. (u - 1)
                   PROVE  tried[v] > 0
      BY DEF InOrder
    <2>2. u = h
      BY <1>3, <1>4, <2>1
    <2>3. v \in finished'
      BY <1>1, <2>2
    <2>4. QED
      BY <1>9, <2>3
  <1>17. QED
    BY <1>10, <1>11, <1>12, <1>14, <1>15, <1>16 DEF PollInv

(* The worker has no update at hand afterwards.                                *)
Settles ==
  /\ batch' = <<>> /\ poller' \in {"polling", "resting"}
  /\ sent' = sent /\ tried' = tried
  /\ confirmed' \in Nat /\ confirmed' <= sent /\ 1 .. confirmed' \subseteq finished'
  /\ offset' \in {0, offset} /\ 1 .. (offset' - 1) \subseteq finished'
  /\ finished' \subseteq {u \in Polling!Updates : tried[u] > 0}
  /\ pollFaults' \in 0 .. PollFaults /\ pollFaults' >= pollFaults
  /\ offset' = offset \/ pollFaults' = pollFaults + 1

LEMMA SettleKeeps ==
  ASSUME Polling!PollingAssumption, PollInv, Settles
  PROVE  PollInv' /\ InOrder
  <1>1. /\ batch' = <<>> /\ poller' \in {"polling", "resting"}
        /\ sent' = sent /\ tried' = tried
        /\ confirmed' \in Nat /\ confirmed' <= sent /\ 1 .. confirmed' \subseteq finished'
        /\ offset' \in {0, offset} /\ 1 .. (offset' - 1) \subseteq finished'
        /\ finished' \subseteq {u \in Polling!Updates : tried[u] > 0}
        /\ pollFaults' \in 0 .. PollFaults /\ pollFaults' >= pollFaults
        /\ offset' = offset \/ pollFaults' = pollFaults + 1
    BY DEF Settles
  <1>2. /\ MaxUpdates \in Nat /\ PollFaults \in Nat /\ sent \in Nat /\ sent <= MaxUpdates
        /\ BatchSize \in Nat
        /\ offset \in Nat /\ offset <= sent + 1 /\ pollFaults \in Nat
        /\ tried \in [Polling!Updates -> 0 .. PollFaults + 1]
        /\ \A u \in Polling!Updates : u \in Nat /\ tried[u] \in Nat
    BY PollTypes DEF PollInv
  <1>3. \A u \in Polling!Updates : /\ u >= offset => tried[u] <= pollFaults
                                /\ tried[u] <= 1 + pollFaults
    BY DEF PollInv, Polling!OffsetFollows, Polling!RepeatsBoundedByRestarts
  <1>4. pollFaults' \in Nat
    BY <1>1, <1>2
  <1>5. Polling!TypeOK'
    <2>1. confirmed' \in 0 .. sent' /\ offset' \in 0 .. sent' + 1 /\ sent' \in 0 .. MaxUpdates
      BY <1>1, <1>2
    <2>2. batch' \in Seq(1 .. sent') /\ Len(batch') <= BatchSize
      BY <1>1, <1>2
    <2>3. poller' \in {"polling", "processing", "resting"} /\ (poller' = "processing" <=> batch' # <<>>)
      BY <1>1
    <2>4. QED
      BY <1>1, <1>2, <2>1, <2>2, <2>3 DEF Polling!TypeOK
  <1>6. Polling!ForgottenOnlyIfFinished'
    BY <1>1 DEF Polling!ForgottenOnlyIfFinished
  <1>7. Polling!RepeatsBoundedByRestarts'
    BY <1>1, <1>2, <1>3, <1>4 DEF Polling!RepeatsBoundedByRestarts
  <1>8. Polling!BatchIsRun'
    BY <1>1 DEF Polling!BatchIsRun
  <1>9. Polling!NothingSkipped'
    BY <1>1 DEF Polling!NothingSkipped
  <1>10. Polling!OffsetFollows'
    <2>1. \A u \in Polling!Updates : u >= offset' => tried[u] <= pollFaults'
      BY <1>1, <1>2, <1>3, <1>4
    <2>2. QED
      BY <1>1, <2>1 DEF Polling!OffsetFollows
  <1>11. InOrder
    BY <1>1, <1>2 DEF InOrder
  <1>12. QED
    BY <1>5, <1>6, <1>7, <1>8, <1>9, <1>10, <1>11 DEF PollInv

(* The batch in hand.                                                          *)
LEMMA AtHand ==
  ASSUME Polling!PollingAssumption, PollInv, poller = "processing"
  PROVE  /\ batch \in Seq(1 .. sent) /\ batch # <<>> /\ Len(batch) <= BatchSize
         /\ Head(batch) \in 1 .. sent /\ Head(batch) \in Polling!Updates
         /\ offset = Head(batch) + 1 /\ confirmed < Head(batch)
         /\ tried[Head(batch)] > 0
         /\ 1 .. (Head(batch) - 1) \subseteq finished
         /\ Tail(batch) \in Seq(1 .. sent) /\ Len(Tail(batch)) <= BatchSize
         /\ Tail(batch) # <<>> =>
              /\ Head(Tail(batch)) = Head(batch) + 1
              /\ \A i \in DOMAIN Tail(batch) : Tail(batch)[i] = Head(Tail(batch)) + i - 1
  <1>1. /\ batch \in Seq(1 .. sent) /\ batch # <<>> /\ Len(batch) <= BatchSize /\ Len(batch) \in Nat
        /\ sent \in Nat /\ BatchSize \in Nat
    BY PollTypes DEF PollInv, Polling!TypeOK
  <1>2. /\ offset = Head(batch) + 1 /\ confirmed < Head(batch) /\ tried[Head(batch)] > 0
        /\ \A i \in DOMAIN batch : batch[i] = Head(batch) + i - 1
        /\ 1 .. (Head(batch) - 1) \subseteq finished
    BY DEF PollInv, Polling!OffsetFollows, Polling!BatchIsRun, Polling!NothingSkipped
  <1>3. Head(batch) \in 1 .. sent /\ Tail(batch) \in Seq(1 .. sent)
    BY <1>1, HeadTailProperties
  <1>4. Head(batch) \in Polling!Updates
    BY <1>3, PollTypes DEF PollInv
  <1>5. /\ Len(Tail(batch)) = Len(batch) - 1
        /\ \A i \in 1 .. Len(Tail(batch)) : Tail(batch)[i] = batch[i + 1]
        /\ DOMAIN Tail(batch) = 1 .. Len(Tail(batch)) /\ DOMAIN batch = 1 .. Len(batch)
    BY <1>1, HeadTailProperties
  <1>6. ASSUME NEW i \in DOMAIN Tail(batch)
        PROVE  i \in Nat /\ Tail(batch)[i] = Head(batch) + i
    <2>1. Len(Tail(batch)) \in Nat /\ i \in 1 .. Len(Tail(batch))
      BY <1>3, <1>5
    <2>2. i \in Nat /\ i + 1 \in 1 .. Len(batch)
      BY <1>1, <1>5, <2>1
    <2>3. Tail(batch)[i] = batch[i + 1]
      BY <1>5, <2>1
    <2>4. batch[i + 1] = Head(batch) + (i + 1) - 1
      BY <1>2, <1>5, <2>2
    <2>5. Head(batch) \in Nat
      BY <1>1, <1>3
    <2>6. QED
      BY <2>2, <2>3, <2>4, <2>5
  <1>7. ASSUME Tail(batch) # <<>>
        PROVE  Head(Tail(batch)) = Head(batch) + 1
    <2>1. 1 \in DOMAIN Tail(batch) /\ Head(Tail(batch)) = Tail(batch)[1]
      BY <1>3, <1>7
    <2>2. QED
      BY <1>6, <2>1
  <1>8. ASSUME Tail(batch) # <<>>, NEW i \in DOMAIN Tail(batch)
        PROVE  Tail(batch)[i] = Head(Tail(batch)) + i - 1
    BY <1>3, <1>6, <1>7, <1>8
  <1>9. Len(Tail(batch)) <= BatchSize
    BY <1>1, <1>5
  <1>10. QED
    BY <1>1, <1>2, <1>3, <1>4, <1>7, <1>8, <1>9

LEMMA ArriveKeeps ==
  ASSUME Polling!PollingAssumption, PollInv, Polling!Arrive
  PROVE  PollInv' /\ InOrder
  <1>1. /\ sent < MaxUpdates /\ sent' = sent + 1
        /\ confirmed' = confirmed /\ offset' = offset /\ batch' = batch /\ poller' = poller
        /\ tried' = tried /\ finished' = finished /\ pollFaults' = pollFaults
    BY DEF Polling!Arrive
  <1>2. /\ MaxUpdates \in Nat /\ sent \in Nat /\ confirmed \in Nat /\ confirmed <= sent
        /\ offset \in Nat /\ offset <= sent + 1 /\ batch \in Seq(1 .. sent)
        /\ \A u \in Polling!Updates : u \in Nat /\ tried[u] \in Nat
    BY PollTypes DEF PollInv
  <1>3. batch' \in Seq(1 .. sent')
    <2>1. 1 .. sent \subseteq 1 .. sent'
      BY <1>1, <1>2
    <2>2. QED
      BY <1>1, <1>2, <2>1, SeqMonotonic
  <1>4. sent' \in 0 .. MaxUpdates /\ confirmed' \in 0 .. sent' /\ offset' \in 0 .. sent' + 1
    BY <1>1, <1>2
  <1>5. Polling!TypeOK'
    BY <1>1, <1>3, <1>4 DEF PollInv, Polling!TypeOK
  <1>6. /\ Polling!ForgottenOnlyIfFinished' /\ Polling!RepeatsBoundedByRestarts'
        /\ Polling!BatchIsRun' /\ Polling!NothingSkipped' /\ Polling!OffsetFollows'
    BY <1>1 DEF PollInv, Polling!ForgottenOnlyIfFinished, Polling!RepeatsBoundedByRestarts,
                Polling!BatchIsRun, Polling!NothingSkipped, Polling!OffsetFollows
  <1>7. InOrder
    BY <1>1, <1>2 DEF InOrder
  <1>8. QED
    BY <1>5, <1>6, <1>7 DEF PollInv

LEMMA PollRests ==
  ASSUME Polling!PollingAssumption, PollInv, UNCHANGED pollVars
  PROVE  PollInv' /\ InOrder
  <1>1. /\ sent' = sent /\ confirmed' = confirmed /\ offset' = offset /\ batch' = batch
        /\ poller' = poller /\ tried' = tried /\ finished' = finished /\ pollFaults' = pollFaults
    BY DEF pollVars
  <1>2. Polling!TypeOK'
    BY <1>1 DEF PollInv, Polling!TypeOK
  <1>3. /\ Polling!ForgottenOnlyIfFinished' /\ Polling!RepeatsBoundedByRestarts'
        /\ Polling!BatchIsRun' /\ Polling!NothingSkipped' /\ Polling!OffsetFollows'
    BY <1>1 DEF PollInv, Polling!ForgottenOnlyIfFinished, Polling!RepeatsBoundedByRestarts,
                Polling!BatchIsRun, Polling!NothingSkipped, Polling!OffsetFollows
  <1>4. InOrder
    BY <1>1, PollTypes DEF InOrder, PollInv
  <1>5. QED
    BY <1>2, <1>3, <1>4 DEF PollInv

LEMMA PollStep ==
  ASSUME Polling!PollingAssumption, PollInv, Polling!Next
  PROVE  PollInv' /\ InOrder
  <1>1. /\ sent \in Nat /\ confirmed \in Nat /\ confirmed <= sent /\ offset \in Nat
        /\ pollFaults \in 0 .. PollFaults /\ PollFaults \in Nat /\ pollFaults \in Nat
        /\ finished \subseteq {u \in Polling!Updates : tried[u] > 0}
        /\ 1 .. confirmed \subseteq finished
        /\ poller \in {"polling", "processing", "resting"}
        /\ poller = "processing" <=> batch # <<>>
    BY PollTypes DEF PollInv, Polling!TypeOK, Polling!ForgottenOnlyIfFinished
  <1>2. ASSUME poller # "processing"
        PROVE  /\ batch = <<>> /\ poller \in {"polling", "resting"}
               /\ 1 .. (offset - 1) \subseteq finished
               /\ Polling!Forgotten \in Nat /\ Polling!Forgotten <= sent
               /\ 1 .. Polling!Forgotten \subseteq finished
               /\ offset <= Polling!Forgotten + 1
    BY <1>1, <1>2, ForgottenFacts DEF PollInv, Polling!NothingSkipped
  <1>3. CASE Polling!Arrive
    BY <1>3, ArriveKeeps
  <1>4. CASE Polling!Poll
    <2> DEFINE ups == Polling!Answer
    <2>1. /\ poller = "polling" /\ ups # <<>> /\ confirmed' = Polling!Forgotten /\ batch' = ups
          /\ poller' = "processing" /\ Polling!Begin(ups)
          /\ sent' = sent /\ finished' = finished /\ pollFaults' = pollFaults
      BY <1>4 DEF Polling!Poll
    <2>2. /\ ups \in Seq(1 .. sent) /\ Len(ups) <= BatchSize
          /\ \A i \in DOMAIN ups : ups[i] = Polling!Forgotten + i
          /\ Head(ups) = Polling!Forgotten + 1
      BY <2>1, AnswerFacts
    <2> HIDE DEF ups
    <2>3. \A i \in DOMAIN ups : i \in Nat
      BY <2>2
    <2>4. \A i \in DOMAIN ups : ups[i] = Head(ups) + i - 1
      BY <1>2, <2>1, <2>2, <2>3
    <2>5. /\ offset <= Head(ups) /\ confirmed' \in Nat /\ confirmed' < Head(ups)
          /\ 1 .. (Head(ups) - 1) \subseteq finished'
      BY <1>2, <2>1, <2>2
    <2>6. Turns(ups)
      BY <1>1, <2>1, <2>2, <2>4, <2>5 DEF Turns
    <2>7. QED
      BY <2>6, TurnKeeps
  <1>5. CASE Polling!PollNothing \/ Polling!PollFails \/ Polling!Rested
    <2> DEFINE Same == /\ poller # "processing" /\ poller' \in {"polling", "resting"}
                       /\ confirmed' \in {confirmed, Polling!Forgotten}
                       /\ sent' = sent /\ offset' = offset /\ batch' = batch /\ tried' = tried
                       /\ finished' = finished
                       /\ pollFaults' = pollFaults \/ (pollFaults < PollFaults /\ pollFaults' = pollFaults + 1)
    <2>1. Same
      <3>1. CASE Polling!PollNothing
        BY <3>1 DEF Polling!PollNothing
      <3>2. CASE Polling!PollFails
        BY <3>2 DEF Polling!PollFails
      <3>3. CASE Polling!Rested
        BY <3>3 DEF Polling!Rested, Polling!AfterRest
      <3>4. QED
        BY <1>5, <3>1, <3>2, <3>3
    <2>2. confirmed' \in Nat /\ confirmed' <= sent /\ 1 .. confirmed' \subseteq finished'
      <3>1. CASE confirmed' = confirmed
        BY <1>1, <2>1, <3>1
      <3>2. CASE confirmed' = Polling!Forgotten
        BY <1>2, <2>1, <3>2
      <3>3. QED
        BY <2>1, <3>1, <3>2
    <2>3. pollFaults' \in 0 .. PollFaults /\ pollFaults' >= pollFaults
      BY <1>1, <2>1
    <2>4. batch' = <<>> /\ 1 .. (offset' - 1) \subseteq finished'
      BY <1>2, <2>1
    <2>5. finished' \subseteq {u \in Polling!Updates : tried[u] > 0}
      BY <1>1, <2>1
    <2>6. Settles
      BY <2>1, <2>2, <2>3, <2>4, <2>5 DEF Settles
    <2>7. QED
      BY <2>6, SettleKeeps
  <1>6. CASE Polling!Processed \/ Polling!ProcessingRaises
    <2>1. /\ poller = "processing" /\ Polling!Advance
      BY <1>6 DEF Polling!Processed, Polling!ProcessingRaises, Polling!GoesOn
    <2>2. /\ batch' = Tail(batch) /\ finished' = finished \cup {Head(batch)}
          /\ sent' = sent /\ confirmed' = confirmed /\ pollFaults' = pollFaults
          /\ Tail(batch) # <<>> => Polling!Begin(Tail(batch)) /\ poller' = poller
          /\ Tail(batch) = <<>> => poller' = "polling" /\ offset' = offset /\ tried' = tried
      BY <2>1 DEF Polling!Advance, Polling!AfterAnswer
    <2> DEFINE h == Head(batch)
    <2>3. /\ h \in 1 .. sent /\ h \in Polling!Updates /\ offset = h + 1 /\ confirmed < h /\ tried[h] > 0
          /\ 1 .. (h - 1) \subseteq finished
          /\ Tail(batch) \in Seq(1 .. sent) /\ Len(Tail(batch)) <= BatchSize
          /\ Tail(batch) # <<>> =>
               /\ Head(Tail(batch)) = h + 1
               /\ \A i \in DOMAIN Tail(batch) : Tail(batch)[i] = Head(Tail(batch)) + i - 1
      BY <2>1, AtHand
    <2>4. finished' = finished \cup {h}
      BY <2>2
    <2> HIDE DEF h
    <2>5. finished' \subseteq {u \in Polling!Updates : tried[u] > 0}
      BY <1>1, <2>3, <2>4
    <2>6. 1 .. h \subseteq finished' /\ 1 .. confirmed \subseteq finished'
      <3>1. 1 .. h = (1 .. (h - 1)) \cup {h}
        BY <1>1, <2>3
      <3>2. QED
        BY <1>1, <2>3, <2>4, <3>1
    <2>7. CASE Tail(batch) # <<>>
      <3>1. h \in Nat /\ confirmed \in Nat /\ confirmed < h /\ confirmed' = confirmed /\ offset = h + 1
        BY <1>1, <2>2, <2>3
      <3> DEFINE t == Head(Tail(batch))
      <3>2. /\ offset <= t /\ confirmed' \in Nat /\ confirmed' < t
            /\ t - 1 = h
        <4>1. t = h + 1
          BY <2>3, <2>7, Zenon
        <4> HIDE DEF t
        <4>2. QED
          BY <3>1, <4>1
      <3>3. 1 .. (Head(Tail(batch)) - 1) \subseteq finished'
        BY <2>6, <3>2
      <3>4. /\ batch' = Tail(batch) /\ poller' = "processing" /\ Polling!Begin(Tail(batch))
            /\ sent' = sent /\ pollFaults' = pollFaults
        BY <2>1, <2>2, <2>7
      <3>5. /\ Tail(batch) \in Seq(1 .. sent) /\ Len(Tail(batch)) <= BatchSize
            /\ \A i \in DOMAIN Tail(batch) : Tail(batch)[i] = Head(Tail(batch)) + i - 1
        BY <2>3, <2>7, Zenon
      <3>6. Turns(Tail(batch))
        BY <2>5, <2>7, <3>2, <3>3, <3>4, <3>5, Zenon DEF Turns
      <3>7. QED
        BY <3>6, TurnKeeps
    <2>8. CASE Tail(batch) = <<>>
      <3>1. h \in Nat /\ offset' = h + 1
        BY <1>1, <2>2, <2>3, <2>8
      <3>2. 1 .. (offset' - 1) \subseteq finished'
        BY <2>6, <3>1
      <3>3. Settles
        BY <1>1, <2>2, <2>5, <2>6, <2>8, <3>2 DEF Settles
      <3>4. QED
        BY <3>3, SettleKeeps
    <2>9. QED
      BY <2>7, <2>8
  <1>7. CASE Polling!Restart
    <2>1. /\ pollFaults < PollFaults /\ pollFaults' = pollFaults + 1
          /\ offset' = 0 /\ batch' = <<>> /\ poller' = "polling"
          /\ sent' = sent /\ confirmed' = confirmed /\ tried' = tried /\ finished' = finished
      BY <1>7 DEF Polling!Restart
    <2>2. /\ pollFaults' \in 0 .. PollFaults /\ pollFaults' >= pollFaults
          /\ 1 .. (offset' - 1) \subseteq finished'
      BY <1>1, <2>1
    <2>3. Settles
      BY <1>1, <2>1, <2>2 DEF Settles
    <2>4. QED
      BY <2>3, SettleKeeps
  <1>8. QED
    BY <1>3, <1>4, <1>5, <1>6, <1>7 DEF Polling!Next, Polling!Worker

LEMMA PollInit ==
  ASSUME Polling!PollingAssumption, Polling!Init
  PROVE  PollInv
  <1>1. /\ sent = 0 /\ confirmed = 0 /\ offset = 0 /\ batch = <<>> /\ poller = "polling"
        /\ tried = [u \in Polling!Updates |-> 0] /\ finished = {} /\ pollFaults = 0
    BY DEF Polling!Init
  <1>2. MaxUpdates \in Nat /\ PollFaults \in Nat /\ BatchSize \in Nat
    BY DEF Polling!PollingAssumption
  <1>3. tried \in [Polling!Updates -> 0 .. PollFaults + 1] /\ \A u \in Polling!Updates : tried[u] = 0
    BY <1>1, <1>2
  <1>4. Polling!TypeOK
    BY <1>1, <1>2, <1>3 DEF Polling!TypeOK
  <1>5. /\ Polling!ForgottenOnlyIfFinished /\ Polling!RepeatsBoundedByRestarts
        /\ Polling!BatchIsRun /\ Polling!NothingSkipped /\ Polling!OffsetFollows
    BY <1>1, <1>3 DEF Polling!ForgottenOnlyIfFinished, Polling!RepeatsBoundedByRestarts,
                Polling!BatchIsRun, Polling!NothingSkipped, Polling!OffsetFollows
  <1>6. QED
    BY <1>4, <1>5 DEF PollInv

(* Wherever answers are lost and the process dies, the server forgets an update *)
(* only when the worker is through with it, an update is processed at most once  *)
(* more per restart, and first attempts come in order (telegram_polling_worker   *)
(* in src/main.py).                                                              *)
THEOREM UpdatesAreAccounted == Spec => UpdatesAccounted
  <1>1. Polling!PollingAssumption
    BY WorkersAssumption
  <1>2. Init => PollInv
    BY <1>1, PollInit DEF Init
  <1>3. PollInv /\ [Next]_vars => PollInv' /\ InOrder
    <2>1. ASSUME [Next]_vars
          PROVE  Polling!Next \/ UNCHANGED pollVars
      BY <2>1 DEF Next, vars
    <2>2. QED
      BY <1>1, <2>1, PollStep, PollRests
  <1>4. PollInv => (scope = "polling" => /\ Polling!TypeOK
                             /\ Polling!BatchIsRun /\ Polling!NothingSkipped /\ Polling!OffsetFollows
                             /\ Polling!ForgottenOnlyIfFinished
                             /\ Polling!RepeatsBoundedByRestarts)
    BY DEF PollInv
  <1>5. InOrder => [\A u \in Polling!Updates : tried[u] = 0 /\ tried'[u] > 0 =>
                      \A v \in 1 .. (u - 1) : tried[v] > 0]_(Polling!vars)
    BY DEF InOrder
  <1>6. QED
    BY <1>2, <1>3, <1>4, <1>5, PTL DEF Spec, UpdatesAccounted, Polling!FirstTriesInOrder

-----------------------------------------------------------------------------
(* The security auditor. *)

(* What the types say, in the form the proofs need.                            *)
LEMMA AuditTypes ==
  ASSUME Auditor!AuditorAssumption, Auditor!TypeOK
  PROVE  /\ Interval \in Nat /\ Hour \in Nat /\ Limit \in Nat /\ FreqT \in Nat /\ ErrorT \in Nat
         /\ Interval > 0 /\ Interval <= Hour /\ FreqT < Limit
         /\ LogTime \in Nat /\ LogFaults \in Nat
         /\ logNow \in Nat /\ logNow <= LogTime /\ next \in Nat /\ logNow <= next
         /\ logFaults \in Nat /\ logFaults <= LogFaults
         /\ Interval * logFaults \in Nat /\ Auditor!Patience \in Nat
         /\ Auditor!Patience = Interval + 2 * (Interval * logFaults)
         /\ Len(log) \in Nat /\ DOMAIN log = 1 .. Len(log)
         /\ \A i \in DOMAIN log : /\ i \in Nat /\ log[i].at \in Nat /\ log[i].at <= logNow
                                  /\ log[i].bad \in BOOLEAN
         /\ \A i, j \in DOMAIN log : i < j => log[i].at <= log[j].at
  <1>1. /\ Interval \in Nat /\ Hour \in Nat /\ Limit \in Nat /\ FreqT \in Nat /\ ErrorT \in Nat
        /\ Interval > 0 /\ Interval <= Hour /\ FreqT < Limit
        /\ LogTime \in Nat /\ LogFaults \in Nat
    BY DEF Auditor!AuditorAssumption
  <1>2. /\ logNow \in Nat /\ logNow <= LogTime /\ next \in Nat /\ logNow <= next
        /\ logFaults \in Nat /\ logFaults <= LogFaults
    BY <1>1 DEF Auditor!TypeOK, Auditor!Instants
  <1>3. Interval * logFaults \in Nat
    BY <1>1, <1>2
  <1>4. /\ Auditor!Patience \in Nat
        /\ Auditor!Patience = Interval + 2 * (Interval * logFaults)
    BY <1>1, <1>3 DEF Auditor!Patience
  <1>5. log \in Seq([at : 0 .. logNow, agent : Agents, bad : BOOLEAN])
    BY DEF Auditor!TypeOK
  <1>6. /\ Len(log) \in Nat /\ DOMAIN log = 1 .. Len(log)
        /\ \A i \in DOMAIN log : log[i] \in [at : 0 .. logNow, agent : Agents, bad : BOOLEAN]
    <2> DEFINE E == [at : 0 .. logNow, agent : Agents, bad : BOOLEAN]
    <2>1. log \in Seq(E)
      BY <1>5
    <2> HIDE DEF E
    <2>2. /\ Len(log) \in Nat /\ DOMAIN log = 1 .. Len(log)
          /\ \A i \in DOMAIN log : log[i] \in E
      BY <2>1, LenProperties, ElementOfSeq
    <2>3. QED
      BY <2>2 DEF E
  <1>7. \A i \in DOMAIN log : /\ i \in Nat /\ log[i].at \in Nat /\ log[i].at <= logNow
                              /\ log[i].bad \in BOOLEAN
    BY <1>2, <1>6
  <1>8. \A i, j \in DOMAIN log : i < j => log[i].at <= log[j].at
    BY DEF Auditor!TypeOK
  <1>9. QED
    BY <1>1, <1>2, <1>3, <1>4, <1>6, <1>7, <1>8

(* Counting sets of entries.                                                   *)
LEMMA EntriesCounted ==
  ASSUME NEW n \in Nat, NEW S \in SUBSET (1 .. n), NEW T \in SUBSET S
  PROVE  /\ Auditor!Cardinality(S) \in Nat /\ Auditor!Cardinality(T) \in Nat
         /\ Auditor!Cardinality(T) <= Auditor!Cardinality(S)
  <1>1. IsFiniteSet(1 .. n)
    BY FS_Interval
  <1>2. IsFiniteSet(S)
    BY <1>1, FS_Subset
  <1>3. \A U : Auditor!Cardinality(U) = Cardinality(U)
    BY DEF Auditor!Cardinality, Cardinality
  <1>4. /\ Cardinality(S) \in Nat /\ Cardinality(T) \in Nat
        /\ Cardinality(T) <= Cardinality(S)
    BY <1>2, FS_Subset, FS_CardinalityType
  <1>5. QED
    BY <1>3, <1>4

(* A stretch of the log is counted.                                          *)
LEMMA StretchCounted ==
  ASSUME NEW i \in Int, NEW n \in Int, i <= n
  PROVE  Auditor!Cardinality(i .. n) = n - i + 1
  <1>1. \A U : Auditor!Cardinality(U) = Cardinality(U)
    BY DEF Auditor!Cardinality, Cardinality
  <1>2. Cardinality(i .. n) = n - i + 1
    BY FS_Interval
  <1>3. QED
    BY <1>1, <1>2

(* What an audit reads of the entries since t, when that is within the hour:   *)
(* all of them if they are few, and more than the threshold if they are.       *)
LEMMA AuditSees ==
  ASSUME Auditor!AuditorAssumption, Auditor!TypeOK,
         NEW t \in Int, logNow <= t + Hour
  PROVE  /\ Auditor!Cardinality(Auditor!During(t, logNow + 1)) > FreqT => Auditor!Cardinality(Auditor!Fetched) > FreqT
         /\ Auditor!Cardinality(Auditor!During(t, logNow + 1)) <= Limit
              => Auditor!During(t, logNow + 1) \subseteq Auditor!Fetched
  <1> DEFINE S == Auditor!During(t, logNow + 1)
             n == Len(log)
  <1>1. /\ Interval \in Nat /\ Hour \in Nat /\ Limit \in Nat /\ FreqT \in Nat /\ FreqT < Limit
        /\ logNow \in Nat /\ n \in Nat /\ DOMAIN log = 1 .. n
        /\ \A i \in 1 .. n : i \in Nat /\ log[i].at \in Nat /\ log[i].at <= logNow
        /\ \A i, j \in 1 .. n : i < j => log[i].at <= log[j].at
    BY AuditTypes
  <1>2. \A i \in 1 .. n : i \in S <=> t <= log[i].at
    BY <1>1 DEF Auditor!During
  <1>3. S \subseteq 1 .. n
    BY <1>1 DEF Auditor!During
  <1>4. \A i \in 1 .. n : i \in Auditor!Recent <=> logNow <= log[i].at + Hour
    BY <1>1 DEF Auditor!During, Auditor!Recent
  <1>5. \A i \in 1 .. n : i \in Auditor!Newest <=> i > n - Limit
    BY <1>1 DEF Auditor!Newest
  <1>6. Auditor!Fetched \subseteq 1 .. n
    BY <1>1 DEF Auditor!Fetched, Auditor!Newest
  <1> HIDE DEF n, S
  <1>7. \A i \in 1 .. n : i \in S => i \in Auditor!Recent
    BY <1>1, <1>2, <1>4
  <1>8. \A i, j \in 1 .. n : i \in S /\ i <= j => j \in S
    <2>1. SUFFICES ASSUME NEW i \in 1 .. n, NEW j \in 1 .. n, i \in S, i <= j
                   PROVE  j \in S
      OBVIOUS
    <2>2. i < j \/ i = j
      BY <2>1, <1>1
    <2>3. log[i].at <= log[j].at
      BY <1>1, <2>2
    <2>4. QED
      BY <1>1, <1>2, <2>1, <2>3
  <1>9. CASE \E i \in S : i <= n - Limit
    <2>1. PICK i \in S : i <= n - Limit
      BY <1>9
    <2>2. i \in 1 .. n /\ i \in Nat
      BY <1>1, <1>3, <2>1
    <2>3. (n - Limit + 1) .. n \subseteq Auditor!Fetched
      <3>1. SUFFICES ASSUME NEW j \in (n - Limit + 1) .. n
                     PROVE  j \in Auditor!Recent /\ j \in Auditor!Newest
        BY DEF Auditor!Fetched
      <3>2. j \in 1 .. n /\ i <= j /\ j > n - Limit
        BY <1>1, <2>1, <2>2
      <3>3. QED
        BY <1>5, <1>7, <1>8, <2>1, <2>2, <3>2
    <2>4. Auditor!Cardinality((n - Limit + 1) .. n) = Limit
      <3>1. (n - Limit + 1) \in Int /\ n \in Int /\ ~((n - Limit + 1) > n) /\ n - (n - Limit + 1) + 1 = Limit
        BY <1>1
      <3>2. QED
        BY <3>1, StretchCounted
    <2>5. Auditor!Cardinality(Auditor!Fetched) >= Limit /\ Auditor!Cardinality(Auditor!Fetched) \in Nat
      BY <1>1, <1>6, <2>3, <2>4, EntriesCounted
    <2>6. i .. n \subseteq S
      BY <1>1, <1>8, <2>1, <2>2
    <2>7. Auditor!Cardinality(i .. n) = n - i + 1
      BY <1>1, <2>2, StretchCounted
    <2>8. Auditor!Cardinality(S) >= n - i + 1 /\ Auditor!Cardinality(S) \in Nat
      BY <1>1, <1>3, <2>6, <2>7, EntriesCounted
    <2>9. Auditor!Cardinality(Auditor!Fetched) > FreqT /\ ~(Auditor!Cardinality(S) <= Limit)
      BY <1>1, <2>1, <2>2, <2>5, <2>8
    <2>10. QED
      BY <2>9 DEF S
  <1>10. CASE ~(\E i \in S : i <= n - Limit)
    <2>1. S \subseteq Auditor!Fetched
      <3>1. SUFFICES ASSUME NEW i \in S
                     PROVE  i \in Auditor!Recent /\ i \in Auditor!Newest
        BY DEF Auditor!Fetched
      <3>2. i \in 1 .. n /\ i > n - Limit
        BY <1>1, <1>3, <1>10
      <3>3. QED
        BY <1>5, <1>7, <3>2
    <2>2. Auditor!Cardinality(S) <= Auditor!Cardinality(Auditor!Fetched) /\ Auditor!Cardinality(S) \in Nat
          /\ Auditor!Cardinality(Auditor!Fetched) \in Nat
      BY <1>1, <1>6, <2>1, EntriesCounted
    <2>3. Auditor!Cardinality(S) > FreqT => Auditor!Cardinality(Auditor!Fetched) > FreqT
      BY <1>1, <2>2
    <2>4. QED
      BY <2>1, <2>3 DEF S
  <1>11. QED
    BY <1>9, <1>10

(* An entry is written at the end, with the present instant.                   *)
LogExtends ==
  /\ Len(log') = Len(log) + 1 /\ DOMAIN log' = 1 .. Len(log) + 1
  /\ \A i \in 1 .. Len(log) : log'[i] = log[i]
  /\ log'[Len(log) + 1].at = logNow

(* What Log does, whoever writes.                                              *)
LEMMA LogWrites ==
  ASSUME Auditor!AuditorAssumption, Auditor!TypeOK,
         NEW a \in Agents, NEW bad \in BOOLEAN, Auditor!Log(a, bad)
  PROVE  LogExtends /\ log' \in Seq([at : 0 .. logNow, agent : Agents, bad : BOOLEAN])
  <1> DEFINE E == [at : 0 .. logNow, agent : Agents, bad : BOOLEAN]
             e == [at |-> logNow, agent |-> a, bad |-> bad]
  <1>1. log' = Append(log, e) /\ log \in Seq(E)
    BY DEF Auditor!Log, Auditor!Appended, Auditor!Entry, Auditor!TypeOK
  <1>2. e \in E /\ e.at = logNow
    BY AuditTypes
  <1> HIDE DEF E, e
  <1>3. /\ Append(log, e) \in Seq(E)
        /\ Len(Append(log, e)) = Len(log) + 1
        /\ \A i \in 1 .. Len(log) : Append(log, e)[i] = log[i]
        /\ Append(log, e)[Len(log) + 1] = e
    BY <1>1, <1>2, AppendProperties
  <1>4. DOMAIN Append(log, e) = 1 .. Len(log) + 1
    BY <1>3, LenProperties
  <1>5. log'[Len(log) + 1].at = logNow
    BY <1>1, <1>2, <1>3
  <1>6. LogExtends
    BY <1>1, <1>3, <1>4, <1>5 DEF LogExtends
  <1>7. QED
    BY <1>1, <1>3, <1>6 DEF E

(* What was written stays, and the past is as it was.                          *)
LEMMA PastIsKept ==
  ASSUME Auditor!AuditorAssumption, Auditor!TypeOK, LogExtends \/ log' = log
  PROVE  /\ Len(log') \in Nat /\ Len(log) <= Len(log') /\ DOMAIN log' = 1 .. Len(log')
         /\ \A from, to \in Int :
              /\ Auditor!During(from, to) \subseteq (Auditor!During(from, to))'
              /\ Auditor!Bad(Auditor!During(from, to)) \subseteq (Auditor!Bad(Auditor!During(from, to)))'
              /\ (Auditor!During(from, to))' \subseteq 1 .. Len(log')
              /\ (Auditor!Bad(Auditor!During(from, to)))' \subseteq 1 .. Len(log')
              /\ to <= logNow => (Auditor!During(from, to))' = Auditor!During(from, to)
  <1>1. Len(log) \in Nat /\ DOMAIN log = 1 .. Len(log) /\ logNow \in Nat
    BY AuditTypes
  <1>2. /\ Len(log') \in Nat /\ Len(log) <= Len(log') /\ DOMAIN log' = 1 .. Len(log')
        /\ \A i \in 1 .. Len(log) : log'[i] = log[i] /\ i \in 1 .. Len(log')
    BY <1>1 DEF LogExtends
  <1>3. SUFFICES ASSUME NEW from \in Int, NEW to \in Int
                 PROVE  /\ Auditor!During(from, to) \subseteq (Auditor!During(from, to))'
                        /\ Auditor!Bad(Auditor!During(from, to)) \subseteq (Auditor!Bad(Auditor!During(from, to)))'
                        /\ (Auditor!During(from, to))' \subseteq 1 .. Len(log')
                        /\ (Auditor!Bad(Auditor!During(from, to)))' \subseteq 1 .. Len(log')
                        /\ to <= logNow => (Auditor!During(from, to))' = Auditor!During(from, to)
    BY <1>2
  <1>4. (Auditor!During(from, to))' = {i \in 1 .. Len(log') : from <= log'[i].at /\ log'[i].at < to}
    BY <1>2 DEF Auditor!During
  <1>5. Auditor!During(from, to) = {i \in 1 .. Len(log) : from <= log[i].at /\ log[i].at < to}
    BY <1>1 DEF Auditor!During
  <1>6. Auditor!During(from, to) \subseteq (Auditor!During(from, to))'
    BY <1>2, <1>4, <1>5
  <1>7. (Auditor!During(from, to))' \subseteq 1 .. Len(log')
    BY <1>4
  <1>8. /\ (Auditor!Bad(Auditor!During(from, to)))' = {i \in (Auditor!During(from, to))' : log'[i].bad}
        /\ Auditor!Bad(Auditor!During(from, to)) = {i \in Auditor!During(from, to) : log[i].bad}
    BY DEF Auditor!Bad
  <1>9. /\ Auditor!Bad(Auditor!During(from, to)) \subseteq (Auditor!Bad(Auditor!During(from, to)))'
        /\ (Auditor!Bad(Auditor!During(from, to)))' \subseteq 1 .. Len(log')
    BY <1>2, <1>5, <1>6, <1>7, <1>8
  <1>10. ASSUME to <= logNow
         PROVE  (Auditor!During(from, to))' = Auditor!During(from, to)
    <2>1. CASE log' = log
      BY <1>4, <1>5, <2>1
    <2>2. CASE LogExtends
      <3>1. ~(log'[Len(log) + 1].at < to)
        BY <1>1, <1>10, <2>2 DEF LogExtends
      <3>2. Len(log') = Len(log) + 1
        BY <2>2 DEF LogExtends
      <3>3. \A i \in 1 .. Len(log') : i \in 1 .. Len(log) \/ i = Len(log) + 1
        BY <1>1, <3>2
      <3>4. QED
        BY <1>2, <1>4, <1>5, <3>1, <3>3
    <2>3. QED
      BY <2>1, <2>2
  <1>11. QED
    BY <1>6, <1>7, <1>9, <1>10

(* What each alert says of the entries that were read.                       *)
LEMMA AlertsMean ==
  ASSUME NEW S
  PROVE  /\ "HIGH_FREQUENCY" \in Auditor!Alerts(S) <=> Auditor!Cardinality(S) > FreqT
         /\ "REPEATED_FAILURES" \in Auditor!Alerts(S) <=> Auditor!Cardinality(Auditor!Bad(S)) > ErrorT
  <1>1. "HIGH_FREQUENCY" \in Auditor!Kinds /\ "REPEATED_FAILURES" \in Auditor!Kinds
        /\ "HIGH_FREQUENCY" # "REPEATED_FAILURES"
    BY DEF Auditor!Kinds
  <1>2. QED
    BY <1>1 DEF Auditor!Alerts

(* A report keeps its cause: the log only grows, and an audit reads the      *)
(* hour.                                                                     *)
LEMMA CausesKept ==
  ASSUME Auditor!AuditorAssumption, Auditor!TypeOK, Auditor!ReportsHaveCause,
         LogExtends \/ log' = log,
         \A t \in Auditor!Instants :
            \/ saved'[t] = saved[t]
            \/ t = logNow /\ log' = log /\ saved'[t] = Auditor!Alerts(Auditor!Fetched)
  PROVE  Auditor!ReportsHaveCause'
  <1>1. /\ Hour \in Nat /\ FreqT \in Nat /\ ErrorT \in Nat /\ LogTime \in Nat /\ logNow \in Nat
        /\ Len(log) \in Nat /\ DOMAIN log = 1 .. Len(log)
    BY AuditTypes
  <1>2. SUFFICES ASSUME NEW t \in Auditor!Instants
                 PROVE  /\ "HIGH_FREQUENCY" \in saved'[t]
                             => (Auditor!Cardinality(Auditor!During(t - Hour, t + 1)))' > FreqT
                        /\ "REPEATED_FAILURES" \in saved'[t]
                             => (Auditor!Cardinality(Auditor!Bad(Auditor!During(t - Hour, t + 1))))' > ErrorT
    BY DEF Auditor!ReportsHaveCause, Auditor!Instants, Auditor!During, Auditor!Bad
  <1> DEFINE S == Auditor!During(t - Hour, t + 1)
             B == Auditor!Bad(S)
  <1>3. t \in Nat /\ (t - Hour) \in Int /\ (t + 1) \in Int
    BY <1>1 DEF Auditor!Instants
  <1>4. Len(log') \in Nat /\ S \subseteq S' /\ B \subseteq B' /\ S' \subseteq 1 .. Len(log') /\ B' \subseteq 1 .. Len(log')
    BY <1>3, PastIsKept
  <1>5. /\ Auditor!Cardinality(S) \in Nat /\ Auditor!Cardinality(S)' \in Nat /\ Auditor!Cardinality(S) <= Auditor!Cardinality(S)'
        /\ Auditor!Cardinality(B) \in Nat /\ Auditor!Cardinality(B)' \in Nat /\ Auditor!Cardinality(B) <= Auditor!Cardinality(B)'
    BY <1>4, EntriesCounted
  <1>6. /\ "HIGH_FREQUENCY" \in saved'[t] => Auditor!Cardinality(S) > FreqT
        /\ "REPEATED_FAILURES" \in saved'[t] => Auditor!Cardinality(B) > ErrorT
    <2>1. CASE saved'[t] = saved[t]
      BY <2>1 DEF Auditor!ReportsHaveCause, S, B
    <2>2. CASE t = logNow /\ log' = log /\ saved'[t] = Auditor!Alerts(Auditor!Fetched)
      <3>1. Auditor!Fetched \subseteq S
        BY <2>2 DEF Auditor!Fetched, Auditor!Recent
      <3>2. Auditor!Bad(Auditor!Fetched) \subseteq B
        BY <3>1 DEF Auditor!Bad
      <3>3. S \subseteq 1 .. Len(log) /\ B \subseteq 1 .. Len(log)
        BY <1>1 DEF Auditor!During, Auditor!Bad
      <3>4. /\ Auditor!Cardinality(Auditor!Fetched) <= Auditor!Cardinality(S) /\ Auditor!Cardinality(Auditor!Fetched) \in Nat
            /\ Auditor!Cardinality(Auditor!Bad(Auditor!Fetched)) <= Auditor!Cardinality(B)
            /\ Auditor!Cardinality(Auditor!Bad(Auditor!Fetched)) \in Nat
        BY <1>1, <3>1, <3>2, <3>3, EntriesCounted
      <3>5. /\ "HIGH_FREQUENCY" \in saved'[t] => Auditor!Cardinality(Auditor!Fetched) > FreqT
            /\ "REPEATED_FAILURES" \in saved'[t] => Auditor!Cardinality(Auditor!Bad(Auditor!Fetched)) > ErrorT
        BY <2>2, AlertsMean
      <3> HIDE DEF S, B
      <3>6. QED
        BY <1>1, <1>5, <3>4, <3>5
    <2>3. QED
      BY <2>1, <2>2
  <1> HIDE DEF S, B
  <1>7. /\ "HIGH_FREQUENCY" \in saved'[t] => Auditor!Cardinality(S)' > FreqT
        /\ "REPEATED_FAILURES" \in saved'[t] => Auditor!Cardinality(B)' > ErrorT
    BY <1>1, <1>5, <1>6
  <1>8. QED
    BY <1>7 DEF S, B

(* The ways in which the worker meets its appointments.                        *)
Sleeps == next' = next
Reports == /\ next = logNow /\ logNow' = logNow /\ log' = log
           /\ Auditor!Cardinality(Auditor!Fetched) > FreqT => "HIGH_FREQUENCY" \in saved'[logNow]
Misses == /\ next = logNow /\ logNow' = logNow
          /\ logFaults' = logFaults + 1 /\ next' <= logNow + 2 * Interval /\ next' \in Nat

(* A burst is reported, or an audit that will see it is due.                 *)
LEMMA DueReports ==
  ASSUME Auditor!AuditorAssumption, Auditor!TypeOK, Auditor!ReportedOrDue,
         LogExtends \/ log' = log, Auditor!WakesInTime',
         \/ logNow' = logNow
         \/ logNow' = logNow + 1 /\ log' = log,
         logFaults' \in {logFaults, logFaults + 1},
         \A u \in 0 .. logNow : "HIGH_FREQUENCY" \in saved[u] => "HIGH_FREQUENCY" \in saved'[u],
         Sleeps \/ Reports \/ Misses
  PROVE  Auditor!ReportedOrDue'
  <1>1. /\ Hour \in Nat /\ FreqT \in Nat /\ logNow \in Nat /\ next \in Nat /\ Interval \in Nat
        /\ logFaults \in Nat /\ Len(log) \in Nat /\ DOMAIN log = 1 .. Len(log)
        /\ Auditor!Patience \in Nat /\ Auditor!Patience = Interval + 2 * (Interval * logFaults)
    BY AuditTypes
  <1>2. /\ Auditor!Patience' \in Nat /\ Auditor!Patience <= Auditor!Patience'
        /\ logFaults' = logFaults + 1 => Auditor!Patience' = Auditor!Patience + 2 * Interval
    <2>1. Interval * (logFaults + 1) = Interval * logFaults + Interval /\ Interval * logFaults \in Nat
      BY <1>1
    <2>2. CASE logFaults' = logFaults
      BY <1>1, <2>2 DEF Auditor!Patience
    <2>3. CASE logFaults' = logFaults + 1
      BY <1>1, <2>1, <2>3 DEF Auditor!Patience
    <2>4. QED
      BY <2>2, <2>3
  <1>3. SUFFICES ASSUME NEW t \in 0 .. logNow',
                        (Auditor!Cardinality(Auditor!During(t, t + 1)))' > FreqT, Auditor!Patience' <= Hour
                 PROVE  \/ \E u \in t .. logNow' : u <= t + Hour /\ "HIGH_FREQUENCY" \in saved'[u]
                        \/ next' <= t + Auditor!Patience'
    BY DEF Auditor!ReportedOrDue, Auditor!During
  <1>4. t \in Nat /\ logNow' \in Nat /\ t <= logNow'
    BY <1>1
  <1>5. CASE t = logNow'
    BY <1>5 DEF Auditor!WakesInTime
  <1>6. CASE t # logNow'
    <2>1. t \in 0 .. logNow /\ (t + 1) \in Int /\ (t + 1 <= logNow \/ log' = log)
      BY <1>1, <1>4, <1>6
    <2>2. (Auditor!During(t, t + 1))' = Auditor!During(t, t + 1)
      <3>1. CASE t + 1 <= logNow
        BY <1>4, <2>1, <3>1, PastIsKept
      <3>2. CASE log' = log
        BY <3>2 DEF Auditor!During
      <3>3. QED
        BY <2>1, <3>1, <3>2
    <2>3. Auditor!Cardinality(Auditor!During(t, t + 1)) > FreqT /\ Auditor!Patience <= Hour
      BY <1>1, <1>2, <1>3, <2>2
    <2>4. CASE \E u \in t .. logNow : u <= t + Hour /\ "HIGH_FREQUENCY" \in saved[u]
      <3>1. PICK u \in t .. logNow : u <= t + Hour /\ "HIGH_FREQUENCY" \in saved[u]
        BY <2>4
      <3>2. u \in t .. logNow' /\ u \in 0 .. logNow
        BY <1>1, <1>4, <3>1
      <3>3. QED
        BY <3>1, <3>2
    <2>5. CASE next <= t + Auditor!Patience
      <3>1. CASE Sleeps
        <4>1. next' = next
          BY <3>1 DEF Sleeps
        <4>2. \A x, y, z \in Nat : next <= x + y /\ y <= z => next <= x + z
          BY <1>1
        <4>3. Auditor!Patience \in Nat /\ Auditor!Patience' \in Nat /\ Auditor!Patience <= Auditor!Patience'
          BY <1>1, <1>2
        <4>4. next <= t + Auditor!Patience'
          BY <1>4, <2>5, <4>2, <4>3
        <4>5. next' <= t + Auditor!Patience'
          BY <4>1, <4>4
        <4>6. QED
          BY <4>5
      <3>2. CASE Reports
        <4>1. logNow <= t + Hour /\ logNow' = logNow /\ next = logNow
          BY <1>1, <1>4, <2>3, <2>5, <3>2 DEF Reports
        <4>2. Auditor!During(t, t + 1) \subseteq Auditor!During(t, logNow + 1)
          <5>1. \A i \in DOMAIN log : log[i].at \in Nat
            BY AuditTypes
          <5>2. \A x \in Nat : x < t + 1 => x < logNow + 1
            BY <1>1, <2>1
          <5>3. QED
            BY <5>1, <5>2 DEF Auditor!During
        <4>3. Auditor!During(t, logNow + 1) \subseteq 1 .. Len(log)
          BY <1>1 DEF Auditor!During
        <4>4. Auditor!Cardinality(Auditor!During(t, logNow + 1)) > FreqT
          <5>1. /\ Auditor!Cardinality(Auditor!During(t, t + 1)) \in Nat
                /\ Auditor!Cardinality(Auditor!During(t, logNow + 1)) \in Nat
                /\ Auditor!Cardinality(Auditor!During(t, t + 1)) <= Auditor!Cardinality(Auditor!During(t, logNow + 1))
            BY <1>1, <4>2, <4>3, EntriesCounted
          <5>2. QED
            BY <1>1, <2>3, <5>1
        <4>5. Auditor!Cardinality(Auditor!Fetched) > FreqT
          BY <1>4, <4>1, <4>4, AuditSees
        <4>6. "HIGH_FREQUENCY" \in saved'[logNow]
          BY <3>2, <4>5 DEF Reports
        <4>7. logNow \in t .. logNow'
          BY <1>1, <2>1, <4>1
        <4>8. QED
          BY <4>1, <4>6, <4>7
      <3>3. CASE Misses
        BY <1>1, <1>2, <1>4, <2>5, <3>3 DEF Misses
      <3>4. QED
        BY <3>1, <3>2, <3>3
    <2>6. QED
      BY <2>1, <2>3, <2>4, <2>5 DEF Auditor!ReportedOrDue
  <1>7. QED
    BY <1>5, <1>6

(* The inductive invariant: a burst since t is reported, or the next audit is still *)
(* within the patience of t and will find it in the hour.                          *)
AuditInv ==
  /\ Auditor!TypeOK /\ Auditor!WakesInTime /\ Auditor!ReportedOrDue
  /\ Auditor!ReportsHaveCause

(* An audit that succeeds reports the burst since the one before.              *)
Bursts ==
  Auditor!Audit =>
    LET fresh == Auditor!During(logNow - Interval, logNow + 1)
    IN  /\ Auditor!Cardinality(fresh) > FreqT => "HIGH_FREQUENCY" \in saved'[logNow]
        /\ Auditor!Cardinality(Auditor!Bad(fresh)) > ErrorT /\ Auditor!Cardinality(fresh) <= Limit
             => "REPEATED_FAILURES" \in saved'[logNow]

(* Every audit that succeeds does.                                             *)
LEMMA BurstSeen ==
  ASSUME Auditor!AuditorAssumption, Auditor!TypeOK
  PROVE  Bursts
  <1> DEFINE fresh == Auditor!During(logNow - Interval, logNow + 1)
  <1>1. SUFFICES ASSUME Auditor!Audit
                 PROVE  /\ Auditor!Cardinality(fresh) > FreqT => "HIGH_FREQUENCY" \in saved'[logNow]
                        /\ Auditor!Cardinality(Auditor!Bad(fresh)) > ErrorT /\ Auditor!Cardinality(fresh) <= Limit
                             => "REPEATED_FAILURES" \in saved'[logNow]
    BY DEF Bursts
  <1>2. /\ logNow \in Nat /\ Hour \in Nat /\ Interval \in Nat /\ Interval <= Hour /\ ErrorT \in Nat
        /\ Len(log) \in Nat /\ DOMAIN log = 1 .. Len(log) /\ logNow \in Auditor!Instants
    BY AuditTypes DEF Auditor!Instants
  <1>3. saved'[logNow] = Auditor!Alerts(Auditor!Fetched)
    BY <1>1, <1>2 DEF Auditor!Audit, Auditor!TypeOK
  <1>4. (logNow - Interval) \in Int /\ logNow <= (logNow - Interval) + Hour
    BY <1>2
  <1>5. /\ Auditor!Cardinality(fresh) > FreqT => Auditor!Cardinality(Auditor!Fetched) > FreqT
        /\ Auditor!Cardinality(fresh) <= Limit => fresh \subseteq Auditor!Fetched
    BY <1>4, AuditSees
  <1> HIDE DEF fresh
  <1>6. ASSUME Auditor!Cardinality(Auditor!Bad(fresh)) > ErrorT, Auditor!Cardinality(fresh) <= Limit
        PROVE  Auditor!Cardinality(Auditor!Bad(Auditor!Fetched)) > ErrorT
    <2>1. Auditor!Bad(fresh) \subseteq Auditor!Bad(Auditor!Fetched)
      BY <1>5, <1>6 DEF Auditor!Bad
    <2>2. Auditor!Bad(Auditor!Fetched) \subseteq 1 .. Len(log)
      BY <1>2 DEF Auditor!Bad, Auditor!Fetched, Auditor!Newest
    <2>3. /\ Auditor!Cardinality(Auditor!Bad(fresh)) \in Nat
          /\ Auditor!Cardinality(Auditor!Bad(Auditor!Fetched)) \in Nat
          /\ Auditor!Cardinality(Auditor!Bad(fresh)) <= Auditor!Cardinality(Auditor!Bad(Auditor!Fetched))
      BY <1>2, <2>1, <2>2, EntriesCounted
    <2>4. QED
      BY <1>2, <1>6, <2>3
  <1>7. QED
    BY <1>3, <1>5, <1>6, AlertsMean

(* How a step moves the parts that the others do not constrain.                *)
LEMMA AuditTypeKept ==
  ASSUME Auditor!AuditorAssumption, Auditor!TypeOK,
         LogExtends \/ log' = log, log' \in Seq([at : 0 .. logNow, agent : Agents, bad : BOOLEAN]),
         logNow' \in {logNow, logNow + 1}, logNow' <= LogTime, next' \in Nat, logNow' <= next',
         saved' \in [Auditor!Instants -> SUBSET Auditor!Kinds], logFaults' \in 0 .. LogFaults
  PROVE  Auditor!TypeOK'
  <1>1. /\ logNow \in Nat /\ LogTime \in Nat /\ Len(log) \in Nat /\ DOMAIN log = 1 .. Len(log)
        /\ \A i \in 1 .. Len(log) : log[i].at \in Nat /\ log[i].at <= logNow
        /\ \A i, j \in 1 .. Len(log) : i < j => log[i].at <= log[j].at
    BY AuditTypes
  <1>2. logNow' \in Auditor!Instants
    BY <1>1 DEF Auditor!Instants
  <1>3. log' \in Seq([at : 0 .. logNow', agent : Agents, bad : BOOLEAN])
    <2>1. 0 .. logNow \subseteq 0 .. logNow'
      BY <1>1
    <2>2. [at : 0 .. logNow, agent : Agents, bad : BOOLEAN] \subseteq [at : 0 .. logNow', agent : Agents, bad : BOOLEAN]
      BY <2>1
    <2>3. QED
      BY <2>2, SeqMonotonic
  <1>4. \A i, j \in DOMAIN log' : i < j => log'[i].at <= log'[j].at
    <2>1. CASE log' = log
      BY <1>1, <2>1
    <2>2. CASE LogExtends
      <3>1. /\ DOMAIN log' = 1 .. Len(log) + 1 /\ log'[Len(log) + 1].at = logNow
            /\ \A i \in 1 .. Len(log) : log'[i] = log[i]
        BY <2>2 DEF LogExtends
      <3>2. SUFFICES ASSUME NEW i \in 1 .. Len(log) + 1, NEW j \in 1 .. Len(log) + 1, i < j
                     PROVE  log'[i].at <= log'[j].at
        BY <3>1
      <3>3. i \in 1 .. Len(log) /\ (j \in 1 .. Len(log) \/ j = Len(log) + 1)
        BY <1>1, <3>2
      <3>4. CASE j \in 1 .. Len(log)
        BY <1>1, <3>1, <3>2, <3>3, <3>4
      <3>5. CASE j = Len(log) + 1
        BY <1>1, <3>1, <3>3, <3>5
      <3>6. QED
        BY <3>3, <3>4, <3>5
    <2>3. QED
      BY <2>1, <2>2
  <1>5. QED
    BY <1>2, <1>3, <1>4 DEF Auditor!TypeOK, Auditor!Instants

(* Every step of the auditor, of the clock and of the log keeps AuditInv,    *)
(* and an audit reports its burst.                                           *)
LEMMA AuditStep ==
  ASSUME Auditor!AuditorAssumption, AuditInv, Auditor!Next
  PROVE  AuditInv' /\ Bursts
  <1>1. /\ Interval \in Nat /\ Interval > 0 /\ LogTime \in Nat /\ LogFaults \in Nat
        /\ logNow \in Nat /\ logNow <= LogTime /\ next \in Nat /\ logNow <= next
        /\ logFaults \in Nat /\ logFaults <= LogFaults
        /\ Auditor!Patience \in Nat /\ Auditor!Patience = Interval + 2 * (Interval * logFaults)
        /\ Interval * logFaults \in Nat
        /\ next <= logNow + Auditor!Patience
        /\ logNow \in Auditor!Instants
    BY AuditTypes DEF AuditInv, Auditor!WakesInTime, Auditor!Instants
  <1>2. /\ log \in Seq([at : 0 .. logNow, agent : Agents, bad : BOOLEAN])
        /\ saved \in [Auditor!Instants -> SUBSET Auditor!Kinds]
    BY DEF AuditInv, Auditor!TypeOK
  <1>3. Interval * (logFaults + 1) = Interval * logFaults + Interval
    BY <1>1
  <1>4. Bursts
    BY BurstSeen DEF AuditInv
  <1>5. ASSUME NEW a \in Agents, NEW bad \in BOOLEAN, Auditor!Log(a, bad)
        PROVE  AuditInv'
    <2>1. LogExtends /\ log' \in Seq([at : 0 .. logNow, agent : Agents, bad : BOOLEAN])
      BY <1>5, LogWrites DEF AuditInv
    <2>2. logNow' = logNow /\ next' = next /\ saved' = saved /\ logFaults' = logFaults
      BY <1>5 DEF Auditor!Log
    <2>3. Auditor!TypeOK'
      BY <1>1, <1>2, <2>1, <2>2, AuditTypeKept DEF AuditInv
    <2>4. Auditor!WakesInTime'
      BY <1>1, <2>2 DEF Auditor!WakesInTime, Auditor!Patience
    <2>5. Auditor!ReportedOrDue'
      BY <2>1, <2>2, <2>4, DueReports DEF AuditInv, Sleeps
    <2>6. Auditor!ReportsHaveCause'
      BY <2>1, <2>2, CausesKept DEF AuditInv
    <2>7. QED
      BY <2>3, <2>4, <2>5, <2>6 DEF AuditInv
  <1>6. ASSUME Auditor!Tick
        PROVE  AuditInv'
    <2>1. /\ logNow < LogTime /\ logNow # next /\ logNow' = logNow + 1
          /\ log' = log /\ next' = next /\ saved' = saved /\ logFaults' = logFaults
      BY <1>6 DEF Auditor!Tick
    <2>2. Auditor!TypeOK'
      BY <1>1, <1>2, <2>1, AuditTypeKept DEF AuditInv
    <2>3. Auditor!WakesInTime'
      BY <1>1, <2>1 DEF Auditor!WakesInTime, Auditor!Patience
    <2>4. Auditor!ReportedOrDue'
      BY <2>1, <2>3, DueReports DEF AuditInv, Sleeps
    <2>5. Auditor!ReportsHaveCause'
      BY <2>1, CausesKept DEF AuditInv
    <2>6. QED
      BY <2>2, <2>3, <2>4, <2>5 DEF AuditInv
  <1>7. ASSUME Auditor!Audit
        PROVE  AuditInv'
    <2>1. /\ logNow = next /\ next' = logNow + Interval /\ logNow' = logNow
          /\ log' = log /\ logFaults' = logFaults
          /\ saved' = [saved EXCEPT ![logNow] = Auditor!Alerts(Auditor!Fetched)]
      BY <1>7 DEF Auditor!Audit
    <2>2. /\ saved'[logNow] = Auditor!Alerts(Auditor!Fetched)
          /\ \A t \in Auditor!Instants : t # logNow => saved'[t] = saved[t]
      BY <1>1, <1>2, <2>1
    <2>3. saved' \in [Auditor!Instants -> SUBSET Auditor!Kinds]
      <3>1. Auditor!Alerts(Auditor!Fetched) \in SUBSET Auditor!Kinds
        BY DEF Auditor!Alerts
      <3>2. QED
        BY <1>2, <2>1, <3>1
    <2>4. Auditor!TypeOK'
      BY <1>1, <1>2, <2>1, <2>3, AuditTypeKept DEF AuditInv
    <2>5. Auditor!WakesInTime'
      BY <1>1, <2>1 DEF Auditor!WakesInTime, Auditor!Patience
    <2>6. Auditor!ReportsHaveCause'
      BY <2>1, <2>2, CausesKept DEF AuditInv
    <2>7. Auditor!Cardinality(Auditor!Fetched) > FreqT => "HIGH_FREQUENCY" \in saved'[logNow]
      BY <2>2, AlertsMean
    <2>8. Reports
      BY <2>1, <2>7 DEF Reports
    <2>9. \A u \in 0 .. logNow : "HIGH_FREQUENCY" \in saved[u] => "HIGH_FREQUENCY" \in saved'[u]
      <3>1. SUFFICES ASSUME "HIGH_FREQUENCY" \in saved[logNow]
                     PROVE  "HIGH_FREQUENCY" \in saved'[logNow]
        BY <1>1, <2>2 DEF Auditor!Instants
      <3>2. Auditor!Cardinality(Auditor!During(logNow - Hour, logNow + 1)) > FreqT
        BY <1>1, <3>1 DEF AuditInv, Auditor!ReportsHaveCause
      <3>3. (logNow - Hour) \in Int /\ logNow <= (logNow - Hour) + Hour
        BY <1>1, AuditTypes DEF AuditInv
      <3>4. QED
        BY <2>7, <3>2, <3>3, AuditSees DEF AuditInv
    <2>10. Auditor!ReportedOrDue'
      BY <2>1, <2>5, <2>8, <2>9, DueReports DEF AuditInv
    <2>11. QED
      BY <2>4, <2>5, <2>6, <2>10 DEF AuditInv
  <1>8. ASSUME Auditor!ReadFails \/ Auditor!SaveFails
        PROVE  AuditInv'
    <2>1. /\ logNow = next /\ logNow' = logNow /\ log' = log /\ saved' = saved
          /\ logFaults < LogFaults /\ logFaults' = logFaults + 1
          /\ next' \in {logNow + Interval, logNow + 2 * Interval}
      BY <1>8 DEF Auditor!ReadFails, Auditor!SaveFails, Auditor!RestsTwice
    <2>2. next' \in Nat /\ logNow' <= next' /\ next' <= logNow + 2 * Interval
          /\ logFaults' \in 0 .. LogFaults
      BY <1>1, <2>1
    <2>3. Auditor!TypeOK'
      BY <1>1, <1>2, <2>1, <2>2, AuditTypeKept DEF AuditInv
    <2>4. Auditor!WakesInTime'
      <3>1. Auditor!Patience' = Interval + 2 * (Interval * logFaults + Interval)
        BY <1>3, <2>1 DEF Auditor!Patience
      <3>2. next' <= logNow + Auditor!Patience'
        BY <1>1, <2>2, <3>1
      <3>3. QED
        BY <2>1, <3>2 DEF Auditor!WakesInTime
    <2>5. Misses
      BY <2>1, <2>2 DEF Misses
    <2>6. Auditor!ReportedOrDue'
      BY <2>1, <2>4, <2>5, DueReports DEF AuditInv
    <2>7. Auditor!ReportsHaveCause'
      BY <2>1, CausesKept DEF AuditInv
    <2>8. QED
      BY <2>3, <2>4, <2>6, <2>7 DEF AuditInv
  <1>9. AuditInv'
    BY <1>5, <1>6, <1>7, <1>8 DEF Auditor!Next, Auditor!Worker
  <1>10. QED
    BY <1>4, <1>9

(* The auditor rests.                                                        *)
LEMMA AuditRests ==
  ASSUME AuditInv, UNCHANGED auditVars
  PROVE  AuditInv'
  <1>1. logNow' = logNow /\ log' = log /\ next' = next /\ saved' = saved /\ logFaults' = logFaults
    BY DEF auditVars
  <1>2. Auditor!TypeOK'
    BY <1>1 DEF AuditInv, Auditor!TypeOK
  <1>3. Auditor!WakesInTime'
    BY <1>1 DEF AuditInv, Auditor!WakesInTime, Auditor!Patience
  <1>4. Auditor!ReportedOrDue'
    BY <1>1 DEF AuditInv, Auditor!ReportedOrDue, Auditor!Patience, Auditor!During
  <1>5. Auditor!ReportsHaveCause'
    BY <1>1 DEF AuditInv, Auditor!ReportsHaveCause, Auditor!During, Auditor!Bad
  <1>6. QED
    BY <1>2, <1>3, <1>4, <1>5 DEF AuditInv

(* AuditInv holds at the start.                                              *)
LEMMA AuditInit ==
  ASSUME Auditor!AuditorAssumption, Auditor!Init
  PROVE  AuditInv
  <1>1. /\ logNow = 0 /\ log = <<>> /\ next = Interval /\ logFaults = 0
        /\ saved = [t \in Auditor!Instants |-> {}]
    BY DEF Auditor!Init
  <1>2. Interval \in Nat /\ LogTime \in Nat /\ LogFaults \in Nat
    BY DEF Auditor!AuditorAssumption
  <1>3. Interval * 0 = 0
    BY <1>2
  <1>4. Auditor!Patience = Interval
    BY <1>1, <1>2, <1>3 DEF Auditor!Patience
  <1>5. Auditor!TypeOK
    <2>1. log \in Seq([at : 0 .. logNow, agent : Agents, bad : BOOLEAN])
      BY <1>1
    <2>2. \A i, j \in DOMAIN log : i < j => log[i].at <= log[j].at
      BY <1>1
    <2>3. saved \in [Auditor!Instants -> SUBSET Auditor!Kinds]
      BY <1>1
    <2>4. QED
      BY <1>1, <1>2, <2>1, <2>2, <2>3 DEF Auditor!TypeOK, Auditor!Instants
  <1>6. Auditor!WakesInTime
    BY <1>1, <1>2, <1>4 DEF Auditor!WakesInTime
  <1>7. Auditor!ReportedOrDue
    <2>1. next <= 0 + Auditor!Patience
      BY <1>1, <1>2, <1>4
    <2>2. \A t \in 0 .. logNow : t = 0
      BY <1>1
    <2>3. QED
      BY <2>1, <2>2 DEF Auditor!ReportedOrDue
  <1>8. Auditor!ReportsHaveCause
    BY <1>1 DEF Auditor!ReportsHaveCause
  <1>9. QED
    BY <1>5, <1>6, <1>7, <1>8 DEF AuditInv

(* When the hour is over and the worker has not exhausted its patience, an   *)
(* audit has been made in the hour.                                          *)
LEMMA HourIsEnough ==
  ASSUME Auditor!AuditorAssumption, AuditInv
  PROVE  Auditor!ReportedWithinTheHour
  <1>1. /\ Hour \in Nat /\ LogTime \in Nat /\ logNow \in Nat /\ logNow <= next /\ next \in Nat
        /\ Auditor!Patience \in Nat
    BY AuditTypes DEF AuditInv
  <1>2. SUFFICES ASSUME NEW t \in Auditor!Instants,
                        Auditor!Cardinality(Auditor!During(t, t + 1)) > FreqT,
                        logNow > t + Hour, Auditor!Patience <= Hour
                 PROVE  \E u \in t .. t + Hour : "HIGH_FREQUENCY" \in saved[u]
    BY DEF Auditor!ReportedWithinTheHour
  <1>3. t \in Nat /\ t \in 0 .. logNow
    BY <1>1, <1>2 DEF Auditor!Instants
  <1>4. ~(next <= t + Auditor!Patience)
    BY <1>1, <1>2, <1>3
  <1>5. \E u \in t .. logNow : u <= t + Hour /\ "HIGH_FREQUENCY" \in saved[u]
    BY <1>2, <1>3, <1>4 DEF AuditInv, Auditor!ReportedOrDue
  <1>6. QED
    BY <1>1, <1>3, <1>5

(* The auditor (src/security/auditor.py) never reports what the log does not have, *)
(* the audit that follows a burst reports it, and a burst is reported while it is  *)
(* within the hour as long as the worker's failures leave an audit in it: for every *)
(* interval, hour, limit of the query, threshold and number of failures.            *)
THEOREM ReportsAreAccounted == Spec => ReportsAccounted
  <1>1. Auditor!AuditorAssumption
    BY WorkersAssumption
  <1>2. Init => AuditInv
    BY <1>1, AuditInit DEF Init
  <1>3. AuditInv /\ [Next]_vars => AuditInv' /\ [Bursts]_(Auditor!vars)
    <2>1. ASSUME [Next]_vars
          PROVE  Auditor!Next \/ UNCHANGED auditVars
      BY <2>1 DEF Next, vars
    <2>2. CASE Auditor!Next
      BY <1>1, <2>2, AuditStep
    <2>3. ASSUME UNCHANGED auditVars
          PROVE  UNCHANGED Auditor!vars
      BY <2>3 DEF auditVars, Auditor!vars
    <2>4. QED
      BY <2>1, <2>2, <2>3, AuditRests
  <1>4. AuditInv => (scope = "auditor" => /\ Auditor!TypeOK
                             /\ Auditor!WakesInTime /\ Auditor!ReportedOrDue
                             /\ Auditor!ReportedWithinTheHour
                             /\ Auditor!ReportsHaveCause)
    BY <1>1, HourIsEnough DEF AuditInv
  <1>5. Bursts =>
          (Auditor!Audit =>
             LET fresh == Auditor!During(logNow - Interval, logNow + 1)
             IN  /\ Auditor!Cardinality(fresh) > FreqT => "HIGH_FREQUENCY" \in saved'[logNow]
                 /\ Auditor!Cardinality(Auditor!Bad(fresh)) > ErrorT /\ Auditor!Cardinality(fresh) <= Limit
                      => "REPEATED_FAILURES" \in saved'[logNow])
    BY DEF Bursts
  <1>6. QED
    BY <1>2, <1>3, <1>4, <1>5, PTL DEF Spec, ReportsAccounted, Auditor!BurstReported

-----------------------------------------------------------------------------
(* The runbook index. *)
(* The inductive invariant: what a pass has drafted for a path is a content the path *)
(* has had since the pass began, or the path is still to be looked at.               *)
IndexInv == Index!TypeOK /\ Index!WholeContents /\ Index!DraftIsCurrent

(* A commit is of contents that the pass has seen.                             *)
Saves == Index!Commit => \A f \in Files : Index!Current(f, index'[f])

(* A row of the index.                                                         *)
Chunk == [content : Contents, part : 1 .. 2]

(* What the types say, in the form the proofs need.                          *)
LEMMA IndexTypes ==
  ASSUME Index!TypeOK
  PROVE  /\ disk \in [Files -> Index!Things] /\ seen \in [Files -> SUBSET Index!Things]
         /\ index \in [Files -> SUBSET Chunk] /\ draft \in [Files -> SUBSET Chunk]
         /\ pc \in {"asleep", "scanning", "embedding"} /\ todo \subseteq Files
         /\ pc = "embedding" => cur \in [file : Files, content : Contents]
         /\ pc # "embedding" => cur = Index!NoFile
  BY DEF Index!TypeOK, Chunk

(* The chunks of a content tell it.                                            *)
LEMMA ChunksTell ==
  ASSUME NEW x
  PROVE  /\ Index!ChunksOf(x) # {}
         /\ \A c \in Index!ChunksOf(x) : c.content = x
         /\ x \in Contents => Index!ChunksOf(x) \subseteq Chunk
  <1>1. [content |-> x, part |-> 1] \in Index!ChunksOf(x)
    BY DEF Index!ChunksOf
  <1>2. \A c \in Index!ChunksOf(x) : c.content = x
    BY DEF Index!ChunksOf
  <1>3. x \in Contents => Index!ChunksOf(x) \subseteq Chunk
    BY DEF Index!ChunksOf, Chunk
  <1>4. QED
    BY <1>1, <1>2, <1>3

(* A path may change hands during a pass: what is current stays so.            *)
LEMMA CurrentStays ==
  ASSUME NEW f, NEW x, Index!Current(f, x),
         seen[f] \subseteq seen'[f], index'[f] = index[f]
  PROVE  Index!Current(f, x)'
  BY DEF Index!Current, Index!ChunksOf

(* What is known of a path in the middle of a pass.                            *)
Tracked(f) ==
  /\ disk[f] \in seen[f]
  /\ f \in todo => draft[f] = index[f]
  /\ f \notin todo /\ ~Index!InHand(f) => Index!Current(f, draft[f])
  /\ Index!InHand(f) => f \notin todo /\ draft[f] = {} /\ cur.content \in seen[f]

(* The invariant, path by path.                                              *)
LEMMA DraftTracked ==
  Index!DraftIsCurrent <=> (pc # "asleep" => \A f \in Files : Tracked(f))
  BY DEF Index!DraftIsCurrent, Tracked

(* A path that a step does not touch.                                          *)
LEMMA TrackedStays ==
  ASSUME NEW f, Tracked(f), seen[f] \subseteq seen'[f], disk'[f] \in seen'[f],
         draft'[f] = draft[f], index'[f] = index[f], (f \in todo') = (f \in todo),
         ~Index!InHand(f), ~Index!InHand(f)'
  PROVE  Tracked(f)'
  <1>1. Index!Current(f, draft[f]) => Index!Current(f, draft[f])'
    BY DEF Index!Current, Index!ChunksOf
  <1>2. QED
    BY <1>1 DEF Tracked

(* Somebody writes, breaks or removes a file, in a pass or between two.      *)
LEMMA IndexEdit ==
  ASSUME Index!IndexAssumption, IndexInv,
         NEW g \in Files, NEW x \in Index!Things, Index!Edit(g, x)
  PROVE  IndexInv'
  <1>1. /\ edits < MaxEdits /\ edits' = edits + 1
        /\ disk' = [disk EXCEPT ![g] = x] /\ seen' = [seen EXCEPT ![g] = @ \cup {x}]
        /\ index' = index /\ draft' = draft /\ pc' = pc /\ todo' = todo /\ cur' = cur
        /\ indexFaults' = indexFaults
    BY DEF Index!Edit
  <1>2. /\ disk \in [Files -> Index!Things] /\ seen \in [Files -> SUBSET Index!Things]
    BY IndexTypes DEF IndexInv
  <1>3. /\ disk' \in [Files -> Index!Things] /\ seen' \in [Files -> SUBSET Index!Things]
        /\ \A f \in Files : seen[f] \subseteq seen'[f]
        /\ \A f \in Files : disk[f] \in seen[f] => disk'[f] \in seen'[f]
    BY <1>1, <1>2
  <1>4. edits' \in 0 .. MaxEdits
    BY <1>1 DEF IndexInv, Index!TypeOK, Index!IndexAssumption
  <1>5. Index!TypeOK'
    BY <1>1, <1>3, <1>4 DEF IndexInv, Index!TypeOK
  <1>6. Index!WholeContents'
    BY <1>1 DEF IndexInv, Index!WholeContents, Index!ChunksOf
  <1>7. Index!DraftIsCurrent'
    <2>1. SUFFICES ASSUME pc' # "asleep", NEW f \in Files
                   PROVE  Tracked(f)'
      BY DEF Index!DraftIsCurrent, Tracked, Index!InHand, Index!Current, Index!ChunksOf
    <2>2. Tracked(f)
      BY <1>1, <2>1, DraftTracked DEF IndexInv
    <2>3. QED
      BY <1>1, <1>3, <2>2 DEF Tracked, Index!InHand, Index!Current, Index!ChunksOf
  <1>8. QED
    BY <1>5, <1>6, <1>7 DEF IndexInv

(* A step of a pass that leaves the index alone moves one path.                *)
PassMoves(g) ==
  /\ disk' = disk /\ index' = index /\ seen' = seen /\ edits' = edits /\ indexFaults' = indexFaults
  /\ pc # "asleep" /\ pc' \in {"scanning", "embedding"}
  /\ \A f \in Files : f # g => /\ draft'[f] = draft[f] /\ (f \in todo' <=> f \in todo)
                               /\ ~Index!InHand(f) /\ ~Index!InHand(f)'

(* A step that moves one path keeps what is known of the others.             *)
LEMMA PassKeeps ==
  ASSUME IndexInv, NEW g \in Files, PassMoves(g), Tracked(g)',
         draft' \in [Files -> SUBSET Chunk], todo' \subseteq Files,
         IF pc' = "embedding" THEN cur' \in [file : Files, content : Contents] /\ cur' # Index!NoFile
                              ELSE cur' = Index!NoFile
  PROVE  IndexInv'
  <1>1. Index!TypeOK'
    BY DEF IndexInv, Index!TypeOK, PassMoves, Chunk, Index!NoFile, Index!Things
  <1>2. Index!WholeContents'
    BY DEF IndexInv, Index!WholeContents, Index!ChunksOf, PassMoves
  <1>3. Index!DraftIsCurrent'
    <2>1. SUFFICES ASSUME pc' # "asleep", NEW f \in Files
                   PROVE  Tracked(f)'
      BY DEF Index!DraftIsCurrent, Tracked, Index!InHand, Index!Current, Index!ChunksOf
    <2>2. CASE f = g
      BY <2>2
    <2>3. CASE f # g
      <3>1. Tracked(f)
        BY DraftTracked DEF IndexInv, PassMoves
      <3>2. QED
        BY <2>3, <3>1 DEF PassMoves, Tracked, Index!Current, Index!ChunksOf
    <2>4. QED
      BY <2>2, <2>3
  <1>4. QED
    BY <1>1, <1>2, <1>3 DEF IndexInv

(* The index holds whole contents, so a file whose hash is found is stored as it is. *)
LEMMA HashTells ==
  ASSUME IndexInv, NEW f \in Files, draft[f] = index[f], Index!Unchanged(f)
  PROVE  disk[f] \in Contents /\ draft[f] = Index!ChunksOf(disk[f])
  <1>1. PICK c \in draft[f] : c.content = disk[f]
    BY DEF Index!Unchanged
  <1>2. PICK x \in Contents : index[f] = Index!ChunksOf(x)
    BY <1>1 DEF IndexInv, Index!WholeContents
  <1>3. x = disk[f]
    BY <1>1, <1>2, ChunksTell
  <1>4. QED
    BY <1>2, <1>3

(* A file whose hash is found is left as it is stored.                       *)
LEMMA IndexSkips ==
  ASSUME Index!IndexAssumption, IndexInv, NEW g \in Files, Index!Skip(g)
  PROVE  IndexInv'
  <1>1. /\ pc = "scanning" /\ g \in todo /\ Index!Unchanged(g)
        /\ todo' = todo \ {g} /\ disk' = disk /\ index' = index /\ draft' = draft /\ pc' = pc
        /\ cur' = cur /\ seen' = seen /\ edits' = edits /\ indexFaults' = indexFaults
    BY DEF Index!Skip
  <1>2. Tracked(g)
    BY <1>1, DraftTracked DEF IndexInv
  <1>3. draft[g] = index[g] /\ disk[g] \in seen[g]
    BY <1>1, <1>2 DEF Tracked
  <1>4. disk[g] \in Contents /\ draft[g] = Index!ChunksOf(disk[g])
    BY <1>1, <1>3, HashTells
  <1>5. Index!Current(g, draft[g])
    BY <1>3, <1>4 DEF Index!Current
  <1>6. PassMoves(g)
    BY <1>1 DEF PassMoves, Index!InHand
  <1>7. Tracked(g)'
    BY <1>1, <1>3, <1>5 DEF Tracked, Index!InHand, Index!Current, Index!ChunksOf
  <1>8. /\ draft' \in [Files -> SUBSET Chunk] /\ todo' \subseteq Files
        /\ pc' # "embedding" /\ cur' = Index!NoFile
    BY <1>1, IndexTypes DEF IndexInv, Index!NoFile
  <1>9. QED
    BY <1>6, <1>7, <1>8, PassKeeps

(* A file that changed: its chunks are deleted, and it is in hand or empty.  *)
LEMMA IndexReplaces ==
  ASSUME Index!IndexAssumption, IndexInv, NEW g \in Files, Index!Replace(g)
  PROVE  IndexInv'
  <1>1. /\ pc = "scanning" /\ g \in todo /\ disk[g] \in Contents \cup {Empty}
        /\ draft' = [draft EXCEPT ![g] = {}]
        /\ todo' = todo \ {g} /\ disk' = disk /\ index' = index
        /\ seen' = seen /\ edits' = edits /\ indexFaults' = indexFaults
        /\ disk[g] = Empty => pc' = pc /\ cur' = cur
        /\ disk[g] # Empty => pc' = "embedding" /\ cur' = [file |-> g, content |-> disk[g]]
    BY DEF Index!Replace, Index!StaleKept, Index!Indexed
  <1>2. Tracked(g)
    BY <1>1, DraftTracked DEF IndexInv
  <1>3. disk[g] \in seen[g]
    BY <1>2 DEF Tracked
  <1>4. /\ draft' \in [Files -> SUBSET Chunk] /\ draft'[g] = {} /\ todo' \subseteq Files
        /\ \A f \in Files : f # g => draft'[f] = draft[f]
    BY <1>1, IndexTypes DEF IndexInv
  <1>5. cur = Index!NoFile
    BY <1>1, IndexTypes DEF IndexInv
  <1>6. CASE disk[g] = Empty
    <2>1. PassMoves(g)
      BY <1>1, <1>4, <1>6 DEF PassMoves, Index!InHand
    <2>2. Tracked(g)'
      BY <1>1, <1>3, <1>4, <1>6 DEF Tracked, Index!InHand, Index!Current, Index!ChunksOf
    <2>3. pc' # "embedding" /\ cur' = Index!NoFile
      BY <1>1, <1>5, <1>6 DEF Index!NoFile
    <2>4. QED
      BY <1>4, <2>1, <2>2, <2>3, PassKeeps
  <1>7. CASE disk[g] # Empty
    <2>1. cur'.file = g /\ cur'.content = disk[g] /\ pc' = "embedding"
      BY <1>1, <1>7
    <2>2. PassMoves(g)
      BY <1>1, <1>4, <2>1 DEF PassMoves, Index!InHand
    <2>3. Tracked(g)'
      BY <1>1, <1>3, <1>4, <2>1 DEF Tracked, Index!InHand, Index!Current, Index!ChunksOf
    <2>4. cur' \in [file : Files, content : Contents] /\ cur' # Index!NoFile
      <3>1. Index!NoFile.content = Empty
        BY DEF Index!NoFile
      <3>2. QED
        BY <1>1, <1>7, <2>1, <3>1
    <2>5. QED
      BY <1>4, <2>1, <2>2, <2>3, <2>4, PassKeeps
  <1>8. QED
    BY <1>6, <1>7

(* The file in hand is stored with the content it was read with.             *)
LEMMA IndexEmbeds ==
  ASSUME Index!IndexAssumption, IndexInv, Index!Embed
  PROVE  IndexInv'
  <1>1. /\ pc = "embedding" /\ pc' = "scanning" /\ cur' = Index!NoFile
        /\ draft' = [draft EXCEPT ![cur.file] = @ \cup Index!ChunksOf(cur.content)]
        /\ todo' = todo /\ disk' = disk /\ index' = index
        /\ seen' = seen /\ edits' = edits /\ indexFaults' = indexFaults
    BY DEF Index!Embed, Index!TextEmbedded, Index!NoFile
  <1>2. cur.file \in Files /\ cur.content \in Contents
    BY <1>1, IndexTypes DEF IndexInv
  <1>3. PICK g \in Files, x \in Contents : g = cur.file /\ x = cur.content
    BY <1>2
  <1>4. Tracked(g) /\ Index!InHand(g)
    BY <1>1, <1>3, DraftTracked DEF IndexInv, Index!InHand
  <1>5. g \notin todo /\ draft[g] = {} /\ x \in seen[g] /\ disk[g] \in seen[g]
    BY <1>3, <1>4 DEF Tracked
  <1>6. \A f \in Files : f # g => ~Index!InHand(f)
    BY <1>3 DEF Index!InHand
  <1>7. /\ draft' \in [Files -> SUBSET Chunk] /\ draft'[g] = Index!ChunksOf(x)
        /\ \A f \in Files : f # g => draft'[f] = draft[f]
    BY <1>1, <1>3, <1>5, ChunksTell, IndexTypes DEF IndexInv
  <1>8. PassMoves(g)
    BY <1>1, <1>6, <1>7 DEF PassMoves, Index!InHand
  <1>9. Tracked(g)'
    BY <1>1, <1>3, <1>5, <1>7 DEF Tracked, Index!InHand, Index!Current, Index!ChunksOf
  <1>10. todo' \subseteq Files
    BY <1>1, IndexTypes DEF IndexInv
  <1>11. QED
    BY <1>1, <1>7, <1>8, <1>9, <1>10, PassKeeps

(* A pass begins: what it has seen is what there is.                         *)
LEMMA IndexWakes ==
  ASSUME Index!IndexAssumption, IndexInv, Index!Wake
  PROVE  IndexInv'
  <1>1. /\ pc = "asleep" /\ pc' = "scanning" /\ todo' = {f \in Files : disk[f] # MissingFile}
        /\ draft' = index /\ seen' = [f \in Files |-> {disk[f]}]
        /\ disk' = disk /\ index' = index /\ cur' = cur /\ edits' = edits /\ indexFaults' = indexFaults
    BY DEF Index!Wake
  <1>2. disk \in [Files -> Index!Things] /\ index \in [Files -> SUBSET Chunk]
    BY IndexTypes DEF IndexInv
  <1>3. seen' \in [Files -> SUBSET Index!Things]
    BY <1>1, <1>2
  <1>4. Index!TypeOK'
    BY <1>1, <1>2, <1>3 DEF IndexInv, Index!TypeOK, Index!NoFile, Index!Things, Chunk
  <1>5. Index!WholeContents'
    BY <1>1 DEF IndexInv, Index!WholeContents, Index!ChunksOf
  <1>6. Index!DraftIsCurrent'
    <2>1. SUFFICES ASSUME pc' # "asleep", NEW f \in Files
                   PROVE  Tracked(f)'
      BY DEF Index!DraftIsCurrent, Tracked, Index!InHand, Index!Current, Index!ChunksOf
    <2>2. seen'[f] = {disk[f]} /\ disk'[f] = disk[f] /\ draft'[f] = index'[f]
      BY <1>1
    <2>3. f \notin todo' => MissingFile \in seen'[f]
      BY <1>1, <2>2
    <2>4. QED
      BY <1>1, <2>2, <2>3 DEF Tracked, Index!InHand, Index!Current, Index!ChunksOf
  <1>7. QED
    BY <1>4, <1>5, <1>6 DEF IndexInv

(* A pass commits what it has seen.                                          *)
LEMMA IndexCommits ==
  ASSUME Index!IndexAssumption, IndexInv, Index!Commit
  PROVE  IndexInv' /\ \A f \in Files : Index!Current(f, index'[f])
  <1>1. /\ pc = "scanning" /\ todo = {} /\ index' = draft /\ pc' = "asleep"
        /\ disk' = disk /\ draft' = draft /\ todo' = todo /\ cur' = cur /\ seen' = seen
        /\ edits' = edits /\ indexFaults' = indexFaults
    BY DEF Index!Commit
  <1>2. \A f \in Files : Index!Current(f, draft[f])
    BY <1>1, DraftTracked DEF IndexInv, Tracked, Index!InHand
  <1>3. Index!TypeOK'
    BY <1>1 DEF IndexInv, Index!TypeOK, Index!NoFile, Index!Things
  <1>4. Index!WholeContents'
    <2>1. ASSUME NEW f \in Files
          PROVE  draft[f] = {} \/ \E x \in Contents : draft[f] = Index!ChunksOf(x)
      BY <1>2 DEF Index!Current, IndexInv, Index!WholeContents
    <2>2. QED
      BY <1>1, <2>1 DEF Index!WholeContents, Index!ChunksOf
  <1>5. Index!DraftIsCurrent'
    BY <1>1 DEF Index!DraftIsCurrent
  <1>6. QED
    BY <1>1, <1>2, <1>3, <1>4, <1>5 DEF IndexInv

(* A pass that raises leaves the index as it was.                            *)
LEMMA IndexAborts ==
  ASSUME Index!IndexAssumption, IndexInv, Index!Abort,
         indexFaults' \in 0 .. IndexFaults
  PROVE  IndexInv'
  <1>1. /\ index' = index /\ pc' = "asleep" /\ todo' = {} /\ cur' = Index!NoFile
        /\ disk' = disk /\ draft' = draft /\ seen' = seen /\ edits' = edits
    BY DEF Index!Abort, Index!NoFile
  <1>2. Index!TypeOK'
    BY <1>1 DEF IndexInv, Index!TypeOK, Index!NoFile, Index!Things
  <1>3. Index!WholeContents'
    BY <1>1 DEF IndexInv, Index!WholeContents, Index!ChunksOf
  <1>4. Index!DraftIsCurrent'
    BY <1>1 DEF Index!DraftIsCurrent
  <1>5. QED
    BY <1>2, <1>3, <1>4 DEF IndexInv

(* Every step keeps IndexInv, and a commit is of what was seen.              *)
LEMMA IndexStep ==
  ASSUME Index!IndexAssumption, IndexInv, Index!Next
  PROVE  IndexInv' /\ Saves
  <1>1. Saves
    BY IndexCommits DEF Saves
  <1>2. indexFaults \in 0 .. IndexFaults /\ IndexFaults \in Nat
    BY DEF IndexInv, Index!TypeOK, Index!IndexAssumption
  <1>3. ASSUME NEW f \in Files, Index!Skip(f) \/ Index!Replace(f) \/ Index!ReadFails(f)
        PROVE  IndexInv'
    <2>1. ASSUME Index!ReadFails(f)
          PROVE  IndexInv'
      <3>1. Index!Abort /\ indexFaults' = indexFaults
        BY <2>1 DEF Index!ReadFails
      <3>2. QED
        BY <1>2, <3>1, IndexAborts
    <2>2. QED
      BY <1>3, <2>1, IndexSkips, IndexReplaces
  <1>4. ASSUME Index!Fails
        PROVE  IndexInv'
    <2>1. Index!Abort /\ indexFaults < IndexFaults /\ indexFaults' = indexFaults + 1
      BY <1>4 DEF Index!Fails
    <2>2. indexFaults' \in 0 .. IndexFaults
      BY <1>2, <2>1
    <2>3. QED
      BY <2>1, <2>2, IndexAborts
  <1>5. IndexInv'
    BY <1>3, <1>4, IndexWakes, IndexEmbeds, IndexCommits, IndexEdit DEF Index!Next, Index!Pass
  <1>6. QED
    BY <1>1, <1>5

(* The index rests.                                                          *)
LEMMA IndexRests ==
  ASSUME IndexInv, UNCHANGED indexVars
  PROVE  IndexInv'
  <1>1. /\ disk' = disk /\ index' = index /\ draft' = draft /\ pc' = pc /\ todo' = todo
        /\ cur' = cur /\ seen' = seen /\ edits' = edits /\ indexFaults' = indexFaults
    BY DEF indexVars
  <1>2. Index!TypeOK'
    BY <1>1 DEF IndexInv, Index!TypeOK, Index!NoFile, Index!Things
  <1>3. Index!WholeContents'
    BY <1>1 DEF IndexInv, Index!WholeContents, Index!ChunksOf
  <1>4. Index!DraftIsCurrent'
    <2>1. SUFFICES ASSUME pc' # "asleep", NEW f \in Files
                   PROVE  Tracked(f)'
      BY DEF Index!DraftIsCurrent, Tracked, Index!InHand, Index!Current, Index!ChunksOf
    <2>2. Tracked(f)
      BY <1>1, <2>1, DraftTracked DEF IndexInv
    <2>3. QED
      BY <1>1, <2>2 DEF Tracked, Index!InHand, Index!Current, Index!ChunksOf
  <1>5. QED
    BY <1>2, <1>3, <1>4 DEF IndexInv

(* IndexInv holds at the start.                                              *)
LEMMA IndexInit ==
  ASSUME Index!IndexAssumption, Index!Init
  PROVE  IndexInv
  <1>1. /\ disk \in [Files -> Contents \cup {MissingFile}]
        /\ index = [f \in Files |-> {}] /\ draft = index /\ pc = "asleep" /\ todo = {}
        /\ cur = Index!NoFile /\ seen = [f \in Files |-> {}] /\ edits = 0 /\ indexFaults = 0
    BY DEF Index!Init
  <1>2. MaxEdits \in Nat /\ IndexFaults \in Nat
    BY DEF Index!IndexAssumption
  <1>3. Index!TypeOK
    <2>1. disk \in [Files -> Index!Things]
      BY <1>1 DEF Index!Things
    <2>2. /\ seen \in [Files -> SUBSET Index!Things]
          /\ {index, draft} \subseteq [Files -> SUBSET [content : Contents, part : 1 .. 2]]
      BY <1>1
    <2>3. QED
      BY <1>1, <1>2, <2>1, <2>2 DEF Index!TypeOK
  <1>4. Index!WholeContents
    BY <1>1 DEF Index!WholeContents
  <1>5. Index!DraftIsCurrent
    BY <1>1 DEF Index!DraftIsCurrent
  <1>6. QED
    BY <1>3, <1>4, <1>5 DEF IndexInv

-----------------------------------------------------------------------------
(* The chunker. *)

(* The numbers are well founded: every set of them has a least one.            *)
Descents == {p \in Nat \X Nat : p[1] < p[2]}

LEMMA LeastNumber ==
  ASSUME NEW S, S \subseteq Nat, S # {}
  PROVE  \E m \in S : \A k \in S : m <= k
  <1>1. IsWellFoundedOn(Descents, Nat)
    <2>1. OpToRel(<, Nat) = Descents
      BY DEF OpToRel, Descents
    <2>2. QED
      BY <2>1, NatLessThanWellFounded
  <1>2. PICK m \in S : \A k \in S : ~(<<k, m>> \in Descents)
    BY <1>1, WFMin
  <1>3. \A k \in S : k \in Nat /\ m \in Nat /\ <<k, m>> \in Nat \X Nat
    BY <1>2
  <1>4. \A k \in S : ~(<<k, m>>[1] < <<k, m>>[2])
    BY <1>2, <1>3 DEF Descents
  <1>5. \A k \in S : <<k, m>>[1] = k /\ <<k, m>>[2] = m
    OBVIOUS
  <1>6. \A k \in S : ~(k < m)
    BY <1>4, <1>5
  <1>7. QED
    BY <1>2, <1>3, <1>6

(* The sums of a sequence of numbers, as they are computed.                    *)
Adds(f, k, w) == f = [n \in 0 .. k |-> IF n = 0 THEN 0 ELSE f[n - 1] + w[n]]

(* There are such sums for every length: otherwise there were a least        *)
(* length without.                                                           *)
LEMMA SumsExist ==
  ASSUME NEW w, NEW k \in Nat
  PROVE  \E f : Adds(f, k, w)
  <1> DEFINE Bad == {n \in Nat : ~(\E f : Adds(f, n, w))}
  <1>1. SUFFICES ASSUME Bad # {} PROVE FALSE
    OBVIOUS
  <1>2. PICK m \in Bad : \A n \in Bad : m <= n
    <2>1. Bad \subseteq Nat
      OBVIOUS
    <2> HIDE DEF Bad
    <2>2. QED
      BY <1>1, <2>1, LeastNumber
  <1>3. m \in Nat /\ ~(\E f : Adds(f, m, w))
    BY <1>2
  <1>4. CASE m = 0
    <2> DEFINE f == [n \in 0 .. 0 |-> 0]
    <2>1. f = [n \in 0 .. 0 |-> IF n = 0 THEN 0 ELSE f[n - 1] + w[n]]
      OBVIOUS
    <2>2. Adds(f, 0, w)
      BY <2>1 DEF Adds
    <2>3. QED
      BY <1>3, <1>4, <2>2
  <1>5. CASE m # 0
    <2>1. m - 1 \in Nat /\ ~(m <= m - 1)
      BY <1>3, <1>5
    <2>2. PICK g : Adds(g, m - 1, w)
      BY <1>2, <2>1
    <2> DEFINE f == [n \in 0 .. m |-> IF n = m THEN g[m - 1] + w[m] ELSE g[n]]
    <2>3. f \in [0 .. m -> UNION {{f[n]} : n \in 0 .. m}] /\ DOMAIN f = 0 .. m
      OBVIOUS
    <2>4. \A n \in 0 .. m : f[n] = IF n = 0 THEN 0 ELSE f[n - 1] + w[n]
      <3>1. g = [n \in 0 .. m - 1 |-> IF n = 0 THEN 0 ELSE g[n - 1] + w[n]]
        BY <2>2 DEF Adds
      <3>2. SUFFICES ASSUME NEW n \in 0 .. m
                     PROVE  f[n] = IF n = 0 THEN 0 ELSE f[n - 1] + w[n]
        OBVIOUS
      <3>3. CASE n = m
        <4>1. f[n] = g[m - 1] + w[m] /\ n - 1 \in 0 .. m /\ n - 1 # m
          BY <1>3, <1>5, <3>3
        <4>2. f[n - 1] = g[m - 1]
          BY <4>1, <3>3
        <4>3. QED
          BY <1>5, <3>3, <4>1, <4>2
      <3>4. CASE n # m
        <4>1. n \in 0 .. m - 1 /\ n \in 0 .. m
          BY <1>3, <3>2, <3>4
        <4>2. f[n] = g[n] /\ g[n] = IF n = 0 THEN 0 ELSE g[n - 1] + w[n]
          BY <3>1, <3>4, <4>1
        <4>3. n # 0 => n - 1 \in 0 .. m /\ n - 1 # m
          BY <1>3, <4>1
        <4>4. n # 0 => f[n - 1] = g[n - 1]
          BY <4>3
        <4> HIDE DEF f
        <4>5. QED
          BY <4>2, <4>4
      <3>5. QED
        BY <3>3, <3>4
    <2> HIDE DEF f
    <2>5. f = [n \in 0 .. m |-> IF n = 0 THEN 0 ELSE f[n - 1] + w[n]]
      BY <2>3, <2>4
    <2>6. QED
      BY <1>3, <2>5 DEF Adds
  <1>6. QED
    BY <1>4, <1>5

(* The model's sums are these.                                               *)
LEMMA SumsAdd ==
  ASSUME NEW w, Len(w) \in Nat
  PROVE  Chunks!Sums(w) = [n \in 0 .. Len(w) |-> IF n = 0 THEN 0 ELSE Chunks!Sums(w)[n - 1] + w[n]]
  <1>1. \E f : f = [n \in 0 .. Len(w) |-> IF n = 0 THEN 0 ELSE f[n - 1] + w[n]]
    BY SumsExist DEF Adds
  <1>2. Chunks!Sums(w) = CHOOSE f : f = [n \in 0 .. Len(w) |-> IF n = 0 THEN 0 ELSE f[n - 1] + w[n]]
    BY DEF Chunks!Sums
  <1>3. QED
    BY <1>1, <1>2

(* Sums of whole numbers are whole, and grow by the number that is added.      *)
LEMMA SumsGrow ==
  ASSUME NEW w, Len(w) \in Nat, \A n \in 1 .. Len(w) : w[n] \in Int
  PROVE  /\ \A n \in 0 .. Len(w) : Chunks!Sums(w)[n] \in Int
         /\ \A n \in 1 .. Len(w) : Chunks!Sums(w)[n] = Chunks!Sums(w)[n - 1] + w[n]
  <1> DEFINE F == Chunks!Sums(w)
  <1>1. \A n \in 0 .. Len(w) : F[n] = IF n = 0 THEN 0 ELSE F[n - 1] + w[n]
    BY SumsAdd
  <1> HIDE DEF F
  <1>2. \A n \in 0 .. Len(w) : F[n] \in Int
    <2> DEFINE Bad == {n \in 0 .. Len(w) : F[n] \notin Int}
    <2>1. SUFFICES ASSUME Bad # {} PROVE FALSE
      OBVIOUS
    <2>2. Bad \subseteq Nat
      OBVIOUS
    <2>3. PICK m \in Bad : \A n \in Bad : m <= n
      <3> HIDE DEF Bad
      <3>1. QED
        BY <2>1, <2>2, LeastNumber
    <2>4. m \in 0 .. Len(w) /\ F[m] \notin Int /\ m \in Nat
      BY <2>3
    <2>5. m # 0
      BY <1>1, <2>4
    <2>6. m - 1 \in 0 .. Len(w) /\ ~(m <= m - 1) /\ m \in 1 .. Len(w)
      BY <2>4, <2>5
    <2>7. F[m - 1] \in Int
      BY <2>3, <2>6
    <2>8. F[m] = F[m - 1] + w[m] /\ w[m] \in Int
      BY <1>1, <2>4, <2>5, <2>6
    <2>9. QED
      BY <2>4, <2>7, <2>8
  <1>3. \A n \in 1 .. Len(w) : F[n] = F[n - 1] + w[n]
    <2>1. \A n \in 1 .. Len(w) : n \in 0 .. Len(w) /\ n # 0
      OBVIOUS
    <2>2. QED
      BY <1>1, <2>1
  <1>4. QED
    BY <1>2, <1>3 DEF F

(* What the estimates of a stretch of paragraphs add up to.                    *)
LEMMA TokenLaws ==
  ASSUME Chunks!ChunkerAssumption, text \in Chunks!Texts
  PROVE  /\ Len(text) \in Nat /\ Len(text) > 0
         /\ \A i \in 1 .. Len(text) + 1, j \in 0 .. Len(text) : Chunks!Tokens(i, j) \in Int
         /\ \A i \in 1 .. Len(text) + 1 : Chunks!Tokens(i, i - 1) = 0
         /\ \A i \in 1 .. Len(text) + 1, j \in 0 .. Len(text) - 1 :
              Chunks!Tokens(i, j + 1) = Chunks!Tokens(i, j) + Chunks!Estimate(text[j + 1])
         /\ \A j \in 1 .. Len(text) : Chunks!Estimate(text[j]) \in Int
  <1>1. PICK n \in 1 .. MaxParagraphs : text \in [1 .. n -> Lengths]
    BY DEF Chunks!Texts
  <1>2. n \in Nat /\ n > 0 /\ Lengths \subseteq Nat
    BY DEF Chunks!ChunkerAssumption
  <1>3. Len(text) = n /\ DOMAIN text = 1 .. n
    <2>1. text \in Seq(Lengths)
      BY <1>1, <1>2
    <2>2. DOMAIN text = 1 .. n /\ DOMAIN text = 1 .. Len(text) /\ Len(text) \in Nat
      BY <1>1, <2>1, LenProperties
    <2>3. QED
      BY <1>2, <2>2
  <1>4. \A j \in 1 .. n : text[j] \in Nat /\ Chunks!Estimate(text[j]) \in Int
    <2>1. \A x \in Nat : x \div 4 \in Int
      OBVIOUS
    <2>2. QED
      BY <1>1, <1>2, <2>1 DEF Chunks!Estimate
  <1> DEFINE w == Chunks!Estimates
             F == Chunks!Sums(w)
  <1>5. Len(w) = n /\ \A j \in 1 .. n : w[j] = Chunks!Estimate(text[j])
    <2>1. w = [p \in 1 .. n |-> Chunks!Estimate(text[p])]
      BY <1>3 DEF Chunks!Estimates
    <2>2. w \in Seq(Int)
      BY <1>2, <1>4, <2>1
    <2>3. DOMAIN w = 1 .. n /\ DOMAIN w = 1 .. Len(w) /\ Len(w) \in Nat
      BY <2>1, <2>2, LenProperties
    <2> HIDE DEF w
    <2>4. QED
      BY <1>2, <2>1, <2>3
  <1>6. \A i, j : Chunks!Tokens(i, j) = F[j] - F[i - 1]
    BY DEF Chunks!Tokens
  <1> HIDE DEF w
  <1>7. /\ \A j \in 0 .. n : F[j] \in Int
        /\ \A j \in 1 .. n : F[j] = F[j - 1] + w[j]
    BY <1>2, <1>4, <1>5, SumsGrow
  <1> HIDE DEF F
  <1>8. \A i \in 1 .. n + 1, j \in 0 .. n : Chunks!Tokens(i, j) \in Int
    <2>1. \A i \in 1 .. n + 1 : i - 1 \in 0 .. n
      BY <1>2
    <2>2. QED
      BY <1>6, <1>7, <2>1
  <1>9. \A i \in 1 .. n + 1 : Chunks!Tokens(i, i - 1) = 0
    <2>1. \A i \in 1 .. n + 1 : i - 1 \in 0 .. n
      BY <1>2
    <2>2. QED
      BY <1>6, <1>7, <2>1
  <1>10. \A i \in 1 .. n + 1, j \in 0 .. n - 1 :
           Chunks!Tokens(i, j + 1) = Chunks!Tokens(i, j) + Chunks!Estimate(text[j + 1])
    <2>1. SUFFICES ASSUME NEW i \in 1 .. n + 1, NEW j \in 0 .. n - 1
                   PROVE  Chunks!Tokens(i, j + 1) = Chunks!Tokens(i, j) + Chunks!Estimate(text[j + 1])
      OBVIOUS
    <2>2. i - 1 \in 0 .. n /\ j \in 0 .. n /\ j + 1 \in 1 .. n /\ (j + 1) - 1 = j
      BY <1>2
    <2>3. F[j + 1] = F[j] + w[j + 1] /\ w[j + 1] = Chunks!Estimate(text[j + 1]) /\ w[j + 1] \in Int
      BY <1>4, <1>5, <1>7, <2>2
    <2>4. F[i - 1] \in Int /\ F[j] \in Int
      BY <1>7, <2>2
    <2>5. QED
      BY <1>6, <2>3, <2>4
  <1>11. QED
    BY <1>2, <1>3, <1>4, <1>8, <1>9, <1>10

(* A text that stays has the same estimates.                                 *)
LEMMA TextStays ==
  ASSUME text' = text
  PROVE  /\ (Chunks!TooBig)' <=> Chunks!TooBig
         /\ \A i, j : (Chunks!Tokens(i, j))' = Chunks!Tokens(i, j)
  BY DEF Chunks!TooBig, Chunks!Tokens, Chunks!Characters, Chunks!Estimates, Chunks!Sums, Chunks!Estimate

(* Carrying over begins at the first paragraph from which the rest fits.       *)
LEMMA CarriedFits ==
  ASSUME Chunks!ChunkerAssumption, Chunks!TypeOK, first <= taken
  PROVE  /\ Chunks!Carried \in first .. taken + 1
         /\ Chunks!Tokens(Chunks!Carried, taken) <= OverlapTokens
         /\ Chunks!Carried = first \/ Chunks!Tokens(Chunks!Carried - 1, taken) > OverlapTokens
  <1> DEFINE S == {k \in first .. taken + 1 : Chunks!Tokens(k, taken) <= OverlapTokens}
  <1>1. /\ taken \in Nat /\ taken <= Len(text) /\ first \in Nat /\ 1 <= first
        /\ Len(text) \in Nat /\ OverlapTokens \in Nat
    BY TokenLaws DEF Chunks!TypeOK, Chunks!ChunkerAssumption
  <1>2. taken + 1 \in S
    <2>1. taken + 1 \in 1 .. Len(text) + 1 /\ (taken + 1) - 1 = taken /\ taken + 1 \in first .. taken + 1
      BY <1>1
    <2>2. Chunks!Tokens(taken + 1, (taken + 1) - 1) = 0
      BY <2>1, TokenLaws DEF Chunks!TypeOK
    <2>3. QED
      BY <1>1, <2>1, <2>2
  <1>3. S \subseteq Nat /\ S # {}
    BY <1>1, <1>2
  <1>4. Chunks!Carried = CHOOSE x \in S : \A y \in S : x <= y
    BY DEF Chunks!Carried, Chunks!Min
  <1>5. Chunks!Carried \in S /\ \A y \in S : Chunks!Carried <= y
    <2> HIDE DEF S
    <2>1. \E x \in S : \A y \in S : x <= y
      BY <1>3, LeastNumber
    <2>2. QED
      BY <1>4, <2>1
  <1>6. Chunks!Carried \in first .. taken + 1 /\ Chunks!Tokens(Chunks!Carried, taken) <= OverlapTokens
    BY <1>5
  <1>7. ASSUME Chunks!Carried # first
        PROVE  Chunks!Tokens(Chunks!Carried - 1, taken) > OverlapTokens
    <2>1. /\ Chunks!Carried - 1 \in first .. taken + 1 /\ ~(Chunks!Carried <= Chunks!Carried - 1)
          /\ Chunks!Carried - 1 \in 1 .. Len(text) + 1 /\ taken \in 0 .. Len(text)
      BY <1>1, <1>6, <1>7
    <2>2. Chunks!Carried - 1 \notin S
      BY <1>5, <2>1
    <2>3. Chunks!Tokens(Chunks!Carried - 1, taken) \in Int
      BY <2>1, TokenLaws DEF Chunks!TypeOK
    <2>4. QED
      BY <1>1, <2>1, <2>2, <2>3
  <1>8. QED
    BY <1>6, <1>7

(* The inductive invariant is the property, said of the pieces: the chunks that are *)
(* done and the one that is being collected.                                        *)
ChunkInv ==
  /\ Chunks!TypeOK /\ Chunks!NothingLost /\ Chunks!OverlapFilled /\ Chunks!ChunksFilled

(* A chunk, and the one that is being collected.                               *)
Stretch == [from : 1 .. Len(text), to : 1 .. Len(text)]
Collected == [from |-> first, to |-> taken]

(* While the loop goes on, the last piece is what is being collected.          *)
LEMMA PiecesCollected ==
  ASSUME Chunks!TypeOK, ~over
  PROVE  /\ Chunks!Pieces = Append(chunks, Collected)
         /\ Len(chunks) \in Nat /\ DOMAIN chunks = 1 .. Len(chunks)
         /\ Len(Chunks!Pieces) = Len(chunks) + 1
         /\ DOMAIN Chunks!Pieces = 1 .. Len(chunks) + 1
         /\ \A i \in 1 .. Len(chunks) : Chunks!Pieces[i] = chunks[i]
         /\ Chunks!Pieces[Len(chunks) + 1].from = first
         /\ Chunks!Pieces[Len(chunks) + 1].to = taken
  <1> DEFINE E == [from : Nat, to : Nat]
  <1>1. Chunks!Pieces = Append(chunks, Collected)
    BY DEF Chunks!Pieces, Collected
  <1>2. chunks \in Seq(E) /\ Collected \in E
    <2>1. Stretch \subseteq E
      BY DEF Stretch
    <2>2. chunks \in Seq(Stretch)
      BY DEF Chunks!TypeOK, Stretch
    <2>3. chunks \in Seq(E)
      BY <2>1, <2>2, SeqMonotonic
    <2>4. first \in Nat /\ taken \in Nat
      BY DEF Chunks!TypeOK
    <2>5. QED
      BY <2>3, <2>4 DEF Collected
  <1> HIDE DEF E
  <1>3. /\ Append(chunks, Collected) \in Seq(E)
        /\ Len(Append(chunks, Collected)) = Len(chunks) + 1
        /\ \A i \in 1 .. Len(chunks) : Append(chunks, Collected)[i] = chunks[i]
        /\ Append(chunks, Collected)[Len(chunks) + 1] = Collected
    BY <1>2, AppendProperties
  <1>4. /\ Len(chunks) \in Nat /\ DOMAIN chunks = 1 .. Len(chunks)
        /\ DOMAIN Append(chunks, Collected) = 1 .. Len(chunks) + 1
    BY <1>2, <1>3, LenProperties
  <1>5. Collected.from = first /\ Collected.to = taken
    BY DEF Collected
  <1>6. QED
    BY <1>1, <1>3, <1>4, <1>5

(* The part of it that says what the pieces are.                               *)
LastCollected ==
  /\ Chunks!Pieces = Append(chunks, Collected)
  /\ Len(Chunks!Pieces) = Len(chunks) + 1
  /\ DOMAIN Chunks!Pieces = 1 .. Len(chunks) + 1
  /\ \A i \in 1 .. Len(chunks) : Chunks!Pieces[i] = chunks[i]
  /\ Chunks!Pieces[Len(chunks) + 1].from = first
  /\ Chunks!Pieces[Len(chunks) + 1].to = taken

(* The same as a formula that can be primed.                                 *)
LEMMA LastIsCollected == Chunks!TypeOK /\ ~over => LastCollected
  BY PiecesCollected DEF LastCollected

(* What the loop does to the pieces: the last one grows by a paragraph, or it is *)
(* closed and a new one begins with what is carried over.                        *)
Grows(m) ==
  /\ Len(Chunks!Pieces') = m /\ DOMAIN Chunks!Pieces' = 1 .. m
  /\ \A i \in 1 .. m - 1 : Chunks!Pieces'[i] = Chunks!Pieces[i]
  /\ Chunks!Pieces'[m].from = Chunks!Pieces[m].from
  /\ Chunks!Pieces'[m].to = taken + 1

Closes(m) ==
  /\ Len(Chunks!Pieces') = m + 1 /\ DOMAIN Chunks!Pieces' = 1 .. m + 1
  /\ \A i \in 1 .. m : Chunks!Pieces'[i] = Chunks!Pieces[i]
  /\ Chunks!Pieces'[m + 1].from = Chunks!Carried
  /\ Chunks!Pieces'[m + 1].to = taken + 1

(* What is known while the loop goes on.                                       *)
LEMMA Collecting ==
  ASSUME Chunks!ChunkerAssumption, ChunkInv, ~over, NEW m, m = Len(chunks) + 1
  PROVE  /\ m \in Nat /\ m >= 1 /\ Len(chunks) = m - 1 /\ DOMAIN chunks = 1 .. m - 1
         /\ Len(Chunks!Pieces) = m /\ DOMAIN Chunks!Pieces = 1 .. m
         /\ \A i \in 1 .. m - 1 : Chunks!Pieces[i] = chunks[i]
         /\ Chunks!Pieces[m].from = first /\ Chunks!Pieces[m].to = taken
         /\ Chunks!Pieces[1].from = 1
         /\ \A i \in 1 .. m : taken > 0 => Chunks!Pieces[i].from <= Chunks!Pieces[i].to
         /\ \A i \in 1 .. m - 1 :
              /\ Chunks!Pieces[i].from <= Chunks!Pieces[i + 1].from
              /\ Chunks!Pieces[i + 1].from <= Chunks!Pieces[i].to + 1
              /\ Chunks!Pieces[i].to < Chunks!Pieces[i + 1].to
              /\ Chunks!Tokens(Chunks!Pieces[i + 1].from, Chunks!Pieces[i].to) <= OverlapTokens
              /\ \/ Chunks!Pieces[i + 1].from = Chunks!Pieces[i].from
                 \/ Chunks!Tokens(Chunks!Pieces[i + 1].from - 1, Chunks!Pieces[i].to) > OverlapTokens
         /\ \A i \in 1 .. m - 1 : Chunks!Pieces[i].from \in Nat /\ Chunks!Pieces[i].to \in Nat
                                  /\ Chunks!Pieces[i].to > 0
         /\ first \in Nat /\ taken \in Nat /\ first >= 1 /\ first <= taken + 1
         /\ taken <= Len(text) /\ Len(text) \in Nat /\ Len(text) > 0
         /\ OverlapTokens \in Nat /\ MaxTokens \in Nat
  <1>1. /\ Len(chunks) \in Nat /\ DOMAIN chunks = 1 .. Len(chunks)
        /\ Len(Chunks!Pieces) = Len(chunks) + 1
        /\ DOMAIN Chunks!Pieces = 1 .. Len(chunks) + 1
        /\ \A i \in 1 .. Len(chunks) : Chunks!Pieces[i] = chunks[i]
        /\ Chunks!Pieces[Len(chunks) + 1].from = first
        /\ Chunks!Pieces[Len(chunks) + 1].to = taken
    BY PiecesCollected DEF ChunkInv
  <1>2. /\ m \in Nat /\ m >= 1 /\ Len(chunks) = m - 1 /\ DOMAIN chunks = 1 .. m - 1
        /\ Len(Chunks!Pieces) = m /\ DOMAIN Chunks!Pieces = 1 .. m
        /\ \A i \in 1 .. m - 1 : Chunks!Pieces[i] = chunks[i]
        /\ Chunks!Pieces[m].from = first /\ Chunks!Pieces[m].to = taken
    BY <1>1
  <1>3. /\ Chunks!Pieces[1].from = 1
        /\ \A i \in 1 .. m : taken > 0 => Chunks!Pieces[i].from <= Chunks!Pieces[i].to
        /\ \A i \in 1 .. m - 1 :
              /\ Chunks!Pieces[i].from <= Chunks!Pieces[i + 1].from
              /\ Chunks!Pieces[i + 1].from <= Chunks!Pieces[i].to + 1
              /\ Chunks!Pieces[i].to < Chunks!Pieces[i + 1].to
    BY <1>2 DEF ChunkInv, Chunks!NothingLost
  <1>4. \A i \in 1 .. m - 1 :
              /\ Chunks!Tokens(Chunks!Pieces[i + 1].from, Chunks!Pieces[i].to) <= OverlapTokens
              /\ \/ Chunks!Pieces[i + 1].from = Chunks!Pieces[i].from
                 \/ Chunks!Tokens(Chunks!Pieces[i + 1].from - 1, Chunks!Pieces[i].to) > OverlapTokens
    BY <1>2 DEF ChunkInv, Chunks!OverlapFilled
  <1>5. /\ first \in Nat /\ taken \in Nat /\ first >= 1 /\ first <= taken + 1
        /\ taken <= Len(text) /\ Len(text) \in Nat /\ Len(text) > 0
        /\ OverlapTokens \in Nat /\ MaxTokens \in Nat
    BY TokenLaws DEF ChunkInv, Chunks!TypeOK, Chunks!ChunkerAssumption
  <1>6. \A i \in 1 .. m - 1 : Chunks!Pieces[i].from \in Nat /\ Chunks!Pieces[i].to \in Nat
                                  /\ Chunks!Pieces[i].to > 0
    <2>1. chunks \in Seq(Stretch)
      BY DEF ChunkInv, Chunks!TypeOK, Stretch
    <2>2. \A i \in 1 .. m - 1 : chunks[i] \in Stretch
      BY <1>2, <2>1, ElementOfSeq
    <2>3. QED
      BY <1>2, <2>2 DEF Stretch
  <1>7. QED
    BY <1>2, <1>3, <1>4, <1>5, <1>6

(* A piece that grows while it fits.                                         *)
LEMMA GrowthKeeps ==
  ASSUME Chunks!ChunkerAssumption, ChunkInv, ~over, ~over', text' = text, chunks' = chunks,
         taken < Len(text), taken' = taken + 1, NEW m, m = Len(chunks) + 1, Grows(m),
         Chunks!Tokens(first, taken + 1) <= MaxTokens \/ first = taken + 1
  PROVE  Chunks!NothingLost' /\ Chunks!OverlapFilled' /\ Chunks!ChunksFilled'
  <1> DEFINE P == Chunks!Pieces
             Q == Chunks!Pieces'
             T(i, j) == Chunks!Tokens(i, j)
  <1>1. /\ m \in Nat /\ m >= 1 /\ Len(chunks) = m - 1 /\ DOMAIN chunks = 1 .. m - 1
        /\ Len(P) = m /\ DOMAIN P = 1 .. m
        /\ \A i \in 1 .. m - 1 : P[i] = chunks[i]
        /\ P[m].from = first /\ P[m].to = taken
        /\ P[1].from = 1
        /\ \A i \in 1 .. m : taken > 0 => P[i].from <= P[i].to
        /\ \A i \in 1 .. m - 1 :
              /\ P[i].from <= P[i + 1].from
              /\ P[i + 1].from <= P[i].to + 1
              /\ P[i].to < P[i + 1].to
              /\ T(P[i + 1].from, P[i].to) <= OverlapTokens
              /\ \/ P[i + 1].from = P[i].from
                 \/ T(P[i + 1].from - 1, P[i].to) > OverlapTokens
        /\ \A i \in 1 .. m - 1 : P[i].from \in Nat /\ P[i].to \in Nat /\ P[i].to > 0
        /\ first \in Nat /\ taken \in Nat /\ first >= 1 /\ first <= taken + 1
        /\ taken <= Len(text) /\ Len(text) \in Nat /\ Len(text) > 0
        /\ OverlapTokens \in Nat /\ MaxTokens \in Nat
    BY Collecting
  <1>2. /\ Len(Q) = m /\ DOMAIN Q = 1 .. m
        /\ \A i \in 1 .. m - 1 : Q[i] = P[i]
        /\ Q[m].from = first /\ Q[m].to = taken + 1
    BY <1>1 DEF Grows
  <1>3. ((Chunks!TooBig)' <=> Chunks!TooBig) /\ \A i, j : (Chunks!Tokens(i, j))' = T(i, j)
    BY TextStays
  <1>4. Chunks!TooBig =>
          /\ \A i \in 1 .. m : \/ T(P[i].from, P[i].to) <= MaxTokens
                               \/ T(P[i].from, P[i].to - 1) <= IF i = 1 THEN 0 ELSE OverlapTokens
          /\ \A i \in 1 .. m - 1 : chunks[i].to < Len(text) => T(chunks[i].from, chunks[i].to + 1) > MaxTokens
    BY <1>1 DEF ChunkInv, Chunks!ChunksFilled
  <1>5. T(taken + 1, (taken + 1) - 1) = 0
    <2>1. taken + 1 \in 1 .. Len(text) + 1
      BY <1>1
    <2>2. QED
      BY <2>1, TokenLaws DEF ChunkInv, Chunks!TypeOK
  <1> HIDE DEF P, Q, T
  <1>6. \A i \in 1 .. m - 1 :
              /\ Q[i].from <= Q[i + 1].from
              /\ Q[i + 1].from <= Q[i].to + 1
              /\ Q[i].to < Q[i + 1].to
              /\ T(Q[i + 1].from, Q[i].to) <= OverlapTokens
              /\ \/ Q[i + 1].from = Q[i].from
                 \/ T(Q[i + 1].from - 1, Q[i].to) > OverlapTokens
    <2>1. SUFFICES ASSUME NEW i \in 1 .. m - 1
                   PROVE  /\ Q[i].from <= Q[i + 1].from
                          /\ Q[i + 1].from <= Q[i].to + 1
                          /\ Q[i].to < Q[i + 1].to
                          /\ T(Q[i + 1].from, Q[i].to) <= OverlapTokens
                          /\ \/ Q[i + 1].from = Q[i].from
                             \/ T(Q[i + 1].from - 1, Q[i].to) > OverlapTokens
      OBVIOUS
    <2>2. /\ Q[i] = P[i] /\ Q[i + 1].from = P[i + 1].from
          /\ Q[i + 1].to = P[i + 1].to \/ (P[i + 1].to = taken /\ Q[i + 1].to = taken + 1)
      <3>1. CASE i + 1 = m
        BY <1>1, <1>2, <3>1
      <3>2. CASE i + 1 # m
        <4>1. i + 1 \in 1 .. m - 1
          BY <1>1, <3>2
        <4>2. QED
          BY <1>2, <4>1
      <3>3. QED
        BY <3>1, <3>2
    <2>3. Q[i].to < Q[i + 1].to
      BY <1>1, <2>2
    <2>4. QED
      BY <1>1, <2>2, <2>3
  <1>7. \A i \in 1 .. m : Q[i].from <= Q[i].to
    <2>1. ASSUME NEW i \in 1 .. m - 1
          PROVE  Q[i].from <= Q[i].to
      <3>1. i \in 1 .. m /\ P[i].to < P[i + 1].to
        BY <1>1, <2>1
      <3>2. taken > 0
        <4>1. m - 1 \in 1 .. m - 1 /\ (m - 1) + 1 = m
          BY <1>1, <2>1
        <4>2. P[m - 1].to < P[(m - 1) + 1].to /\ P[m - 1].to \in Nat
          BY <1>1, <4>1
        <4>3. P[m - 1].to < taken
          BY <1>1, <4>1, <4>2
        <4>4. QED
          BY <1>1, <4>2, <4>3
      <3>3. QED
        BY <1>1, <1>2, <3>1, <3>2
    <2>2. Q[m].from <= Q[m].to
      BY <1>1, <1>2
    <2>3. \A i \in 1 .. m : i \in 1 .. m - 1 \/ i = m
      BY <1>1
    <2>4. QED
      BY <2>1, <2>2, <2>3
  <1>8. Q[1].from = 1
    <2>1. CASE m = 1
      BY <1>1, <1>2, <2>1
    <2>2. CASE m # 1
      <3>1. 1 \in 1 .. m - 1
        BY <1>1, <2>2
      <3>2. QED
        BY <1>1, <1>2, <3>1
    <2>3. QED
      BY <2>1, <2>2
  <1>9. Chunks!NothingLost'
    BY <1>1, <1>2, <1>6, <1>7, <1>8 DEF Chunks!NothingLost, Q
  <1>10. Chunks!OverlapFilled'
    BY <1>1, <1>2, <1>3, <1>6 DEF Chunks!OverlapFilled, Q
  <1>11. Chunks!ChunksFilled'
    <2>1. ASSUME Chunks!TooBig, NEW i \in 1 .. m
          PROVE  \/ T(Q[i].from, Q[i].to) <= MaxTokens
                 \/ T(Q[i].from, Q[i].to - 1) <= IF i = 1 THEN 0 ELSE OverlapTokens
      <3>1. CASE i = m
        <4>1. T(first, taken + 1) <= MaxTokens \/ first = taken + 1
          BY DEF T
        <4>2. CASE first = taken + 1
          <5>1. Q[i].from = taken + 1 /\ Q[i].to = taken + 1
            BY <1>2, <3>1, <4>2
          <5>2. T(Q[i].from, Q[i].to - 1) = 0
            BY <1>5, <5>1
          <5>3. QED
            BY <1>1, <5>2
        <4>3. CASE T(first, taken + 1) <= MaxTokens
          BY <1>2, <3>1, <4>3
        <4>4. QED
          BY <4>1, <4>2, <4>3
      <3>2. CASE i # m
        <4>1. i \in 1 .. m - 1
          BY <1>1, <3>2
        <4>2. Q[i] = P[i]
          BY <1>2, <4>1
        <4>3. QED
          BY <1>4, <2>1, <4>2
      <3>3. QED
        BY <3>1, <3>2
    <2>2. DOMAIN chunks' = 1 .. m - 1 /\ chunks' = chunks /\ text' = text
      BY <1>1
    <2>3. Chunks!TooBig =>
            /\ \A i \in DOMAIN Q :
                 \/ T(Q[i].from, Q[i].to) <= MaxTokens
                 \/ T(Q[i].from, Q[i].to - 1) <= IF i = 1 THEN 0 ELSE OverlapTokens
            /\ \A i \in DOMAIN chunks' :
                 chunks'[i].to < Len(text') => T(chunks'[i].from, chunks'[i].to + 1) > MaxTokens
      BY <1>2, <1>4, <2>1, <2>2
    <2>4. QED
      BY <1>3, <2>3 DEF Chunks!ChunksFilled, Q
  <1>12. QED
    BY <1>9, <1>10, <1>11

(* A piece that is closed because the next paragraph does not fit.           *)
LEMMA ClosingKeeps ==
  ASSUME Chunks!ChunkerAssumption, ChunkInv, ~over, ~over', text' = text,
         chunks' = Append(chunks, Collected),
         taken < Len(text), taken' = taken + 1, first <= taken,
         NEW m, m = Len(chunks) + 1, Closes(m),
         Chunks!TooBig => Chunks!Tokens(first, taken + 1) > MaxTokens
  PROVE  Chunks!NothingLost' /\ Chunks!OverlapFilled' /\ Chunks!ChunksFilled'
  <1> DEFINE P == Chunks!Pieces
             Q == Chunks!Pieces'
             T(i, j) == Chunks!Tokens(i, j)
  <1>1. /\ m \in Nat /\ m >= 1 /\ Len(chunks) = m - 1 /\ DOMAIN chunks = 1 .. m - 1
        /\ Len(P) = m /\ DOMAIN P = 1 .. m
        /\ \A i \in 1 .. m - 1 : P[i] = chunks[i]
        /\ P[m].from = first /\ P[m].to = taken
        /\ P[1].from = 1
        /\ \A i \in 1 .. m : taken > 0 => P[i].from <= P[i].to
        /\ \A i \in 1 .. m - 1 :
              /\ P[i].from <= P[i + 1].from
              /\ P[i + 1].from <= P[i].to + 1
              /\ P[i].to < P[i + 1].to
              /\ T(P[i + 1].from, P[i].to) <= OverlapTokens
              /\ \/ P[i + 1].from = P[i].from
                 \/ T(P[i + 1].from - 1, P[i].to) > OverlapTokens
        /\ \A i \in 1 .. m - 1 : P[i].from \in Nat /\ P[i].to \in Nat /\ P[i].to > 0
        /\ first \in Nat /\ taken \in Nat /\ first >= 1 /\ first <= taken + 1
        /\ taken <= Len(text) /\ Len(text) \in Nat /\ Len(text) > 0
        /\ OverlapTokens \in Nat /\ MaxTokens \in Nat
    BY Collecting
  <1>2. /\ Len(Q) = m + 1 /\ DOMAIN Q = 1 .. m + 1
        /\ \A i \in 1 .. m : Q[i] = P[i]
        /\ Q[m + 1].from = Chunks!Carried /\ Q[m + 1].to = taken + 1
    BY DEF Closes
  <1>3. ((Chunks!TooBig)' <=> Chunks!TooBig) /\ \A i, j : (Chunks!Tokens(i, j))' = T(i, j)
    BY TextStays
  <1>4. Chunks!TooBig =>
          /\ \A i \in 1 .. m : \/ T(P[i].from, P[i].to) <= MaxTokens
                               \/ T(P[i].from, P[i].to - 1) <= IF i = 1 THEN 0 ELSE OverlapTokens
          /\ \A i \in 1 .. m - 1 : chunks[i].to < Len(text) => T(chunks[i].from, chunks[i].to + 1) > MaxTokens
    BY <1>1 DEF ChunkInv, Chunks!ChunksFilled
  <1>5. /\ Chunks!Carried \in first .. taken + 1
        /\ T(Chunks!Carried, taken) <= OverlapTokens
        /\ Chunks!Carried = first \/ T(Chunks!Carried - 1, taken) > OverlapTokens
    BY CarriedFits DEF ChunkInv
  <1>6. Chunks!TooBig => T(first, taken + 1) > MaxTokens
    BY DEF T
  <1>7. /\ chunks' = P /\ text' = text
    BY PiecesCollected DEF ChunkInv
  <1> HIDE DEF P, Q, T
  <1>8. \A i \in 1 .. m :
              /\ Q[i].from <= Q[i + 1].from
              /\ Q[i + 1].from <= Q[i].to + 1
              /\ Q[i].to < Q[i + 1].to
              /\ T(Q[i + 1].from, Q[i].to) <= OverlapTokens
              /\ \/ Q[i + 1].from = Q[i].from
                 \/ T(Q[i + 1].from - 1, Q[i].to) > OverlapTokens
    <2>1. SUFFICES ASSUME NEW i \in 1 .. m
                   PROVE  /\ Q[i].from <= Q[i + 1].from
                          /\ Q[i + 1].from <= Q[i].to + 1
                          /\ Q[i].to < Q[i + 1].to
                          /\ T(Q[i + 1].from, Q[i].to) <= OverlapTokens
                          /\ \/ Q[i + 1].from = Q[i].from
                             \/ T(Q[i + 1].from - 1, Q[i].to) > OverlapTokens
      OBVIOUS
    <2>2. CASE i = m
      <3>1. Q[i].from = first /\ Q[i].to = taken
            /\ Q[i + 1].from = Chunks!Carried /\ Q[i + 1].to = taken + 1
        BY <1>1, <1>2, <2>1, <2>2
      <3>2. first <= Chunks!Carried /\ Chunks!Carried <= taken + 1 /\ taken < taken + 1
        BY <1>1, <1>5
      <3>3. QED
        BY <1>5, <3>1, <3>2
    <2>3. CASE i # m
      <3>1. i \in 1 .. m - 1 /\ i + 1 \in 1 .. m
        BY <1>1, <2>1, <2>3
      <3>2. Q[i] = P[i] /\ Q[i + 1] = P[i + 1]
        BY <1>2, <2>1, <3>1
      <3>3. QED
        BY <1>1, <3>1, <3>2
    <2>4. QED
      BY <2>2, <2>3
  <1>9. \A i \in 1 .. m + 1 : Q[i].from <= Q[i].to
    <2>1. taken > 0
      BY <1>1
    <2>2. ASSUME NEW i \in 1 .. m
          PROVE  Q[i].from <= Q[i].to
      BY <1>1, <1>2, <2>1, <2>2
    <2>3. Q[m + 1].from <= Q[m + 1].to
      BY <1>1, <1>2, <1>5
    <2>4. \A i \in 1 .. m + 1 : i \in 1 .. m \/ i = m + 1
      BY <1>1
    <2>5. QED
      BY <2>2, <2>3, <2>4
  <1>10. Q[1].from = 1
    <2>1. 1 \in 1 .. m
      BY <1>1
    <2>2. QED
      BY <1>1, <1>2, <2>1
  <1>11. Chunks!NothingLost'
    BY <1>1, <1>2, <1>8, <1>9, <1>10 DEF Chunks!NothingLost, Q
  <1>12. Chunks!OverlapFilled'
    BY <1>1, <1>2, <1>3, <1>8 DEF Chunks!OverlapFilled, Q
  <1>13. Chunks!ChunksFilled'
    <2>1. ASSUME Chunks!TooBig, NEW i \in 1 .. m + 1
          PROVE  \/ T(Q[i].from, Q[i].to) <= MaxTokens
                 \/ T(Q[i].from, Q[i].to - 1) <= IF i = 1 THEN 0 ELSE OverlapTokens
      <3>1. CASE i = m + 1
        <4>1. Q[i].from = Chunks!Carried /\ Q[i].to - 1 = taken /\ i # 1
          BY <1>1, <1>2, <3>1
        <4>2. QED
          BY <1>5, <4>1
      <3>2. CASE i # m + 1
        <4>1. i \in 1 .. m
          <5>1. m \in Nat /\ i \in 1 .. m + 1
            BY <1>1, <2>1
          <5>2. QED
            BY <3>2, <5>1
        <4>2. Q[i] = P[i]
          BY <1>2, <4>1
        <4>3. QED
          BY <1>4, <2>1, <4>1, <4>2
      <3>3. QED
        BY <3>1, <3>2
    <2>2. ASSUME Chunks!TooBig, NEW i \in 1 .. m, P[i].to < Len(text)
          PROVE  T(P[i].from, P[i].to + 1) > MaxTokens
      <3>1. CASE i = m
        BY <1>1, <1>6, <2>2, <3>1
      <3>2. CASE i # m
        <4>1. i \in 1 .. m - 1
          BY <1>1, <3>2
        <4>2. P[i] = chunks[i]
          BY <1>1, <4>1
        <4>3. QED
          BY <1>4, <2>2, <4>1, <4>2
      <3>3. QED
        BY <3>1, <3>2
    <2>3. Chunks!TooBig =>
            /\ \A i \in DOMAIN Q :
                 \/ T(Q[i].from, Q[i].to) <= MaxTokens
                 \/ T(Q[i].from, Q[i].to - 1) <= IF i = 1 THEN 0 ELSE OverlapTokens
            /\ \A i \in DOMAIN chunks' :
                 chunks'[i].to < Len(text') => T(chunks'[i].from, chunks'[i].to + 1) > MaxTokens
      BY <1>1, <1>2, <1>7, <2>1, <2>2
    <2>4. QED
      BY <1>3, <2>3 DEF Chunks!ChunksFilled, Q
  <1>14. QED
    BY <1>11, <1>12, <1>13

(* The types after a step, part by part.                                       *)
LEMMA ChunkTyped ==
  ASSUME text' = text, text \in Chunks!Texts,
         taken' \in 0 .. Len(text'), first' \in 1 .. taken' + 1, chunks' \in Seq(Stretch'),
         over' \in BOOLEAN, over' => taken' = Len(text'),
         (Chunks!TooBig)' => tokens' = (Chunks!Tokens(first, taken))'
  PROVE  Chunks!TypeOK'
  <1>1. text' \in (Chunks!Texts)'
    BY DEF Chunks!Texts
  <1>2. chunks' \in Seq([from : 1 .. Len(text'), to : 1 .. Len(text')])
    BY DEF Stretch
  <1>3. QED
    BY <1>1, <1>2 DEF Chunks!TypeOK

(* The turn of the loop for a paragraph.                                     *)
LEMMA ChunkReads ==
  ASSUME Chunks!ChunkerAssumption, ChunkInv, Chunks!Read
  PROVE  ChunkInv'
  <1> DEFINE n == Chunks!Estimate(text[taken + 1])
  <1>1. /\ Chunks!TooBig /\ taken < Len(text) /\ taken' = taken + 1
        /\ text' = text /\ over' = over
        /\ IF Chunks!Exceeds(n)
           THEN /\ chunks' = Append(chunks, Collected)
                /\ first' = Chunks!Carried /\ tokens' = Chunks!CarriedTokens + n
           ELSE tokens' = tokens + n /\ first' = first /\ chunks' = chunks
    BY DEF Chunks!Read, Collected
  <1>2. /\ text \in Chunks!Texts /\ taken \in 0 .. Len(text) /\ first \in 1 .. taken + 1
        /\ over' \in BOOLEAN /\ Len(text) \in Nat /\ ~over /\ ~over' /\ MaxTokens \in Nat /\ OverlapTokens \in Nat
        /\ tokens = Chunks!Tokens(first, taken)
        /\ chunks \in Seq(Stretch)
    BY <1>1, TokenLaws DEF ChunkInv, Chunks!TypeOK, Chunks!ChunkerAssumption, Stretch
  <1>3. /\ \A i \in 1 .. Len(text) + 1, j \in 0 .. Len(text) : Chunks!Tokens(i, j) \in Int
        /\ \A i \in 1 .. Len(text) + 1, j \in 0 .. Len(text) - 1 :
             Chunks!Tokens(i, j + 1) = Chunks!Tokens(i, j) + Chunks!Estimate(text[j + 1])
        /\ n \in Int
    <2>1. taken + 1 \in 1 .. Len(text)
      BY <1>1, <1>2
    <2>2. QED
      BY <1>2, <2>1, TokenLaws
  <1> HIDE DEF n
  <1>4. ((Chunks!TooBig)' <=> Chunks!TooBig) /\ \A i, j : (Chunks!Tokens(i, j))' = Chunks!Tokens(i, j)
    BY <1>1, TextStays
  <1>5. Stretch' = Stretch
    BY <1>1 DEF Stretch
  <1>6. PICK m : m = Len(chunks) + 1
    OBVIOUS
  <1>7. /\ m \in Nat /\ m >= 1 /\ Len(Chunks!Pieces) = m
        /\ \A i \in 1 .. m - 1 : Chunks!Pieces[i] = chunks[i]
        /\ Chunks!Pieces[m].from = first /\ Chunks!Pieces[m].to = taken
        /\ Len(chunks) = m - 1
    BY <1>2, <1>6, Collecting
  <1>8. Chunks!Tokens(first, taken + 1) = Chunks!Tokens(first, taken) + n
    <2>1. first \in 1 .. Len(text) + 1 /\ taken \in 0 .. Len(text) - 1
      BY <1>1, <1>2
    <2>2. QED
      BY <1>3, <2>1 DEF n
  <1>9. Chunks!TypeOK' => /\ Chunks!Pieces' = Append(chunks', Collected')
                          /\ Len(Chunks!Pieces') = Len(chunks') + 1
                          /\ DOMAIN Chunks!Pieces' = 1 .. Len(chunks') + 1
                          /\ \A i \in 1 .. Len(chunks') : Chunks!Pieces'[i] = chunks'[i]
                          /\ Chunks!Pieces'[Len(chunks') + 1].from = first'
                          /\ Chunks!Pieces'[Len(chunks') + 1].to = taken'
    <2>1. (Chunks!TypeOK /\ ~over)' => LastCollected'
      BY LastIsCollected, PTL
    <2>2. QED
      BY <1>2, <2>1 DEF LastCollected
  <1>10. CASE ~Chunks!Exceeds(n)
    <2>1. tokens' = tokens + n /\ first' = first /\ chunks' = chunks
      BY <1>1, <1>10
    <2>2. Chunks!TypeOK'
      <3>2. tokens' = (Chunks!Tokens(first, taken))'
        BY <1>1, <1>2, <1>4, <1>8, <2>1 DEF Chunks!Tokens, Chunks!Sums, Chunks!Estimates, Chunks!Estimate
      <3>3. taken' \in 0 .. Len(text') /\ first' \in 1 .. taken' + 1
        BY <1>1, <1>2, <2>1
      <3>4. chunks' \in Seq(Stretch')
        BY <1>2, <1>5, <2>1
      <3>5. QED
        BY <1>1, <1>2, <3>2, <3>3, <3>4, ChunkTyped
    <2>3. Grows(m)
      BY <1>1, <1>6, <1>7, <1>9, <2>1, <2>2 DEF Grows
    <2>4. Chunks!Tokens(first, taken + 1) <= MaxTokens \/ first = taken + 1
      <3>1. ~(tokens + n > MaxTokens) \/ ~(first <= taken)
        BY <1>10 DEF Chunks!Exceeds
      <3>2. tokens \in Int
        BY <1>2, <1>3
      <3>3. QED
        BY <1>2, <1>3, <1>8, <3>1, <3>2
    <2>5. Chunks!NothingLost' /\ Chunks!OverlapFilled' /\ Chunks!ChunksFilled'
      BY <1>1, <1>2, <1>6, <2>1, <2>3, <2>4, GrowthKeeps
    <2>6. QED
      BY <2>2, <2>5 DEF ChunkInv
  <1>11. CASE Chunks!Exceeds(n)
    <2>1. chunks' = Append(chunks, Collected) /\ first' = Chunks!Carried
          /\ tokens' = Chunks!CarriedTokens + n
      BY <1>1, <1>11
    <2>2. tokens + n > MaxTokens /\ first <= taken
      BY <1>11 DEF Chunks!Exceeds
    <2>3. Chunks!Carried \in first .. taken + 1
      BY <2>2, CarriedFits DEF ChunkInv
    <2>4. Chunks!TypeOK'
      <3>1. PICK k : k = Chunks!Carried
        OBVIOUS
      <3>2. k \in 1 .. Len(text) + 1 /\ taken \in 0 .. Len(text) - 1
        BY <1>1, <1>2, <2>3, <3>1
      <3>3. Chunks!Tokens(k, taken + 1) = Chunks!Tokens(k, taken) + n
        BY <1>3, <3>2 DEF n
      <3>4. first' = k /\ tokens' = Chunks!Tokens(k, taken) + n
        BY <2>1, <3>1 DEF Chunks!CarriedTokens
      <3>5. tokens' = (Chunks!Tokens(first, taken))'
        BY <1>1, <1>4, <3>3, <3>4 DEF Chunks!Tokens, Chunks!Sums, Chunks!Estimates, Chunks!Estimate
      <3>6. taken' \in 0 .. Len(text') /\ first' \in 1 .. taken' + 1
        BY <1>1, <1>2, <2>3, <3>1, <3>4
      <3>7. chunks' \in Seq(Stretch')
        <4>1. Collected \in Stretch
          BY <1>2, <2>2 DEF Collected, Stretch
        <4>2. QED
          BY <1>2, <1>5, <2>1, <4>1, AppendProperties
      <3>8. QED
        BY <1>1, <1>2, <3>5, <3>6, <3>7, ChunkTyped
    <2>5. Closes(m)
      <3>1. chunks' = Chunks!Pieces /\ Len(chunks') = m
        BY <1>2, <1>7, <2>1, PiecesCollected DEF ChunkInv
      <3>2. QED
        BY <1>1, <1>9, <2>1, <2>4, <3>1 DEF Closes
    <2>6. Chunks!TooBig => Chunks!Tokens(first, taken + 1) > MaxTokens
      BY <1>2, <1>8, <2>2
    <2>7. Chunks!NothingLost' /\ Chunks!OverlapFilled' /\ Chunks!ChunksFilled'
      BY <1>1, <1>2, <1>6, <2>1, <2>2, <2>5, <2>6, ClosingKeeps
    <2>8. QED
      BY <2>4, <2>7 DEF ChunkInv
  <1>12. QED
    BY <1>10, <1>11

(* The last chunk is closed.                                                 *)
LEMMA ChunkEnds ==
  ASSUME Chunks!ChunkerAssumption, ChunkInv, Chunks!Last
  PROVE  ChunkInv'
  <1>1. /\ Chunks!TooBig /\ taken = Len(text) /\ ~over /\ chunks' = Append(chunks, Collected)
        /\ over' = TRUE /\ text' = text /\ taken' = taken /\ first' = first /\ tokens' = tokens
    BY DEF Chunks!Last, Collected
  <1>2. PICK m : m = Len(chunks) + 1
    OBVIOUS
  <1>3. /\ m \in Nat /\ m >= 1 /\ Len(chunks) = m - 1 /\ DOMAIN chunks = 1 .. m - 1
        /\ Len(Chunks!Pieces) = m /\ DOMAIN Chunks!Pieces = 1 .. m
        /\ \A i \in 1 .. m - 1 : Chunks!Pieces[i] = chunks[i]
        /\ Chunks!Pieces[m].from = first /\ Chunks!Pieces[m].to = taken
        /\ first \in Nat /\ taken \in Nat /\ first >= 1 /\ first <= taken + 1
        /\ Len(text) \in Nat /\ Len(text) > 0 /\ MaxTokens \in Nat
        /\ \A i \in 1 .. m : taken > 0 => Chunks!Pieces[i].from <= Chunks!Pieces[i].to
    BY <1>1, <1>2, Collecting
  <1>4. chunks' = Chunks!Pieces /\ Chunks!Pieces' = Chunks!Pieces
    <2>1. chunks' = Chunks!Pieces
      BY <1>1, PiecesCollected DEF ChunkInv
    <2>2. Chunks!Pieces' = chunks'
      BY <1>1 DEF Chunks!Pieces
    <2>3. QED
      BY <2>1, <2>2
  <1>5. ((Chunks!TooBig)' <=> Chunks!TooBig) /\ \A i, j : (Chunks!Tokens(i, j))' = Chunks!Tokens(i, j)
    BY <1>1, TextStays
  <1>6. first <= taken
    <2>1. m \in 1 .. m /\ taken > 0
      BY <1>1, <1>3
    <2>2. QED
      BY <1>3, <2>1
  <1>7. Chunks!TypeOK'
    <2>1. Stretch' = Stretch
      BY <1>1 DEF Stretch
    <2>2. chunks \in Seq(Stretch) /\ text \in Chunks!Texts /\ (Chunks!TooBig => tokens = Chunks!Tokens(first, taken))
          /\ taken \in 0 .. Len(text) /\ first \in 1 .. taken + 1
      BY DEF ChunkInv, Chunks!TypeOK, Stretch
    <2>3. Collected \in Stretch
      BY <1>1, <1>3, <1>6 DEF Collected, Stretch
    <2>4. chunks' \in Seq(Stretch')
      BY <1>1, <2>1, <2>2, <2>3, AppendProperties
    <2>5. (Chunks!TooBig)' => tokens' = (Chunks!Tokens(first, taken))'
      BY <1>1, <1>5, <2>2 DEF Chunks!Tokens, Chunks!Sums, Chunks!Estimates, Chunks!Estimate
    <2>6. QED
      BY <1>1, <2>2, <2>4, <2>5, ChunkTyped
  <1>8. Chunks!NothingLost'
    <2>1. Chunks!Pieces[Len(Chunks!Pieces)].to = Len(text)
      BY <1>1, <1>3
    <2>2. QED
      BY <1>1, <1>4, <2>1 DEF ChunkInv, Chunks!NothingLost
  <1>9. Chunks!OverlapFilled'
    BY <1>4, <1>5 DEF ChunkInv, Chunks!OverlapFilled
  <1>10. Chunks!ChunksFilled'
    <2>1. ASSUME NEW i \in DOMAIN chunks', chunks'[i].to < Len(text'), (Chunks!TooBig)'
          PROVE  i \in DOMAIN chunks /\ chunks'[i] = chunks[i]
      <3>1. i \in 1 .. m /\ chunks'[i] = Chunks!Pieces[i]
        BY <1>3, <1>4, <2>1
      <3>2. i # m
        BY <1>1, <1>3, <2>1, <3>1
      <3>3. i \in 1 .. m - 1
        BY <1>3, <3>1, <3>2
      <3>4. QED
        BY <1>3, <3>1, <3>3
    <2>2. Chunks!TooBig =>
            /\ \A i \in DOMAIN Chunks!Pieces' :
                 LET c == Chunks!Pieces'[i]
                 IN  \/ Chunks!Tokens(c.from, c.to) <= MaxTokens
                     \/ Chunks!Tokens(c.from, c.to - 1) <= IF i = 1 THEN 0 ELSE OverlapTokens
            /\ \A i \in DOMAIN chunks' :
                 chunks'[i].to < Len(text') => Chunks!Tokens(chunks'[i].from, chunks'[i].to + 1) > MaxTokens
      BY <1>1, <1>4, <1>5, <2>1 DEF ChunkInv, Chunks!ChunksFilled
    <2>3. QED
      BY <1>5, <2>2 DEF Chunks!ChunksFilled
  <1>11. QED
    BY <1>7, <1>8, <1>9, <1>10 DEF ChunkInv

(* One piece that has all of the text so far.                                  *)
LEMMA OnePiece ==
  ASSUME Chunks!TypeOK, Len(Chunks!Pieces) = 1, DOMAIN Chunks!Pieces = 1 .. 1,
         Chunks!Pieces[1].from = 1, taken > 0 => Chunks!Pieces[1].to >= 1,
         over => Chunks!Pieces[1].to = Len(text)
  PROVE  Chunks!NothingLost /\ Chunks!OverlapFilled
  <1>1. 1 .. Len(Chunks!Pieces) - 1 = {} /\ \A i \in 1 .. 1 : i = 1
    OBVIOUS
  <1>2. Chunks!NothingLost
    <2>1. \A i \in DOMAIN Chunks!Pieces : taken > 0 => Chunks!Pieces[i].from <= Chunks!Pieces[i].to
      BY <1>1
    <2>2. QED
      BY <1>1, <2>1 DEF Chunks!NothingLost
  <1>3. Chunks!OverlapFilled
    BY <1>1 DEF Chunks!OverlapFilled
  <1>4. QED
    BY <1>2, <1>3

(* A text of which one piece has all that was read.                            *)
OneSoFar ==
  /\ Chunks!TypeOK /\ Len(Chunks!Pieces) = 1 /\ DOMAIN Chunks!Pieces = 1 .. 1
  /\ Chunks!Pieces[1].from = 1 /\ (taken > 0 => Chunks!Pieces[1].to >= 1)
  /\ (over => Chunks!Pieces[1].to = Len(text))

OneIsAll == Chunks!NothingLost /\ Chunks!OverlapFilled

(* The same as a formula that can be primed.                                 *)
LEMMA OneIsEnough == OneSoFar => OneIsAll
  BY OnePiece DEF OneSoFar, OneIsAll

(* A section within the limit is one chunk.                                  *)
LEMMA ChunkWhole ==
  ASSUME Chunks!ChunkerAssumption, ChunkInv, Chunks!Whole
  PROVE  ChunkInv'
  <1> DEFINE c == [from |-> 1, to |-> Len(text)]
  <1>1. /\ ~over /\ over' = TRUE /\ chunks' = <<c>> /\ taken' = Len(text) /\ text' = text
        /\ first' = first /\ tokens' = tokens /\ taken = 0 /\ ~Chunks!TooBig
    BY DEF Chunks!Whole
  <1>2. text \in Chunks!Texts /\ first \in 1 .. taken + 1 /\ Len(text) \in Nat /\ Len(text) > 0
    BY TokenLaws DEF ChunkInv, Chunks!TypeOK
  <1>3. ~(Chunks!TooBig)'
    BY <1>1, TextStays
  <1>4. c \in Stretch' /\ c.from = 1 /\ c.to = Len(text)
    BY <1>1, <1>2 DEF Stretch
  <1> HIDE DEF c
  <1>5. chunks' \in Seq(Stretch') /\ Len(chunks') = 1 /\ DOMAIN chunks' = 1 .. 1 /\ chunks'[1] = c
    BY <1>1, <1>4
  <1>6. Chunks!TypeOK'
    <2>1. taken' \in 0 .. Len(text') /\ first' \in 1 .. taken' + 1
      BY <1>1, <1>2
    <2>2. QED
      BY <1>1, <1>2, <1>3, <1>5, <2>1, ChunkTyped
  <1>7. Chunks!Pieces' = chunks'
    BY <1>1 DEF Chunks!Pieces
  <1>8. /\ Len(Chunks!Pieces)' = 1 /\ (DOMAIN Chunks!Pieces)' = 1 .. 1
        /\ Chunks!Pieces'[1].from = 1 /\ Chunks!Pieces'[1].to = Len(text') /\ Len(text') >= 1
    BY <1>1, <1>2, <1>4, <1>5, <1>7
  <1>9. Chunks!NothingLost' /\ Chunks!OverlapFilled'
    <2>1. (Len(text) \in Nat)' /\ 1 <= Len(text')
      BY <1>1, <1>2
    <2>2. Len(Chunks!Pieces') = 1 /\ DOMAIN Chunks!Pieces' = 1 .. 1
      BY <1>8
    <2>3. OneSoFar'
      BY <1>6, <1>8, <2>1, <2>2 DEF OneSoFar
    <2>4. OneIsAll'
      BY <2>3, OneIsEnough, PTL
    <2>5. QED
      BY <2>4 DEF OneIsAll
  <1>10. Chunks!ChunksFilled'
    BY <1>3 DEF Chunks!ChunksFilled
  <1>11. QED
    BY <1>6, <1>9, <1>10 DEF ChunkInv

(* ChunkInv holds at the start.                                              *)
LEMMA ChunkInit ==
  ASSUME Chunks!ChunkerAssumption, Chunks!Init
  PROVE  ChunkInv
  <1>1. /\ text \in Chunks!Texts /\ taken = 0 /\ first = 1 /\ tokens = 0
        /\ chunks = <<>> /\ over = FALSE
    BY DEF Chunks!Init
  <1>2. Len(text) \in Nat /\ Len(text) > 0 /\ MaxTokens \in Nat
    BY <1>1, TokenLaws DEF Chunks!ChunkerAssumption
  <1>3. Chunks!Tokens(1, 0) = 0
    <2>1. 1 \in 1 .. Len(text) + 1 /\ 1 - 1 = 0
      BY <1>2
    <2>2. QED
      BY <1>1, <2>1, TokenLaws
  <1>4. Chunks!TypeOK
    <2>1. chunks \in Seq([from : 1 .. Len(text), to : 1 .. Len(text)])
      BY <1>1
    <2>2. taken \in 0 .. Len(text) /\ first \in 1 .. taken + 1
      BY <1>1, <1>2
    <2>3. QED
      BY <1>1, <1>3, <2>1, <2>2 DEF Chunks!TypeOK
  <1>5. /\ Len(chunks) = 0 /\ Len(Chunks!Pieces) = 1 /\ DOMAIN Chunks!Pieces = 1 .. 1
        /\ Chunks!Pieces[1].from = 1 /\ Chunks!Pieces[1].to = 0
    BY <1>1, <1>4, PiecesCollected
  <1>6. Chunks!NothingLost /\ Chunks!OverlapFilled
    BY <1>1, <1>4, <1>5, OnePiece
  <1>7. Chunks!ChunksFilled
    <2>1. \A i \in DOMAIN Chunks!Pieces : Chunks!Pieces[i].from = 1 /\ Chunks!Pieces[i].to = 0
      BY <1>5
    <2>2. DOMAIN chunks = {}
      BY <1>1
    <2>3. QED
      BY <1>2, <1>3, <2>1, <2>2 DEF Chunks!ChunksFilled
  <1>8. QED
    BY <1>4, <1>6, <1>7 DEF ChunkInv

(* The chunker rests.                                                        *)
LEMMA ChunkRests ==
  ASSUME ChunkInv, UNCHANGED chunkerVars
  PROVE  ChunkInv'
  <1>1. /\ text' = text /\ taken' = taken /\ first' = first /\ tokens' = tokens
        /\ chunks' = chunks /\ over' = over
    BY DEF chunkerVars
  <1>2. Chunks!Pieces' = Chunks!Pieces
    BY <1>1 DEF Chunks!Pieces
  <1>3. ((Chunks!TooBig)' <=> Chunks!TooBig) /\ \A i, j : (Chunks!Tokens(i, j))' = Chunks!Tokens(i, j)
    BY <1>1, TextStays
  <1>4. Chunks!TypeOK'
    <2>1. /\ text \in Chunks!Texts /\ taken \in 0 .. Len(text) /\ first \in 1 .. taken + 1
          /\ chunks \in Seq(Stretch) /\ over \in BOOLEAN /\ (over => taken = Len(text))
          /\ (Chunks!TooBig => tokens = Chunks!Tokens(first, taken))
      BY DEF ChunkInv, Chunks!TypeOK, Stretch
    <2>2. Stretch' = Stretch
      BY <1>1 DEF Stretch
    <2>3. (Chunks!TooBig)' => tokens' = (Chunks!Tokens(first, taken))'
      BY <1>1, <1>3, <2>1 DEF Chunks!Tokens, Chunks!Sums, Chunks!Estimates, Chunks!Estimate
    <2>4. QED
      BY <1>1, <2>1, <2>2, <2>3, ChunkTyped
  <1>5. Chunks!NothingLost'
    BY <1>1, <1>2 DEF ChunkInv, Chunks!NothingLost
  <1>6. Chunks!OverlapFilled'
    BY <1>2, <1>3 DEF ChunkInv, Chunks!OverlapFilled
  <1>7. Chunks!ChunksFilled'
    BY <1>1, <1>2, <1>3 DEF ChunkInv, Chunks!ChunksFilled
  <1>8. QED
    BY <1>4, <1>5, <1>6, <1>7 DEF ChunkInv

(* Every step of the chunker keeps ChunkInv.                                 *)
LEMMA ChunkStep ==
  ASSUME Chunks!ChunkerAssumption, ChunkInv, Chunks!Next
  PROVE  ChunkInv'
  BY ChunkWhole, ChunkReads, ChunkEnds DEF Chunks!Next

(* A pass over the runbooks (src/rag/indexer.py) commits for every file the chunks  *)
(* of one content the file had since the pass began, whoever edits it meanwhile, and *)
(* the chunks (src/rag/chunker.py) lose no paragraph, carry over as many as the      *)
(* overlap allows and end no chunk early: for every set of files and contents, every *)
(* limit, and sections of any length.                                                *)
THEOREM IndexIsFaithful == Spec => IndexFaithful
  <1>1. Index!IndexAssumption /\ Chunks!ChunkerAssumption
    BY WorkersAssumption
  <1>2. Init => IndexInv /\ ChunkInv
    BY <1>1, IndexInit, ChunkInit DEF Init
  <1>3. IndexInv /\ [Next]_vars => IndexInv' /\ [Saves]_(Index!vars)
    <2>1. ASSUME [Next]_vars
          PROVE  Index!Next \/ UNCHANGED indexVars
      BY <2>1 DEF Next, vars
    <2>2. CASE Index!Next
      BY <1>1, <2>2, IndexStep
    <2>3. ASSUME UNCHANGED indexVars
          PROVE  UNCHANGED Index!vars
      BY <2>3 DEF indexVars, Index!vars
    <2>4. QED
      BY <2>1, <2>2, <2>3, IndexRests
  <1>4. ChunkInv /\ [Next]_vars => ChunkInv'
    <2>1. ASSUME [Next]_vars
          PROVE  Chunks!Next \/ UNCHANGED chunkerVars
      BY <2>1 DEF Next, vars
    <2>2. QED
      BY <1>1, <2>1, ChunkStep, ChunkRests
  <1>5. IndexInv => (scope = "index" => Index!TypeOK /\ Index!WholeContents /\ Index!DraftIsCurrent)
    BY DEF IndexInv
  <1>6. ChunkInv => (scope = "chunker" => /\ Chunks!TypeOK
                             /\ Chunks!NothingLost
                             /\ Chunks!OverlapFilled
                             /\ Chunks!ChunksFilled)
    BY DEF ChunkInv
  <1>7. Saves => (Index!Commit => \A f \in Files : Index!Current(f, index'[f]))
    BY DEF Saves
  <1>8. QED
    BY <1>2, <1>3, <1>4, <1>5, <1>6, <1>7, PTL DEF Spec, IndexFaithful, Index!CommitsWhatItSaw
=============================================================================
