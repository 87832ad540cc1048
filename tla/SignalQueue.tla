----------------------------- MODULE SignalQueue -----------------------------
(***************************************************************************)
(* The webhook signal queue and its consumer: the Redis stream with its     *)
(* consumer group (src/persistence/redis_store.py) and the background task  *)
(* signal_consumer_worker (src/main.py).  Signals are numbered in the order *)
(* XADD gave them ids.                                                      *)
(***************************************************************************)
EXTENDS Integers, Sequences, FiniteSets, RedisStream

CONSTANTS MaxSignals,  \* bound: signals the webhook accepts
          BatchSize,   \* count of XREADGROUP
          MaxFaults    \* bound: exceptions and process crashes

ASSUME BoundsAssumption ==
  MaxSignals \in Nat /\ BatchSize \in Nat \ {0} /\ MaxFaults \in Nat

Signals == 1 .. MaxSignals

\* What orchestrator.process made of a signal.  "halted" and "error" are
\* dictionaries it returns (kill switch, failed LLM call), not exceptions.
Returned == {"ok", "halted", "error"}
Results  == {"none"} \cup Returned

VARIABLES
  sent,      \* signals added so far
  stream,    \* entries in the stream
  delivered, \* last-delivered-id of the consumer group
  pel,       \* pending entries: delivered and not acknowledged
  batch,     \* entries the worker holds, the current one first
  worker,    \* where the worker is
  result,    \* history: what process returned for each signal
  faults     \* exceptions and crashes so far

vars == <<sent, stream, delivered, pel, batch, worker, result, faults>>

WorkerPc == {"reading", "processing", "acking", "deleting", "resting"}

Fresh == {i \in stream : i > delivered}

Init ==
  /\ sent = 0 /\ stream = {} /\ delivered = 0 /\ pel = {}
  /\ batch = <<>> /\ worker = "reading"
  /\ result = [i \in Signals |-> "none"]
  /\ faults = 0

-----------------------------------------------------------------------------
\* POST /webhook.
EnqueueSignal ==
  /\ sent < MaxSignals
  /\ sent'   = sent + 1
  /\ stream' = stream \cup {sent + 1}
  /\ UNCHANGED <<delivered, pel, batch, worker, result, faults>>

\* Mutant: entries are handed out again while they are pending.
DeliverablePending == Fresh \cup pel

\* XREADGROUP with ">": only entries never delivered to the group.
Deliverable == Fresh

Dequeue ==
  /\ worker = "reading"
  /\ Deliverable # {}
  /\ batch'     \in Oldest(Deliverable, BatchSize)
  /\ delivered' = Max({delivered} \cup ToSet(batch'))
  /\ pel'       = pel \cup ToSet(batch')
  /\ worker'    = "processing"
  /\ UNCHANGED <<sent, stream, result, faults>>

\* orchestrator.process returns, with whatever status.
ProcessReturns(res) ==
  /\ worker = "processing"
  /\ result' = [result EXCEPT ![Head(batch)] = res]
  /\ worker' = "acking"
  /\ UNCHANGED <<sent, stream, delivered, pel, batch, faults>>

Acked == pel \ {Head(batch)}

AckSignal ==
  /\ worker = "acking"
  /\ pel'    = Acked
  /\ worker' = "deleting"
  /\ UNCHANGED <<sent, stream, delivered, batch, result, faults>>

\* Mutant: the whole batch is deleted with its first entry.
DeletesBatch == ToSet(batch)

Deletes == {Head(batch)}

DeleteSignal ==
  /\ worker = "deleting"
  /\ stream' = stream \ Deletes
  /\ batch'  = Tail(batch)
  /\ worker' = IF Len(batch) = 1 THEN "reading" ELSE "processing"
  /\ UNCHANGED <<sent, delivered, pel, result, faults>>

\* Mutant: the worker that caught an exception keeps waiting.
RestingForever == "resting"

AfterRest == "reading"

\* Any exception leaves the for loop: the rest of the batch is forgotten.
WorkerFails ==
  /\ faults < MaxFaults
  /\ worker \in {"processing", "acking", "deleting"}
  /\ faults' = faults + 1
  /\ batch'  = <<>>
  /\ worker' = "resting"
  /\ UNCHANGED <<sent, stream, delivered, pel, result>>

\* After sleeping five seconds.
Resume ==
  /\ worker = "resting"
  /\ worker' = AfterRest
  /\ UNCHANGED <<sent, stream, delivered, pel, batch, result, faults>>

\* The process dies and comes back under the same consumer name; Redis remains.
Restart ==
  /\ faults < MaxFaults
  /\ faults' = faults + 1
  /\ batch'  = <<>>
  /\ worker' = "reading"
  /\ UNCHANGED <<sent, stream, delivered, pel, result>>

Worker == \/ Dequeue
          \/ \E res \in Returned : ProcessReturns(res)
          \/ AckSignal \/ DeleteSignal \/ Resume

Next == EnqueueSignal \/ Worker \/ WorkerFails \/ Restart

Spec == Init /\ [][Next]_vars

\* The worker task is never cancelled while the process lives.
FairSpec == Spec /\ WF_vars(Worker)

-----------------------------------------------------------------------------
TypeOK ==
  /\ sent \in 0 .. MaxSignals
  /\ delivered \in 0 .. sent
  /\ stream \subseteq 1 .. sent
  /\ pel \subseteq 1 .. delivered
  /\ batch \in Seq(1 .. sent) /\ Len(batch) <= BatchSize
  /\ worker \in WorkerPc
  /\ result \in [Signals -> Results]
  /\ faults \in 0 .. MaxFaults

\* A signal leaves the stream only after process returned for that signal,
\* however crashes and exceptions fall between the three Redis calls.
DeletedOnlyIfProcessed ==
  \A i \in 1 .. sent : i \notin stream => result[i] # "none"

\* Without a fault nothing is stranded: every pending entry is in the hands of
\* the worker.
PendingIsHeld == faults = 0 => pel \subseteq ToSet(batch)

\* A pending entry the worker does not hold and never processed.
Stranded == {i \in pel \ ToSet(batch) : result[i] = "none"}

\* One fault strands at most one batch, whatever the worker was doing.
StrandedBounded == Cardinality(Stranded) <= faults * BatchSize

\* No signal is processed before an older one that the worker still may process,
\* and none is processed twice, also after a restart.
OnceAndInOrder ==
  [][\A i \in Signals :
       result'[i] # result[i] =>
         /\ result[i] = "none"
         /\ \A j \in 1 .. (i - 1) : result[j] # "none" \/ j \in Stranded]_vars

\* Why: the worker holds entries that were delivered, in their order, and all but
\* the one it is done with are unprocessed.
HeldInOrder ==
  /\ batch # <<>> <=> worker \in {"processing", "acking", "deleting"}
  /\ \A i, j \in DOMAIN batch : i < j => batch[i] < batch[j]
  /\ \A i \in DOMAIN batch :
       /\ batch[i] <= delivered
       /\ result[batch[i]] = "none" <=> i > 1 \/ worker = "processing"

\* And a delivered signal is pending until it is processed, and no longer once
\* it was acknowledged.
PendingUntilProcessed ==
  /\ \A i \in 1 .. delivered : result[i] = "none" => i \in pel
  /\ \A i \in Signals : result[i] # "none" => i <= delivered
  /\ worker = "deleting" => Head(batch) \notin pel

\* What the stream, the pending list, the batch and the results tell of a signal
\* is one story, told in the order of the signals.
Consistent ==
  /\ [](/\ TypeOK /\ DeletedOnlyIfProcessed /\ PendingIsHeld /\ StrandedBounded
        /\ HeldInOrder /\ PendingUntilProcessed)
  /\ OnceAndInOrder

\* The stream keeps the promise of AtMostOnceQueue and no more: a stranded
\* entry is lost.
FateOf(i) ==
  IF i > sent                THEN "none"
  ELSE IF result[i] # "none" THEN "done"
  ELSE IF i > delivered      THEN "queued"
  ELSE IF i \in ToSet(batch) THEN "taken"
  ELSE "lost"

Promise == INSTANCE AtMostOnceQueue
             WITH NumItems <- MaxSignals, Lossy <- FALSE, fate <- [i \in Signals |-> FateOf(i)]

ImplementsPromise == Promise!Spec

\* Faults do not block the signals behind them: each is eventually delivered.
LaterSignalsDelivered == \A i \in Signals : i \in Fresh ~> i \notin Fresh

\* Without a fault every accepted signal is processed and deleted.
EverySignalHandled ==
  \A i \in Signals : i \in stream ~> i \notin stream \/ faults > 0

\* Both: the queue never stops, and without faults it empties.
SignalsMoveOn == LaterSignalsDelivered /\ EverySignalHandled

-----------------------------------------------------------------------------
(* What the repository says and the code does not do. *)

\* main.py:156, "... to prevent signal loss": every accepted signal is processed.
NoSignalLost == \A i \in Signals : i \in stream ~> result[i] # "none"

\* main.py:156, "Acknowledge ONLY after successful processing".
AckedOnlyIfSuccessful ==
  \A i \in 1 .. delivered : i \notin pel => result[i] = "ok"
=============================================================================
