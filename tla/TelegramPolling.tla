--------------------------- MODULE TelegramPolling ---------------------------
(***************************************************************************)
(* The polling worker of the Telegram bot: telegram_polling_worker in       *)
(* src/main.py, get_updates in src/telegram/client.py and, as one step that *)
(* returns or raises, process_telegram_update in src/telegram/webhook.py.   *)
(* Updates are numbered from 1 as the server numbers them.                  *)
(***************************************************************************)
EXTENDS Integers, Sequences, FiniteSetsExt

CONSTANTS MaxUpdates, \* bound: updates users send
          BatchSize,  \* updates the server returns at most
          MaxFaults,  \* bound: lost answers and restarts
          Hostile     \* updates whose processing raises

PollingAssumption ==
  /\ MaxUpdates \in Nat /\ MaxFaults \in Nat
  /\ BatchSize \in Nat \ {0}
  /\ Hostile \subseteq 1 .. MaxUpdates

Updates == 1 .. MaxUpdates

VARIABLES
  sent,      \* updates so far
  confirmed, \* updates the server has forgotten: 1 .. confirmed
  offset,    \* the worker's offset, 0 for None
  batch,     \* updates still to be processed, the current one first
  worker,    \* "polling", "processing" or "resting"
  tried,     \* history: how often processing of each update has begun
  finished,  \* history: updates whose processing has returned or raised
  faults

vars == <<sent, confirmed, offset, batch, worker, tried, finished, faults>>

Init ==
  /\ sent = 0 /\ confirmed = 0
  /\ offset = 0 /\ batch = <<>> /\ worker = "polling"
  /\ tried = [u \in Updates |-> 0]
  /\ finished = {} /\ faults = 0

Arrive ==
  /\ sent < MaxUpdates
  /\ sent' = sent + 1
  /\ UNCHANGED <<confirmed, offset, batch, worker, tried, finished, faults>>

-----------------------------------------------------------------------------
\* The server forgets what is below the offset it is asked for.
Forgotten == Max({confirmed, offset - 1})

\* What it returns: the oldest of the rest.
Answer == [i \in 1 .. Min({BatchSize, sent - Forgotten}) |-> Forgotten + i]

\* Mutant: the offset is off by one.
SkipsOne(ups) == Head(ups) + 2

\* Before each update is processed the offset is moved beyond it.
NextOffset(ups) == Head(ups) + 1

Begin(ups) ==
  /\ offset' = NextOffset(ups)
  /\ tried' = [tried EXCEPT ![Head(ups)] = @ + 1]

Poll ==
  /\ worker = "polling" /\ Answer # <<>>
  /\ confirmed' = Forgotten
  /\ batch' = Answer
  /\ worker' = "processing"
  /\ Begin(Answer)
  /\ UNCHANGED <<sent, finished, faults>>

\* The long poll times out at the server without an update.
PollNothing ==
  /\ worker = "polling" /\ Answer = <<>> /\ confirmed # Forgotten
  /\ confirmed' = Forgotten
  /\ UNCHANGED <<sent, offset, batch, worker, tried, finished, faults>>

\* The request or the answer is lost; the server may have seen the request.
PollFails ==
  /\ worker = "polling"
  /\ faults < MaxFaults /\ faults' = faults + 1
  /\ confirmed' \in {confirmed, Forgotten}
  /\ worker' = "resting"
  /\ UNCHANGED <<sent, offset, batch, tried, finished>>

AfterRest == "polling"

Rested ==
  /\ worker = "resting"
  /\ worker' = AfterRest
  /\ UNCHANGED <<sent, confirmed, offset, batch, tried, finished, faults>>

AfterAnswer == "polling"

Advance ==
  /\ batch' = Tail(batch)
  /\ finished' = finished \cup {Head(batch)}
  /\ IF Tail(batch) # <<>>
       THEN Begin(Tail(batch)) /\ UNCHANGED worker
       ELSE worker' = AfterAnswer /\ UNCHANGED <<offset, tried>>
  /\ UNCHANGED <<sent, confirmed, faults>>

\* process_telegram_update returns: answered, unauthorized, or the failure of
\* the orchestrator reported to the user.
Processed ==
  /\ worker = "processing" /\ Head(batch) \notin Hostile
  /\ Advance

\* An exception in the handler is logged, the loop goes on.
GoesOn == Advance

ProcessingRaises ==
  /\ worker = "processing" /\ Head(batch) \in Hostile
  /\ GoesOn

\* The process dies and starts again with no offset.
Restart ==
  /\ faults < MaxFaults /\ faults' = faults + 1
  /\ offset' = 0 /\ batch' = <<>> /\ worker' = "polling"
  /\ UNCHANGED <<sent, confirmed, tried, finished>>

Worker == Poll \/ PollNothing \/ Rested \/ Processed \/ ProcessingRaises
Next   == Arrive \/ Worker \/ PollFails \/ Restart

Spec == Init /\ [][Next]_vars

\* The worker task runs for the life of the process; handlers return.
FairSpec == Spec /\ WF_vars(Worker)

-----------------------------------------------------------------------------
TypeOK ==
  /\ sent \in 0 .. MaxUpdates
  /\ confirmed \in 0 .. sent
  /\ offset \in 0 .. sent + 1
  /\ batch \in Seq(1 .. sent) /\ Len(batch) <= BatchSize
  /\ worker \in {"polling", "processing", "resting"}
  /\ worker = "processing" <=> batch # <<>>
  /\ tried \in [Updates -> 0 .. MaxFaults + 1]
  /\ finished \subseteq {u \in Updates : tried[u] > 0}
  /\ faults \in 0 .. MaxFaults

\* The server forgets an update only after the worker is through with it,
\* wherever answers are lost and the process dies.
ForgottenOnlyIfFinished == 1 .. confirmed \subseteq finished

\* An update is processed again only after a restart, once for each.
RepeatsBoundedByRestarts == \A u \in Updates : tried[u] <= 1 + faults

\* Why: the worker holds a run of consecutive updates ...
BatchIsRun == \A i \in DOMAIN batch : batch[i] = Head(batch) + i - 1

\* ... has finished what comes before the one at hand, or before its offset, ...
NothingSkipped ==
  1 .. ((IF worker = "processing" THEN Head(batch) ELSE offset) - 1) \subseteq finished

\* ... and has, since it was started, begun nothing from its offset on.
OffsetFollows ==
  /\ worker = "processing" => /\ offset = Head(batch) + 1
                              /\ confirmed < Head(batch) /\ tried[Head(batch)] > 0
  /\ \A u \in Updates : u >= offset => tried[u] <= faults

\* The first attempts at the updates come in order.
FirstTriesInOrder ==
  [][\A u \in Updates : tried[u] = 0 /\ tried'[u] > 0 =>
       \A v \in 1 .. (u - 1) : tried[v] > 0]_vars

\* The worker gets through every update, although others raise and answers are
\* lost.
EveryUpdateFinished == \A u \in Updates : sent >= u ~> u \in finished
=============================================================================
