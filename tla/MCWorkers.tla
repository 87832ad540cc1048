------------------------------ MODULE MCWorkers ------------------------------
(***************************************************************************)
(* The background tasks of src/main.py for model checking: the scheduler,   *)
(* the Telegram polling, the security auditor and the reindexing of the     *)
(* runbooks with its chunker.  Each is one asyncio task, catches what its   *)
(* iteration raises, sleeps and goes on, and shares no state with the       *)
(* others.  scope is chosen at the start and says which of them takes the   *)
(* steps; the others rest, and one run covers the sum of the state spaces.  *)
(***************************************************************************)
EXTENDS Integers, Sequences, FiniteSets

CONSTANTS Jobs, Poison, Period, MaxTime, MaxCreates, JobFaults, MaxCounted,
          MaxUpdates, BatchSize, PollFaults, Hostile,
          Agents, Interval, Hour, Limit, FreqT, ErrorT, MaxLog, LogTime, LogFaults,
          Files, Contents, Empty, MissingFile, Unreadable, MaxEdits, IndexFaults,
          MaxTokens, OverlapTokens, Lengths, MaxParagraphs,
          Scopes \* the components this run is about

VARIABLES
  scope,
  now, row, created, worker, due, job, runs, jobFaults,
  sent, confirmed, offset, batch, poller, tried, finished, pollFaults,
  logNow, log, next, saved, logFaults,
  disk, index, draft, pc, todo, cur, seen, edits, indexFaults,
  text, taken, first, tokens, chunks, over

cronVars    == <<now, row, created, worker, due, job, runs, jobFaults>>
pollVars    == <<sent, confirmed, offset, batch, poller, tried, finished, pollFaults>>
auditVars   == <<logNow, log, next, saved, logFaults>>
indexVars   == <<disk, index, draft, pc, todo, cur, seen, edits, indexFaults>>
chunkerVars == <<text, taken, first, tokens, chunks, over>>
vars == <<scope, cronVars, pollVars, auditVars, indexVars, chunkerVars>>

Cron    == INSTANCE Scheduler WITH faults <- jobFaults, MaxFaults <- JobFaults
Polling == INSTANCE TelegramPolling WITH worker <- poller, faults <- pollFaults,
                                         MaxFaults <- PollFaults
Auditor == INSTANCE SecurityAuditor WITH now <- logNow, faults <- logFaults,
                                         MaxTime <- LogTime, MaxFaults <- LogFaults
Index   == INSTANCE RunbookIndex WITH Absent <- MissingFile, faults <- indexFaults, MaxFaults <- IndexFaults
Chunks  == INSTANCE Chunker

ASSUME WorkersAssumption ==
  /\ Cron!SchedulerAssumption /\ Polling!PollingAssumption
  /\ Auditor!AuditorAssumption /\ Index!IndexAssumption /\ Chunks!ChunkerAssumption

\* A resting component has one state: the chunker an arbitrary shortest text.
Init == /\ scope \in Scopes
        /\ Chunks!Init /\ (scope # "chunker" => text \in [1 .. 1 -> {CHOOSE n \in Lengths : TRUE}])
        /\ Cron!Init /\ Polling!Init /\ Auditor!Init
        /\ Index!Init /\ (scope # "index" => \A f \in Files : disk[f] = MissingFile)

Next ==
  /\ UNCHANGED scope
  /\ \/ scope = "cron" /\ Cron!Next /\ UNCHANGED <<pollVars, auditVars, indexVars, chunkerVars>>
     \/ scope = "polling" /\ Polling!Next /\ UNCHANGED <<cronVars, auditVars, indexVars, chunkerVars>>
     \/ scope = "auditor" /\ Auditor!Next /\ UNCHANGED <<cronVars, pollVars, indexVars, chunkerVars>>
     \/ scope = "index" /\ Index!Next /\ UNCHANGED <<cronVars, pollVars, auditVars, chunkerVars>>
     \/ scope = "chunker" /\ Chunks!Next /\ UNCHANGED <<cronVars, pollVars, auditVars, indexVars>>

Spec == Init /\ [][Next]_vars

\* The fairness of each worker, owed by the one that is in scope.
FairSpec == /\ Spec
            /\ WF_cronVars(scope = "cron" /\ Cron!Worker)
            /\ WF_pollVars(scope = "polling" /\ Polling!Worker)
            /\ WF_indexVars(scope = "index" /\ Index!Pass)

-----------------------------------------------------------------------------
(* The properties of the components, stated and explained part by part in     *)
(* their modules; an invariant speaks about the component in scope.           *)

\* A slot of a job runs once, and once more per fault, and the row never offers
\* a slot again that was run.
SlotsAccounted ==
  scope = "cron" => /\ Cron!TypeOK
                    /\ Cron!HeldIsNamed /\ Cron!HeldIsDue /\ Cron!RunsAreMarked
                    /\ Cron!OncePerSlot
                    /\ Cron!MovesPastRunSlot

\* No Telegram update is forgotten before the worker is through with it, none
\* is repeated more than once per restart, and first attempts come in order.
UpdatesAccounted ==
  /\ [](scope = "polling" => /\ Polling!TypeOK
                             /\ Polling!BatchIsRun /\ Polling!NothingSkipped /\ Polling!OffsetFollows
                             /\ Polling!ForgottenOnlyIfFinished
                             /\ Polling!RepeatsBoundedByRestarts)
  /\ Polling!FirstTriesInOrder

\* What is to be reported is reported while it is in the hour, by the audit that
\* follows a burst, and every report has its cause in the log.
ReportsAccounted ==
  /\ [](scope = "auditor" => /\ Auditor!TypeOK
                             /\ Auditor!WakesInTime /\ Auditor!ReportedOrDue
                             /\ Auditor!ReportedWithinTheHour
                             /\ Auditor!ReportsHaveCause)
  /\ Auditor!BurstReported

\* A pass commits what it has seen, the chunks of a file are always those of one of
\* its contents, and the chunker that makes them loses no paragraph, carries as much
\* overlap as it may and ends no chunk early.
IndexFaithful ==
  /\ [](scope = "index" => Index!TypeOK /\ Index!WholeContents /\ Index!DraftIsCurrent)
  /\ Index!CommitsWhatItSaw
  /\ [](scope = "chunker" => /\ Chunks!TypeOK
                             /\ Chunks!NothingLost
                             /\ Chunks!OverlapFilled
                             /\ Chunks!ChunksFilled)

\* A due job is run or taken off, whatever the others do; the worker gets through
\* every update; the index catches up with the directory.
WorkersProgress ==
  /\ Cron!DueJobHandled
  /\ Polling!EveryUpdateFinished
  /\ Index!IndexCatchesUp
=============================================================================
