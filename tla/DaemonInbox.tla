----------------------------- MODULE DaemonInbox -----------------------------
(***************************************************************************)
(* The inbox of one agent and the loop of the daemon that serves it:        *)
(* src/daemons/inbox.py, src/daemons/loop.py and the messaging tools of     *)
(* src/mcp/tools/messaging.py.  The inbox is a Redis stream with a consumer *)
(* group; a publish wakes the loop.  Messages are numbered in stream order. *)
(* The manager that starts and stops the loop is DaemonManager.             *)
(***************************************************************************)
EXTENDS Integers, Sequences, FiniteSets, RedisStream

CONSTANTS MaxMessages, \* bound: messages sent
          MaxLen,      \* MAXLEN of XADD
          PerCycle,    \* max_messages_per_cycle, and limit of read_messages
          MaxFaults    \* bound: exceptions, stops and crashes

InboxAssumption ==
  /\ MaxMessages \in Nat /\ MaxFaults \in Nat
  /\ MaxLen \in Nat \ {0} /\ PerCycle \in Nat \ {0}

Messages == 1 .. MaxMessages

VARIABLES
  sent,       \* messages added so far
  stream,     \* entries in the stream
  delivered,  \* last-delivered-id of the group
  pel,        \* delivered, not acknowledged
  publishing, \* senders between XADD and PUBLISH
  wakeups,    \* notifications the subscription has buffered
  loop,       \* where the daemon loop is
  batch,      \* messages of the current cycle that are not acknowledged yet
  inTool,     \* messages a read_messages call holds
  seen,       \* history: messages an execution was given
  inHours,    \* the clock is inside active_hours
  faults

streamVars == <<sent, stream, delivered, pel>>
vars == <<sent, stream, delivered, pel, publishing, wakeups, loop, batch,
          inTool, seen, inHours, faults>>

LoopPc == {"off", "starting", "waiting", "outside", "reading", "executing", "acking"}

Subscribed == loop \notin {"off", "starting"}

Fresh == {i \in stream : i > delivered}

Init ==
  /\ sent = 0 /\ stream = {} /\ delivered = 0 /\ pel = {}
  /\ publishing = 0 /\ wakeups = 0
  /\ loop = "off" /\ batch = <<>> /\ inTool = {} /\ seen = {}
  /\ inHours = TRUE /\ faults = 0

-----------------------------------------------------------------------------
(* Senders: enqueue_message. *)

\* XADD with an approximate MAXLEN: Redis may drop oldest entries beyond it,
\* delivered or not.
Trimmed(S) == {T \in SUBSET S : /\ Cardinality(T) >= Min({MaxLen, Cardinality(S)})
                                /\ \A i \in T, j \in S \ T : j < i}

AddMessage ==
  /\ sent < MaxMessages
  /\ sent' = sent + 1
  /\ stream' \in Trimmed(stream \cup {sent + 1})
  /\ publishing' = publishing + 1
  /\ UNCHANGED <<delivered, pel, wakeups, loop, batch, inTool, seen, inHours, faults>>

\* notify_inbox: a publish without a subscriber is gone.
Notify ==
  /\ publishing > 0
  /\ publishing' = publishing - 1
  /\ wakeups' = IF Subscribed THEN wakeups + 1 ELSE wakeups
  /\ UNCHANGED <<streamVars, loop, batch, inTool, seen, inHours, faults>>

\* The publish raises.
NotifyFails ==
  /\ publishing > 0 /\ faults < MaxFaults
  /\ publishing' = publishing - 1
  /\ faults' = faults + 1
  /\ UNCHANGED <<streamVars, wakeups, loop, batch, inTool, seen, inHours>>

-----------------------------------------------------------------------------
\* Mutant: pending entries are read again.
DeliverablePending == Fresh \cup pel

\* XREADGROUP with ">".
Deliverable == Fresh

\* dequeue_messages
Deliver(b) ==
  /\ delivered' = Max({delivered} \cup ToSet(b))
  /\ pel' = pel \cup ToSet(b)

(* The daemon loop. *)

\* init_inbox_group; entries sent earlier will be delivered, the group starts at 0.
StartLoop ==
  /\ loop = "off"
  /\ loop' = "starting"
  /\ UNCHANGED <<streamVars, publishing, wakeups, batch, inTool, seen, inHours, faults>>

Subscribe ==
  /\ loop = "starting"
  /\ loop' = "waiting"
  /\ wakeups' = 0
  /\ UNCHANGED <<streamVars, publishing, batch, inTool, seen, inHours, faults>>

\* is_in_active_hours is read in the step that wakes the loop.  Outside the
\* window the notification is used up and the loop sleeps a minute.
AfterWaking == IF inHours THEN "reading" ELSE "outside"

WakeByMessage ==
  /\ loop = "waiting" /\ wakeups > 0
  /\ wakeups' = wakeups - 1
  /\ loop' = AfterWaking
  /\ UNCHANGED <<streamVars, publishing, batch, inTool, seen, inHours, faults>>

\* Mutant: the loop has no timeout.
TicksOnMail == wakeups > 0

Ticks == TRUE

\* tick_seconds have passed.
WakeByTick ==
  /\ loop = "waiting" /\ Ticks
  /\ loop' = AfterWaking
  /\ UNCHANGED <<streamVars, publishing, wakeups, batch, inTool, seen, inHours, faults>>

SleepOver ==
  /\ loop = "outside"
  /\ loop' = "waiting"
  /\ UNCHANGED <<streamVars, publishing, wakeups, batch, inTool, seen, inHours, faults>>

\* With an empty inbox the cycle runs on the heartbeat prompt alone.
ReadInbox ==
  /\ loop = "reading"
  /\ batch' \in Oldest(Deliverable, PerCycle)
  /\ Deliver(batch')
  /\ loop' = "executing"
  /\ UNCHANGED <<sent, stream, publishing, wakeups, inTool, seen, inHours, faults>>

\* The execution returns, whatever its status: failed and halted count as well.
ExecutionReturns ==
  /\ loop = "executing"
  /\ seen' = seen \cup ToSet(batch)
  /\ loop' = IF batch = <<>> THEN "waiting" ELSE "acking"
  /\ UNCHANGED <<streamVars, publishing, wakeups, batch, inTool, inHours, faults>>

\* Mutant: acknowledging deletes everything that is pending.
DeletesPending == pel

Deletes == {Head(batch)}

\* ack_message: XACK, then XDEL.
AckMessage ==
  /\ loop = "acking"
  /\ pel' = pel \ {Head(batch)}
  /\ stream' = stream \ Deletes
  /\ batch' = Tail(batch)
  /\ loop' = IF Len(batch) = 1 THEN "waiting" ELSE "acking"
  /\ UNCHANGED <<sent, delivered, publishing, wakeups, inTool, seen, inHours, faults>>

\* The cycle raises: no message of it is acknowledged, or read again.
CycleFails ==
  /\ loop \in {"reading", "executing", "acking"} /\ faults < MaxFaults
  /\ loop' = "waiting" /\ batch' = <<>>
  /\ faults' = faults + 1
  /\ UNCHANGED <<streamVars, publishing, wakeups, inTool, seen, inHours>>

\* Whatever the loop was at is gone with its task.
LoopGone ==
  /\ loop' = "off" /\ batch' = <<>> /\ wakeups' = 0
  /\ UNCHANGED <<streamVars, publishing, inTool, seen, inHours>>

\* The loop raises, its task is cancelled, or it dies with the process.
LoopEnds ==
  /\ loop # "off" /\ faults < MaxFaults
  /\ LoopGone
  /\ faults' = faults + 1

\* Mutant: the event is looked at in the cycle as well.
InOrBetweenCycles == loop \in {"waiting", "executing"}

\* Where the loop looks at its stop event.
BetweenCycles == loop = "waiting"

\* The stop event was set.  The manager sets it, and steps in MCDaemons only.
StopLoop == BetweenCycles /\ LoopGone /\ UNCHANGED faults

-----------------------------------------------------------------------------
(* read_messages: the agent's own tool, in a cycle or in a oneshot execution, *)
(* as the same consumer of the same group.  It never acknowledges.            *)

ToolReads ==
  /\ inTool = {} /\ Fresh # {}
  /\ \E b \in Oldest(Deliverable, PerCycle) : inTool' = ToSet(b) /\ Deliver(b)
  /\ UNCHANGED <<sent, stream, publishing, wakeups, loop, batch, seen, inHours, faults>>

ToolReturns ==
  /\ inTool # {}
  /\ seen' = seen \cup inTool
  /\ inTool' = {}
  /\ UNCHANGED <<streamVars, publishing, wakeups, loop, batch, inHours, faults>>

ToolFails ==
  /\ inTool # {} /\ faults < MaxFaults
  /\ inTool' = {}
  /\ faults' = faults + 1
  /\ UNCHANGED <<streamVars, publishing, wakeups, loop, batch, seen, inHours>>

ClockMoves ==
  /\ inHours' = ~inHours
  /\ UNCHANGED <<streamVars, publishing, wakeups, loop, batch, inTool, seen, faults>>

Cycle == Subscribe \/ SleepOver \/ ReadInbox \/ ExecutionReturns \/ AckMessage
Loop  == StartLoop \/ WakeByMessage \/ WakeByTick \/ Cycle

Around == \/ AddMessage \/ Notify \/ NotifyFails \/ CycleFails
          \/ ToolReads \/ ToolReturns \/ ToolFails \/ ClockMoves

Next == Loop \/ Around \/ LoopEnds

Spec == Init /\ [][Next]_vars

\* The loop runs on (the manager starts it again), tools return; the window is
\* longer than the minute's sleep and than a tick, so that a loop which meets it
\* again and again in its sleep, or waiting, also ends that wait inside it.
FairSpec == /\ Spec
            /\ WF_vars(Loop) /\ WF_vars(ToolReturns)
            /\ WF_vars(ClockMoves)
            /\ SF_vars(SleepOver /\ inHours) /\ SF_vars(WakeByTick /\ inHours)

-----------------------------------------------------------------------------
TypeOK ==
  /\ sent \in 0 .. MaxMessages
  /\ stream \subseteq 1 .. sent /\ delivered \in 0 .. sent /\ pel \subseteq 1 .. delivered
  /\ publishing \in 0 .. sent /\ wakeups \in 0 .. sent
  /\ loop \in LoopPc
  /\ batch \in Seq(1 .. sent) /\ Len(batch) <= PerCycle
  /\ inTool \subseteq 1 .. sent /\ seen \subseteq 1 .. sent
  /\ inHours \in BOOLEAN /\ faults \in 0 .. MaxFaults

\* A message leaves the inbox only after an execution was given it, or because
\* the stream was full.
RemovedOnlyIfSeenOrFull ==
  \A i \in 1 .. sent : i \notin stream =>
    i \in seen \/ sent - i >= MaxLen

\* The daemon and the agent's own read_messages never hold the same message,
\* although they share a consumer name.
NeverHeldTwice == ToSet(batch) \cap inTool = {}

\* Why: what is held was delivered, the loop holds messages in a cycle only, and it
\* acknowledges what an execution was given.
HeldInCycle ==
  /\ ToSet(batch) \cup inTool \cup seen \subseteq 1 .. delivered
  /\ loop \notin {"executing", "acking"} => batch = <<>>
  /\ loop = "acking" => batch # <<>> /\ ToSet(batch) \subseteq seen
  /\ publishing + wakeups <= sent

\* What the stream, the loop, the tool and the executions tell of a message is
\* one story.
Consistent == TypeOK /\ RemovedOnlyIfSeenOrFull /\ NeverHeldTwice /\ HeldInCycle

\* The inbox keeps the promise of a lossy AtMostOnceQueue and no more.
FateOf(i) ==
  IF i > sent                            THEN "none"
  ELSE IF i \in seen                     THEN "done"
  ELSE IF i \in Fresh                    THEN "queued"
  ELSE IF i \in ToSet(batch) \cup inTool THEN "taken"
  ELSE "lost"

Promise == INSTANCE AtMostOnceQueue
             WITH NumItems <- MaxMessages, Lossy <- TRUE,
                  fate <- [i \in Messages |-> FateOf(i)]

ImplementsPromise == Promise!Spec

\* A message in the inbox is eventually delivered (or trimmed), also if its
\* notification was lost: the tick is the fallback.
MailIsRead == \A i \in Messages : i \in Fresh ~> i \notin Fresh

-----------------------------------------------------------------------------
(* What the repository says and the code does not do. *)

\* DOCUMENTATION.md:263, "Inbox messages are durable (Redis streams) - nothing is
\* lost": every message reaches an execution.
NothingIsLost == \A i \in Messages : i \in stream ~> i \in seen
=============================================================================
