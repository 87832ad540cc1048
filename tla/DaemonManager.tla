---------------------------- MODULE DaemonManager ----------------------------
(***************************************************************************)
(* The manager of daemon tasks (src/daemons/manager.py) and the routes that *)
(* publish control events to it (src/api/routes.py).  Each daemon is one    *)
(* asyncio task, _run_with_health_check around run_daemon_loop; a single    *)
(* listener coroutine handles start, stop and restart one after the other.  *)
(***************************************************************************)
EXTENDS Integers, Sequences, FiniteSets

CONSTANTS Daemons,
          MaxEvents, \* bound: control events published and agents created
          MaxFaults  \* bound: crashes of a loop, failed audit inserts and the listener's errors

ManagerAssumption == MaxEvents \in Nat /\ MaxFaults \in Nat

VARIABLES
  defined,   \* daemons whose agent is in the database
  entry,     \* daemons in the dictionary _tasks
  task,      \* the state of each daemon's task
  stopSet,   \* the task's stop event is set
  manager,   \* the manager's own life; "deaf" when its listener has failed
  events,    \* control events the subscription has buffered
  handling,  \* the event the listener is in, or the daemon stop() is at
  published,
  faults

taskVars == <<entry, task, stopSet>>
vars == <<defined, entry, task, stopSet, manager, events, handling, published, faults>>

\* "checking" is the head of the while loop; the last three are tasks that are
\* done().
Alive == {"checking", "running", "crashed", "backoff"}
Done  == {"returned", "raised", "cancelled"}

Kinds == {"start", "stop", "restart"}
Nothing == [kind |-> "none"]
Event(k, d) == [kind |-> k, daemon |-> d]
EventSet == [kind : Kinds, daemon : Daemons]

Init ==
  /\ defined \in SUBSET Daemons /\ entry = {}
  /\ task = [d \in Daemons |-> "none"]
  /\ stopSet = [d \in Daemons |-> FALSE]
  /\ manager = "starting" /\ events = <<>> /\ handling = Nothing
  /\ published = 0 /\ faults = 0

-----------------------------------------------------------------------------
HasEntry(d) == d \in entry

\* _start_daemon does nothing for a name in the dictionary, alive or not.
StartDaemon(d) ==
  IF HasEntry(d) THEN UNCHANGED taskVars
  ELSE /\ entry' = entry \cup {d}
       /\ task' = [task EXCEPT ![d] = "checking"]
       /\ stopSet' = [stopSet EXCEPT ![d] = FALSE]

\* The end of _stop_daemon.
Forget(d) ==
  /\ entry' = entry \ {d}
  /\ task' = [task EXCEPT ![d] = "none"]
  /\ stopSet' = [stopSet EXCEPT ![d] = FALSE]

-----------------------------------------------------------------------------
(* start() and the routes *)

StartUp(d) ==
  /\ manager = "starting" /\ d \in defined \ entry
  /\ StartDaemon(d)
  /\ UNCHANGED <<defined, manager, events, handling, published, faults>>

\* Writing DAEMON_STARTED raises: the start of the process ends here, with the
\* tasks that were created.
StartNotLogged(d) ==
  /\ manager = "starting" /\ d \in defined \ entry
  /\ faults < MaxFaults /\ faults' = faults + 1
  /\ StartDaemon(d)
  /\ manager' = "aborted"
  /\ UNCHANGED <<defined, events, handling, published>>

\* All daemons are started before the listener subscribes.
Listen ==
  /\ manager = "starting" /\ entry = defined
  /\ manager' = "listening"
  /\ UNCHANGED <<defined, taskVars, events, handling, published, faults>>

\* POST /daemons/{name}/...: without a subscriber the event is gone.  Only stop
\* is published for an agent that does not exist.
Publish(k, d) ==
  /\ published < MaxEvents
  /\ d \in defined \/ k = "stop"
  /\ published' = published + 1
  /\ events' = IF manager = "listening" THEN Append(events, Event(k, d)) ELSE events
  /\ UNCHANGED <<defined, taskVars, manager, handling, faults>>

\* The admin's routes, which are served after the start only: POST /agents starts no
\* task, and DELETE /agents/{name} leaves the daemon's task alone.
CreateAgent(d) ==
  /\ manager # "starting" /\ d \notin defined
  /\ published < MaxEvents /\ published' = published + 1
  /\ defined' = defined \cup {d}
  /\ UNCHANGED <<taskVars, manager, events, handling, faults>>

DeleteAgent(d) ==
  /\ manager # "starting" /\ d \in defined
  /\ defined' = defined \ {d}
  /\ UNCHANGED <<taskVars, manager, events, handling, published, faults>>

-----------------------------------------------------------------------------
(* The listener *)

Idle == handling = Nothing

\* Mutant of BeginStop: the name is taken out before the task has ended.
PopsFirst(d) ==
  /\ entry' = entry \ {d}
  /\ stopSet' = [stopSet EXCEPT ![d] = TRUE]
  /\ UNCHANGED task

\* The first half of _stop_daemon.
BeginStop(d) ==
  /\ stopSet' = [stopSet EXCEPT ![d] = TRUE]
  /\ UNCHANGED <<entry, task>>

HandleEvent ==
  /\ manager = "listening" /\ Idle /\ events # <<>>
  /\ events' = Tail(events)
  /\ LET e == Head(events) IN
       IF e.kind = "start" \/ (e.kind = "restart" /\ ~HasEntry(e.daemon))
       THEN /\ IF e.daemon \in defined THEN StartDaemon(e.daemon) ELSE UNCHANGED taskVars
            /\ UNCHANGED handling
       ELSE IF HasEntry(e.daemon)
            THEN BeginStop(e.daemon) /\ handling' = e
            ELSE UNCHANGED <<taskVars, handling>>
  /\ UNCHANGED <<defined, manager, published, faults>>

\* What follows the stop: a restart starts the daemon again.
AfterStop(d) ==
  IF handling.kind = "restart" /\ d \in defined
  THEN /\ entry' = entry
       /\ task' = [task EXCEPT ![d] = "checking"]
       /\ stopSet' = [stopSet EXCEPT ![d] = FALSE]
  ELSE Forget(d)

Stopping(d) == handling # Nothing /\ handling.daemon = d

StopReturns(d) ==
  /\ Stopping(d) /\ task[d] = "returned"
  /\ AfterStop(d)
  /\ handling' = Nothing
  /\ UNCHANGED <<defined, manager, events, published, faults>>

\* Mutant: the task is waited for without a timeout.
NeverTimesOut(d) == FALSE /\ UNCHANGED vars

\* wait_for ran into its 60 seconds: it cancels the task and waits for its end
\* before the name is forgotten.
StopTimesOut(d) ==
  /\ Stopping(d) /\ task[d] \in Alive
  /\ task' = [task EXCEPT ![d] = "cancelled"]
  /\ handling' = [handling EXCEPT !.kind =
                    CASE @ = "stop" -> "forget" [] @ = "restart" -> "replace" [] OTHER -> @]
  /\ UNCHANGED <<defined, entry, stopSet, manager, events, published, faults>>

CancelledEnds(d) ==
  /\ Stopping(d) /\ handling.kind \in {"forget", "replace"} /\ task[d] = "cancelled"
  /\ IF handling.kind = "replace" /\ d \in defined
     THEN /\ task' = [task EXCEPT ![d] = "checking"]
          /\ stopSet' = [stopSet EXCEPT ![d] = FALSE]
          /\ UNCHANGED entry
     ELSE Forget(d)
  /\ handling' = Nothing
  /\ UNCHANGED <<defined, manager, events, published, faults>>

\* The task had ended with an exception: awaiting it raises, the listener logs,
\* and the name stays in the dictionary.
StopRaises(d) ==
  /\ manager = "listening" /\ Stopping(d) /\ task[d] = "raised"
  /\ handling' = Nothing
  /\ UNCHANGED <<defined, taskVars, manager, events, published, faults>>

\* The task has ended and its name is forgotten; writing DAEMON_STOPPED raises.
\* A restart ends there, and so does stop().
StopNotLogged(d) ==
  /\ faults < MaxFaults /\ faults' = faults + 1
  /\ Stopping(d)
  /\ task[d] = "returned" \/ (task[d] = "cancelled" /\ handling.kind # "stop")
  /\ Forget(d)
  /\ handling' = Nothing
  /\ manager' = IF manager = "stopping" THEN "aborted" ELSE manager
  /\ UNCHANGED <<defined, events, published>>

\* The subscription, or get_message() between two events, raises outside the inner
\* try: the listener is over without a word, and later events reach nobody.
ListenerFails ==
  /\ manager = "listening" /\ Idle
  /\ faults < MaxFaults /\ faults' = faults + 1
  /\ manager' = "deaf" /\ events' = <<>>
  /\ UNCHANGED <<defined, taskVars, handling, published>>

Listener == \/ HandleEvent
            \/ \E d \in Daemons : StopReturns(d) \/ StopTimesOut(d) \/ CancelledEnds(d) \/ StopRaises(d)

-----------------------------------------------------------------------------
(* The task: _run_with_health_check. *)

MayRun(d) == ~stopSet[d]

Step(d, from, to) == task[d] = from /\ task' = [task EXCEPT ![d] = to]

RunLoop(d) ==
  /\ Step(d, "checking", IF MayRun(d) THEN "running" ELSE "returned")
  /\ UNCHANGED <<defined, entry, stopSet, manager, events, handling, published, faults>>

\* run_daemon_loop returns once it sees the event.
LoopReturns(d) ==
  /\ stopSet[d] /\ Step(d, "running", "checking")
  /\ UNCHANGED <<defined, entry, stopSet, manager, events, handling, published, faults>>

LoopRaises(d) ==
  /\ faults < MaxFaults /\ faults' = faults + 1
  /\ Step(d, "running", "crashed")
  /\ UNCHANGED <<defined, entry, stopSet, manager, events, handling, published>>

\* DAEMON_CRASHED is written, and the backoff begins.
Backoff(d) ==
  /\ Step(d, "crashed", "backoff")
  /\ UNCHANGED <<defined, entry, stopSet, manager, events, handling, published, faults>>

\* Writing it raises, in the except clause: the task is over.
AuditRaises(d) ==
  /\ faults < MaxFaults /\ faults' = faults + 1
  /\ Step(d, "crashed", "raised")
  /\ UNCHANGED <<defined, entry, stopSet, manager, events, handling, published>>

\* The sleep does not look at the stop event.
BackoffEnds(d) ==
  /\ Step(d, "backoff", "checking")
  /\ UNCHANGED <<defined, entry, stopSet, manager, events, handling, published, faults>>

Task(d) == RunLoop(d) \/ Backoff(d) \/ BackoffEnds(d)

-----------------------------------------------------------------------------
(* stop(), at shutdown *)

\* The listener is cancelled first; if it is waiting for a task, wait_for
\* cancels that task with it.  When it cannot unsubscribe, its error is raised where
\* stop() awaits it, before any daemon is told to stop.
Stop ==
  /\ manager = "listening"
  /\ \/ manager' = "stopping" /\ UNCHANGED faults
     \/ manager' = "aborted" /\ faults < MaxFaults /\ faults' = faults + 1
  /\ events' = <<>>
  /\ handling' = Nothing
  /\ task' = [d \in Daemons |-> IF Stopping(d) /\ task[d] \in Alive THEN "cancelled" ELSE task[d]]
  /\ UNCHANGED <<defined, entry, stopSet, published>>

\* So is the error of a listener that has failed long ago.
StopFindsError ==
  /\ manager = "deaf" /\ manager' = "aborted"
  /\ UNCHANGED <<defined, taskVars, events, handling, published, faults>>

StopNext(d) ==
  /\ manager = "stopping" /\ Idle /\ d \in entry
  /\ BeginStop(d)
  /\ handling' = Event("stop", d)
  /\ UNCHANGED <<defined, manager, events, published, faults>>

\* The exception of the task, or its CancelledError, leaves stop() with the
\* remaining daemons still running.
StopAborts(d) ==
  /\ manager = "stopping" /\ Stopping(d)
  /\ task[d] = "raised" \/ (task[d] = "cancelled" /\ handling.kind = "stop")
  /\ manager' = "aborted"
  /\ handling' = Nothing
  /\ UNCHANGED <<defined, taskVars, events, published, faults>>

StopDone ==
  /\ manager = "stopping" /\ Idle /\ entry = {}
  /\ manager' = "stopped"
  /\ UNCHANGED <<defined, taskVars, events, handling, published, faults>>

Shutdown == StopDone \/ \E d \in Daemons : StopNext(d) \/ StopAborts(d)

\* The coroutine of start(), the listener and stop().
Keeper == Listen \/ Listener \/ Shutdown \/ \E d \in Daemons : StartUp(d)

\* The steps that neither begin nor end a loop by itself.
Managing ==
  \/ Keeper \/ Stop \/ ListenerFails \/ StopFindsError
  \/ \E d \in Daemons : \/ StartNotLogged(d) \/ StopNotLogged(d)
                        \/ CreateAgent(d) \/ DeleteAgent(d) \/ Backoff(d) \/ BackoffEnds(d) \/ AuditRaises(d)
  \/ \E k \in Kinds, d \in Daemons : Publish(k, d)

Next == Managing \/ \E d \in Daemons : RunLoop(d) \/ LoopReturns(d) \/ LoopRaises(d)

Spec == Init /\ [][Next]_vars

\* The coroutines run on; sleeps and the 60 seconds end.  A loop in the middle of
\* an execution may take any time to notice that it was stopped.
FairSpec == /\ Spec
            /\ WF_vars(Keeper) /\ \A d \in Daemons : WF_vars(Task(d))

-----------------------------------------------------------------------------
TypeOK ==
  /\ defined \subseteq Daemons /\ entry \subseteq Daemons
  /\ task \in [Daemons -> {"none"} \cup Alive \cup Done]
  /\ stopSet \in [Daemons -> BOOLEAN]
  /\ \A d \in Daemons : stopSet[d] => d \in entry
  /\ manager \in {"starting", "listening", "deaf", "stopping", "stopped", "aborted"}
  /\ events \in Seq(EventSet)
  /\ handling \in {Nothing} \cup [kind : Kinds \cup {"forget", "replace"}, daemon : Daemons]
  /\ published \in 0 .. MaxEvents /\ faults \in 0 .. MaxFaults

\* The dictionary names the live tasks: no task runs that the manager has
\* forgotten, whatever starts, stops, restarts and timeouts interleave, so a
\* daemon never runs twice.
NoForgottenTask == \A d \in Daemons : task[d] \in Alive => d \in entry

\* The manager drops a task only when it has ended.
ForgetsOnlyEndedTasks ==
  [][\A d \in Daemons : task[d] \in Alive => task'[d] \in Alive \cup Done]_vars

\* As long as nothing crashed, an entry of the dictionary is a live daemon or
\* one being stopped: a start that is ignored was not needed.
EntriesAlive ==
  faults = 0 /\ manager \in {"starting", "listening"} =>
    \A d \in entry : (stopSet[d] \/ task[d] \notin Alive) => Stopping(d)

\* A daemon that was told to stop does not begin another loop.
StoppedNeverRuns ==
  [][\A d \in Daemons :
       stopSet[d] /\ task[d] # "running" /\ stopSet'[d] => task'[d] # "running"]_vars

\* A daemon whose task died of its own error is still listed (manager.py:107), so
\* the status shows it and a restart reaches it.
DeadIsListed == \A d \in Daemons : task[d] = "raised" => d \in entry /\ faults > 0

\* Why: what the listener or stop() waits for is listed until it has ended, and
\* nothing is stopped before the start is over.
HandledIsListed ==
  /\ handling # Nothing => handling.daemon \in entry /\ manager # "starting"
  /\ manager = "starting" => events = <<>>

\* The dictionary and the tasks tell one story, and whatever is stopped stays
\* stopped and is not forgotten before it is.
Consistent ==
  /\ [](TypeOK /\ NoForgottenTask /\ EntriesAlive /\ DeadIsListed /\ HandledIsListed)
  /\ ForgetsOnlyEndedTasks /\ StoppedNeverRuns

\* The listener comes back from every event, however busy the daemon is, and a
\* shutdown from the stop of every daemon, though it may come back by an
\* exception (manager.py:78).
ListenerReturns ==
  /\ ~Idle ~> Idle
  /\ manager = "stopping" ~> manager \in {"stopped", "aborted"}

-----------------------------------------------------------------------------
(* What the repository says and the code does not do. *)

\* DOCUMENTATION.md:261, "If a daemon crashes, the manager auto-restarts it".
CrashedIsRestarted ==
  \A d \in Daemons :
    task[d] = "crashed" ~> task[d] = "running" \/ stopSet[d] \/ manager # "listening"

\* daemons/manager.py:40, "Gracefully stop all daemons."
StopStopsAll == manager = "stopping" ~> \A d \in Daemons : task[d] \notin Alive
=============================================================================
