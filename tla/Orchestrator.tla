---------------------------- MODULE Orchestrator ----------------------------
(***************************************************************************)
(* The routing of signals (src/orchestrator/core.py) to agents, to a        *)
(* daemon's inbox or to the administrator for approval, with the kill       *)
(* switch, the daemon and the approvals it depends on.  Rules and the LLM   *)
(* are free to decide anything.  The pool, the runtime, the inbox, the      *)
(* daemon manager and the approvals have modules of their own; here they    *)
(* are as much as the routing sees of them.                                 *)
(***************************************************************************)
EXTENDS Integers, FiniteSets

CONSTANTS Signals,
          MaxSteps,  \* max_steps of the agents
          MaxPosts,  \* bound: approving POSTs that pass
          MaxKills,  \* bound: activations of the kill switch
          MaxMoves,  \* bound: starts and stops of the daemon
          MaxFaults  \* bound: calls that raise and ends of the process

ASSUME OrchestratorAssumption ==
  MaxSteps \in Nat \ {0} /\ MaxPosts \in Nat /\ MaxKills \in Nat /\ MaxMoves \in Nat /\ MaxFaults \in Nat

VARIABLES
  pc,       \* where the processing of each signal is
  out,      \* the answer: what the caller is told
  target,   \* the agent: an ordinary one, the daemon, one forced by a rule, none
  risky,    \* the rule or the LLM wants an approval
  steps,    \* steps the execution that process() awaits has made
  approval, \* of each signal: the request in the database
  posts,    \* history: approving POSTs that resolved the request
  granted,  \* executions those POSTs have asked of the pool
  looking,  \* of them, those about to look at the kill switch again
  cleared,  \* of them, those that have looked: a step of the agent follows
  handed,   \* history: how often the signal's work was handed to an agent
  inbox,    \* signals in the daemon's inbox
  read,     \* history: signals the daemon took out of it
  daemon,
  killed,   \* the key of the kill switch is set
  before,   \* history: executions that had looked when it was set
  late,     \* history: steps of agents since it was set
  passes, kills, moves, faults

routing == <<pc, out, target, risky, steps>>
posted  == <<granted, looking, cleared>>
halt    == <<killed, before, late>>
bounds  == <<passes, kills, moves, faults>>
vars == <<routing, approval, posts, posted, handed, inbox, read, daemon, halt, bounds>>

\* "executing", "looking": the execution is about to look at the kill switch, for the
\* first time and again; "stepping": it has looked; "answering": the answer is fixed,
\* an audit record is being written.
Pcs == {"new", "received", "asking", "decided", "requesting", "enqueuing", "waking",
        "falling", "executing", "looking", "stepping", "answering", "answered"}
\* The status of an execution: COMPLETED, HALTED (here "stopped"), FAILED.
Statuses == {"completed", "stopped", "failed"}
\* The answers of a signal that was to have no effect.
Refusals == {"halted", "rejected", "direct", "error"}
\* The answers that carry an execution_id.
AgentAnswers == Statuses \cup {"ok"}
Answers == Refusals \cup AgentAnswers \cup {"none", "raised", "awaiting", "routed"}
Targets == {"none", "agent", "daemon", "forced"}

InFlight == {s \in Signals : pc[s] \notin {"new", "answered"}}

\* DaemonManager.is_running: the daemon's task has not ended.
IsRunning == daemon # "down"

Init ==
  /\ pc = [s \in Signals |-> "new"] /\ out = [s \in Signals |-> "none"]
  /\ target = [s \in Signals |-> "none"] /\ risky = [s \in Signals |-> FALSE]
  /\ approval = [s \in Signals |-> "none"]
  /\ steps = [s \in Signals |-> 0] /\ posts = [s \in Signals |-> 0]
  /\ granted = [s \in Signals |-> 0] /\ looking = [s \in Signals |-> 0]
  /\ cleared = [s \in Signals |-> 0] /\ handed = [s \in Signals |-> 0]
  /\ inbox = {} /\ read = {} /\ daemon = "up" /\ killed = FALSE
  /\ before = [s \in Signals |-> 0] /\ late = [s \in Signals |-> 0]
  /\ passes = 0 /\ kills = 0 /\ moves = 0 /\ faults = 0

-----------------------------------------------------------------------------
(* process() *)

Goes(s, from, to) == pc[s] = from /\ pc' = [pc EXCEPT ![s] = to]

\* What only the processing of the signal needs is gone with it.
Forgets(s) ==
  /\ target' = [target EXCEPT ![s] = "none"]
  /\ steps'  = [steps EXCEPT ![s] = 0]

Replies(s, from, answer) ==
  /\ Goes(s, from, "answering")
  /\ out' = [out EXCEPT ![s] = answer]
  /\ Forgets(s) /\ UNCHANGED risky

Chooses(s, from, to, t, r) ==
  /\ Goes(s, from, to)
  /\ target' = [target EXCEPT ![s] = t]
  /\ risky'  = [risky EXCEPT ![s] = r]
  /\ UNCHANGED <<out, steps>>

Moves(s, from, to) == Goes(s, from, to) /\ UNCHANGED <<out, target, risky, steps>>

\* What routing alone leaves as it is.
OnlyRoutes == UNCHANGED <<approval, posts, posted, handed, inbox, read, daemon, halt, bounds>>

Receive(s) ==
  /\ IF killed THEN Replies(s, "new", "halted") ELSE Chooses(s, "new", "received", "none", FALSE)
  /\ OnlyRoutes

\* The rules in force refuse the signal, want an approval for it, force an agent
\* on it, or leave it to the LLM.
ApplyRules(s) ==
  /\ \/ Replies(s, "received", "rejected")
     \/ \E t \in {"agent", "daemon"} : Chooses(s, "received", "requesting", t, TRUE)
     \/ Chooses(s, "received", "executing", "forced", FALSE)
     \/ Chooses(s, "received", "asking", "none", FALSE)
  /\ OnlyRoutes

\* The LLM fails, answers itself, names a tool there is not, or routes.
AskLLM(s) ==
  /\ \/ Replies(s, "asking", "error")
     \/ Replies(s, "asking", "direct")
     \/ \E t \in {"agent", "daemon"}, r \in BOOLEAN : Chooses(s, "asking", "decided", t, r)
  /\ OnlyRoutes

\* Mutant: the risk the LLM sees is not looked at.
RoutesUnapproved(s) ==
  IF target[s] = "daemon" THEN (IF IsRunning THEN "enqueuing" ELSE "falling") ELSE "executing"

\* The way of a signal whose agent is known.
Way(s) ==
  IF risky[s] THEN "requesting"
  ELSE IF target[s] = "agent" THEN "executing"
  ELSE IF IsRunning THEN "enqueuing" ELSE "falling"

Route(s) == Moves(s, "decided", Way(s)) /\ OnlyRoutes

RequestApproval(s) ==
  /\ Replies(s, "requesting", "awaiting")
  /\ approval' = [approval EXCEPT ![s] = "pending"]
  /\ UNCHANGED <<posts, posted, handed, inbox, read, daemon, halt, bounds>>

\* enqueue_message: XADD, then the publication that wakes the daemon.
Enqueue(s) ==
  /\ Moves(s, "enqueuing", "waking")
  /\ inbox' = inbox \cup {s}
  /\ handed' = [handed EXCEPT ![s] = @ + 1]
  /\ UNCHANGED <<approval, posts, posted, read, daemon, halt, bounds>>

\* A message that is too long is not added; the answer is the same.
TooLong(s) == Moves(s, "enqueuing", "waking") /\ OnlyRoutes

\* Mutant: a signal that was enqueued is executed as well.
EnqueuedAndExecuted(s) == Moves(s, "waking", "executing")

AfterEnqueue(s) == Replies(s, "waking", "routed")

Woken(s) == AfterEnqueue(s) /\ OnlyRoutes

\* Mutant: the signal waits until the daemon is back.
WaitsForDaemon(s) == IsRunning /\ Moves(s, "falling", "executing") /\ OnlyRoutes

\* DAEMON_FALLBACK
FallBack(s) == Moves(s, "falling", "executing") /\ OnlyRoutes

Answer(s) == Moves(s, "answering", "answered") /\ OnlyRoutes

\* A call to the database, to Redis or of the agent raises: the caller gets the
\* exception, whatever was done so far.
Raise(s) ==
  /\ s \in InFlight /\ faults < MaxFaults
  /\ faults' = faults + 1
  /\ pc' = [pc EXCEPT ![s] = "answered"]
  /\ out' = [out EXCEPT ![s] = "raised"]
  /\ Forgets(s)
  /\ UNCHANGED <<risky, approval, posts, posted, handed, inbox, read, daemon,
                 halt, passes, kills, moves>>

-----------------------------------------------------------------------------
(* AgentPool.execute and execute_agent, awaited by process() *)

\* One more agent takes the signal's work up.
Hands(s) == handed' = [handed EXCEPT ![s] = @ + 1]

\* A step: the LLM is called, and the tool that it asks for.
Steps(s) == late' = IF killed THEN [late EXCEPT ![s] = @ + 1] ELSE late

\* Mutant: an execution that was halted is answered like one that is through.
HaltCompletes(s, from, status) ==
  Replies(s, from, IF target[s] = "forced" THEN "ok" ELSE "completed")

\* The execution ends.  The answer to a routed signal is its status; the answer to a
\* forced one is ok, whatever has become of it.
Ends(s, from, status) ==
  Replies(s, from, IF target[s] = "forced" THEN "ok" ELSE status)

\* No lock, or a call that raised, or, from the second step on, a lock that was lost.
Fails(s) ==
  /\ \E from \in {"executing", "looking", "stepping"} : Ends(s, from, "failed")
  /\ OnlyRoutes

\* The look at the kill switch before each step.  A first one that finds it clear
\* means that the agent takes up the work.
Look(s) ==
  /\ \E from \in {"executing", "looking"} :
       IF killed
       THEN Ends(s, from, "stopped") /\ UNCHANGED handed
       ELSE /\ Moves(s, from, "stepping")
            /\ IF from = "executing" THEN Hands(s) ELSE UNCHANGED handed
  /\ UNCHANGED <<approval, posts, posted, inbox, read, daemon, halt, bounds>>

\* Mutant: the kill switch is looked at before the first step only.
LooksOnce == "stepping"

\* Where a step that was not the last one leads.
NextStep == "looking"

\* The step, which ends the execution when the LLM answers without a tool call or
\* when it was the last one.
Step(s) ==
  /\ \/ Ends(s, "stepping", "completed")
     \/ /\ steps[s] + 1 < MaxSteps
        /\ Goes(s, "stepping", NextStep)
        /\ steps' = [steps EXCEPT ![s] = @ + 1]
        /\ UNCHANGED <<out, target, risky>>
  /\ Steps(s)
  /\ UNCHANGED <<approval, posts, posted, handed, inbox, read, daemon, killed, before, bounds>>

-----------------------------------------------------------------------------
(* The approval route, which awaits executions of its own *)

\* POST /approvals/{id}.  A POST that read the request while it was pending also
\* resolves it.  The agent is executed even if it is a daemon that runs.
Resolve(s, verdict) ==
  /\ approval[s] # "none"
  /\ approval' = [approval EXCEPT ![s] = verdict]
  /\ IF verdict = "approved"
     THEN /\ passes < MaxPosts /\ passes' = passes + 1
          /\ posts' = [posts EXCEPT ![s] = @ + 1]
          /\ granted' = [granted EXCEPT ![s] = @ + 1]
     ELSE UNCHANGED <<passes, posts, granted>>
  /\ UNCHANGED <<routing, looking, cleared, handed, inbox, read, daemon, halt, kills, moves,
                 faults>>

\* One of its executions looks for the first time and takes up the work, or looks
\* again.
FirstLook(s) ==
  /\ granted[s] > 0 /\ ~killed
  /\ granted' = [granted EXCEPT ![s] = @ - 1]
  /\ cleared' = [cleared EXCEPT ![s] = @ + 1]
  /\ Hands(s) /\ UNCHANGED looking

LookAgain(s) ==
  /\ looking[s] > 0 /\ ~killed
  /\ looking' = [looking EXCEPT ![s] = @ - 1]
  /\ cleared' = [cleared EXCEPT ![s] = @ + 1]
  /\ UNCHANGED <<granted, handed>>

GrantedLooks(s) ==
  /\ FirstLook(s) \/ LookAgain(s)
  /\ UNCHANGED <<routing, approval, posts, inbox, read, daemon, halt, bounds>>

\* It makes the step, and goes on if that was not the last one.
GrantedSteps(s) ==
  /\ cleared[s] > 0
  /\ cleared' = [cleared EXCEPT ![s] = @ - 1]
  /\ \/ looking' = [looking EXCEPT ![s] = @ + 1]
     \/ UNCHANGED looking
  /\ Steps(s)
  /\ UNCHANGED <<routing, approval, posts, granted, handed, inbox, read, daemon, killed,
                 before, bounds>>

\* It ends without a step: halted, failed or by an exception.
GrantedEnds(s) ==
  /\ \/ granted[s] > 0 /\ granted' = [granted EXCEPT ![s] = @ - 1] /\ UNCHANGED <<looking, cleared>>
     \/ looking[s] > 0 /\ looking' = [looking EXCEPT ![s] = @ - 1] /\ UNCHANGED <<granted, cleared>>
     \/ cleared[s] > 0 /\ cleared' = [cleared EXCEPT ![s] = @ - 1] /\ UNCHANGED <<granted, looking>>
  /\ UNCHANGED <<routing, approval, posts, handed, inbox, read, daemon, halt, bounds>>

-----------------------------------------------------------------------------
(* The daemon, its manager and the administrator *)

ReadMail(s) ==
  /\ daemon = "up" /\ s \in inbox
  /\ inbox' = inbox \ {s} /\ read' = read \cup {s}
  /\ UNCHANGED <<routing, approval, posts, posted, handed, daemon, halt, bounds>>

\* Started, told to stop, and ended: at the end of the loop that was under way,
\* or by an exception.
MoveDaemon ==
  /\ moves < MaxMoves /\ moves' = moves + 1
  /\ \/ daemon = "down" /\ daemon' = "up"
     \/ daemon = "up" /\ daemon' \in {"ending", "down"}
  /\ UNCHANGED <<routing, approval, posts, posted, handed, inbox, read, halt, passes, kills, faults>>

DaemonEnds ==
  /\ daemon = "ending" /\ daemon' = "down"
  /\ UNCHANGED <<routing, approval, posts, posted, handed, inbox, read, halt, bounds>>

\* The executions of a signal that have looked and not yet made their step.
Ready(s) == cleared[s] + IF pc[s] = "stepping" THEN 1 ELSE 0

Kill ==
  /\ ~killed /\ kills < MaxKills
  /\ killed' = TRUE /\ kills' = kills + 1
  /\ before' = [s \in Signals |-> Ready(s)]
  /\ UNCHANGED <<routing, approval, posts, posted, handed, inbox, read, daemon, late,
                 passes, moves, faults>>

Resume ==
  /\ killed /\ killed' = FALSE
  /\ before' = [s \in Signals |-> 0] /\ late' = [s \in Signals |-> 0]
  /\ UNCHANGED <<routing, approval, posts, posted, handed, inbox, read, daemon, bounds>>

\* The process dies and is started again, with every daemon: who was waiting for an
\* answer gets none, executions are gone, and what is in Postgres and Redis remains.
Crash ==
  /\ faults < MaxFaults /\ faults' = faults + 1
  /\ pc' = [s \in Signals |-> IF s \in InFlight THEN "answered" ELSE pc[s]]
  /\ out' = [s \in Signals |-> IF s \in InFlight THEN "raised" ELSE out[s]]
  /\ granted' = [s \in Signals |-> 0] /\ looking' = [s \in Signals |-> 0]
  /\ cleared' = [s \in Signals |-> 0] /\ steps' = [s \in Signals |-> 0]
  /\ target' = [s \in Signals |-> "none"] /\ daemon' = "up"
  /\ UNCHANGED <<risky, approval, posts, handed, inbox, read, halt, passes,
                 kills, moves>>

-----------------------------------------------------------------------------
Process(s) == \/ ApplyRules(s) \/ AskLLM(s) \/ Route(s) \/ RequestApproval(s)
              \/ Enqueue(s) \/ TooLong(s) \/ Woken(s) \/ FallBack(s)
              \/ Fails(s) \/ Look(s) \/ Step(s) \/ Answer(s)
Granted(s) == GrantedLooks(s) \/ GrantedSteps(s) \/ GrantedEnds(s)

Next == \/ \E s \in Signals : \/ Receive(s) \/ Process(s) \/ Raise(s) \/ Granted(s) \/ ReadMail(s)
                              \/ \E v \in {"approved", "rejected"} : Resolve(s, v)
        \/ MoveDaemon \/ DaemonEnds \/ Kill \/ Resume \/ Crash

Spec == Init /\ [][Next]_vars

\* What goes on by itself: a step of the agent may hang, since not every tool has a
\* time-out.  Nobody has to send, resolve, start, stop, kill or resume.
GoesOn(s) == pc[s] # "stepping" /\ Process(s)

FairSpec == Spec /\ \A s \in Signals : WF_vars(GoesOn(s))

\* A daemon that is up reads its inbox, and one that was told to stop ends.
MailSpec == FairSpec /\ WF_vars(DaemonEnds) /\ \A s \in Signals : WF_vars(ReadMail(s))

-----------------------------------------------------------------------------
TypeOK ==
  /\ pc \in [Signals -> Pcs] /\ out \in [Signals -> Answers]
  /\ target \in [Signals -> Targets] /\ risky \in [Signals -> BOOLEAN]
  /\ steps \in [Signals -> Nat]
  /\ approval \in [Signals -> {"none", "pending", "approved", "rejected"}]
  /\ posts \in [Signals -> Nat]
  /\ granted \in [Signals -> Nat] /\ looking \in [Signals -> Nat]
  /\ cleared \in [Signals -> Nat] /\ handed \in [Signals -> Nat]
  /\ inbox \subseteq Signals /\ read \subseteq Signals
  /\ daemon \in {"up", "ending", "down"} /\ killed \in BOOLEAN
  /\ before \in [Signals -> Nat] /\ late \in [Signals -> Nat]
  /\ passes \in Nat /\ kills \in Nat /\ moves \in Nat /\ faults \in Nat

\* However signals, approvals, the daemon and the kill switch interleave and
\* whatever raises, the work of a signal is handed to an agent at most once for
\* the signal itself or once per approving POST, never for both.
HandedOnce ==
  \A s \in Signals : handed[s] <= IF risky[s] THEN posts[s] ELSE 1

\* No agent has the signal, and none will get it.
Untaken(s) == handed[s] = 0 /\ approval[s] = "none" /\ granted[s] = 0

\* The execution process() awaited was the only one, and it is over.
Over(s) ==
  /\ approval[s] = "none" /\ granted[s] + looking[s] + cleared[s] = 0
  /\ s \notin inbox \cup read

\* What a caller can rely on, whatever happens after the answer.  Refused, or
\* answered without an agent: no agent has worked or will work on the signal, and no
\* approval was asked.  Awaiting: there is one.  Routed: no execution was started.
\* An answer with an execution_id: nothing goes on behind it, be the execution
\* completed, halted or failed; that it has begun at all is said by "completed"
\* alone.
AnswerTellsFate ==
  \A s \in Signals : pc[s] = "answered" =>
    /\ out[s] \in Refusals => Untaken(s)
    /\ out[s] = "awaiting" => approval[s] # "none"
    /\ out[s] = "routed" => approval[s] = "none" /\ granted[s] + looking[s] + cleared[s] = 0
    /\ out[s] \in AgentAnswers => Over(s)
    /\ out[s] = "completed" => handed[s] = 1

\* The signals whose work nobody may have begun.
Early == {"new", "received", "asking", "decided", "requesting", "enqueuing", "falling",
          "executing"}
Executes == {"looking", "stepping"}

\* The invariant that is inductive: every grant and every work of a risky signal
\* is paid for by a POST, other signals have no request, and before the answer is
\* fixed only the states after the routing can have handed the work on.
Accounted(s) ==
  /\ risky[s] => /\ handed[s] + granted[s] <= posts[s]
                 /\ pc[s] \in {"decided", "requesting", "answering", "answered"}
                 /\ out[s] \in {"none", "awaiting", "raised"}
  /\ ~risky[s] => approval[s] = "none" /\ posts[s] = 0 /\ handed[s] <= 1
  /\ approval[s] = "none" => /\ posts[s] = 0 /\ granted[s] + looking[s] + cleared[s] = 0
                             /\ out[s] # "awaiting"
  /\ pc[s] \in Early => handed[s] = 0 /\ approval[s] = "none"
  /\ pc[s] \notin {"answering", "answered"} => out[s] = "none"
  /\ out[s] \in Refusals => handed[s] = 0 /\ ~risky[s]
  /\ out[s] = "completed" => handed[s] = 1
  /\ s \in inbox \cup read => /\ pc[s] \in {"waking", "answering", "answered"}
                              /\ out[s] \in {"none", "routed", "raised"} /\ ~risky[s]
  /\ pc[s] = "requesting" => risky[s]
  /\ pc[s] = "waking" => out[s] = "none" /\ ~risky[s]
  /\ pc[s] \in Executes => handed[s] = 1

\* A step that is made in a halt takes one of the executions that had looked.
HaltAccounted(s) == IF killed THEN late[s] + Ready(s) <= before[s] ELSE late[s] = 0

IInv == TypeOK /\ \A s \in Signals : Accounted(s) /\ HaltAccounted(s)

\* What a halt lets through: while the system is halted, the agents of a signal make
\* at most one step each, and only those that had looked at the kill switch when it was
\* set; an execution between two steps, one that waits for the pool, a signal let in
\* before and an approval given meanwhile make none.
HaltBoundsWork == \A s \in Signals : late[s] <= before[s]

\* Every signal that was received is answered, in whatever state the daemon, the
\* approvals and the kill switch are, unless its agent is in a step that never ends.
EverySignalAnswered == InFlight # {} ~> \A s \in InFlight : pc[s] = "stepping"

-----------------------------------------------------------------------------
(* What the repository says and the code does not do. *)

\* core.py:330, "no dead letters"
NoDeadLetters == \A s \in Signals : s \in inbox ~> s \in read

\* core.py:325, "Message delivered to daemon ... inbox."
DeliveredIsInInbox ==
  \A s \in Signals : pc[s] = "answered" /\ out[s] = "routed" => s \in inbox \cup read
=============================================================================
