------------------------------ MODULE Approvals ------------------------------
(***************************************************************************)
(* The life of an approval: the row in Postgres, its copy in Redis that     *)
(* carries the TTL, the coroutine that asked for it, and the HTTP requests  *)
(* that answer it (src/guardrails/approvals.py, the approval routes and the *)
(* interception path of the tool registry).                                 *)
(*                                                                          *)
(* ToolCalls are approvals asked for by an intercepted tool call: their     *)
(* owner polls the row and runs the tool.  Routings are asked for by the    *)
(* orchestrator: their owner returns "awaiting_approval" at once, and the   *)
(* agent is meant to be started by the request that approves.               *)
(*                                                                          *)
(* One step is the code between two awaits that matter to somebody else;    *)
(* logging, audit rows and notifications are left out, except that they may *)
(* fail (CreateFails, RequestFails).                                        *)
(***************************************************************************)
EXTENDS Integers, Sequences, FiniteSets

CONSTANTS ToolCalls,   \* approvals of intercepted tool calls
          Routings,    \* approvals of routing decisions
          Requests,    \* concurrent POST /approvals/{id} requests
          NoApproval,  \* the target of a request that is not being served
          Ttl,         \* settings.approval_ttl_seconds
          PollInterval \* seconds between two reads of the row by the owner

Approvals == ToolCalls \cup Routings

ASSUME KindsAssumption == ToolCalls \cap Routings = {}
ASSUME RequestsAssumption == IsFiniteSet(Requests) /\ NoApproval \notin Approvals
ASSUME TimesAssumption == Ttl \in Nat \ {0} /\ PollInterval \in Nat \ {0}

Verdicts == {"approved", "rejected"}
RowStatus == {"absent", "pending", "expired"} \cup Verdicts

VARIABLES
  status,    \* ApprovalRecord.status in Postgres
  ttl,       \* remaining life of the Redis copy, 0 when there is none
  owner,     \* where the coroutine that created the approval is
  elapsed,   \* its local variable of the same name
  nap,       \* what is left of its asyncio.sleep
  request,   \* each HTTP request: where it is, on which approval, with which answer
  verdicts,  \* history: the answers ever committed to the row
  started    \* history: the agents started by approving requests

ownerVars == <<owner, elapsed, nap>>
vars == <<status, ttl, owner, elapsed, nap, request, verdicts, started>>

OwnerPc   == {"new", "inserted", "cached", "polling", "sleeping", "granted",
              "ran", "blocked", "gaveup", "returned", "dead"}
RequestPc == {"idle", "hit", "miss", "stale", "committed", "answered"}
RequestState == [pc : RequestPc, on : Approvals \cup {NoApproval}, decision : Verdicts]

Idle == [pc |-> "idle", on |-> NoApproval, decision |-> "rejected"]

Waiting(a) == owner[a] \in {"polling", "sleeping"}

\* The request has read the Redis copy of a and will commit its decision.
Holds(r, a) == request[r].pc = "hit" /\ request[r].on = a

\* wait_for_resolution is called with the TTL of the approval.
WaitTimeout == Ttl

\* resolve_approval builds its result from the Redis copy, which has no
\* blast_radius: the routing context stored in the row is not in it, and
\* decide_approval falls back to its default agent.
RequestedAgent == "requested_agent"
DefaultAgent   == "take_action"
RecoveredAgent(a) == DefaultAgent

-----------------------------------------------------------------------------
Init ==
  /\ status   = [a \in Approvals |-> "absent"]
  /\ ttl      = [a \in Approvals |-> 0]
  /\ owner    = [a \in Approvals |-> "new"]
  /\ elapsed  = [a \in Approvals |-> 0]
  /\ nap      = [a \in Approvals |-> 0]
  /\ request  = [r \in Requests |-> Idle]
  /\ verdicts = [a \in Approvals |-> {}]
  /\ started  = [a \in Approvals |-> <<>>]

-----------------------------------------------------------------------------
(* The owner: create_approval_request, then wait_for_resolution. *)

InsertRow(a) ==
  /\ owner[a] = "new"
  /\ owner'  = [owner EXCEPT ![a] = "inserted"]
  /\ status' = [status EXCEPT ![a] = "pending"]
  /\ UNCHANGED <<ttl, elapsed, nap, request, verdicts, started>>

CacheCopy(a) ==
  /\ owner[a] = "inserted"
  /\ owner' = [owner EXCEPT ![a] = "cached"]
  /\ ttl'   = [ttl EXCEPT ![a] = Ttl]
  /\ UNCHANGED <<status, elapsed, nap, request, verdicts, started>>

\* Redis or the audit insert raises: the caller gets an exception and the row
\* stays behind.
CreateFails(a) ==
  /\ owner[a] \in {"inserted", "cached"}
  /\ owner' = [owner EXCEPT ![a] = "dead"]
  /\ UNCHANGED <<status, ttl, elapsed, nap, request, verdicts, started>>

Created(a) ==
  /\ owner[a] = "cached"
  /\ owner' = [owner EXCEPT ![a] = IF a \in ToolCalls THEN "polling" ELSE "returned"]
  /\ UNCHANGED <<status, ttl, elapsed, nap, request, verdicts, started>>

\* Mutants of the next definition.
AfterReadIgnoresRejection(s) == IF s = "pending" THEN "sleeping" ELSE "granted"
AfterReadIgnoresApproval(s)  == IF s = "expired" THEN "blocked" ELSE "sleeping"

\* What one read of the row makes of the wait.
AfterRead(s) == CASE s = "approved"                -> "granted"
                  [] s \in {"rejected", "expired"} -> "blocked"
                  [] OTHER                         -> "sleeping"

PollRow(a) ==
  /\ owner[a] = "polling"
  /\ elapsed[a] < WaitTimeout
  /\ owner' = [owner EXCEPT ![a] = AfterRead(status[a])]
  /\ nap'   = [nap EXCEPT ![a] = IF owner'[a] = "sleeping" THEN PollInterval ELSE @]
  /\ UNCHANGED <<status, ttl, elapsed, request, verdicts, started>>

\* Mutant: the sleep is cut short.
RestedEarly(a) == TRUE

\* asyncio.sleep returns no earlier than asked, possibly later.
Rested(a) == nap[a] = 0

Wake(a) ==
  /\ owner[a] = "sleeping"
  /\ Rested(a)
  /\ owner'   = [owner EXCEPT ![a] = "polling"]
  /\ elapsed' = [elapsed EXCEPT ![a] = @ + PollInterval]
  /\ UNCHANGED <<status, ttl, nap, request, verdicts, started>>

GiveUp(a) ==
  /\ owner[a] = "polling"
  /\ elapsed[a] >= WaitTimeout
  /\ owner' = [owner EXCEPT ![a] = "gaveup"]
  /\ UNCHANGED <<status, ttl, elapsed, nap, request, verdicts, started>>

\* _handle_intercepted, after the wait returned True.
RunTool(a) ==
  /\ owner[a] = "granted"
  /\ owner' = [owner EXCEPT ![a] = "ran"]
  /\ UNCHANGED <<status, ttl, elapsed, nap, request, verdicts, started>>

Owner(a) == \/ InsertRow(a) \/ CacheCopy(a) \/ Created(a)
            \/ PollRow(a) \/ Wake(a) \/ GiveUp(a) \/ RunTool(a)

-----------------------------------------------------------------------------
(* The request: decide_approval, which calls resolve_approval. *)

\* Mutant of Lookup: it trusts the row in Postgres instead of the Redis copy.
LookupInRow(r, a, d) ==
  /\ request[r].pc = "idle"
  /\ request' = [request EXCEPT ![r] =
                   [pc |-> IF status[a] = "pending" THEN "hit" ELSE "miss", on |-> a, decision |-> d]]
  /\ UNCHANGED <<status, ttl, ownerVars, verdicts, started>>

Lookup(r, a, d) ==
  /\ request[r].pc = "idle"
  /\ request' = [request EXCEPT ![r] =
                   [pc |-> IF ttl[a] > 0 THEN "hit" ELSE "miss", on |-> a, decision |-> d]]
  /\ UNCHANGED <<status, ttl, ownerVars, verdicts, started>>

\* The row takes the decision whatever its status was.
CommitVerdict(r) ==
  /\ request[r].pc = "hit"
  /\ request'  = [request EXCEPT ![r].pc = "committed"]
  /\ status'   = [status EXCEPT ![request[r].on] = request[r].decision]
  /\ verdicts' = [verdicts EXCEPT ![request[r].on] = @ \cup {request[r].decision}]
  /\ UNCHANGED <<ttl, ownerVars, started>>

\* Mutant: the copy is left in Redis.
KeepingCopy(a) == ttl

WithoutCopy(a) == [ttl EXCEPT ![a] = 0]

DropCopy(r) ==
  /\ request[r].pc = "committed"
  /\ request' = [request EXCEPT ![r].pc = "answered"]
  /\ ttl'     = WithoutCopy(request[r].on)
  /\ UNCHANGED <<status, ownerVars, verdicts, started>>

\* decide_approval: an approving request starts an agent, for either kind of
\* approval; a rejecting one only reports.
Respond(r) ==
  /\ request[r].pc = "answered"
  /\ request' = [request EXCEPT ![r] = Idle]
  /\ started' = IF request[r].decision = "approved"
                THEN [started EXCEPT ![request[r].on] = Append(@, RecoveredAgent(request[r].on))]
                ELSE started
  /\ UNCHANGED <<status, ttl, ownerVars, verdicts>>

\* The copy is gone: the row is read, and marked expired if it was pending.
ReadRow(r) ==
  /\ request[r].pc = "miss"
  /\ request' = [request EXCEPT ![r] = IF status[request[r].on] = "pending"
                                       THEN [@ EXCEPT !.pc = "stale"] ELSE Idle]
  /\ UNCHANGED <<status, ttl, ownerVars, verdicts, started>>

CommitExpired(r) ==
  /\ request[r].pc = "stale"
  /\ request' = [request EXCEPT ![r] = Idle]
  /\ status'  = [status EXCEPT ![request[r].on] = "expired"]
  /\ UNCHANGED <<ttl, ownerVars, verdicts, started>>

\* Postgres or Redis raises in the middle of a request.
RequestFails(r) ==
  /\ request[r].pc # "idle"
  /\ request' = [request EXCEPT ![r] = Idle]
  /\ UNCHANGED <<status, ttl, ownerVars, verdicts, started>>

Request(r) == \/ CommitVerdict(r) \/ DropCopy(r) \/ Respond(r)
              \/ ReadRow(r) \/ CommitExpired(r)

-----------------------------------------------------------------------------
(* The environment: time, Redis under memory pressure, the process. *)

Less(n) == IF n > 0 THEN n - 1 ELSE 0

Tick ==
  /\ \E a \in Approvals : ttl[a] > 0 \/ nap[a] > 0
  /\ ttl' = [a \in Approvals |-> Less(ttl[a])]
  /\ nap' = [a \in Approvals |-> Less(nap[a])]
  /\ UNCHANGED <<status, owner, elapsed, request, verdicts, started>>

\* maxmemory-policy allkeys-lru may drop any key.
Evict(a) ==
  /\ ttl[a] > 0
  /\ ttl' = WithoutCopy(a)
  /\ UNCHANGED <<status, ownerVars, request, verdicts, started>>

\* The process dies: its coroutines are gone, Postgres and Redis remain.
Crash ==
  /\ owner'   = [a \in Approvals |->
                   IF owner[a] \in {"inserted", "cached", "polling", "sleeping", "granted"}
                   THEN "dead" ELSE owner[a]]
  /\ request' = [r \in Requests |-> Idle]
  /\ UNCHANGED <<status, ttl, elapsed, nap, verdicts, started>>

-----------------------------------------------------------------------------
Next ==
  \/ \E a \in Approvals : Owner(a) \/ CreateFails(a) \/ Evict(a)
  \/ \E r \in Requests : Request(r) \/ RequestFails(r)
  \/ \E r \in Requests, a \in Approvals, d \in Verdicts : Lookup(r, a, d)
  \/ Tick
  \/ Crash

Spec == Init /\ [][Next]_vars

\* The event loop keeps running every coroutine it has, and time passes.
\* Administrators, failures and evictions are never owed.
Fairness == /\ \A a \in Approvals : WF_vars(Owner(a))
            /\ \A r \in Requests : WF_vars(Request(r))
            /\ WF_vars(Tick)

FairSpec == Spec /\ Fairness
-----------------------------------------------------------------------------
(* What must hold. *)

TypeOK ==
  /\ status   \in [Approvals -> RowStatus]
  /\ ttl      \in [Approvals -> 0 .. Ttl]
  /\ owner    \in [Approvals -> OwnerPc]
  /\ elapsed  \in [Approvals -> 0 .. (Ttl + PollInterval)]
  /\ nap      \in [Approvals -> 0 .. PollInterval]
  /\ request  \in [Requests -> RequestState]
  /\ verdicts \in [Approvals -> SUBSET Verdicts]
  /\ started  \in [Approvals -> Seq({RequestedAgent, DefaultAgent})]

\* An intercepted tool runs only if some administrator's approval of that very
\* call was committed, whatever requests, failures and restarts interleave.
ToolRunsOnlyIfApproved ==
  \A a \in Approvals : owner[a] \in {"granted", "ran"} => "approved" \in verdicts[a]

\* A wait that gives up does so with the Redis copy gone: it counts only its
\* sleeps, so its timeout is reached after the copy, written before the wait
\* began, has run out.
GivesUpAfterCopy ==
  \A a \in Approvals : owner[a] = "gaveup" => ttl[a] = 0

\* Answers can still be accepted after the owner gave up, but only those that
\* were under way: the requests that have read the copy become fewer and fewer,
\* and the row changes to the decision of one of them or to "expired".  No
\* request that begins after the give-up is told that it approved or rejected.
LateAnswersWereUnderWay ==
  [][\A a \in Approvals : owner[a] = "gaveup" =>
       /\ \A r \in Requests : Holds(r, a)' => Holds(r, a)
       /\ \/ status'[a] \in {status[a], "expired"}
          \/ \E r \in Requests : /\ Holds(r, a) /\ ~Holds(r, a)'
                                 /\ status'[a] = request[r].decision]_vars

\* One approval starts at most one agent per administrator request that can be
\* in flight at once: deleting the copy stops every later request.  (With one
\* request at a time this is "at most once".)
RunsBoundedByRequests ==
  \A a \in Approvals : Len(started[a]) <= Cardinality(Requests)

\* The requests that have read the Redis copy of a and may still start an agent.
Serving(a) ==
  {r \in Requests : request[r].pc \in {"hit", "committed", "answered"} /\ request[r].on = a}

\* Why: the agents started and those that may still be are counted by the
\* requests, and none joins them once the copy is deleted, which is before the
\* first agent is started.  "allowed" holds every request that is ever made.
RunsCounted(allowed) ==
  \A a \in Approvals :
    /\ Serving(a) # {} \/ started[a] # <<>> => owner[a] \notin {"new", "inserted"}
    /\ started[a] # <<>> => ttl[a] = 0
    /\ \A r \in Serving(a) : request[r].pc = "answered" => ttl[a] = 0
    /\ Len(started[a]) + Cardinality(Serving(a)) <= Cardinality(allowed)

\* The copy is gone and no request has read it before.
Lapsed(a) ==
  /\ owner[a] \notin {"new", "inserted"}
  /\ ttl[a] = 0
  /\ \A r \in Requests : ~Holds(r, a)

\* A lapsed approval stays lapsed, and no decision reaches its row any more: a
\* late click changes nothing but pending to expired.
NoVerdictAfterLapse ==
  [][\A a \in Approvals :
       Lapsed(a) => Lapsed(a)' /\ status'[a] \in {status[a], "expired"}]_vars

\* Why the previous invariants hold.  A request being served has a target; the
\* row says "approved" only after an approval was committed; and the life left
\* in the copy plus the time the owner has surely waited never exceeds the TTL.
ServedRequestHasTarget ==
  \A r \in Requests : request[r].pc # "idle" => request[r].on \in Approvals

ApprovedRowWasApproved ==
  \A a \in Approvals : status[a] = "approved" => "approved" \in verdicts[a]

CopyOutlivedByWait ==
  \A a \in Approvals :
    /\ owner[a] \in {"new", "inserted"} => ttl[a] = 0
    /\ owner[a] \in {"new", "inserted", "cached"} => elapsed[a] = 0
    /\ owner[a] = "sleeping" => elapsed[a] < WaitTimeout
    /\ owner[a] = "polling" /\ ttl[a] > 0 => ttl[a] + elapsed[a] <= Ttl
    /\ owner[a] = "sleeping" /\ ttl[a] > 0
         => ttl[a] + elapsed[a] + (PollInterval - nap[a]) <= Ttl

\* The inductive invariant, checked by TLC and proved in ApprovalsProofs.
IInv == /\ TypeOK
        /\ ServedRequestHasTarget
        /\ ApprovedRowWasApproved
        /\ CopyOutlivedByWait
        /\ ToolRunsOnlyIfApproved
        /\ GivesUpAfterCopy

\* The wait always ends, by an answer or by its timeout.
WaiterReturns ==
  \A a \in ToolCalls : Waiting(a) ~> owner[a] \in {"ran", "blocked", "gaveup", "dead"}

\* The owner will read the row once more before its timeout.
ReadsAgain(a) == \/ owner[a] = "polling" /\ elapsed[a] < Ttl
                 \/ owner[a] = "sleeping" /\ elapsed[a] + PollInterval < Ttl

\* An approval that arrives while a read of the row is still to come makes the
\* tool run, unless a second answer replaces it or the process dies.
AnswerReachesWaiter ==
  \A a \in ToolCalls : status[a] = "approved" /\ ReadsAgain(a)
                          ~> status[a] # "approved" \/ owner[a] \in {"ran", "dead"}

\* The wait ends, and with the tool if it was approved in time.
WaitEnds == WaiterReturns /\ AnswerReachesWaiter

-----------------------------------------------------------------------------
(* What the repository says and the code does not do. *)

\* guardrails/approvals.py:92, "Resolve a pending approval": a row that is
\* resolved is not resolved again.
ResolvesPendingOnly ==
  [][\A a \in Approvals : status'[a] # status[a] => status[a] \in {"absent", "pending"}]_vars

\* api/routes.py:94, "Recover original routing context stored at approval time":
\* an approved routing starts the agent that was asked for.
StartsRequestedAgent ==
  \A a \in Routings : \A i \in DOMAIN started[a] : started[a][i] = RequestedAgent

\* guardrails/approvals.py:195, "Returns True if approved": the wait does not
\* return False on a row that says approved.
NeverGivesUpOnApproved ==
  [][\A a \in ToolCalls : owner[a] # "gaveup" /\ owner'[a] = "gaveup"
                             => status[a] # "approved"]_vars

\* README.md:277, "Auto-reject pending approvals after": a row whose time is over
\* does not stay pending.
PendingLapses ==
  \A a \in Approvals : status[a] = "pending" /\ owner[a] \in {"returned", "gaveup"} /\ ttl[a] = 0
                          ~> status[a] # "pending"
=============================================================================
