----------------------------- MODULE Delegation -----------------------------
(***************************************************************************)
(* Agents that delegate to agents: delegate_to_agent() of                   *)
(* src/mcp/tools/delegate.py with _check_peer_allowed() of                  *)
(* src/mcp/tools/messaging.py.  An execution of a sub-agent is nested in    *)
(* the tool call that asked for it, in the same asyncio task; its depth is  *)
(* a context variable of that task, set before and reset after.  A worker   *)
(* runs one execution after the other in one task (main.py:154), so what a  *)
(* failure leaves behind is found by the next.                              *)
(*                                                                         *)
(* Meanwhile administrators change allowed_peers and delete agents.         *)
(***************************************************************************)
EXTENDS Naturals, Sequences, FiniteSets, SequencesExt, FiniteSetsExt

CONSTANTS
  Tasks,      \* asyncio tasks that run agents
  Agents,
  MaxDepth,   \* MAX_DELEGATION_DEPTH
  Permits,    \* max_concurrent of every agent, held by the pool
  MaxEdits,   \* bound: changes of agents
  MaxCalls    \* bound: executions begun by a task from outside

DelegationAssumption ==
  MaxDepth \in Nat \ {0} /\ Permits \in Nat \ {0} /\ MaxEdits \in Nat /\ MaxCalls \in Nat

VARIABLES
  peers,  \* agent -> its allowed_peers; the empty set allows everybody
  known,  \* agents in the table
  stack,  \* task -> the agents at work in it, the caller before the called
  asking, \* task -> the agent the tool call in progress wants, or "none"
  depth,  \* task -> the context variable
  edits, calls

vars == <<peers, known, stack, asking, depth, edits, calls>>

Nobody == "none"
AtWork(a) == UNION {{<<t, i>> : i \in {j \in DOMAIN stack[t] : stack[t][j] = a}} : t \in Tasks}

Init ==
  /\ peers \in [Agents -> {{}} \cup {{a} : a \in Agents}] /\ known = Agents
  /\ stack = [t \in Tasks |-> <<>>] /\ asking = [t \in Tasks |-> Nobody]
  /\ depth = [t \in Tasks |-> 0] /\ edits = 0 /\ calls = [t \in Tasks |-> 0]

\* The pool starts an execution: at most Permits of an agent at a time.
Begin(t, a) ==
  /\ stack[t] = <<>> /\ calls[t] < MaxCalls /\ a \in known
  /\ Cardinality({u \in Tasks : stack[u] # <<>> /\ stack[u][1] = a}) < Permits
  /\ stack' = [stack EXCEPT ![t] = <<a>>]
  /\ calls' = [calls EXCEPT ![t] = @ + 1]
  /\ UNCHANGED <<peers, known, asking, depth, edits>>

Allowed(from, to) == to \in known /\ (peers[to] = {} \/ from \in peers[to])

\* The tool call: the depth, then the table.  A refusal is an answer.
Ask(t, a) ==
  /\ stack[t] # <<>> /\ asking[t] = Nobody
  /\ depth[t] < MaxDepth /\ Allowed(Last(stack[t]), a)
  /\ asking' = [asking EXCEPT ![t] = a]
  /\ UNCHANGED <<peers, known, stack, depth, edits, calls>>

\* The audit entry between the check and the set raises: an answer of the gate.
AskFails(t) ==
  /\ asking[t] # Nobody
  /\ asking' = [asking EXCEPT ![t] = Nobody]
  /\ UNCHANGED <<peers, known, stack, depth, edits, calls>>

\* execute_agent raises ValueError when the agent is gone by now, inside the try.
Start(t) ==
  /\ asking[t] # Nobody
  /\ asking' = [asking EXCEPT ![t] = Nobody]
  /\ IF asking[t] \in known
     THEN /\ depth' = [depth EXCEPT ![t] = @ + 1]
          /\ stack' = [stack EXCEPT ![t] = Append(@, asking[t])]
     ELSE UNCHANGED <<depth, stack>>
  /\ UNCHANGED <<peers, known, edits, calls>>

\* What the depth is when the execution on top is over, and how it ended.
\* Mutant: reset after the answer, and not in a finally clause.
ResetIfAnswered(t, how) == IF how = "answered" /\ Len(stack[t]) > 1 THEN depth[t] - 1 ELSE depth[t]
AfterReset(t, how) == IF Len(stack[t]) > 1 THEN depth[t] - 1 ELSE depth[t]

\* The execution on top ends: completed, failed, halted or raising are answers to
\* the caller alike.
Ends(t) ==
  /\ stack[t] # <<>> /\ asking[t] = Nobody
  /\ \E how \in {"answered", "raised"} : depth' = [depth EXCEPT ![t] = AfterReset(t, how)]
  /\ stack' = [stack EXCEPT ![t] = Front(@)]
  /\ UNCHANGED <<peers, known, asking, edits, calls>>

\* create, update and delete of the admin routes.
Edit ==
  /\ edits < MaxEdits /\ edits' = edits + 1
  /\ \/ \E a \in Agents, s \in {{}} \cup {{b} : b \in Agents} : peers' = [peers EXCEPT ![a] = s] /\ UNCHANGED known
     \/ \E a \in Agents : known' = (known \ {a}) \cup ({a} \ known) /\ UNCHANGED peers
  /\ UNCHANGED <<stack, asking, depth, calls>>

Run(t) == (\E a \in Agents : Begin(t, a) \/ Ask(t, a)) \/ AskFails(t) \/ Start(t) \/ Ends(t)
Next == Edit \/ \E t \in Tasks : Run(t)

Spec == Init /\ [][Next]_vars

-----------------------------------------------------------------------------
TypeOK ==
  /\ peers \in [Agents -> SUBSET Agents] /\ known \subseteq Agents
  /\ asking \in [Tasks -> Agents \cup {Nobody}] /\ depth \in [Tasks -> Nat]
  /\ stack \in [Tasks -> Seq(Agents)]
  /\ edits \in 0 .. MaxEdits /\ calls \in [Tasks -> 0 .. MaxCalls]

\* The depth is that of the nesting, however the executions before ended
\* (delegate.py:71, 104): a task never nests deeper than the limit, and a new
\* execution can delegate again.
DepthIsNesting ==
  \A t \in Tasks : /\ depth[t] = (IF stack[t] = <<>> THEN 0 ELSE Len(stack[t]) - 1)
                   /\ Len(stack[t]) <= MaxDepth + 1

\* Who asks is at work, and the depth it was asked at leaves room for one more: the
\* guard of delegate.py:50 still holds when the depth is set at line 71.
AskedWithinLimit ==
  \A t \in Tasks : asking[t] # Nobody => stack[t] # <<>> /\ depth[t] < MaxDepth

\* The inductive invariant.
IInv == TypeOK /\ DepthIsNesting /\ AskedWithinLimit

-----------------------------------------------------------------------------
(* What the repository says and the code does not do.                       *)

\* DOCUMENTATION.md:205 "Each agent type has a semaphore limiting parallel
\* executions": a delegated execution does not pass the pool.
WithinMaxConcurrent == \A a \in Agents : Cardinality(AtWork(a)) <= Permits
=============================================================================
