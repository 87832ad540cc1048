------------------------------- MODULE ToolGate -------------------------------
(***************************************************************************)
(* The way of a tool call from the LLM's answer to the tool: dispatch       *)
(* (src/agents/runtime.py), the registry with its approval gate             *)
(* (src/mcp/registry.py) and the interceptor (src/security/interceptor.py). *)
(* A client of the MCP server (src/mcp/server.py) enters at the registry.   *)
(* The waiting for a decision is the module Approvals; here a decision      *)
(* comes at some moment.  Each MCP tool stands for a server of its own.     *)
(***************************************************************************)
EXTENDS Naturals, FiniteSets

CONSTANTS Calls,
          LocalTools,   \* the tools of the registry
          McpTools,     \* names with "__"
          UnknownTools, \* names nobody offers
          HighRisk, ExternalRisk,
          Enabled,      \* SECURITY_INLINE_ENABLED
          MaxChanges    \* bound: connections made or lost

Tools == LocalTools \cup McpTools \cup UnknownTools
Risky == HighRisk \cup ExternalRisk

\* registry.py:174, "MCP tools aren't in the local registry"
GateAssumption ==
  /\ LocalTools \cap McpTools = {} /\ UnknownTools \cap (LocalTools \cup McpTools) = {}
  /\ Risky \cap McpTools = {} /\ Enabled \in BOOLEAN /\ MaxChanges \in Nat

VARIABLES
  pc,        \* of a call
  call,      \* what is called, by whom, and whether the arguments look sensitive
  verdict,   \* of the call's approval, or "none"
  agreed,    \* history: the calls a human has once agreed to
  effects,   \* how often the tool has been run
  answer,    \* what the call gave the agent
  connected, \* the servers of the MCP client pool
  changes

vars == <<pc, call, verdict, agreed, effects, answer, connected, changes>>

Requests == [tool : Tools, sensitive : BOOLEAN, by : {"agent", "client"}]
NoRequest == [tool |-> "none", sensitive |-> FALSE, by |-> "agent"]
Refusals == {"blocked", "not_found", "failed", "raised", "cancelled"}

Init == /\ pc = [c \in Calls |-> "new"] /\ call = [c \in Calls |-> NoRequest]
        /\ verdict = [c \in Calls |-> "none"] /\ effects = [c \in Calls |-> 0]
        /\ answer = [c \in Calls |-> "none"] /\ agreed = {}
        /\ connected \in SUBSET McpTools /\ changes = 0

-----------------------------------------------------------------------------
\* check_tool_call
Intercepts(r) ==
  Enabled /\ (r.tool \in McpTools \/ r.tool \in Risky \/ r.sensitive)

\* A client of the MCP server is offered the registry only.
Offered(r) == LocalTools \cup (IF r.by = "agent" THEN connected ELSE {})

\* What the caller gets for a ValueError of the registry or of a tool.
OnValueError(r) == IF r.by = "agent" THEN "not_found" ELSE "failed"

\* default_tool_executor and ToolRegistry.execute up to the first await
Entry(r) ==
  IF r.tool \in Offered(r)
  THEN IF Intercepts(r) THEN "asking" ELSE "running"
  ELSE "done"

End(c, a) == pc' = [pc EXCEPT ![c] = "done"] /\ answer' = [answer EXCEPT ![c] = a]

Call(c, r) ==
  /\ pc[c] = "new"
  /\ call' = [call EXCEPT ![c] = r]
  /\ pc' = [pc EXCEPT ![c] = Entry(r)]
  /\ answer' = [answer EXCEPT ![c] = IF Entry(r) = "done" THEN OnValueError(r) ELSE "none"]
  /\ UNCHANGED <<verdict, agreed, effects, connected, changes>>

\* create_approval_request
AskHuman(c) ==
  /\ pc[c] = "asking"
  /\ pc' = [pc EXCEPT ![c] = "waiting"]
  /\ verdict' = [verdict EXCEPT ![c] = "pending"]
  /\ UNCHANGED <<call, agreed, effects, answer, connected, changes>>

\* What an exception of the gate comes to: the gate of an MCP tool is called inside the
\* except clause for ValueError, whose exceptions its sibling does not catch.
FailureOf(c) == IF call[c].tool \in McpTools THEN "raised" ELSE "failed"

\* Storing the approval, or reading it while waiting, raises.
GateFails(c) ==
  /\ pc[c] \in {"asking", "waiting"}
  /\ End(c, FailureOf(c))
  /\ UNCHANGED <<call, verdict, agreed, effects, connected, changes>>

\* resolve_approval, which also overwrites an earlier decision
Decide(c, granted) ==
  /\ verdict[c] # "none"
  /\ verdict' = [verdict EXCEPT ![c] = IF granted THEN "granted" ELSE "refused"]
  /\ agreed' = IF granted THEN agreed \cup {c} ELSE agreed
  /\ UNCHANGED <<pc, call, effects, answer, connected, changes>>

Agreed(c) == verdict[c] = "granted"

\* wait_for_resolution returns; a decision can come after its last look.
Waited(c) ==
  /\ pc[c] = "waiting"
  /\ \/ Agreed(c) /\ pc' = [pc EXCEPT ![c] = "running"] /\ UNCHANGED answer
     \/ End(c, "blocked")
  /\ UNCHANGED <<call, verdict, agreed, effects, connected, changes>>

\* execute_fn, which may raise before or after its effect: a ValueError counts as
\* "not in the registry", another exception is reported.
RunLocal(c) ==
  /\ pc[c] = "running" /\ call[c].tool \in LocalTools
  /\ \E n \in 0 .. 1, a \in {"result", OnValueError(call[c]), "failed"} :
       /\ a = "result" => n = 1
       /\ effects' = [effects EXCEPT ![c] = @ + n]
       /\ End(c, a)
  /\ UNCHANGED <<call, verdict, agreed, connected, changes>>

\* Mutant: a failed remote call is taken up again.
RemoteEndsRetried(c) == \E a \in {"result", "failed"} :
  /\ effects' = [effects EXCEPT ![c] = @ + 1]
  /\ IF a = "failed" /\ effects[c] < 2 THEN UNCHANGED <<pc, answer>> ELSE End(c, a)

RemoteEnds(c) == \E n \in 0 .. 1, a \in {"result", "failed"} :
  /\ a = "result" => n = 1
  /\ effects' = [effects EXCEPT ![c] = @ + n]
  /\ End(c, a)

HasSession(c) == call[c].tool \in connected

\* McpClientPool.execute_tool; every exception is an answer
RunRemote(c) ==
  /\ pc[c] = "running" /\ HasSession(c)
  /\ RemoteEnds(c)
  /\ UNCHANGED <<call, verdict, agreed, connected, changes>>

\* The server has gone while the call waited.
ServerGone(c) ==
  /\ pc[c] = "running" /\ call[c].tool \in McpTools \ connected
  /\ End(c, "failed")
  /\ UNCHANGED <<call, verdict, agreed, effects, connected, changes>>

Connection ==
  /\ changes < MaxChanges /\ changes' = changes + 1
  /\ \E m \in McpTools :
       connected' = IF m \in connected THEN connected \ {m} ELSE connected \cup {m}
  /\ UNCHANGED <<pc, call, verdict, agreed, effects, answer>>

\* The execution is cancelled, or the client has closed its connection: the
\* approval stays where it is, and nobody waits for it any more.
Cancelled(c) ==
  /\ pc[c] \in {"asking", "waiting", "running"}
  /\ \E n \in 0 .. 1 :
       /\ n = 1 => pc[c] = "running" /\ call[c].tool \in LocalTools \cup connected
       /\ effects' = [effects EXCEPT ![c] = @ + n]
  /\ End(c, "cancelled")
  /\ UNCHANGED <<call, verdict, agreed, connected, changes>>

Step(c) == \/ \E r \in Requests : Call(c, r)
           \/ AskHuman(c) \/ GateFails(c) \/ Waited(c)
           \/ RunLocal(c) \/ RunRemote(c) \/ ServerGone(c) \/ Cancelled(c)
           \/ \E g \in BOOLEAN : Decide(c, g)

Next == Connection \/ \E c \in Calls : Step(c)

Spec == Init /\ [][Next]_vars

-----------------------------------------------------------------------------
TypeOK ==
  /\ pc \in [Calls -> {"new", "asking", "waiting", "running", "done"}]
  /\ call \in [Calls -> Requests \cup {NoRequest}]
  /\ verdict \in [Calls -> {"none", "pending", "granted", "refused"}]
  /\ agreed \subseteq Calls /\ effects \in [Calls -> 0 .. 1]
  /\ answer \in [Calls -> {"none", "result"} \cup Refusals]
  /\ connected \subseteq McpTools /\ changes \in 0 .. MaxChanges

\* A call that the documentation wants a human to see (DOCUMENTATION.md:569-572) has
\* taken effect only if a human has agreed to it, whichever way it took to its tool.
MustAsk(r) == Enabled /\ (r.tool \in HighRisk \/ r.sensitive)

EffectsAreApproved ==
  \A c \in Calls : effects[c] > 0 /\ MustAsk(call[c]) => c \in agreed

\* What the agent is told is what has happened: a blocked call has not run, also if the
\* human agrees after all, and a result comes from one run.
AnswerTellsEffect ==
  \A c \in Calls :
    /\ answer[c] = "blocked" => effects[c] = 0
    /\ answer[c] = "result" => effects[c] = 1

\* A failure that ends the whole execution (runtime.py:313) comes from the gate of an
\* MCP tool, and the tool has not run: no local tool ends its execution, and nothing
\* that a client asks for ends the connection (server.py:72).
RaisedBeforeEffect ==
  \A c \in Calls : answer[c] = "raised" => call[c].tool \in McpTools /\ call[c].by = "agent" /\ effects[c] = 0

\* Why: a call that is under way came by a door that was open to its caller, has had
\* no effect and no answer yet, and passes the interceptor with a human's consent only.
UnderWay ==
  \A c \in Calls :
    /\ verdict[c] = "granted" => c \in agreed
    /\ pc[c] # "done" => effects[c] = 0 /\ answer[c] = "none"
    /\ pc[c] \in {"asking", "waiting", "running"}
         => call[c].tool \in LocalTools \/ (call[c].tool \in McpTools /\ call[c].by = "agent")
    /\ pc[c] = "running" /\ Intercepts(call[c]) => c \in agreed

\* Every server of an approved call may go and come back while the human thinks: the
\* tool runs on a server that is connected then, and what was blocked or lost stays so.
EndsOnce ==
  [][\A c \in Calls :
       /\ pc[c] = "done" => UNCHANGED <<pc[c], answer[c], effects[c]>>
       /\ effects[c]' # effects[c] => call[c].tool \in LocalTools \cup connected]_vars

-----------------------------------------------------------------------------
(* What the repository says and the code does not do. *)

\* runtime.py:106, "Tool not in local registry": no local tool is reported as not found.
NotFoundRanNothing ==
  \A c \in Calls : answer[c] = "not_found" => call[c].tool \notin LocalTools

\* DOCUMENTATION.md:571, external tools are "intercepted if arguments contain sensitive
\* patterns"
OnlySuspectsAsk ==
  \A c \in Calls : pc[c] = "waiting" => call[c].tool \in HighRisk \/ call[c].sensitive
=============================================================================
