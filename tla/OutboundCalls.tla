--------------------------- MODULE OutboundCalls ---------------------------
(***************************************************************************)
(* The single requests to services outside: a YAML tool (YamlTool.execute   *)
(* of src/mcp/legacy/yaml_tool.py), an automation workflow                  *)
(* (execute_workflow of src/automation/workflows.py) and a notification     *)
(* channel (src/notifications/dispatcher.py and webhook.py).  None of them  *)
(* retries.  The other side may act although the request raises: a timeout, *)
(* a lost answer or a status that says otherwise.                           *)
(***************************************************************************)
EXTENDS Naturals, Sequences, SequencesExt

CONSTANTS Calls, MaxFaults \* bound: awaits that raise

CallsAssumption == MaxFaults \in Nat

VARIABLES
  kind,   \* call -> "yaml", "workflow" or "channel"
  pc,     \* "new", "request", "received", "failing", "over"
  acted,  \* how often the other side has acted
  trail,  \* audit entries of a workflow
  answer, \* what the caller gets: "none", "ok", "error" or "exception"
  faults

vars == <<kind, pc, acted, trail, answer, faults>>

Kinds == {"yaml", "workflow", "channel"}
Fault == faults < MaxFaults /\ faults' = faults + 1
Goes(c, p) == pc' = [pc EXCEPT ![c] = p]
Answers(c, a) == Goes(c, "over") /\ answer' = [answer EXCEPT ![c] = a]
Logs(c, e) == trail' = [trail EXCEPT ![c] = Append(@, e)]

Init ==
  /\ kind \in [Calls -> Kinds] /\ pc = [c \in Calls |-> "new"]
  /\ acted = [c \in Calls |-> 0] /\ trail = [c \in Calls |-> <<>>]
  /\ answer = [c \in Calls |-> "none"] /\ faults = 0

\* No url, a template that cannot be rendered, an unknown workflow, no channel of
\* that name: an answer without a request.
Refuses(c) ==
  /\ pc[c] = "new" /\ Answers(c, "error")
  /\ UNCHANGED <<kind, acted, trail, faults>>

\* A workflow is logged first, outside of the try.
Begins(c) ==
  /\ pc[c] = "new"
  /\ \/ /\ Goes(c, "request") /\ UNCHANGED <<answer, faults>>
        /\ IF kind[c] = "workflow" THEN Logs(c, "started") ELSE UNCHANGED trail
     \/ kind[c] = "workflow" /\ Fault /\ Answers(c, "exception") /\ UNCHANGED trail
  /\ UNCHANGED <<kind, acted>>

AfterFailedRequest(c) == IF kind[c] = "workflow" THEN Goes(c, "failing") /\ UNCHANGED answer
                                                  ELSE Answers(c, "error")

RequestRaises(c) ==
  /\ pc[c] = "request" /\ Fault
  /\ \E n \in {0, 1} : acted' = [acted EXCEPT ![c] = @ + n]
  /\ AfterFailedRequest(c)
  /\ UNCHANGED <<kind, trail>>

\* The except clauses of a YAML tool name httpx.HTTPError only: a URL that httpx
\* refuses, or a header or a body that cannot be encoded, raises through them
\* before anything is sent (yaml_tool.py:113-139).
Escapes(c) ==
  /\ pc[c] = "request" /\ kind[c] = "yaml" /\ Answers(c, "exception")
  /\ UNCHANGED <<kind, acted, trail, faults>>

Responds(c) ==
  /\ pc[c] = "request"
  /\ acted' = [acted EXCEPT ![c] = @ + 1]
  /\ Goes(c, "received")
  /\ UNCHANGED <<kind, trail, answer, faults>>

\* What is made of the response.  _extract_path() raises KeyError, IndexError or
\* TypeError, which become an answer, or ValueError for a name where a list is,
\* which escapes as well (yaml_tool.py:69, 148).
YamlReads(c) ==
  /\ kind[c] = "yaml" /\ \E a \in {"ok", "error", "exception"} : Answers(c, a)
  /\ UNCHANGED <<trail, faults>>

\* A response that is no object, or an entry that cannot be written, ends in the
\* except clause although the engine has accepted.
WorkflowReads(c) ==
  /\ kind[c] = "workflow"
  /\ \/ Logs(c, "completed") /\ Answers(c, "ok") /\ UNCHANGED faults
     \/ Goes(c, "failing") /\ UNCHANGED <<trail, answer, faults>>
     \/ Fault /\ Goes(c, "failing") /\ UNCHANGED answer /\ (UNCHANGED trail \/ Logs(c, "completed"))

Reads(c) ==
  /\ pc[c] = "received"
  /\ \/ YamlReads(c) \/ WorkflowReads(c)
     \/ kind[c] = "channel" /\ Answers(c, "ok") /\ UNCHANGED <<trail, faults>>
  /\ UNCHANGED <<kind, acted>>

LogsFailure(c) ==
  /\ pc[c] = "failing"
  /\ \/ Logs(c, "failed") /\ Answers(c, "error") /\ UNCHANGED faults
     \/ Fault /\ Answers(c, "exception") /\ UNCHANGED trail
  /\ UNCHANGED <<kind, acted>>

Step(c) == Refuses(c) \/ Begins(c) \/ RequestRaises(c) \/ Escapes(c) \/ Responds(c) \/ Reads(c)
           \/ LogsFailure(c)
Next == \E c \in Calls : Step(c)
Spec == Init /\ [][Next]_vars

-----------------------------------------------------------------------------
TypeOK ==
  /\ kind \in [Calls -> Kinds] /\ faults \in 0 .. MaxFaults
  /\ pc \in [Calls -> {"new", "request", "received", "failing", "over"}]
  /\ answer \in [Calls -> {"none", "ok", "error", "exception"}]

\* The other side acts at most once for a call, and it has acted when the answer is a
\* success; a workflow that has begun is answered with a failure exactly when its last
\* audit entry says so, and with success when it says completed (workflows.py:107-134).
\* An exception says nothing: it may have come before the request or after the response.
CallsAccounted ==
  \A c \in Calls :
    /\ acted[c] <= 1
    /\ answer[c] = "ok" => acted[c] = 1
    /\ answer[c] = "ok" /\ kind[c] = "workflow" => trail[c] = <<"started", "completed">>
    /\ answer[c] = "error" /\ trail[c] # <<>> => Last(trail[c]) = "failed"
    /\ trail[c] # <<>> /\ Last(trail[c]) = "failed" => answer[c] = "error"
=============================================================================
