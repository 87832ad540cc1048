------------------------------ MODULE Notices ------------------------------
(***************************************************************************)
(* Messages to all allowed Telegram users: the send_notification tool       *)
(* (src/mcp/tools/notification.py), text_to_speech (src/mcp/tools/tts.py),  *)
(* the notice of an approval (registry.py:127-145) and the result of a cron *)
(* job (scheduler/worker.py:49-61).  Each is one loop over the users in one *)
(* try: the first send that raises ends the loop.  A tool tells its agent,  *)
(* which may call it again; the others log it and go on.                    *)
(***************************************************************************)
EXTENDS Naturals, Sequences, FiniteSets

CONSTANTS
  Users,     \* number of allowed users, in the order of the setting
  MaxFaults, \* bound: sends that raise for a passing reason
  MaxCalls   \* bound: calls of a tool by its agent

NoticesAssumption == Users \in Nat \ {0} /\ MaxCalls \in Nat \ {0} /\ MaxFaults \in Nat

VARIABLES
  kind,    \* "tool" (notification or speech), "approval" or "cron"
  blocked, \* users who have blocked the bot
  pc,      \* "new", "sending", "told" or "over"
  to,      \* the user the loop is at
  got,     \* user -> how many copies have arrived
  answer,  \* what the last call said: "none", "sent" or "error"
  calls, faults

vars == <<kind, blocked, pc, to, got, answer, calls, faults>>

Init ==
  /\ kind \in {"tool", "approval", "cron"} /\ blocked \in SUBSET (1 .. Users)
  /\ pc = "new" /\ to = 1 /\ got = [u \in 1 .. Users |-> 0]
  /\ answer = "none" /\ calls = 0 /\ faults = 0

Begin ==
  /\ pc = "new"
  /\ pc' = "sending" /\ to' = 1 /\ calls' = calls + 1
  /\ UNCHANGED <<kind, blocked, got, answer, faults>>

Arrives ==
  /\ pc = "sending" /\ to <= Users /\ to \notin blocked
  /\ got' = [got EXCEPT ![to] = @ + 1] /\ to' = to + 1
  /\ UNCHANGED <<kind, blocked, pc, answer, calls, faults>>

\* What follows a send that raises.
AfterFailure == pc' = "told" /\ answer' = "error"

\* A user who blocked the bot is refused every time; a request that fails in
\* passing may have arrived.
Raises ==
  /\ pc = "sending" /\ to <= Users
  /\ \/ to \in blocked /\ UNCHANGED <<got, faults>>
     \/ /\ to \notin blocked /\ faults < MaxFaults /\ faults' = faults + 1
        /\ \E n \in {0, 1} : got' = [got EXCEPT ![to] = @ + n]
  /\ AfterFailure
  /\ UNCHANGED <<kind, blocked, to, calls>>

AllSent ==
  /\ pc = "sending" /\ to > Users
  /\ pc' = "told" /\ answer' = "sent"
  /\ UNCHANGED <<kind, blocked, to, got, calls, faults>>

\* The agent may try again after an error; the wait for the approval and the marking
\* of the job follow whatever happened.
GoesOn ==
  /\ pc = "told"
  /\ \/ pc' = "over"
     \/ kind = "tool" /\ answer = "error" /\ calls < MaxCalls /\ pc' = "new"
  /\ UNCHANGED <<kind, blocked, to, got, answer, calls, faults>>

Next == Begin \/ Arrives \/ Raises \/ AllSent \/ GoesOn
Spec == Init /\ [][Next]_vars /\ WF_vars(Next)

-----------------------------------------------------------------------------
TypeOK ==
  /\ pc \in {"new", "sending", "told", "over"} /\ to \in 1 .. Users + 1
  /\ got \in [1 .. Users -> 0 .. MaxCalls] /\ calls \in 0 .. MaxCalls /\ faults \in 0 .. MaxFaults

\* "sent" is said when everybody has it; and whoever is before another in the list
\* has no fewer copies than the other, so an error leaves out a tail of the list.
SentMeansAll ==
  /\ answer = "sent" => \A u \in 1 .. Users : got[u] > 0
  /\ \A u, v \in 1 .. Users : u < v /\ u \notin blocked => got[u] >= got[v]

\* The approval is waited for, and the job marked, whatever a send does.
NeverStuck == <>(pc = "over")

-----------------------------------------------------------------------------
(* What the repository says and the code does not do.                       *)

\* notification.py:36 "Send a notification via Telegram to all allowed users": a
\* user who blocked the bot keeps the message from those behind in the list.
BlockedHarmsNobody ==
  pc = "over" /\ faults = 0 => \A u \in (1 .. Users) \ blocked : got[u] > 0
=============================================================================
