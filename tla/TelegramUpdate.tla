--------------------------- MODULE TelegramUpdate ---------------------------
(***************************************************************************)
(* Telegram updates over the webhook: telegram_webhook() and                *)
(* process_telegram_update() of src/telegram/webhook.py, send_message() of  *)
(* src/telegram/client.py.  The handler answers 200 after the whole of the  *)
(* processing.  Telegram keeps an update until it got a 200, stops waiting  *)
(* after a while and delivers again, while the first delivery goes on; a    *)
(* crash ends all deliveries.                                               *)
(*                                                                         *)
(* A reply is sent chunk by chunk in Markdown; when a chunk is refused the  *)
(* whole text is sent once more as plain text.  An error of the             *)
(* orchestrator is sent once, in Markdown, outside of any try.              *)
(***************************************************************************)
EXTENDS Naturals, Sequences

CONSTANTS
  Updates,   \* the updates users send
  Chunks,    \* messages one reply is split into
  MaxFaults  \* bound: waits given up, refused sends and crashes

UpdateAssumption == Chunks \in Nat \ {0} /\ MaxFaults \in Nat

VARIABLES
  kind,    \* what each update is about
  waiting, \* updates Telegram has not got a 200 for
  run,     \* the deliveries so far
  faults

vars == <<kind, waiting, run, faults>>

\* "ignored": no message, no chat, a user who is not allowed, or a button, which
\* only gets a fixed answer.
Kinds == {"ignored", "message"}

\* One delivery: whether Telegram still waits for its answer, what the
\* orchestrator said, the chunks sent in this attempt, how often the user has
\* seen each of them, the sends that were refused.
Delivery(u) == [update |-> u, pc |-> "received", open |-> TRUE, said |-> "nothing",
                sent |-> 0, seen |-> [c \in 1 .. Chunks |-> 0], refused |-> 0]
Over == {"done", "lost"}
Running == {d \in DOMAIN run : run[d].pc \notin Over}
At(d, pc) == d \in DOMAIN run /\ run[d].pc = pc
Goes(d, pc) == run' = [run EXCEPT ![d].pc = pc]

Init ==
  /\ kind \in [Updates -> Kinds]
  /\ waiting = Updates /\ run = <<>> /\ faults = 0

\* Telegram delivers what it holds, one delivery of an update at a time.
Deliver(u) ==
  /\ u \in waiting
  /\ \A d \in Running : ~(run[d].update = u /\ run[d].open)
  /\ run' = Append(run, Delivery(u))
  /\ UNCHANGED <<kind, waiting, faults>>

StopsWaiting(d) ==
  /\ d \in Running /\ run[d].open /\ faults < MaxFaults
  /\ run' = [run EXCEPT ![d].open = FALSE]
  /\ faults' = faults + 1
  /\ UNCHANGED <<kind, waiting>>

Crash ==
  /\ faults < MaxFaults /\ Running # {}
  /\ run' = [d \in DOMAIN run |-> IF d \in Running THEN [run[d] EXCEPT !.pc = "lost", !.open = FALSE]
                                                   ELSE run[d]]
  /\ faults' = faults + 1
  /\ UNCHANGED <<kind, waiting>>

\* The checks, then the content: empty, or a text.  Voice or a photo that cannot
\* be fetched or read becomes a text as well.
Receives(d) ==
  /\ At(d, "received")
  /\ \/ Goes(d, "answer")
     \/ kind[run[d].update] = "message" /\ Goes(d, "route")
  /\ UNCHANGED <<kind, waiting, faults>>

\* orchestrator.process() answers with a text, which the LLM may leave empty, or
\* raises.
Routes(d) ==
  /\ At(d, "route")
  /\ \/ run' = [run EXCEPT ![d].pc = "markdown", ![d].said = "reply"]
     \/ run' = [run EXCEPT ![d].pc = "answer", ![d].said = "empty"]
     \/ run' = [run EXCEPT ![d].pc = "apology", ![d].said = "error"]
  /\ UNCHANGED <<kind, waiting, faults>>

\* Mutant: gives up after the Markdown attempt.
NeverPlain(pc) == "answer"
AfterRefusal(pc) == IF pc = "markdown" THEN "plain" ELSE "answer"

LastOf(pc) == IF pc = "apology" THEN 1 ELSE Chunks

Sends(d) ==
  /\ d \in Running /\ run[d].pc \in {"markdown", "plain", "apology"}
  /\ LET r == run[d] IN
       run' = [run EXCEPT ![d] = [r EXCEPT !.sent = r.sent + 1, !.seen[r.sent + 1] = @ + 1,
                 !.pc = IF r.sent + 1 = LastOf(r.pc) THEN "answer" ELSE r.pc]]
  /\ UNCHANGED <<kind, waiting, faults>>

\* The request raises: refused, or its answer was lost and the user has seen it.
Refused(d) ==
  /\ d \in Running /\ run[d].pc \in {"markdown", "plain", "apology"} /\ faults < MaxFaults
  /\ \E shown \in {0, 1} :
       LET r == run[d] IN
       run' = [run EXCEPT ![d] = [r EXCEPT !.seen[r.sent + 1] = @ + shown, !.sent = 0,
                 !.refused = @ + 1, !.pc = AfterRefusal(r.pc)]]
  /\ faults' = faults + 1
  /\ UNCHANGED <<kind, waiting>>

Answers(d) ==
  /\ At(d, "answer")
  /\ run' = [run EXCEPT ![d].pc = "done", ![d].open = FALSE]
  /\ waiting' = IF run[d].open THEN waiting \ {run[d].update} ELSE waiting
  /\ UNCHANGED <<kind, faults>>

Handles(d) == Receives(d) \/ Routes(d) \/ Sends(d) \/ Refused(d) \/ Answers(d)
Next ==
  \/ \E u \in Updates : Deliver(u)
  \/ \E d \in DOMAIN run : Handles(d) \/ StopsWaiting(d)
  \/ Crash

Spec == Init /\ [][Next]_vars

\* Each handler runs on and Telegram delivers again; faults are bounded, so one
\* action for all of them is enough.
Works == (\E u \in Updates : Deliver(u)) \/ (\E d \in DOMAIN run : Handles(d))
FairSpec == Spec /\ WF_vars(Works)

-----------------------------------------------------------------------------
TypeOK ==
  /\ kind \in [Updates -> Kinds] /\ waiting \subseteq Updates /\ faults \in 0 .. MaxFaults
  /\ \A d \in DOMAIN run :
       /\ run[d].update \in Updates /\ run[d].sent \in 0 .. Chunks
       /\ run[d].pc \in Over \cup {"received", "route", "markdown", "plain", "apology", "answer"}

\* Telegram forgets an update only when one delivery of it went all the way
\* (webhook.py:44-50), whatever crashed or was given up before.
ForgottenWhenDone ==
  \A u \in Updates \ waiting : \E d \in DOMAIN run : run[d].update = u /\ run[d].pc = "done"

\* A user whose message was routed sees the whole reply, unless two sends of it
\* were refused, or the one of an apology (webhook.py:113-138).
SilenceExplained ==
  \A d \in DOMAIN run :
    LET r == run[d] IN
    r.pc = "done" =>
      /\ r.said = "reply" => r.refused = 2 \/ \A c \in 1 .. Chunks : r.seen[c] > 0
      /\ r.said = "error" => r.refused = 1 \/ r.seen[1] > 0

\* Every update is answered with a 200 in the end.
EveryUpdateAnswered == \A u \in Updates : u \in waiting ~> u \notin waiting

-----------------------------------------------------------------------------
(* What the repository says and the code does not do.                       *)

\* webhook.py:49 "Always return 200 to Telegram so it doesn't retry": no message
\* reaches the orchestrator twice.  The 200 comes after the processing, and a
\* delivery that takes too long is repeated beside it.
RoutedOnce ==
  \A d, e \in DOMAIN run :
    run[d].said # "nothing" /\ run[e].said # "nothing" /\ run[d].update = run[e].update => d = e
=============================================================================
