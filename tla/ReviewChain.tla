---------------------------- MODULE ReviewChain ----------------------------
(***************************************************************************)
(* The chain of the code writer and the code reviewer:                      *)
(* execute_code_review_chain() and _parse_reviewer_verdict() of             *)
(* src/agents/chains.py.  Each round runs both agents; the text of the      *)
(* reviewer is parsed as JSON and, failing that, searched for a word.       *)
(* Nothing in src/ calls the chain yet: its caller here is that of the      *)
(* tests, which starts it once.                                             *)
(***************************************************************************)
EXTENDS Naturals, Sequences

CONSTANT MaxIterations \* max_iterations

ChainAssumption == MaxIterations \in Nat \ {0}

VARIABLES
  pc,       \* "writing", "reviewing", "returned" or "raised"
  round,    \* the iteration
  said,     \* what the writer's executions have given: "code" or "failure"
  reviews,  \* the reviewer's texts
  told,     \* the feedback the writer was given in each round: 0, or its review's number
  approved

vars == <<pc, round, said, reviews, told, approved>>

\* What a reviewer can answer: JSON with a verdict and a feedback text, without
\* one, or with null; or a text that has the word in it, in praise or in a
\* negation, or has it not.  A failed or halted execution gives such a text too.
Json == [verdict : {"approved", "rejected"}, feedback : {"text", "empty", "null"}]
Plain == {"is approved", "not approved", "has issues"}
Reviews == Json \cup [plain : Plain]
IsJson(r) == "verdict" \in DOMAIN r

Init ==
  /\ pc = "writing" /\ round = 1 /\ said = <<>> /\ reviews = <<>> /\ told = <<>>
  /\ approved = FALSE

\* Whether the next prompt has a feedback in it.
HasFeedback(r) == IF IsJson(r) THEN r.feedback = "text" ELSE TRUE

\* execute_agent raises for an unknown agent, or when its first audit entry fails.
Raises == pc' = "raised" /\ UNCHANGED <<round, said, reviews, told, approved>>

Write ==
  /\ pc = "writing"
  /\ \/ /\ pc' = "reviewing"
        /\ told' = Append(told, IF round > 1 /\ HasFeedback(reviews[round - 1]) THEN round - 1 ELSE 0)
        /\ \E s \in {"code", "failure"} : said' = Append(said, s)
        /\ UNCHANGED <<round, reviews, approved>>
     \/ Raises

Verdict(r) == IF IsJson(r) THEN r.verdict = "approved" ELSE r.plain # "has issues"

\* A rejection logs feedback[:200], which raises when the feedback is null.
Review ==
  /\ pc = "reviewing"
  /\ \/ \E r \in Reviews :
          /\ reviews' = Append(reviews, r)
          /\ approved' = Verdict(r)
          /\ IF ~Verdict(r) /\ IsJson(r) /\ r.feedback = "null" THEN pc' = "raised" /\ UNCHANGED round
             ELSE IF Verdict(r) \/ round = MaxIterations THEN pc' = "returned" /\ UNCHANGED round
             ELSE pc' = "writing" /\ round' = round + 1
          /\ UNCHANGED <<said, told>>
     \/ Raises

Next == Write \/ Review
Spec == Init /\ [][Next]_vars /\ WF_vars(Next)

-----------------------------------------------------------------------------
TypeOK ==
  /\ pc \in {"writing", "reviewing", "returned", "raised"} /\ round \in 1 .. MaxIterations
  /\ Len(said) <= MaxIterations /\ Len(reviews) <= Len(said) /\ Len(told) = Len(said)
  /\ approved \in BOOLEAN

\* Code is returned as approved in the round whose review has the word for it, a
\* JSON answer that rejects is never an approval, and the writer of a later round
\* was given the feedback of the round before it, where there was any.
ApprovalHasReview ==
  /\ pc = "returned" /\ approved =>
       /\ Len(reviews) = round /\ Len(said) = round
       /\ IsJson(reviews[round]) => reviews[round].verdict = "approved"
       /\ \A i \in 1 .. round - 1 : ~Verdict(reviews[i])
  /\ pc = "returned" /\ ~approved => Len(reviews) = MaxIterations
  /\ \A i \in 2 .. Len(told) : told[i] \in {0, i - 1} /\ (HasFeedback(reviews[i - 1]) => told[i] = i - 1)

\* The chain comes to its end.
ChainEnds == <>(pc \in {"returned", "raised"})

-----------------------------------------------------------------------------
(* What the repository says and the code does not do.                       *)

\* chains.py:53-54 "If reviewer approves -> return result", "If reviewer rejects ->
\* feed back to code_writer": "not approved" has the word in it.
ApprovedByReviewer ==
  pc = "returned" /\ approved =>
    LET r == reviews[round] IN IsJson(r) \/ r.plain = "is approved"

\* chains.py:54: a rejection is fed back.  One with "feedback": null raises.
RejectionIsFedBack ==
  pc = "raised" /\ reviews # <<>> =>
    LET r == reviews[Len(reviews)] IN IsJson(r) => r.feedback # "null"
=============================================================================
