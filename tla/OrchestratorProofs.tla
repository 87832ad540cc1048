-------------------------- MODULE OrchestratorProofs --------------------------
(***************************************************************************)
(* Proofs about the routing of signals, for every set of signals and every  *)
(* bound.  IInv is inductive: a step touches the account of one signal, and *)
(* the other accounts do not see it.                                        *)
(***************************************************************************)
EXTENDS Orchestrator, TLAPS

\* Nothing of signal t has changed.
Untouched(t) ==
  /\ pc'[t] = pc[t] /\ out'[t] = out[t] /\ risky'[t] = risky[t]
  /\ approval'[t] = approval[t] /\ posts'[t] = posts[t] /\ handed'[t] = handed[t]
  /\ granted'[t] = granted[t] /\ looking'[t] = looking[t] /\ cleared'[t] = cleared[t]
  /\ (t \in inbox \cup read)' = (t \in inbox \cup read)

\* Nor what the halt has to do with it.
Unhalted(t) ==
  /\ killed' = killed /\ before'[t] = before[t] /\ late'[t] = late[t]

\* Initially nothing has been handed on, asked or answered.
LEMMA InitAccounted == Init => IInv
  <1>1. ASSUME Init PROVE TypeOK
    <2>1. risky \in [Signals -> BOOLEAN] /\ killed \in BOOLEAN
      BY <1>1, Zenon DEF Init
    <2> QED BY <1>1, <2>1 DEF Init, TypeOK, Pcs, Answers, Targets
  <1>2. ASSUME Init, NEW s \in Signals PROVE Accounted(s)
    BY <1>2 DEF Init, Accounted, Early, Executes, Refusals
  <1>3. ASSUME Init, NEW s \in Signals PROVE HaltAccounted(s)
    BY <1>3 DEF Init, HaltAccounted
  <1> QED BY <1>1, <1>2, <1>3 DEF IInv

\* The account of a signal no step has touched stays as it is.
LEMMA UntouchedAccounted ==
  ASSUME NEW t \in Signals, Accounted(t), Untouched(t)
  PROVE  Accounted(t)'
  BY DEF Accounted, Untouched

LEMMA UnhaltedAccounted ==
  ASSUME NEW t \in Signals, HaltAccounted(t), Untouched(t), Unhalted(t)
  PROVE  HaltAccounted(t)'
  BY DEF HaltAccounted, Ready, Untouched, Unhalted

\* The three ways in which process() goes on keep the types.
LEMMA ChoosesTypes ==
  ASSUME TypeOK, NEW s \in Signals, NEW from, NEW to \in Pcs, NEW t \in Targets,
         NEW r \in BOOLEAN, Chooses(s, from, to, t, r), OnlyRoutes
  PROVE  TypeOK'
  BY DEF TypeOK, Chooses, Goes, OnlyRoutes, bounds, posted, halt

LEMMA RepliesTypes ==
  ASSUME TypeOK, NEW s \in Signals, NEW from, NEW a \in Answers, Replies(s, from, a)
  PROVE  /\ pc' \in [Signals -> Pcs] /\ out' \in [Signals -> Answers]
         /\ target' \in [Signals -> Targets] /\ risky' \in [Signals -> BOOLEAN]
         /\ steps' \in [Signals -> Nat]
  BY DEF TypeOK, Replies, Forgets, Goes, Pcs, Targets

LEMMA MovesTypes ==
  ASSUME TypeOK, NEW s \in Signals, NEW from, NEW to \in Pcs, Moves(s, from, to)
  PROVE  /\ pc' \in [Signals -> Pcs] /\ out' \in [Signals -> Answers]
         /\ target' \in [Signals -> Targets] /\ risky' \in [Signals -> BOOLEAN]
         /\ steps' \in [Signals -> Nat]
  BY DEF TypeOK, Moves, Goes

\* An execution's end is an answer with an execution_id.
LEMMA EndsReplies ==
  ASSUME NEW s \in Signals, NEW from, NEW st \in Statuses, Ends(s, from, st)
  PROVE  \E a \in AgentAnswers : Replies(s, from, a) /\ a \in {st, "ok"}
  BY DEF Ends, AgentAnswers

\* Every step of process() keeps the types.
LEMMA ProcessTypes ==
  ASSUME TypeOK, NEW s \in Signals, Receive(s) \/ Process(s)
  PROVE  TypeOK'
  <1> DEFINE Routing == /\ pc' \in [Signals -> Pcs] /\ out' \in [Signals -> Answers]
                        /\ target' \in [Signals -> Targets] /\ risky' \in [Signals -> BOOLEAN]
                        /\ steps' \in [Signals -> Nat]
  <1>a. ASSUME Routing, OnlyRoutes PROVE TypeOK'
    BY <1>a DEF TypeOK, OnlyRoutes, bounds, posted, halt
  <1>b. ASSUME NEW from, NEW st \in Statuses, Ends(s, from, st) PROVE Routing
    BY <1>b, EndsReplies, RepliesTypes DEF Answers
  <1>1. CASE Receive(s)
    <2>1. \/ Replies(s, "new", "halted") /\ OnlyRoutes
          \/ Chooses(s, "new", "received", "none", FALSE) /\ OnlyRoutes
      BY <1>1, Zenon DEF Receive
    <2> QED BY <2>1, <1>a, ChoosesTypes, RepliesTypes DEF Pcs, Targets, Answers, Refusals
  <1>2. CASE ApplyRules(s)
    <2>1. CASE Replies(s, "received", "rejected")
      BY <1>2, <2>1, <1>a, RepliesTypes DEF ApplyRules, Answers, Refusals
    <2>2. ASSUME NEW t \in {"agent", "daemon"}, Chooses(s, "received", "requesting", t, TRUE)
          PROVE  TypeOK'
      BY <1>2, <2>2, ChoosesTypes DEF ApplyRules, Pcs, Targets
    <2>3. CASE Chooses(s, "received", "executing", "forced", FALSE)
      BY <1>2, <2>3, ChoosesTypes DEF ApplyRules, Pcs, Targets
    <2>4. CASE Chooses(s, "received", "asking", "none", FALSE)
      BY <1>2, <2>4, ChoosesTypes DEF ApplyRules, Pcs, Targets
    <2> QED BY <1>2, <2>1, <2>2, <2>3, <2>4 DEF ApplyRules
  <1>3. CASE AskLLM(s)
    <2>1. CASE Replies(s, "asking", "error") \/ Replies(s, "asking", "direct")
      BY <1>3, <2>1, <1>a, RepliesTypes DEF AskLLM, Answers, Refusals
    <2>2. ASSUME NEW t \in {"agent", "daemon"}, NEW r \in BOOLEAN,
                 Chooses(s, "asking", "decided", t, r)
          PROVE  TypeOK'
      BY <1>3, <2>2, ChoosesTypes DEF AskLLM, Pcs, Targets
    <2> QED BY <1>3, <2>1, <2>2 DEF AskLLM
  <1>4. CASE Route(s)
    <2>1. Way(s) \in Pcs BY DEF Way, Pcs
    <2> QED BY <1>4, <2>1, <1>a, MovesTypes DEF Route
  <1>5. CASE RequestApproval(s)
    <2>1. Routing BY <1>5, RepliesTypes DEF RequestApproval, Answers
    <2> QED BY <1>5, <2>1 DEF RequestApproval, TypeOK, bounds, posted, halt
  <1>6. CASE Enqueue(s)
    <2>1. Routing BY <1>6, MovesTypes DEF Enqueue, Pcs
    <2>2. handed' \in [Signals -> Nat] BY <1>6 DEF Enqueue, TypeOK
    <2>3. inbox' \subseteq Signals BY <1>6 DEF Enqueue, TypeOK
    <2>4. UNCHANGED <<approval, posts, granted, looking, cleared, read, daemon, killed, before, late,
                      passes, kills, moves, faults>>
      BY <1>6 DEF Enqueue, bounds, posted, halt
    <2> HIDE DEF Routing
    <2> QED BY <2>1, <2>2, <2>3, <2>4 DEF Routing, TypeOK
  <1>7. CASE TooLong(s) BY <1>7, <1>a, MovesTypes DEF TooLong, Pcs
  <1>8. CASE Woken(s) BY <1>8, <1>a, RepliesTypes DEF Woken, AfterEnqueue, Answers
  <1>9. CASE FallBack(s) BY <1>9, <1>a, MovesTypes DEF FallBack, Pcs
  <1>10. CASE Fails(s)
    <2>1. Routing BY <1>10, <1>b DEF Fails, Statuses
    <2> QED BY <1>10, <2>1, <1>a DEF Fails
  <1>11. CASE Look(s)
    <2>1. PICK from \in {"executing", "looking"} :
            \/ Ends(s, from, "stopped") /\ UNCHANGED handed
            \/ Moves(s, from, "stepping") /\ (Hands(s) \/ UNCHANGED handed)
      BY <1>11, Zenon DEF Look
    <2>2. Routing BY <2>1, <1>b, MovesTypes DEF Statuses, Pcs
    <2>3. handed' \in [Signals -> Nat] BY <2>1 DEF Hands, TypeOK
    <2> QED BY <1>11, <2>2, <2>3 DEF Look, TypeOK, bounds, posted, halt
  <1>12. CASE Step(s)
    <2>1. Routing
      <3>1. CASE Ends(s, "stepping", "completed") BY <3>1, <1>b DEF Statuses
      <3>2. CASE /\ Goes(s, "stepping", NextStep)
                 /\ steps' = [steps EXCEPT ![s] = @ + 1]
                 /\ UNCHANGED <<out, target, risky>>
        BY <3>2 DEF TypeOK, Goes, NextStep, Pcs
      <3> QED BY <1>12, <3>1, <3>2 DEF Step
    <2>2. late' \in [Signals -> Nat] BY <1>12 DEF Step, Steps, TypeOK
    <2> QED BY <1>12, <2>1, <2>2 DEF Step, TypeOK, bounds, posted
  <1>13. CASE Answer(s) BY <1>13, <1>a, MovesTypes DEF Answer, Pcs
  <1> QED
    BY <1>1, <1>2, <1>3, <1>4, <1>5, <1>6, <1>7, <1>8, <1>9, <1>10, <1>11, <1>12, <1>13
       DEF Process

\* So do the steps of the approvals, the daemon and the administrator.
LEMMA OtherTypes ==
  ASSUME TypeOK,
         \/ \E s \in Signals : \/ Granted(s) \/ ReadMail(s)
                               \/ \E v \in {"approved", "rejected"} : Resolve(s, v)
         \/ MoveDaemon \/ DaemonEnds \/ Kill \/ Resume
  PROVE  TypeOK'
  <1> USE DEF TypeOK, routing, bounds, posted, halt
  <1>1. ASSUME NEW s \in Signals, GrantedLooks(s) PROVE TypeOK'
    BY <1>1 DEF GrantedLooks, FirstLook, LookAgain, Hands
  <1>2. ASSUME NEW s \in Signals, GrantedSteps(s) PROVE TypeOK'
    BY <1>2 DEF GrantedSteps, Steps
  <1>3. ASSUME NEW s \in Signals, GrantedEnds(s) PROVE TypeOK'
    BY <1>3 DEF GrantedEnds
  <1>4. CASE \E s \in Signals : ReadMail(s) BY <1>4 DEF ReadMail
  <1>5. ASSUME NEW s \in Signals, NEW v \in {"approved", "rejected"}, Resolve(s, v)
        PROVE  TypeOK'
    BY <1>5 DEF Resolve
  <1>6. CASE MoveDaemon BY <1>6 DEF MoveDaemon
  <1>7. CASE DaemonEnds BY <1>7 DEF DaemonEnds
  <1>8. CASE Kill BY <1>8 DEF Kill, Ready
  <1>9. CASE Resume BY <1>9 DEF Resume
  <1> QED BY <1>1, <1>2, <1>3, <1>4, <1>5, <1>6, <1>7, <1>8, <1>9 DEF Granted

\* And a call that raises, and the end of the process.
LEMMA EndTypes ==
  ASSUME TypeOK, (\E s \in Signals : Raise(s)) \/ Crash
  PROVE  TypeOK'
  <1> USE DEF TypeOK, halt
  <1>1. ASSUME NEW s \in Signals, Raise(s) PROVE TypeOK'
    BY <1>1 DEF Raise, Forgets, Pcs, Answers, Targets, posted
  <1>2. CASE Crash BY <1>2 DEF Crash, Pcs, Answers, Targets
  <1> QED BY <1>1, <1>2

\* A step of process() keeps the account of its signal.
LEMMA ProcessAccounted ==
  ASSUME TypeOK, NEW s \in Signals, Accounted(s), Receive(s) \/ Process(s) \/ Raise(s)
  PROVE  Accounted(s)'
  <1> USE DEF TypeOK, Accounted, Early, Executes, Refusals, Goes, Replies, Moves, Chooses,
              OnlyRoutes, posted
  <1>1. CASE Receive(s)
    <2>1. CASE Replies(s, "new", "halted") /\ OnlyRoutes BY <2>1
    <2>2. CASE Chooses(s, "new", "received", "none", FALSE) /\ OnlyRoutes BY <2>2
    <2>3. \/ Replies(s, "new", "halted") /\ OnlyRoutes
          \/ Chooses(s, "new", "received", "none", FALSE) /\ OnlyRoutes
      BY <1>1, Zenon DEF Receive
    <2> QED BY <2>1, <2>2, <2>3
  <1>2. CASE ApplyRules(s) BY <1>2 DEF ApplyRules
  <1>3. CASE AskLLM(s)
    <2>1. CASE Replies(s, "asking", "error") BY <1>3, <2>1 DEF AskLLM
    <2>2. CASE Replies(s, "asking", "direct") BY <1>3, <2>2 DEF AskLLM
    <2>3. ASSUME NEW t \in {"agent", "daemon"}, NEW r \in BOOLEAN,
                 Chooses(s, "asking", "decided", t, r)
          PROVE  Accounted(s)'
      BY <1>3, <2>3 DEF AskLLM
    <2> QED BY <1>3, <2>1, <2>2, <2>3 DEF AskLLM
  <1>4. CASE Route(s) BY <1>4 DEF Route, Way
  <1>5. CASE RequestApproval(s) BY <1>5 DEF RequestApproval
  <1>6. CASE Enqueue(s) BY <1>6 DEF Enqueue
  <1>7. CASE TooLong(s) BY <1>7 DEF TooLong
  <1>8. CASE Woken(s) BY <1>8 DEF Woken, AfterEnqueue
  <1>9. CASE FallBack(s) BY <1>9 DEF FallBack
  <1>10. CASE Fails(s)
    <2>1. PICK from \in {"executing", "looking", "stepping"}, a \in {"failed", "ok"} :
            Replies(s, from, a)
      BY <1>10, EndsReplies DEF Fails, Statuses
    <2> QED BY <1>10, <2>1 DEF Fails
  <1>11. CASE Look(s)
    <2>1. PICK from \in {"executing", "looking"} :
            \/ Ends(s, from, "stopped") /\ UNCHANGED handed
            \/ Moves(s, from, "stepping")
               /\ IF from = "executing" THEN Hands(s) ELSE UNCHANGED handed
      BY <1>11, Zenon DEF Look
    <2>2. CASE Ends(s, from, "stopped") /\ UNCHANGED handed
      <3>1. PICK a \in {"stopped", "ok"} : Replies(s, from, a)
        BY <2>2, EndsReplies DEF Statuses
      <3> QED BY <1>11, <2>2, <3>1 DEF Look
    <2>3. CASE /\ Moves(s, from, "stepping")
               /\ IF from = "executing" THEN Hands(s) ELSE UNCHANGED handed
      BY <1>11, <2>3 DEF Look, Hands
    <2> QED BY <2>1, <2>2, <2>3
  <1>12. CASE Step(s)
    <2>1. CASE Ends(s, "stepping", "completed")
      <3>1. PICK a \in {"completed", "ok"} : Replies(s, "stepping", a)
        BY <2>1, EndsReplies DEF Statuses
      <3> QED BY <1>12, <3>1 DEF Step
    <2>2. CASE Goes(s, "stepping", "looking") /\ UNCHANGED <<out, target, risky>>
      BY <1>12, <2>2 DEF Step
    <2> QED BY <1>12, <2>1, <2>2 DEF Step, NextStep
  <1>13. CASE Answer(s) BY <1>13 DEF Answer
  <1>14. CASE Raise(s) BY <1>14 DEF Raise, InFlight
  <1> QED
    BY <1>1, <1>2, <1>3, <1>4, <1>5, <1>6, <1>7, <1>8, <1>9, <1>10, <1>11, <1>12, <1>13,
       <1>14 DEF Process

\* The approval's route keeps the account of its signal: a POST pays for what is
\* granted, and what is granted is handed on once.
LEMMA GrantedAccounted ==
  ASSUME TypeOK, NEW s \in Signals, Accounted(s),
         Granted(s) \/ \E v \in {"approved", "rejected"} : Resolve(s, v)
  PROVE  Accounted(s)'
  <1> USE DEF TypeOK, Accounted, routing, Early, Executes, Refusals
  <1>1. CASE FirstLook(s) /\ GrantedLooks(s) BY <1>1 DEF FirstLook, GrantedLooks, Hands
  <1>2. CASE LookAgain(s) /\ GrantedLooks(s) BY <1>2 DEF LookAgain, GrantedLooks
  <1>3. CASE GrantedSteps(s) BY <1>3 DEF GrantedSteps
  <1>4. CASE GrantedEnds(s) BY <1>4 DEF GrantedEnds
  <1>5. ASSUME NEW v \in {"approved", "rejected"}, Resolve(s, v) PROVE Accounted(s)'
    BY <1>5 DEF Resolve
  <1> QED BY <1>1, <1>2, <1>3, <1>4, <1>5 DEF Granted, GrantedLooks

\* A step that is made in a halt pays with an execution that had looked, and while
\* the system is halted no execution looks and goes on.
LEMMA StepsArePaid ==
  ASSUME TypeOK, NEW s \in Signals, HaltAccounted(s),
         \/ Receive(s) \/ Process(s) \/ Raise(s) \/ Granted(s)
         \/ \E v \in {"approved", "rejected"} : Resolve(s, v)
  PROVE  HaltAccounted(s)'
  <1> USE DEF TypeOK, HaltAccounted, Ready, Goes, Replies, Moves, Chooses, OnlyRoutes,
              posted, halt, routing
  <1>a. ASSUME pc' = [pc EXCEPT ![s] = pc'[s]], pc'[s] # "stepping", UNCHANGED <<cleared, halt>>
        PROVE  HaltAccounted(s)'
    BY <1>a
  <1>b. ASSUME NEW from, NEW to \in Pcs, Goes(s, from, to) PROVE pc' = [pc EXCEPT ![s] = pc'[s]] /\ pc'[s] = to
    BY <1>b
  <1>c. ASSUME NEW from, NEW a, Replies(s, from, a), UNCHANGED <<cleared, halt>>
        PROVE  HaltAccounted(s)'
    BY <1>c
  <1>d. ASSUME NEW from, NEW st \in Statuses, Ends(s, from, st), UNCHANGED <<cleared, halt>>
        PROVE  HaltAccounted(s)'
    BY <1>c, <1>d, EndsReplies
  <1>1. CASE Receive(s)
    <2>1. \/ Replies(s, "new", "halted") /\ OnlyRoutes
          \/ Chooses(s, "new", "received", "none", FALSE) /\ OnlyRoutes
      BY <1>1, Zenon DEF Receive
    <2> QED BY <2>1, <1>c
  <1>2. CASE ApplyRules(s) BY <1>2 DEF ApplyRules
  <1>3. CASE AskLLM(s) BY <1>3 DEF AskLLM
  <1>4. CASE Route(s) BY <1>4 DEF Route, Way
  <1>5. CASE RequestApproval(s) BY <1>5 DEF RequestApproval
  <1>6. CASE Enqueue(s) \/ TooLong(s) \/ FallBack(s) BY <1>6 DEF Enqueue, TooLong, FallBack
  <1>7. CASE Woken(s) \/ Answer(s) BY <1>7 DEF Woken, AfterEnqueue, Answer
  <1>8. CASE Fails(s) BY <1>8, <1>d DEF Fails, Statuses
  <1>9. CASE Look(s)
    <2>1. CASE killed
      BY <1>9, <2>1, <1>d DEF Look, Statuses
    <2>2. CASE ~killed BY <1>9, <2>2 DEF Look
    <2> QED BY <2>1, <2>2
  <1>10. CASE Step(s)
    <2>1. pc[s] = "stepping" /\ pc'[s] # "stepping"
      BY <1>10, EndsReplies DEF Step, NextStep, Statuses
    <2>2. cleared' = cleared /\ killed' = killed /\ before' = before BY <1>10 DEF Step
    <2>3. late'[s] = IF killed THEN late[s] + 1 ELSE late[s] BY <1>10 DEF Step, Steps
    <2> QED BY <2>1, <2>2, <2>3
  <1>11. CASE Raise(s) BY <1>11 DEF Raise
  <1>12. CASE GrantedLooks(s) BY <1>12 DEF GrantedLooks, FirstLook, LookAgain
  <1>13. CASE GrantedSteps(s)
    <2>1. late'[s] = IF killed THEN late[s] + 1 ELSE late[s] BY <1>13 DEF GrantedSteps, Steps
    <2> QED BY <1>13, <2>1 DEF GrantedSteps
  <1>14. CASE GrantedEnds(s) BY <1>14 DEF GrantedEnds
  <1>15. CASE \E v \in {"approved", "rejected"} : Resolve(s, v) BY <1>15 DEF Resolve
  <1> QED
    BY <1>1, <1>2, <1>3, <1>4, <1>5, <1>6, <1>7, <1>8, <1>9, <1>10, <1>11, <1>12, <1>13,
       <1>14, <1>15 DEF Process, Granted

\* Each step is about one signal.
LEMMA OthersUntouched ==
  ASSUME TypeOK, NEW s \in Signals, NEW t \in Signals, t # s,
         \/ Receive(s) \/ Process(s) \/ Raise(s) \/ Granted(s)
         \/ \E v \in {"approved", "rejected"} : Resolve(s, v)
  PROVE  Untouched(t) /\ Unhalted(t)
  <1> USE DEF TypeOK, Untouched, Unhalted, Goes, Replies, Moves, Chooses, OnlyRoutes, routing,
              posted, halt
  <1>a. ASSUME NEW from, NEW st \in Statuses, Ends(s, from, st)
        PROVE  pc'[t] = pc[t] /\ out'[t] = out[t] /\ risky'[t] = risky[t]
    BY <1>a, EndsReplies
  <1>1. CASE Receive(s) BY <1>1, Zenon DEF Receive
  <1>2. CASE ApplyRules(s) BY <1>2 DEF ApplyRules
  <1>3. CASE AskLLM(s) BY <1>3 DEF AskLLM
  <1>4. CASE Route(s) BY <1>4 DEF Route
  <1>5. CASE RequestApproval(s) BY <1>5 DEF RequestApproval
  <1>6. CASE Enqueue(s) BY <1>6 DEF Enqueue
  <1>7. CASE TooLong(s) BY <1>7 DEF TooLong
  <1>8. CASE Woken(s) BY <1>8 DEF Woken, AfterEnqueue
  <1>9. CASE FallBack(s) BY <1>9 DEF FallBack
  <1>10. CASE Fails(s) BY <1>10, <1>a DEF Fails, Statuses
  <1>11. CASE Look(s)
    <2>1. pc'[t] = pc[t] /\ out'[t] = out[t] /\ risky'[t] = risky[t]
      BY <1>11, <1>a DEF Look, Statuses
    <2>2. handed'[t] = handed[t] BY <1>11 DEF Look, Hands
    <2> QED BY <1>11, <2>1, <2>2 DEF Look
  <1>12. CASE Step(s)
    <2>1. pc'[t] = pc[t] /\ out'[t] = out[t] /\ risky'[t] = risky[t]
      BY <1>12, <1>a DEF Step, Statuses
    <2>2. late'[t] = late[t] BY <1>12 DEF Step, Steps
    <2> QED BY <1>12, <2>1, <2>2 DEF Step
  <1>13. CASE Answer(s) BY <1>13 DEF Answer
  <1>14. CASE Raise(s) BY <1>14 DEF Raise
  <1>15. CASE GrantedLooks(s) BY <1>15 DEF GrantedLooks, FirstLook, LookAgain, Hands
  <1>16. CASE GrantedSteps(s) BY <1>16 DEF GrantedSteps, Steps
  <1>17. CASE GrantedEnds(s) BY <1>17 DEF GrantedEnds
  <1>18. CASE \E v \in {"approved", "rejected"} : Resolve(s, v) BY <1>18 DEF Resolve
  <1> QED
    BY <1>1, <1>2, <1>3, <1>4, <1>5, <1>6, <1>7, <1>8, <1>9, <1>10, <1>11, <1>12, <1>13,
       <1>14, <1>15, <1>16, <1>17, <1>18 DEF Process, Granted

\* The daemon, its manager and the kill switch touch the account of no signal, and
\* only the kill switch what a halt lets through.
LEMMA RestUntouched ==
  ASSUME NEW t \in Signals,
         \/ \E s \in Signals : ReadMail(s)
         \/ MoveDaemon \/ DaemonEnds \/ Kill \/ Resume \/ UNCHANGED vars
  PROVE  Untouched(t) /\ (Unhalted(t) \/ Kill \/ Resume)
  BY DEF Untouched, Unhalted, ReadMail, MoveDaemon, DaemonEnds, Kill, Resume, vars, routing,
         bounds, posted, halt

\* The kill switch takes the account of those that have looked.
LEMMA SwitchAccounted ==
  ASSUME TypeOK, NEW s \in Signals, HaltAccounted(s), Kill \/ Resume
  PROVE  HaltAccounted(s)'
  BY DEF TypeOK, HaltAccounted, Ready, Kill, Resume, routing, posted

\* The end of the process keeps the account of every signal: what it forgets was to
\* be paid for, and what it has handed on is not forgotten.
LEMMA CrashAccounted ==
  ASSUME TypeOK, NEW s \in Signals, Accounted(s), HaltAccounted(s), Crash
  PROVE  Accounted(s)' /\ HaltAccounted(s)'
  <1>1. Accounted(s)'
    <2> USE DEF TypeOK, Accounted, Crash, InFlight, Early, Executes, Refusals
    <2>1. CASE pc[s] \in {"new", "answered"} BY <2>1
    <2>2. CASE pc[s] \notin {"new", "answered"} BY <2>2
    <2> QED BY <2>1, <2>2
  <1>2. HaltAccounted(s)'
    BY DEF TypeOK, HaltAccounted, Ready, Crash, InFlight, halt
  <1> QED BY <1>1, <1>2

\* The account of every signal is kept by every step.
LEMMA StepAccounted ==
  ASSUME IInv, [Next]_vars
  PROVE  IInv'
  <1> USE DEF IInv
  <1>1. ASSUME NEW s \in Signals, \/ Receive(s) \/ Process(s) \/ Raise(s) \/ Granted(s)
                                  \/ \E v \in {"approved", "rejected"} : Resolve(s, v)
        PROVE  IInv'
    <2>1. TypeOK' BY <1>1, ProcessTypes, EndTypes, OtherTypes
    <2>2. Accounted(s)' BY <1>1, ProcessAccounted, GrantedAccounted
    <2>3. HaltAccounted(s)' BY <1>1, StepsArePaid
    <2>4. ASSUME NEW t \in Signals, t # s PROVE Accounted(t)' /\ HaltAccounted(t)'
      BY <1>1, <2>4, OthersUntouched, UntouchedAccounted, UnhaltedAccounted
    <2> QED BY <2>1, <2>2, <2>3, <2>4
  <1>2. ASSUME \/ \E s \in Signals : ReadMail(s)
               \/ MoveDaemon \/ DaemonEnds \/ Kill \/ Resume
        PROVE  IInv'
    <2>1. TypeOK' BY <1>2, OtherTypes
    <2>2. ASSUME NEW t \in Signals PROVE Accounted(t)' /\ HaltAccounted(t)'
      BY <1>2, <2>2, RestUntouched, UntouchedAccounted, UnhaltedAccounted, SwitchAccounted
    <2> QED BY <2>1, <2>2
  <1>3. ASSUME UNCHANGED vars PROVE IInv'
    <2>1. TypeOK' BY <1>3 DEF TypeOK, vars, routing, bounds, posted, halt
    <2>2. ASSUME NEW t \in Signals PROVE Accounted(t)' /\ HaltAccounted(t)'
      <3>1. Untouched(t) /\ Unhalted(t)
        BY <1>3 DEF Untouched, Unhalted, vars, routing, posted, halt
      <3> QED BY <3>1, UntouchedAccounted, UnhaltedAccounted
    <2> QED BY <2>1, <2>2
  <1>4. CASE Crash BY <1>4, EndTypes, CrashAccounted
  <1> QED BY <1>1, <1>2, <1>3, <1>4 DEF Next

\* Every reachable state is typed and accounts for the work of every signal.
THEOREM Invariance == Spec => []IInv
  BY InitAccounted, StepAccounted, PTL DEF Spec

\* What the accounts say of the work, the answers and the halt.
LEMMA InvariantImplies == IInv => HandedOnce /\ AnswerTellsFate /\ HaltBoundsWork
  <1> SUFFICES ASSUME IInv PROVE HandedOnce /\ AnswerTellsFate /\ HaltBoundsWork
    OBVIOUS
  <1>1. HandedOnce BY DEF IInv, TypeOK, Accounted, HandedOnce
  <1>2. ASSUME NEW s \in Signals
        PROVE  /\ out[s] \in Refusals => Untaken(s)
               /\ out[s] = "awaiting" => approval[s] # "none"
               /\ out[s] = "completed" => handed[s] = 1
    <2>1. Accounted(s) BY DEF IInv
    <2>2. granted[s] \in Nat /\ looking[s] \in Nat /\ cleared[s] \in Nat BY DEF IInv, TypeOK
    <2>3. out[s] \in Refusals => handed[s] = 0 /\ approval[s] = "none" BY <2>1 DEF Accounted
    <2>4. approval[s] = "none" => granted[s] = 0 BY <2>1, <2>2 DEF Accounted
    <2> QED BY <2>1, <2>3, <2>4 DEF Accounted, Untaken
  <1>3. ASSUME NEW s \in Signals, out[s] \in AgentAnswers \cup {"routed"}
        PROVE  approval[s] = "none" /\ granted[s] + looking[s] + cleared[s] = 0
    BY <1>3 DEF IInv, TypeOK, Accounted, AgentAnswers, Statuses
  <1>4. ASSUME NEW s \in Signals, out[s] \in AgentAnswers PROVE Over(s)
    BY <1>3, <1>4 DEF IInv, Accounted, AgentAnswers, Statuses, Over
  <1>5. AnswerTellsFate BY <1>2, <1>3, <1>4 DEF AnswerTellsFate
  <1>6. HaltBoundsWork BY DEF IInv, TypeOK, HaltAccounted, Ready, HaltBoundsWork
  <1> QED BY <1>1, <1>5, <1>6

\* HandedOnce: however signals, approving POSTs, the daemon, the kill switch and
\* raising calls interleave, process() and the approval route together hand the
\* work of a signal on once, or once per approving POST.
THEOREM NeverHandedTwice == Spec => []HandedOnce
  BY InvariantImplies, Invariance, PTL

\* AnswerTellsFate: the status process() returns can be relied on, whatever happens
\* after it was returned.
THEOREM AnswersAreKept == Spec => []AnswerTellsFate
  BY InvariantImplies, Invariance, PTL

\* HaltBoundsWork: between the activation of the kill switch and its release the
\* agents make at most the steps that were due when it was set.
THEOREM HaltHolds == Spec => []HaltBoundsWork
  BY InvariantImplies, Invariance, PTL
===============================================================================
