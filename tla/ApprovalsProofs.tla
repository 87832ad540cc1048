--------------------------- MODULE ApprovalsProofs ---------------------------
(***************************************************************************)
(* Theorems about Approvals, for every set of approvals and requests and    *)
(* every TTL and polling interval.  The inductive invariant IInv relates    *)
(* the life left in the Redis copy to the time its owner has waited, and    *)
(* the row to the history of committed answers.  The count of the runs of   *)
(* an approval rests on RunsCounted: a request that has read the copy pays  *)
(* for at most one, and the copy is deleted before the first.               *)
(***************************************************************************)
EXTENDS MCApprovals, FiniteSetTheorems, TLAPS

LEMMA InitIInv == Init => IInv
  <1> SUFFICES ASSUME Init PROVE IInv
    OBVIOUS
  <1> USE DEF Init, Idle
  <1>1. TypeOK
    BY TimesAssumption DEF TypeOK, RowStatus, OwnerPc, RequestPc, RequestState, Verdicts
  <1>2. ServedRequestHasTarget
    BY DEF ServedRequestHasTarget
  <1>3. ApprovedRowWasApproved /\ ToolRunsOnlyIfApproved /\ GivesUpAfterCopy
    BY DEF ApprovedRowWasApproved, ToolRunsOnlyIfApproved, GivesUpAfterCopy
  <1>4. CopyOutlivedByWait
    BY DEF CopyOutlivedByWait
  <1>5. QED
    BY <1>1, <1>2, <1>3, <1>4 DEF IInv

(* Type correctness is preserved by every step taken from IInv. *)
LEMMA TypeStep == IInv /\ [Next]_vars => TypeOK'
  <1> SUFFICES ASSUME IInv, [Next]_vars PROVE TypeOK'
    OBVIOUS
  <1> USE TimesAssumption
      DEF IInv, TypeOK, RowStatus, OwnerPc, RequestPc, RequestState, Verdicts,
          ServedRequestHasTarget, CopyOutlivedByWait, WaitTimeout, ownerVars
  <1>1. CASE UNCHANGED vars
    BY <1>1 DEF vars
  <1>2. ASSUME NEW a \in Approvals, InsertRow(a) \/ CacheCopy(a) \/ Created(a) \/ CreateFails(a)
        PROVE TypeOK'
    <2>1. CASE InsertRow(a)
      BY <2>1 DEF InsertRow
    <2>2. CASE CacheCopy(a)
      BY <2>2 DEF CacheCopy
    <2>3. CASE Created(a) \/ CreateFails(a)
      BY <2>3 DEF Created, CreateFails
    <2>4. QED
      BY <1>2, <2>1, <2>2, <2>3
  <1>3. ASSUME NEW a \in Approvals, PollRow(a)
        PROVE TypeOK'
    BY <1>3 DEF PollRow, AfterRead
  <1>4. ASSUME NEW a \in Approvals, Wake(a)
        PROVE TypeOK'
    BY <1>4 DEF Wake, Rested
  <1>5. ASSUME NEW a \in Approvals, GiveUp(a) \/ RunTool(a)
        PROVE TypeOK'
    BY <1>5 DEF GiveUp, RunTool
  <1>6. ASSUME NEW a \in Approvals, Evict(a)
        PROVE TypeOK'
    BY <1>6 DEF Evict, WithoutCopy
  <1>7. ASSUME NEW r \in Requests, NEW a \in Approvals, NEW d \in Verdicts, Lookup(r, a, d)
        PROVE TypeOK'
    BY <1>7 DEF Lookup
  <1>8. ASSUME NEW r \in Requests, CommitVerdict(r)
        PROVE TypeOK'
    <2>1. request[r].on \in Approvals /\ request[r].decision \in Verdicts
      BY <1>8 DEF CommitVerdict
    <2>2. request' \in [Requests -> RequestState]
      <3>1. [request[r] EXCEPT !.pc = "committed"] \in RequestState
        OBVIOUS
      <3>2. request' = [request EXCEPT ![r] = [request[r] EXCEPT !.pc = "committed"]]
        BY <1>8 DEF CommitVerdict
      <3> HIDE DEF RequestState
      <3>3. QED
        BY <3>1, <3>2
    <2>3. status' \in [Approvals -> RowStatus] /\ verdicts' \in [Approvals -> SUBSET Verdicts]
      BY <1>8, <2>1 DEF CommitVerdict
    <2>4. QED
      BY <1>8, <2>2, <2>3 DEF CommitVerdict
  <1>9. ASSUME NEW r \in Requests, DropCopy(r)
        PROVE TypeOK'
    <2>1. request' \in [Requests -> RequestState]
      <3>1. [request[r] EXCEPT !.pc = "answered"] \in RequestState
        OBVIOUS
      <3>2. request' = [request EXCEPT ![r] = [request[r] EXCEPT !.pc = "answered"]]
        BY <1>9 DEF DropCopy
      <3> HIDE DEF RequestState
      <3>3. QED
        BY <3>1, <3>2
    <2>2. ttl' \in [Approvals -> 0 .. Ttl]
      BY <1>9 DEF DropCopy, WithoutCopy
    <2>3. QED
      BY <1>9, <2>1, <2>2 DEF DropCopy
  <1>10. ASSUME NEW r \in Requests, Respond(r)
         PROVE TypeOK'
    BY <1>10 DEF Respond, RecoveredAgent, Idle
  <1>11. ASSUME NEW r \in Requests, ReadRow(r) \/ CommitExpired(r) \/ RequestFails(r)
         PROVE TypeOK'
    <2>1. request' \in [Requests -> RequestState]
      <3>1. [request[r] EXCEPT !.pc = "stale"] \in RequestState /\ Idle \in RequestState
        BY DEF Idle
      <3>2. \/ request' = [request EXCEPT ![r] = [request[r] EXCEPT !.pc = "stale"]]
            \/ request' = [request EXCEPT ![r] = Idle]
        BY <1>11 DEF ReadRow, CommitExpired, RequestFails
      <3> HIDE DEF RequestState
      <3>3. QED
        BY <3>1, <3>2
    <2>2. status' \in [Approvals -> RowStatus]
      BY <1>11 DEF ReadRow, CommitExpired, RequestFails
    <2>3. UNCHANGED <<ttl, owner, elapsed, nap, verdicts, started>>
      BY <1>11 DEF ReadRow, CommitExpired, RequestFails
    <2>4. QED
      BY <2>1, <2>2, <2>3
  <1>12. CASE Tick
    BY <1>12 DEF Tick, Less
  <1>13. CASE Crash
    BY <1>13 DEF Crash, Idle
  <1> HIDE DEF IInv, TypeOK, RowStatus, OwnerPc, RequestPc, RequestState, Verdicts,
               ServedRequestHasTarget, CopyOutlivedByWait
  <1>14. QED
    BY <1>1, <1>2, <1>3, <1>4, <1>5, <1>6, <1>7, <1>8, <1>9, <1>10, <1>11, <1>12, <1>13
       DEF Next, Owner, Request

(* A served request keeps its target until it is idle again. *)
LEMMA TargetStep == IInv /\ [Next]_vars => ServedRequestHasTarget'
  <1> SUFFICES ASSUME IInv, [Next]_vars PROVE ServedRequestHasTarget'
    OBVIOUS
  <1> USE DEF IInv, TypeOK, RequestState, ServedRequestHasTarget, ownerVars, Idle
  <1>1. CASE UNCHANGED request
    BY <1>1
  <1>2. ASSUME NEW r \in Requests, NEW a \in Approvals, NEW d \in Verdicts, Lookup(r, a, d)
        PROVE ServedRequestHasTarget'
    BY <1>2 DEF Lookup
  <1>3. ASSUME NEW r \in Requests, Request(r) \/ RequestFails(r)
        PROVE ServedRequestHasTarget'
    <2>1. CASE CommitVerdict(r)
      BY <2>1 DEF CommitVerdict
    <2>2. CASE DropCopy(r)
      BY <2>2 DEF DropCopy
    <2>3. CASE Respond(r) \/ CommitExpired(r) \/ RequestFails(r)
      <3>1. request' = [request EXCEPT ![r] = Idle]
        BY <2>3 DEF Respond, CommitExpired, RequestFails
      <3>2. QED
        BY <3>1
    <2>4. CASE ReadRow(r)
      BY <2>4 DEF ReadRow
    <2>5. QED
      BY <1>3, <2>1, <2>2, <2>3, <2>4 DEF Request
  <1>4. CASE Crash
    BY <1>4 DEF Crash
  <1> HIDE DEF IInv, TypeOK, RequestState, ServedRequestHasTarget, Idle
  <1>5. QED
    BY <1>1, <1>2, <1>3, <1>4
       DEF Next, vars, Owner, InsertRow, CacheCopy, Created, PollRow, Wake, GiveUp, RunTool,
           CreateFails, Evict, Tick

(* The row, the history and the owner's verdict agree. *)
LEMMA VerdictStep ==
  IInv /\ [Next]_vars => ApprovedRowWasApproved' /\ ToolRunsOnlyIfApproved'
  <1> SUFFICES ASSUME IInv, [Next]_vars
               PROVE  ApprovedRowWasApproved' /\ ToolRunsOnlyIfApproved'
    OBVIOUS
  <1> USE DEF IInv, TypeOK, RequestState, ServedRequestHasTarget, ApprovedRowWasApproved,
              ToolRunsOnlyIfApproved, ownerVars
  <1>1. CASE UNCHANGED <<status, owner, verdicts>>
    BY <1>1
  <1>2. ASSUME NEW a \in Approvals, Owner(a) \/ CreateFails(a)
        PROVE ApprovedRowWasApproved' /\ ToolRunsOnlyIfApproved'
    BY <1>2 DEF Owner, InsertRow, CacheCopy, Created, PollRow, AfterRead, Wake, GiveUp, RunTool,
                CreateFails
  <1>3. ASSUME NEW r \in Requests, CommitVerdict(r)
        PROVE ApprovedRowWasApproved' /\ ToolRunsOnlyIfApproved'
    BY <1>3 DEF CommitVerdict, Verdicts
  <1>4. ASSUME NEW r \in Requests, CommitExpired(r)
        PROVE ApprovedRowWasApproved' /\ ToolRunsOnlyIfApproved'
    BY <1>4 DEF CommitExpired
  <1>5. CASE Crash
    BY <1>5 DEF Crash
  <1> HIDE DEF IInv, TypeOK, RequestState, ServedRequestHasTarget, ApprovedRowWasApproved,
               ToolRunsOnlyIfApproved
  <1>6. QED
    BY <1>1, <1>2, <1>3, <1>4, <1>5
       DEF Next, vars, Request, DropCopy, Respond, ReadRow, RequestFails, Lookup, Evict, Tick

(* Time: the copy's remaining life and the owner's count. *)
LEMMA TimeStep ==
  IInv /\ [Next]_vars => CopyOutlivedByWait' /\ GivesUpAfterCopy'
  <1> SUFFICES ASSUME IInv, [Next]_vars
               PROVE  CopyOutlivedByWait' /\ GivesUpAfterCopy'
    OBVIOUS
  <1> USE TimesAssumption
      DEF IInv, TypeOK, CopyOutlivedByWait, GivesUpAfterCopy, WaitTimeout, ownerVars
  <1>1. CASE UNCHANGED <<ttl, owner, elapsed, nap>>
    BY <1>1
  <1>2. ASSUME NEW a \in Approvals, InsertRow(a) \/ CacheCopy(a) \/ Created(a) \/ CreateFails(a)
        PROVE CopyOutlivedByWait' /\ GivesUpAfterCopy'
    <2>1. CASE InsertRow(a)
      BY <2>1 DEF InsertRow
    <2>2. CASE CacheCopy(a)
      BY <2>2 DEF CacheCopy
    <2>3. CASE Created(a) \/ CreateFails(a)
      BY <2>3 DEF Created, CreateFails
    <2>4. QED
      BY <1>2, <2>1, <2>2, <2>3
  <1>3. ASSUME NEW a \in Approvals, PollRow(a)
        PROVE CopyOutlivedByWait' /\ GivesUpAfterCopy'
    BY <1>3 DEF PollRow, AfterRead
  <1>4. ASSUME NEW a \in Approvals, Wake(a)
        PROVE CopyOutlivedByWait' /\ GivesUpAfterCopy'
    BY <1>4 DEF Wake, Rested
  <1>5. ASSUME NEW a \in Approvals, GiveUp(a) \/ RunTool(a)
        PROVE CopyOutlivedByWait' /\ GivesUpAfterCopy'
    BY <1>5 DEF GiveUp, RunTool
  <1>6. ASSUME NEW a \in Approvals, Evict(a)
        PROVE CopyOutlivedByWait' /\ GivesUpAfterCopy'
    BY <1>6 DEF Evict, WithoutCopy
  <1>7. ASSUME NEW r \in Requests, DropCopy(r)
        PROVE CopyOutlivedByWait' /\ GivesUpAfterCopy'
    BY <1>7 DEF DropCopy, WithoutCopy, ServedRequestHasTarget
  <1>8. CASE Tick
    <2> SUFFICES ASSUME NEW a \in Approvals
                 PROVE  /\ owner'[a] \in {"new", "inserted"} => ttl'[a] = 0
                        /\ owner'[a] \in {"new", "inserted", "cached"} => elapsed'[a] = 0
                        /\ owner'[a] = "sleeping" => elapsed'[a] < Ttl
                        /\ owner'[a] = "polling" /\ ttl'[a] > 0
                             => ttl'[a] + elapsed'[a] <= Ttl
                        /\ owner'[a] = "sleeping" /\ ttl'[a] > 0
                             => ttl'[a] + elapsed'[a] + (PollInterval - nap'[a]) <= Ttl
                        /\ owner'[a] = "gaveup" => ttl'[a] = 0
      OBVIOUS
    <2>1. ttl[a] \in Nat /\ nap[a] \in Nat /\ elapsed[a] \in Nat
      OBVIOUS
    <2>2. /\ ttl'[a] = IF ttl[a] > 0 THEN ttl[a] - 1 ELSE 0
          /\ nap'[a] = IF nap[a] > 0 THEN nap[a] - 1 ELSE 0
      BY <1>8, <2>1 DEF Tick, Less
    <2>3. owner'[a] = owner[a] /\ elapsed'[a] = elapsed[a]
      BY <1>8 DEF Tick
    <2>4. /\ owner[a] \in {"new", "inserted"} => ttl[a] = 0
          /\ owner[a] \in {"new", "inserted", "cached"} => elapsed[a] = 0
          /\ owner[a] = "sleeping" => elapsed[a] < Ttl
          /\ owner[a] = "polling" /\ ttl[a] > 0 => ttl[a] + elapsed[a] <= Ttl
          /\ owner[a] = "sleeping" /\ ttl[a] > 0
               => ttl[a] + elapsed[a] + (PollInterval - nap[a]) <= Ttl
          /\ owner[a] = "gaveup" => ttl[a] = 0
      OBVIOUS
    <2> HIDE DEF IInv, TypeOK, CopyOutlivedByWait, GivesUpAfterCopy
    <2>5. QED
      BY <2>1, <2>2, <2>3, <2>4
  <1>9. CASE Crash
    BY <1>9 DEF Crash
  <1> HIDE DEF IInv, TypeOK, CopyOutlivedByWait, GivesUpAfterCopy
  <1>10. QED
    BY <1>1, <1>2, <1>3, <1>4, <1>5, <1>6, <1>7, <1>8, <1>9
       DEF Next, vars, Owner, Request, CommitVerdict, Respond, ReadRow, CommitExpired,
           RequestFails, Lookup

(* IInv holds in every reachable state. *)
THEOREM Invariance == Spec => []IInv
  <1>1. IInv /\ [Next]_vars => IInv'
    BY TypeStep, TargetStep, VerdictStep, TimeStep DEF IInv
  <1>2. QED
    BY InitIInv, <1>1, PTL DEF Spec

(* Every variable keeps its type; in particular the owner's count never      *)
(* exceeds its timeout by more than one sleep.                               *)
THEOREM TypeCorrect == Spec => []TypeOK
  BY Invariance, PTL DEF IInv

(* No intercepted tool runs without a committed approval of that call.       *)
THEOREM ToolSafety == Spec => []ToolRunsOnlyIfApproved
  BY Invariance, PTL DEF IInv

(* A lapsed approval stays lapsed and its row can only expire.               *)
THEOREM NoLateVerdict == Spec => NoVerdictAfterLapse
  <1>1. IInv /\ [Next]_vars
        => [\A a \in Approvals :
              Lapsed(a) => Lapsed(a)' /\ status'[a] \in {status[a], "expired"}]_vars
    <2> SUFFICES ASSUME IInv, Next, NEW a \in Approvals, Lapsed(a)
                 PROVE  Lapsed(a)' /\ status'[a] \in {status[a], "expired"}
      OBVIOUS
    <2> USE DEF IInv, TypeOK
    <2> DEFINE Out == owner[a] \notin {"new", "inserted"}
    <2>1. status'[a] \in {status[a], "expired"}
      <3>1. CASE UNCHANGED status
        BY <3>1
      <3>2. ASSUME NEW b \in Approvals, InsertRow(b)
            PROVE status'[a] \in {status[a], "expired"}
        BY <3>2 DEF InsertRow, Lapsed
      <3>3. ASSUME NEW r \in Requests, CommitVerdict(r)
            PROVE status'[a] \in {status[a], "expired"}
        BY <3>3 DEF CommitVerdict, Holds, Lapsed
      <3>4. ASSUME NEW r \in Requests, CommitExpired(r)
            PROVE status'[a] \in {status[a], "expired"}
        BY <3>4 DEF CommitExpired
      <3>5. QED
        BY <3>1, <3>2, <3>3, <3>4
           DEF Next, Owner, Request, CacheCopy, Created, PollRow, Wake, GiveUp, RunTool,
               CreateFails, Evict, DropCopy, Respond, ReadRow, RequestFails, Lookup, Tick, Crash
    <2>2. owner'[a] \notin {"new", "inserted"}
      <3>1. ASSUME NEW b \in Approvals, Owner(b) \/ CreateFails(b)
            PROVE Out'
        BY <3>1 DEF Owner, InsertRow, CacheCopy, Created, PollRow, Wake, GiveUp, RunTool,
                    CreateFails, AfterRead, Lapsed
      <3>2. CASE Crash
        BY <3>2 DEF Crash, Lapsed
      <3>3. CASE UNCHANGED owner
        BY <3>3 DEF Lapsed
      <3>4. QED
        BY <3>1, <3>2, <3>3
           DEF Next, Request, Evict, Tick, CommitVerdict, DropCopy, Respond, ReadRow,
               CommitExpired, RequestFails, Lookup, ownerVars
    <2>3. ttl'[a] = 0
      <3>1. ASSUME NEW b \in Approvals, CacheCopy(b)
            PROVE ttl'[a] = 0
        BY <3>1 DEF CacheCopy, Lapsed
      <3>2. ASSUME NEW b \in Approvals, Evict(b)
            PROVE ttl'[a] = 0
        BY <3>2 DEF Evict, WithoutCopy, Lapsed
      <3>3. ASSUME NEW r \in Requests, DropCopy(r)
            PROVE ttl'[a] = 0
        BY <3>3 DEF DropCopy, WithoutCopy, Lapsed
      <3>4. CASE Tick
        BY <3>4 DEF Tick, Less, Lapsed
      <3>5. CASE UNCHANGED ttl
        BY <3>5 DEF Lapsed
      <3>6. QED
        BY <3>1, <3>2, <3>3, <3>4, <3>5
           DEF Next, Owner, Request, InsertRow, Created, PollRow, Wake, GiveUp, RunTool,
               CreateFails, CommitVerdict, Respond, ReadRow, CommitExpired, RequestFails,
               Lookup, Crash
    <2>4. ASSUME NEW q \in Requests
          PROVE ~Holds(q, a)'
      <3>1. ASSUME NEW r \in Requests, NEW b \in Approvals, NEW d \in Verdicts, Lookup(r, b, d)
            PROVE ~Holds(q, a)'
        BY <3>1 DEF Lookup, Holds, Lapsed
      <3> request[q] \in RequestState /\ ~(request[q].pc = "hit" /\ request[q].on = a)
        BY DEF Lapsed, Holds
      <3>2. ASSUME NEW r \in Requests, Request(r) \/ RequestFails(r)
            PROVE ~Holds(q, a)'
        <4>1. CASE CommitVerdict(r) \/ DropCopy(r)
          <5>1. PICK p \in {"committed", "answered"} : request' = [request EXCEPT ![r].pc = p]
            BY <4>1 DEF CommitVerdict, DropCopy
          <5>2. request'[q] \in {request[q], [request[q] EXCEPT !.pc = p]}
            BY <5>1
          <5>3. QED
            BY <5>1, <5>2 DEF Holds, RequestState
        <4>2. CASE Respond(r) \/ CommitExpired(r) \/ RequestFails(r)
          <5>1. request'[q] \in {request[q], Idle}
            BY <4>2 DEF Respond, CommitExpired, RequestFails
          <5>2. QED
            BY <5>1 DEF Holds, Idle
        <4>3. CASE ReadRow(r)
          <5>1. request'[q] \in {request[q], Idle, [request[q] EXCEPT !.pc = "stale"]}
            BY <4>3 DEF ReadRow
          <5>2. QED
            BY <5>1 DEF Holds, Idle, RequestState
        <4>4. QED
          BY <3>2, <4>1, <4>2, <4>3 DEF Request
      <3>3. CASE Crash
        BY <3>3 DEF Crash, Holds, Idle
      <3>4. CASE UNCHANGED request
        BY <3>4 DEF Holds, Lapsed
      <3>5. QED
        BY <3>1, <3>2, <3>3, <3>4
           DEF Next, Owner, InsertRow, CacheCopy, Created, PollRow, Wake, GiveUp, RunTool,
               CreateFails, Evict, Tick
    <2>5. QED
      BY <2>1, <2>2, <2>3, <2>4 DEF Lapsed
  <1>2. QED
    BY Invariance, <1>1, PTL DEF Spec, NoVerdictAfterLapse

(* After its owner gave up, an approval is only decided by requests that had   *)
(* read the copy before.                                                      *)
THEOREM PatientOwner == Spec => LateAnswersWereUnderWay
  <1>1. ASSUME IInv, [Next]_vars, NEW a \in Approvals, ttl[a] = 0, NEW q \in Requests, Holds(q, a)'
        PROVE  Holds(q, a)
    <2> USE DEF IInv, TypeOK
    <2>1. ASSUME NEW r \in Requests, NEW b \in Approvals, NEW d \in Verdicts, Lookup(r, b, d)
          PROVE  Holds(q, a)
      BY <1>1, <2>1 DEF Lookup, Holds
    <2>2. ASSUME NEW r \in Requests, Request(r) \/ RequestFails(r)
          PROVE  Holds(q, a)
      <3>1. CASE CommitVerdict(r) \/ DropCopy(r)
        <4>1. PICK p \in {"committed", "answered"} : request' = [request EXCEPT ![r].pc = p]
          BY <1>1, <3>1 DEF CommitVerdict, DropCopy
        <4>2. request'[q] \in {request[q], [request[q] EXCEPT !.pc = p]}
          BY <1>1, <4>1
        <4>3. request[q] \in RequestState
          BY <1>1
        <4>4. QED
          BY <1>1, <4>1, <4>2, <4>3 DEF Holds, RequestState
      <3>2. CASE Respond(r) \/ CommitExpired(r) \/ RequestFails(r)
        <4>1. request'[q] \in {request[q], Idle}
          BY <1>1, <3>2 DEF Respond, CommitExpired, RequestFails
        <4>2. QED
          BY <1>1, <4>1 DEF Holds, Idle
      <3>3. CASE ReadRow(r)
        <4>1. request'[q] \in {request[q], Idle, [request[q] EXCEPT !.pc = "stale"]}
          BY <1>1, <3>3 DEF ReadRow
        <4>2. request[q] \in RequestState
          BY <1>1
        <4>3. QED
          BY <1>1, <4>1, <4>2 DEF Holds, Idle, RequestState
      <3>4. QED
        BY <2>2, <3>1, <3>2, <3>3 DEF Request
    <2>3. CASE Crash
      BY <1>1, <2>3 DEF Crash, Holds, Idle
    <2>4. CASE UNCHANGED request
      BY <1>1, <2>4 DEF Holds
    <2>5. QED
      BY <1>1, <2>1, <2>2, <2>3, <2>4
         DEF Next, vars, Owner, InsertRow, CacheCopy, Created, PollRow, Wake, GiveUp, RunTool,
             CreateFails, Evict, Tick
  <1>2. ASSUME IInv, Next, NEW a \in Approvals, owner[a] = "gaveup"
        PROVE  \/ status'[a] \in {status[a], "expired"}
               \/ \E r \in Requests : /\ Holds(r, a) /\ ~Holds(r, a)'
                                      /\ status'[a] = request[r].decision
    <2> USE DEF IInv, TypeOK
    <2> DEFINE Told == \/ status'[a] \in {status[a], "expired"}
                       \/ \E r \in Requests : /\ Holds(r, a) /\ ~Holds(r, a)'
                                              /\ status'[a] = request[r].decision
    <2>1. ASSUME NEW b \in Approvals, InsertRow(b)
          PROVE  Told
      BY <1>2, <2>1 DEF InsertRow
    <2>2. ASSUME NEW r \in Requests, CommitVerdict(r)
          PROVE  Told
      <3>1. CASE request[r].on = a
        <4>1. request'[r] = [request[r] EXCEPT !.pc = "committed"] /\ request[r] \in RequestState
          BY <1>2, <2>2 DEF CommitVerdict
        <4>2. Holds(r, a) /\ ~Holds(r, a)'
          BY <1>2, <2>2, <3>1, <4>1 DEF CommitVerdict, Holds, RequestState
        <4>3. status'[a] = request[r].decision
          BY <1>2, <2>2, <3>1 DEF CommitVerdict
        <4>4. QED
          BY <4>2, <4>3
      <3>2. CASE request[r].on # a
        BY <1>2, <2>2, <3>2 DEF CommitVerdict
      <3>3. QED
        BY <3>1, <3>2
    <2>3. ASSUME NEW r \in Requests, CommitExpired(r)
          PROVE  Told
      BY <1>2, <2>3 DEF CommitExpired
    <2>4. ASSUME UNCHANGED status
          PROVE  Told
      BY <2>4
    <2> HIDE DEF Told, IInv, TypeOK
    <2>5. \/ \E b \in Approvals : InsertRow(b)
          \/ \E r \in Requests : CommitVerdict(r) \/ CommitExpired(r)
          \/ UNCHANGED status
      BY <1>2
         DEF Next, Owner, Request, CacheCopy, Created, PollRow, Wake, GiveUp, RunTool,
             CreateFails, Evict, DropCopy, Respond, ReadRow, RequestFails, Lookup, Tick, Crash
    <2>6. Told
      BY <2>1, <2>2, <2>3, <2>4, <2>5
    <2>7. QED
      BY <2>6 DEF Told
  <1>3. IInv /\ [Next]_vars
        => [\A a \in Approvals : owner[a] = "gaveup" =>
              /\ \A r \in Requests : Holds(r, a)' => Holds(r, a)
              /\ \/ status'[a] \in {status[a], "expired"}
                 \/ \E r \in Requests : /\ Holds(r, a) /\ ~Holds(r, a)'
                                        /\ status'[a] = request[r].decision]_vars
    <2> SUFFICES ASSUME IInv, Next, NEW a \in Approvals, owner[a] = "gaveup"
                 PROVE  /\ \A r \in Requests : Holds(r, a)' => Holds(r, a)
                        /\ \/ status'[a] \in {status[a], "expired"}
                           \/ \E r \in Requests : /\ Holds(r, a) /\ ~Holds(r, a)'
                                                  /\ status'[a] = request[r].decision
      OBVIOUS
    <2>1. ttl[a] = 0
      BY DEF IInv, GivesUpAfterCopy
    <2>2. QED
      BY <1>1, <1>2, <2>1
  <1>4. QED
    BY Invariance, <1>3, PTL DEF Spec, LateAnswersWereUnderWay

-----------------------------------------------------------------------------
(* The agents started by approving requests. *)

LEMMA ServingFinite ==
  ASSUME NEW a
  PROVE  /\ IsFiniteSet(Serving(a))
         /\ Cardinality(Serving(a)) \in Nat
  <1>1. IsFiniteSet(Requests) /\ Serving(a) \subseteq Requests
    BY RequestsAssumption DEF Serving
  <1>2. IsFiniteSet(Serving(a))
    BY <1>1, FS_Subset
  <1>3. QED
    BY <1>2, FS_CardinalityType

(* Once the copy was written and has gone it never comes back. *)
LEMMA GoneStaysGone ==
  ASSUME IInv, [Next]_vars, NEW a \in Approvals, owner[a] \notin {"new", "inserted"}
  PROVE  /\ owner'[a] \notin {"new", "inserted"}
         /\ ttl[a] = 0 => ttl'[a] = 0
  <1> USE DEF IInv, TypeOK
  <1>1. owner'[a] \notin {"new", "inserted"}
    <2> DEFINE Out == owner'[a] \notin {"new", "inserted"}
    <2>1. ASSUME NEW b \in Approvals, Owner(b) \/ CreateFails(b)
          PROVE Out
      BY <2>1 DEF Owner, InsertRow, CacheCopy, Created, PollRow, Wake, GiveUp, RunTool,
                  CreateFails, AfterRead
    <2>2. ASSUME Crash PROVE Out
      BY <2>2 DEF Crash
    <2>3. ASSUME UNCHANGED owner PROVE Out
      BY <2>3
    <2> HIDE DEF IInv, TypeOK, Out
    <2>4. \/ \E b \in Approvals : Owner(b) \/ CreateFails(b)
          \/ Crash
          \/ UNCHANGED owner
      <3>1. ASSUME NEW r \in Requests, Request(r) \/ RequestFails(r)
            PROVE UNCHANGED owner
        BY <3>1 DEF Request, CommitVerdict, DropCopy, Respond, ReadRow, CommitExpired,
                    RequestFails, ownerVars
      <3>2. ASSUME NEW r \in Requests, NEW b \in Approvals, NEW d \in Verdicts, Lookup(r, b, d)
            PROVE UNCHANGED owner
        BY <3>2 DEF Lookup, ownerVars
      <3>3. ASSUME NEW b \in Approvals, Evict(b)
            PROVE UNCHANGED owner
        BY <3>3 DEF Evict, ownerVars
      <3>4. QED
        BY <3>1, <3>2, <3>3 DEF Next, vars, Tick
    <2>5. Out
      BY <2>1, <2>2, <2>3, <2>4
    <2>6. QED
      BY <2>5 DEF Out
  <1>2. ASSUME ttl[a] = 0
        PROVE ttl'[a] = 0
    <2>1. ASSUME NEW b \in Approvals, CacheCopy(b)
          PROVE ttl'[a] = 0
      BY <1>2, <2>1 DEF CacheCopy
    <2>2. ASSUME NEW b \in Approvals, Evict(b)
          PROVE ttl'[a] = 0
      BY <1>2, <2>2 DEF Evict, WithoutCopy
    <2>3. ASSUME NEW r \in Requests, DropCopy(r)
          PROVE ttl'[a] = 0
      BY <1>2, <2>3 DEF DropCopy, WithoutCopy
    <2>4. CASE Tick
      BY <1>2, <2>4 DEF Tick, Less
    <2>5. CASE UNCHANGED ttl
      BY <1>2, <2>5
    <2>6. QED
      BY <2>1, <2>2, <2>3, <2>4, <2>5
         DEF Next, vars, Owner, Request, InsertRow, Created, PollRow, Wake, GiveUp, RunTool,
             CreateFails, CommitVerdict, Respond, ReadRow, CommitExpired, RequestFails,
             Lookup, Crash
  <1>3. QED
    BY <1>1, <1>2

(* What a step does to the requests that may still start an agent: only a     *)
(* Lookup that finds the copy adds one, only the one that answers removes the *)
(* copy, and only the one that responds starts an agent.                      *)
LEMMA ServingStep ==
  ASSUME IInv, [Next]_vars, NEW a \in Approvals
  PROVE  /\ \A r \in Serving(a)' \ Serving(a) :
              ttl[a] > 0 /\ request'[r].pc = "hit" /\ UNCHANGED <<ttl, started>>
         /\ \A r \in Serving(a)' :
              request'[r].pc = "answered" /\ request[r].pc # "answered" => ttl'[a] = 0
         /\ \/ started'[a] = started[a]
            \/ \E r \in Requests :
                 /\ request[r].pc = "answered" /\ request[r].on = a
                 /\ request'[r] = Idle
                 /\ started'[a] = Append(started[a], DefaultAgent)
  <1> USE DEF IInv, TypeOK, RequestState, ServedRequestHasTarget
  <1> DEFINE Joins == \A r \in Serving(a)' \ Serving(a) :
                        ttl[a] > 0 /\ request'[r].pc = "hit" /\ UNCHANGED <<ttl, started>>
             Drops == \A r \in Serving(a)' :
                        request'[r].pc = "answered" /\ request[r].pc # "answered" => ttl'[a] = 0
             Starts == \/ started'[a] = started[a]
                       \/ \E r \in Requests :
                            /\ request[r].pc = "answered" /\ request[r].on = a
                            /\ request'[r] = Idle
                            /\ started'[a] = Append(started[a], DefaultAgent)
  <1>1. ASSUME UNCHANGED <<request, started>>
        PROVE Joins /\ Drops /\ Starts
    BY <1>1 DEF Serving
  <1>2. ASSUME NEW r \in Requests, NEW b \in Approvals, NEW d \in Verdicts, Lookup(r, b, d)
        PROVE Joins /\ Drops /\ Starts
    BY <1>2 DEF Lookup, Serving
  <1>3. ASSUME NEW r \in Requests, CommitVerdict(r)
        PROVE Joins /\ Drops /\ Starts
    BY <1>3 DEF CommitVerdict, Serving
  <1>4. ASSUME NEW r \in Requests, DropCopy(r)
        PROVE Joins /\ Drops /\ Starts
    BY <1>4 DEF DropCopy, WithoutCopy, Serving
  <1>5. ASSUME NEW r \in Requests, Respond(r)
        PROVE Joins /\ Drops /\ Starts
    <2>1. request' = [request EXCEPT ![r] = Idle] /\ request[r].pc = "answered"
      BY <1>5 DEF Respond
    <2>2. Joins /\ Drops
      BY <2>1 DEF Serving, Idle
    <2>3. request[r].on \in Approvals /\ request'[r] = Idle
      BY <2>1
    <2>4. Starts
      BY <1>5, <2>1, <2>3 DEF Respond, RecoveredAgent
    <2>5. QED
      BY <2>2, <2>4
  <1>6. ASSUME NEW r \in Requests, ReadRow(r) \/ CommitExpired(r) \/ RequestFails(r)
        PROVE Joins /\ Drops /\ Starts
    <2>1. /\ \/ request' = [request EXCEPT ![r] = Idle]
             \/ request' = [request EXCEPT ![r] = [request[r] EXCEPT !.pc = "stale"]]
          /\ started' = started
      BY <1>6 DEF ReadRow, CommitExpired, RequestFails
    <2>2. CASE request' = [request EXCEPT ![r] = Idle]
      BY <2>1, <2>2 DEF Serving, Idle
    <2>3. CASE request' = [request EXCEPT ![r] = [request[r] EXCEPT !.pc = "stale"]]
      <3>1. request'[r].pc = "stale" /\ \A q \in Requests \ {r} : request'[q] = request[q]
        BY <2>3
      <3>2. Joins /\ Drops
        BY <3>1 DEF Serving
      <3>3. QED
        BY <2>1, <3>2
    <2>4. QED
      BY <2>1, <2>2, <2>3
  <1>7. ASSUME Crash
        PROVE Joins /\ Drops /\ Starts
    BY <1>7 DEF Crash, Serving, Idle
  <1> HIDE DEF Joins, Drops, Starts, IInv, TypeOK, RequestState, ServedRequestHasTarget
  <1>8. Joins /\ Drops /\ Starts
    <2>1. ASSUME NEW b \in Approvals, Owner(b) \/ CreateFails(b) \/ Evict(b)
          PROVE  UNCHANGED <<request, started>>
      BY <2>1 DEF Owner, InsertRow, CacheCopy, Created, PollRow, Wake, GiveUp, RunTool,
                  CreateFails, Evict
    <2>2. ASSUME UNCHANGED vars \/ Tick
          PROVE  UNCHANGED <<request, started>>
      BY <2>2 DEF vars, Tick
    <2>3. ASSUME NEW r \in Requests, Request(r)
          PROVE  Joins /\ Drops /\ Starts
      BY <2>3, <1>3, <1>4, <1>5, <1>6 DEF Request
    <2>4. QED
      BY <1>1, <1>2, <1>6, <1>7, <2>1, <2>2, <2>3 DEF Next
  <1>9. QED
    BY <1>8 DEF Joins, Drops, Starts

(* The count is inductive: started agents and requests that may still start   *)
(* one are never more than the requests that are made.                        *)
LEMMA RunsStep ==
  ASSUME IInv, [Next]_vars, NEW allowed \in SUBSET Requests, RunsCounted(allowed),
         \A r \in Requests \ allowed : request[r] = Idle /\ request'[r] = Idle
  PROVE  RunsCounted(allowed)'
  <1> SUFFICES ASSUME NEW a \in Approvals
               PROVE  /\ Serving(a)' # {} \/ started'[a] # <<>> => owner'[a] \notin {"new", "inserted"}
                      /\ started'[a] # <<>> => ttl'[a] = 0
                      /\ \A r \in Serving(a)' : request'[r].pc = "answered" => ttl'[a] = 0
                      /\ Len(started'[a]) + Cardinality(Serving(a)') <= Cardinality(allowed)
    BY DEF RunsCounted
  <1>1. /\ Serving(a) # {} \/ started[a] # <<>> => owner[a] \notin {"new", "inserted"}
        /\ started[a] # <<>> => ttl[a] = 0
        /\ \A r \in Serving(a) : request[r].pc = "answered" => ttl[a] = 0
        /\ Len(started[a]) + Cardinality(Serving(a)) <= Cardinality(allowed)
    BY DEF RunsCounted
  <1>2. /\ \A r \in Serving(a)' \ Serving(a) :
             ttl[a] > 0 /\ request'[r].pc = "hit" /\ UNCHANGED <<ttl, started>>
        /\ \A r \in Serving(a)' :
             request'[r].pc = "answered" /\ request[r].pc # "answered" => ttl'[a] = 0
        /\ \/ started'[a] = started[a]
           \/ \E r \in Requests :
                /\ request[r].pc = "answered" /\ request[r].on = a
                /\ request'[r] = Idle
                /\ started'[a] = Append(started[a], DefaultAgent)
    BY ServingStep
  <1>3. owner[a] \notin {"new", "inserted"}
          => owner'[a] \notin {"new", "inserted"} /\ (ttl[a] = 0 => ttl'[a] = 0)
    BY GoneStaysGone
  <1>4. ttl[a] > 0 => owner[a] \notin {"new", "inserted"}
    BY DEF IInv, CopyOutlivedByWait
  <1>5. /\ ttl[a] \in Nat /\ ttl'[a] \in Nat
        /\ started[a] \in Seq({RequestedAgent, DefaultAgent})
    BY TypeStep, TimesAssumption DEF IInv, TypeOK
  <1>6. \A r \in Requests : request[r].pc = "answered" /\ request[r].on = a => r \in Serving(a)
    BY DEF Serving
  <1>7. Serving(a)' # {} \/ started'[a] # <<>> => Serving(a) # {} \/ started[a] # <<>> \/ ttl[a] > 0
    BY <1>2, <1>6
  <1>8. owner'[a] \in {"new", "inserted"} => Serving(a)' = {} /\ started'[a] = <<>>
    BY <1>1, <1>3, <1>4, <1>7
  <1>9. started'[a] # <<>> => ttl'[a] = 0
    BY <1>1, <1>2, <1>3, <1>6
  <1>10. \A r \in Serving(a)' : request'[r].pc = "answered" => ttl'[a] = 0
    BY <1>1, <1>2, <1>3, <1>6 DEF Serving
  <1>11. Len(started'[a]) + Cardinality(Serving(a)') <= Cardinality(allowed)
    <2>1. /\ IsFiniteSet(allowed) /\ Cardinality(allowed) \in Nat
      <3>1. IsFiniteSet(Requests)
        BY RequestsAssumption
      <3>2. IsFiniteSet(allowed)
        BY <3>1, FS_Subset
      <3>3. QED
        BY <3>2, FS_CardinalityType
    <2>2. /\ IsFiniteSet(Serving(a)) /\ Cardinality(Serving(a)) \in Nat
      BY ServingFinite
    <2>3. Serving(a)' \subseteq allowed
      BY DEF Serving, Idle
    <2>4. IsFiniteSet(Serving(a)') /\ Cardinality(Serving(a)') <= Cardinality(allowed)
      BY <2>1, <2>3, FS_Subset
    <2>5. Cardinality(Serving(a)') \in Nat
      BY <2>4, FS_CardinalityType
    <2>6. Len(started[a]) \in Nat
      BY <1>5
    <2>7. CASE \E r \in Serving(a)' : r \notin Serving(a)
      <3>1. ttl[a] > 0 /\ started' = started
        BY <1>2, <2>7
      <3>2. started[a] = <<>>
        BY <1>1, <3>1
      <3>3. Len(started'[a]) = 0
        BY <3>1, <3>2
      <3>4. QED
        BY <2>1, <2>4, <2>5, <3>3
    <2>8. CASE Serving(a)' \subseteq Serving(a)
      <3>1. Cardinality(Serving(a)') <= Cardinality(Serving(a))
        BY <2>2, <2>8, FS_Subset
      <3>2. CASE started'[a] = started[a]
        BY <1>1, <2>1, <2>2, <2>5, <2>6, <3>1, <3>2
      <3>3. ASSUME NEW r \in Requests, request[r].pc = "answered", request[r].on = a,
                   request'[r] = Idle, started'[a] = Append(started[a], DefaultAgent)
            PROVE  Len(started'[a]) + Cardinality(Serving(a)') <= Cardinality(allowed)
        <4>1. r \in Serving(a) /\ r \notin Serving(a)'
          BY <1>6, <3>3 DEF Serving, Idle
        <4>2. IsFiniteSet(Serving(a) \ {r})
              /\ Cardinality(Serving(a) \ {r}) = Cardinality(Serving(a)) - 1
          BY <2>2, <4>1, FS_RemoveElement
        <4>3. Serving(a)' \subseteq Serving(a) \ {r}
          BY <2>8, <4>1
        <4>4. Cardinality(Serving(a)') <= Cardinality(Serving(a)) - 1
          BY <4>2, <4>3, FS_Subset
        <4>5. Len(started'[a]) = Len(started[a]) + 1
          BY <1>5, <3>3
        <4>6. QED
          BY <1>1, <2>1, <2>2, <2>5, <2>6, <4>4, <4>5
      <3>4. QED
        BY <1>2, <3>2, <3>3
    <2>9. QED
      BY <2>7, <2>8
  <1>12. QED
    BY <1>8, <1>9, <1>10, <1>11

LEMMA RunsInit ==
  ASSUME Init, NEW allowed \in SUBSET Requests
  PROVE  RunsCounted(allowed)
  <1>1. IsFiniteSet(Requests)
    BY RequestsAssumption
  <1>2. IsFiniteSet(allowed)
    BY <1>1, FS_Subset
  <1>3. Cardinality(allowed) \in Nat
    BY <1>2, FS_CardinalityType
  <1>4. ASSUME NEW a \in Approvals
        PROVE Serving(a) = {} /\ started[a] = <<>>
    BY DEF Init, Serving, Idle
  <1>5. Cardinality({}) = 0
    BY FS_EmptySet
  <1>6. ASSUME NEW a \in Approvals
        PROVE  Len(started[a]) + Cardinality(Serving(a)) <= Cardinality(allowed)
    <2>1. Len(started[a]) = 0 /\ Cardinality(Serving(a)) = 0
      BY <1>4, <1>5
    <2>2. QED
      BY <2>1, <1>3
  <1>7. QED
    BY <1>4, <1>6 DEF RunsCounted

(* What the count says of the agents started. *)
LEMMA RunsWithin ==
  ASSUME TypeOK, NEW allowed \in SUBSET Requests, RunsCounted(allowed), NEW a \in Approvals
  PROVE  Len(started[a]) \in Nat /\ Len(started[a]) <= Cardinality(allowed)
  <1>1. IsFiniteSet(Requests)
    BY RequestsAssumption
  <1>2. IsFiniteSet(allowed)
    BY <1>1, FS_Subset
  <1>3. Cardinality(allowed) \in Nat /\ Cardinality(Serving(a)) \in Nat
    BY <1>2, FS_CardinalityType, ServingFinite
  <1>4. Len(started[a]) \in Nat
    BY DEF TypeOK
  <1>5. Len(started[a]) + Cardinality(Serving(a)) <= Cardinality(allowed)
    BY DEF RunsCounted
  <1>6. QED
    BY <1>3, <1>4, <1>5

(* However many requests are made, one after another and interleaved, an       *)
(* approval starts no more agents than there are requests at one time.         *)
THEOREM OneRunPerRequest == Spec => []RunsBoundedByRequests
  <1>1. Init => IInv /\ RunsCounted(Requests)
    BY InitIInv, RunsInit
  <1>2. IInv /\ RunsCounted(Requests) /\ [Next]_vars => RunsCounted(Requests)'
    BY RunsStep
  <1>3. IInv /\ RunsCounted(Requests) => RunsBoundedByRequests
    BY RunsWithin DEF IInv, RunsBoundedByRequests
  <1>4. QED
    BY Invariance, <1>1, <1>2, <1>3, PTL DEF Spec

(* A single administrator's approval starts at most one agent, however often   *)
(* it is answered; in either situation the bound above holds.                  *)
THEOREM RunsAreBounded == MCSpec => []RunsBounded
  <1> DEFINE Alone == scope = "both kinds" =>
                        request[Spare] = Idle /\ RunsCounted(Requests \ {Spare})
             Inv == IInv /\ RunsCounted(Requests) /\ Alone
  <1>1. MCInit => Inv
    BY InitIInv, RunsInit, SpareAssumption DEF MCInit, Init
  <1>2. Inv /\ [MCNext]_<<vars, scope>> => Inv'
    <2> SUFFICES ASSUME Inv, [MCNext]_<<vars, scope>> PROVE Inv'
      OBVIOUS
    <2>1. [Next]_vars /\ UNCHANGED scope
      BY DEF MCNext
    <2>2. IInv'
      BY <2>1, TypeStep, TargetStep, VerdictStep, TimeStep DEF IInv
    <2>3. RunsCounted(Requests)'
      BY <2>1, RunsStep
    <2>4. ASSUME scope' = "both kinds"
          PROVE  request'[Spare] = Idle /\ RunsCounted(Requests \ {Spare})'
      <3>1. scope = "both kinds" /\ request[Spare] = Idle /\ RunsCounted(Requests \ {Spare})
        BY <2>1, <2>4
      <3>2. request'[Spare] = Idle
        BY <3>1, <2>1 DEF MCNext, Allowed, vars
      <3>3. \A r \in Requests \ (Requests \ {Spare}) : request[r] = Idle /\ request'[r] = Idle
        BY <3>1, <3>2
      <3>4. RunsCounted(Requests \ {Spare})'
        BY <2>1, <3>1, <3>3, RunsStep
      <3>5. QED
        BY <3>2, <3>4
    <2>5. QED
      BY <2>2, <2>3, <2>4
  <1>3. Inv => RunsBounded
    <2> SUFFICES ASSUME Inv PROVE RunsBounded
      OBVIOUS
    <2>1. RunsBoundedByRequests
      BY RunsWithin DEF IInv, RunsBoundedByRequests
    <2>2. ASSUME scope = "both kinds", NEW a \in Approvals
          PROVE  Len(started[a]) <= 1
      <3>1. Len(started[a]) \in Nat /\ Len(started[a]) <= Cardinality(Requests \ {Spare})
        BY <2>2, RunsWithin DEF IInv
      <3> HIDE DEF Inv, Alone
      <3>2. CASE Requests \ {Spare} = {}
        <4>1. Cardinality(Requests \ {Spare}) = 0
          BY <3>2, FS_EmptySet
        <4>2. QED
          BY <3>1, <4>1
      <3>3. CASE \E r : Requests \ {Spare} = {r}
        <4>1. Cardinality(Requests \ {Spare}) = 1
          BY <3>3, FS_Singleton
        <4>2. QED
          BY <3>1, <4>1
      <3>4. QED
        BY <3>2, <3>3, SpareAssumption
    <2>3. QED
      BY <2>1, <2>2 DEF RunsBounded
  <1> HIDE DEF Inv
  <1>4. QED
    BY <1>1, <1>2, <1>3, PTL DEF MCSpec
=============================================================================
