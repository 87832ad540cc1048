---------------------------- MODULE DaemonsProofs ----------------------------
(***************************************************************************)
(* Theorems about the daemons, for every number of messages, daemons, events *)
(* and failures: the inbox and its loop, the manager of the tasks, and the   *)
(* two together.  The steps of the composition are steps of each component   *)
(* (or the end of the loop), whose invariants are inductive: what is held    *)
(* was delivered, and what lives or is waited for is listed.                  *)
(***************************************************************************)
EXTENDS MCDaemons, RedisStream, FiniteSetTheorems, SequenceTheorems, TLAPS

-----------------------------------------------------------------------------
(* Reading the stream and trimming it. *)

(* One read b of the entries S behind the last-delivered id d makes e the new   *)
(* one; it divides S into what was read and what was not.                       *)
Read(d, S, n, b, e) ==
  /\ d \in Nat /\ S \subseteq Nat /\ (\A k \in S : k > d)
  /\ n \in Nat \ {0} /\ b \in Oldest(S, n) /\ e = Max({d} \cup ToSet(b))

Divided(d, S, n, b, e) ==
  /\ b \in Seq(S) /\ Len(b) <= n
  /\ e \in {d} \cup S /\ e \in Nat /\ d <= e
  /\ ToSet(b) \subseteq S
  /\ \A k \in S : k \in ToSet(b) <=> k <= e

LEMMA Reads ==
  ASSUME NEW d, NEW S, NEW n, NEW b, NEW e, Read(d, S, n, b, e)
  PROVE  Divided(d, S, n, b, e)
  <1> SUFFICES ASSUME d \in Nat, S \subseteq Nat, \A k \in S : k > d,
                      n \in Nat \ {0}, b \in Oldest(S, n), e = Max({d} \cup ToSet(b))
               PROVE  /\ b \in Seq(S) /\ Len(b) <= n
                      /\ e \in {d} \cup S /\ e \in Nat /\ d <= e
                      /\ ToSet(b) \subseteq S
                      /\ \A k \in S : k \in ToSet(b) <=> k <= e
    BY DEF Read, Divided
  <1>1. PICK m \in 0 .. n : b \in [1 .. m -> S]
    BY DEF Oldest, BoundedSeq, SeqOf
  <1>2. b \in Seq(S) /\ Len(b) = m /\ DOMAIN b = 1 .. m /\ m \in Nat
    BY <1>1
  <1>3. ToSet(b) \subseteq S
    BY <1>1 DEF ToSet
  <1>4. /\ \A i, j \in DOMAIN b : i < j => b[i] < b[j]
        /\ \A k \in S \ ToSet(b) : Len(b) = n /\ \A i \in DOMAIN b : b[i] < k
    BY DEF Oldest
  <1>5. CASE m = 0
    <2>1. ToSet(b) = {} /\ S \ ToSet(b) = S /\ Len(b) # n
      BY <1>1, <1>2, <1>5 DEF ToSet
    <2>2. S = {}
      BY <1>4, <2>1
    <2>3. e = d
      <3>1. {d} \cup ToSet(b) = {d}
        BY <2>1
      <3>2. (CHOOSE x \in {d} : \A y \in {d} : x >= y) = d
        OBVIOUS
      <3>3. QED
        BY <3>1, <3>2 DEF Max
    <2>4. QED
      BY <1>2, <1>5, <2>1, <2>2, <2>3
  <1>6. CASE m # 0
    <2>0. m \in DOMAIN b
      BY <1>2, <1>6
    <2>1. m \in DOMAIN b /\ b[m] \in S /\ b[m] \in ToSet(b) /\ b[m] \in Nat /\ b[m] > d
      BY <1>1, <1>2, <2>0 DEF ToSet
    <2>2. \A i \in DOMAIN b : b[i] <= b[m]
      <3>1. ASSUME NEW i \in DOMAIN b, i # m PROVE b[i] < b[m]
        <4>1. i < m
          BY <1>2, <3>1
        <4>2. QED
          BY <1>4, <2>1, <4>1
      <3>2. ASSUME NEW i \in DOMAIN b PROVE b[i] \in Nat
        BY <1>1, <1>2
      <3>3. QED
        BY <2>1, <3>1, <3>2
    <2>3. ASSUME NEW y \in {d} \cup ToSet(b) PROVE y \in Nat /\ b[m] >= y
      <3>1. CASE y = d
        BY <2>1, <3>1
      <3>2. CASE y \in ToSet(b)
        <4>1. PICK i \in DOMAIN b : y = b[i]
          BY <3>2 DEF ToSet
        <4>2. y \in Nat
          BY <1>3, <3>2
        <4>3. QED
          BY <2>1, <2>2, <4>1, <4>2
      <3>3. QED
        BY <3>1, <3>2
    <2>4. \A x \in {d} \cup ToSet(b) : (\A y \in {d} \cup ToSet(b) : x >= y) => x = b[m]
      BY <2>1, <2>3
    <2>5. e = b[m]
      <3> DEFINE M == {d} \cup ToSet(b)
      <3>1. b[m] \in M /\ (\A y \in M : b[m] >= y)
            /\ \A x \in M : (\A y \in M : x >= y) => x = b[m]
        BY <2>1, <2>3, <2>4
      <3>2. e = Max(M)
        OBVIOUS
      <3> HIDE DEF M
      <3>3. (CHOOSE x \in M : \A y \in M : x >= y) = b[m]
        BY <3>1
      <3>4. QED
        BY <3>2, <3>3 DEF Max
    <2>6. ASSUME NEW k \in S PROVE k \in ToSet(b) <=> k <= b[m]
      <3>1. k \notin ToSet(b) => b[m] < k
        BY <1>4, <2>1
      <3>2. k \in Nat /\ b[m] \in Nat
        BY <2>1
      <3>3. QED
        BY <2>3, <3>1, <3>2
    <2>7. ToSet(b) = {k \in S : k <= e}
      BY <1>3, <2>5, <2>6
    <2>8. Len(b) <= n /\ d <= e /\ e \in S
      BY <1>2, <2>1, <2>5
    <2>9. QED
      BY <1>2, <2>1, <2>5, <2>7, <2>8
  <1>7. QED
    BY <1>5, <1>6

(* An XADD with MAXLEN keeps the new entry, and drops no entry that has not at  *)
(* least MAXLEN later ones.                                                     *)
LEMMA Trims ==
  ASSUME NEW n \in Nat, NEW S, n \in S, S \subseteq 1 .. n,
         MaxLen \in Nat \ {0}, NEW T \in Inbox!Trimmed(S)
  PROVE  /\ T \subseteq S /\ n \in T
         /\ \A i \in S \ T : n - i >= MaxLen
  <1>1. /\ T \subseteq S
        /\ Cardinality(T) >= Min({MaxLen, Cardinality(S)})
        /\ \A i \in T, j \in S \ T : j < i
    BY DEF Inbox!Trimmed, Inbox!Cardinality, Cardinality, Inbox!Min, Min
  <1>2. IsFiniteSet(S) /\ IsFiniteSet(T)
    <2>1. IsFiniteSet(1 .. n)
      BY FS_Interval
    <2>2. QED
      BY <1>1, <2>1, FS_Subset
  <1>3. Cardinality(S) \in Nat /\ Cardinality(T) \in Nat /\ Cardinality(S) # 0
    BY <1>2, FS_CardinalityType, FS_EmptySet
  <1>4. Min({MaxLen, Cardinality(S)}) \in {MaxLen, Cardinality(S)}
    <2> DEFINE M == {MaxLen, Cardinality(S)}
    <2>1. \E x \in M : \A y \in M : x <= y
      BY <1>3
    <2> HIDE DEF M
    <2>2. Min(M) \in M
      BY <2>1 DEF Min
    <2>3. QED
      BY <2>2 DEF M
  <1>5. n \in T
    <2>1. Cardinality(T) # 0
      BY <1>1, <1>3, <1>4
    <2>2. PICK i \in T : TRUE
      BY <1>2, <2>1, FS_EmptySet
    <2>3. i \in 1 .. n
      BY <1>1, <2>2
    <2>4. QED
      BY <1>1, <2>2, <2>3
  <1>6. ASSUME NEW i \in S \ T PROVE n - i >= MaxLen
    <2>1. T # S
      BY <1>6
    <2>2. Cardinality(T) < Cardinality(S)
      <3>1. T \in SUBSET S
        BY <1>1
      <3>2. Cardinality(T) <= Cardinality(S) /\ (Cardinality(S) = Cardinality(T) => S = T)
        BY <1>2, <3>1, FS_Subset
      <3>3. QED
        BY <1>3, <2>1, <3>2
    <2>3. Cardinality(T) >= MaxLen
      BY <1>1, <1>3, <1>4, <2>2
    <2>4. i \in 1 .. n /\ T \subseteq (i + 1) .. n
      BY <1>1, <1>6
    <2>5. IsFiniteSet((i + 1) .. n) /\ Cardinality((i + 1) .. n) = IF i + 1 > n THEN 0 ELSE n - (i + 1) + 1
      BY <2>4, FS_Interval
    <2>6. Cardinality(T) <= Cardinality((i + 1) .. n)
      BY <2>4, <2>5, FS_Subset
    <2>7. Cardinality((i + 1) .. n) = n - i
      BY <2>4, <2>5
    <2>8. QED
      BY <1>3, <2>3, <2>4, <2>6, <2>7
  <1>7. QED
    BY <1>1, <1>5, <1>6

-----------------------------------------------------------------------------
(* The inbox. *)

(* A step of the inbox, or the end of the loop's task.                          *)
InboxStep == [Inbox!Next]_inboxVars \/ (Inbox!LoopGone /\ UNCHANGED inboxFaults)

(* The numbers of the inbox, as the provers need them.                          *)
LEMMA InboxTypes ==
  ASSUME Inbox!Consistent
  PROVE  /\ MaxMessages \in Nat /\ MaxLen \in Nat \ {0} /\ PerCycle \in Nat \ {0}
         /\ InboxFaults \in Nat
         /\ sent \in Nat /\ sent <= MaxMessages /\ delivered \in Nat /\ delivered <= sent
         /\ publishing \in Nat /\ wakeups \in Nat /\ publishing + wakeups <= sent
         /\ inboxFaults \in Nat
         /\ stream \subseteq 1 .. sent /\ pel \subseteq 1 .. delivered
         /\ batch \in Seq(1 .. sent) /\ Len(batch) \in Nat /\ DOMAIN batch = 1 .. Len(batch)
         /\ Inbox!ToSet(batch) = ToSet(batch)
         /\ Inbox!ToSet(batch) \subseteq 1 .. delivered
         /\ inTool \subseteq 1 .. delivered /\ seen \subseteq 1 .. delivered
         /\ 1 .. delivered \subseteq 1 .. sent /\ 1 .. delivered \subseteq Nat
  <1>1. /\ MaxMessages \in Nat /\ MaxLen \in Nat \ {0} /\ PerCycle \in Nat \ {0}
        /\ InboxFaults \in Nat
    BY DaemonsAssumption DEF Inbox!InboxAssumption
  <1>2. /\ sent \in Nat /\ sent <= MaxMessages /\ delivered \in Nat /\ delivered <= sent
        /\ publishing \in Nat /\ wakeups \in Nat /\ inboxFaults \in Nat
        /\ stream \subseteq 1 .. sent /\ pel \subseteq 1 .. delivered
        /\ batch \in Seq(1 .. sent)
    BY <1>1 DEF Inbox!Consistent, Inbox!TypeOK
  <1>3. Len(batch) \in Nat /\ DOMAIN batch = 1 .. Len(batch)
    BY <1>2, LenProperties
  <1>4. /\ publishing + wakeups <= sent
        /\ Inbox!ToSet(batch) \cup inTool \cup seen \subseteq 1 .. delivered
    BY DEF Inbox!Consistent, Inbox!HeldInCycle
  <1>5. Inbox!ToSet(batch) = ToSet(batch)
    BY DEF Inbox!ToSet, ToSet
  <1>6. 1 .. delivered \subseteq 1 .. sent /\ 1 .. delivered \subseteq Nat
    BY <1>2
  <1>7. QED
    BY <1>1, <1>2, <1>3, <1>4, <1>5, <1>6

(* One read of the inbox, by the loop or by the tool.                           *)
LEMMA InboxReads ==
  ASSUME Inbox!Consistent, NEW b \in Inbox!Oldest(Inbox!Deliverable, PerCycle),
         Inbox!Deliver(b)
  PROVE  /\ b \in Seq(1 .. sent) /\ Len(b) <= PerCycle
         /\ delivered' \in Nat /\ delivered <= delivered' /\ delivered' <= sent
         /\ Inbox!ToSet(b) = {k \in Inbox!Fresh : k <= delivered'}
         /\ Inbox!ToSet(b) \subseteq 1 .. delivered'
         /\ \A k \in Inbox!ToSet(b) : k > delivered
         /\ pel' = pel \cup Inbox!ToSet(b)
  <1> DEFINE S == Inbox!Fresh
  <1>1. /\ sent \in Nat /\ delivered \in Nat /\ delivered <= sent
        /\ PerCycle \in Nat \ {0} /\ stream \subseteq 1 .. sent
    BY InboxTypes
  <1>0. 1 .. sent \subseteq Nat
    BY <1>1
  <1>2. S \subseteq 1 .. sent /\ S \subseteq Nat /\ \A k \in S : k > delivered
    BY <1>0, <1>1 DEF Inbox!Fresh
  <1>3. b \in Oldest(S, PerCycle)
    BY DEF Inbox!Deliverable, Inbox!Oldest, Oldest, Inbox!BoundedSeq, BoundedSeq,
           Inbox!SeqOf, SeqOf, Inbox!ToSet, ToSet
  <1>4. /\ delivered' = Max({delivered} \cup ToSet(b))
        /\ pel' = pel \cup Inbox!ToSet(b) /\ Inbox!ToSet(b) = ToSet(b)
    BY DEF Inbox!Deliver, Inbox!ToSet, ToSet, Inbox!Max, Max
  <1>5. /\ b \in Seq(S) /\ Len(b) <= PerCycle
        /\ delivered' \in {delivered} \cup S /\ delivered' \in Nat /\ delivered <= delivered'
        /\ ToSet(b) = {k \in S : k <= delivered'}
    <2>1. Read(delivered, S, PerCycle, b, delivered')
      BY <1>1, <1>2, <1>3, <1>4 DEF Read
    <2>2. Divided(delivered, S, PerCycle, b, delivered')
      BY <2>1, Reads
    <2>3. QED
      BY <2>2 DEF Divided
  <1>6. b \in Seq(1 .. sent)
    BY <1>2, <1>5, SeqMonotonic
  <1>7. delivered' <= sent
    BY <1>1, <1>2, <1>5
  <1>8. ASSUME NEW k \in ToSet(b) PROVE k \in 1 .. delivered' /\ k > delivered
    <2>1. k \in S /\ k <= delivered' /\ k \in Nat /\ k > delivered
      BY <1>2, <1>5
    <2>2. QED
      BY <1>1, <1>5, <2>1
  <1>9. QED
    BY <1>4, <1>5, <1>6, <1>7, <1>8

LEMMA InboxInit == Inbox!Init => Inbox!Consistent
  <1> SUFFICES ASSUME Inbox!Init PROVE Inbox!Consistent
    OBVIOUS
  <1>1. MaxMessages \in Nat /\ InboxFaults \in Nat /\ PerCycle \in Nat
    BY DaemonsAssumption DEF Inbox!InboxAssumption
  <1>2. Inbox!ToSet(batch) = {} /\ Len(batch) = 0 /\ batch \in Seq(1 .. sent)
    BY EmptySeq DEF Inbox!Init, Inbox!ToSet
  <1>3. Inbox!TypeOK
    BY <1>1, <1>2 DEF Inbox!Init, Inbox!TypeOK, Inbox!LoopPc
  <1>4. Inbox!RemovedOnlyIfSeenOrFull /\ Inbox!NeverHeldTwice /\ Inbox!HeldInCycle
    BY <1>2 DEF Inbox!Init, Inbox!RemovedOnlyIfSeenOrFull, Inbox!NeverHeldTwice, Inbox!HeldInCycle
  <1>5. QED
    BY <1>3, <1>4 DEF Inbox!Consistent

(* Numbers of the notifications.                                                *)
LEMMA Counts ==
  ASSUME NEW s \in Nat, NEW p \in Nat, NEW w \in Nat, p + w <= s
  PROVE  /\ p \in 0 .. s /\ w \in 0 .. s /\ p + 0 <= s
         /\ p > 0 => p - 1 \in Nat /\ (p - 1) + w <= s /\ (p - 1) + (w + 1) <= s
         /\ w > 0 => w - 1 \in Nat /\ p + (w - 1) <= s
  OBVIOUS

(* A step that does not touch the stream, the batch or the messages.            *)
LEMMA LoopMoves ==
  ASSUME Inbox!Consistent, UNCHANGED <<sent, stream, delivered, pel, batch, inTool, seen>>,
         publishing' \in Nat, wakeups' \in Nat, publishing' + wakeups' <= sent,
         loop' \in Inbox!LoopPc,
         \/ loop' \notin {"executing", "acking"} /\ (loop \in {"executing", "acking"} => batch = <<>>)
         \/ loop' = loop,
         inHours' \in BOOLEAN, inboxFaults' \in 0 .. InboxFaults
  PROVE  Inbox!Consistent'
  <1>1. sent \in Nat
    BY InboxTypes
  <1>2. publishing' \in 0 .. sent /\ wakeups' \in 0 .. sent
    <2>1. \A p, w \in Nat : p + w <= sent => p \in 0 .. sent /\ w \in 0 .. sent
      BY <1>1
    <2>2. QED
      BY <2>1
  <1>3. Inbox!TypeOK'
    BY <1>2 DEF Inbox!Consistent, Inbox!TypeOK
  <1>4. Inbox!RemovedOnlyIfSeenOrFull' /\ Inbox!NeverHeldTwice'
    BY DEF Inbox!Consistent, Inbox!RemovedOnlyIfSeenOrFull, Inbox!NeverHeldTwice
  <1>5. Inbox!HeldInCycle'
    BY DEF Inbox!Consistent, Inbox!HeldInCycle
  <1>6. QED
    BY <1>3, <1>4, <1>5 DEF Inbox!Consistent

(* A read by the loop keeps what is held apart.                                 *)
LEMMA ReadInboxStep == Inbox!Consistent /\ Inbox!ReadInbox => Inbox!Consistent'
  <1> SUFFICES ASSUME Inbox!Consistent, Inbox!ReadInbox PROVE Inbox!Consistent'
    OBVIOUS
  <1>1. /\ sent \in Nat /\ delivered \in Nat /\ stream \subseteq 1 .. sent
        /\ pel \subseteq 1 .. delivered /\ inTool \subseteq 1 .. delivered
        /\ seen \subseteq 1 .. delivered
    BY InboxTypes
  <1>2. /\ loop = "reading" /\ loop' = "executing"
        /\ batch' \in Inbox!Oldest(Inbox!Deliverable, PerCycle) /\ Inbox!Deliver(batch')
        /\ UNCHANGED <<sent, stream, publishing, wakeups, inTool, seen, inHours, inboxFaults>>
    BY DEF Inbox!ReadInbox
  <1>3. /\ batch' \in Seq(1 .. sent) /\ Len(batch') <= PerCycle
        /\ delivered' \in Nat /\ delivered <= delivered' /\ delivered' <= sent
        /\ Inbox!ToSet(batch') \subseteq 1 .. delivered'
        /\ \A k \in Inbox!ToSet(batch') : k > delivered
        /\ pel' = pel \cup Inbox!ToSet(batch')
    BY <1>2, InboxReads
  <1>4. 1 .. delivered \subseteq 1 .. delivered'
    BY <1>1, <1>3
  <1>5. Inbox!TypeOK'
    <2>1. delivered' \in 0 .. sent
      BY <1>1, <1>3
    <2>2. pel' \subseteq 1 .. delivered'
      BY <1>1, <1>3, <1>4
    <2>3. QED
      BY <1>2, <1>3, <2>1, <2>2 DEF Inbox!Consistent, Inbox!TypeOK, Inbox!LoopPc
  <1>6. Inbox!RemovedOnlyIfSeenOrFull'
    BY <1>2 DEF Inbox!Consistent, Inbox!RemovedOnlyIfSeenOrFull
  <1>7. Inbox!NeverHeldTwice'
    <2>1. ASSUME NEW k \in Inbox!ToSet(batch'), k \in inTool PROVE FALSE
      <3>1. k \in 1 .. delivered /\ k > delivered
        BY <1>1, <1>3, <2>1
      <3>2. QED
        BY <1>1, <3>1
    <2>2. Inbox!ToSet(batch)' = Inbox!ToSet(batch')
      BY DEF Inbox!ToSet
    <2>3. QED
      BY <1>2, <2>1, <2>2 DEF Inbox!NeverHeldTwice
  <1>8. Inbox!HeldInCycle'
    <2>1. Inbox!ToSet(batch)' = Inbox!ToSet(batch')
      BY DEF Inbox!ToSet
    <2>2. Inbox!ToSet(batch') \cup inTool \cup seen \subseteq 1 .. delivered'
      BY <1>1, <1>3, <1>4
    <2>3. QED
      BY <1>2, <2>1, <2>2 DEF Inbox!Consistent, Inbox!HeldInCycle
  <1>9. QED
    BY <1>5, <1>6, <1>7, <1>8 DEF Inbox!Consistent

(* And so does one by the tool.                                                 *)
LEMMA ToolReadsStep == Inbox!Consistent /\ Inbox!ToolReads => Inbox!Consistent'
  <1> SUFFICES ASSUME Inbox!Consistent, Inbox!ToolReads PROVE Inbox!Consistent'
    OBVIOUS
  <1>1. /\ sent \in Nat /\ delivered \in Nat /\ stream \subseteq 1 .. sent
        /\ pel \subseteq 1 .. delivered /\ seen \subseteq 1 .. delivered
        /\ Inbox!ToSet(batch) \subseteq 1 .. delivered
    BY InboxTypes
  <1>2. PICK b \in Inbox!Oldest(Inbox!Deliverable, PerCycle) :
          inTool' = Inbox!ToSet(b) /\ Inbox!Deliver(b)
    BY DEF Inbox!ToolReads
  <1>a. UNCHANGED <<sent, stream, publishing, wakeups, loop, batch, seen, inHours, inboxFaults>>
    BY DEF Inbox!ToolReads
  <1>3. /\ delivered' \in Nat /\ delivered <= delivered' /\ delivered' <= sent
        /\ inTool' \subseteq 1 .. delivered'
        /\ \A k \in inTool' : k > delivered
        /\ pel' = pel \cup inTool'
    BY <1>2, InboxReads
  <1>4. 1 .. delivered \subseteq 1 .. delivered' /\ 1 .. delivered' \subseteq 1 .. sent
    BY <1>1, <1>3
  <1>5. Inbox!TypeOK'
    <2>1. delivered' \in 0 .. sent /\ inTool' \subseteq 1 .. sent
      BY <1>1, <1>3, <1>4
    <2>2. pel' \subseteq 1 .. delivered'
      BY <1>1, <1>3, <1>4
    <2>3. QED
      BY <1>a, <2>1, <2>2 DEF Inbox!Consistent, Inbox!TypeOK
  <1>6. Inbox!RemovedOnlyIfSeenOrFull'
    BY <1>a DEF Inbox!Consistent, Inbox!RemovedOnlyIfSeenOrFull
  <1>7. Inbox!NeverHeldTwice'
    <2>1. ASSUME NEW k \in Inbox!ToSet(batch), k \in inTool' PROVE FALSE
      <3>1. k \in 1 .. delivered /\ k > delivered
        BY <1>1, <1>3, <2>1
      <3>2. QED
        BY <1>1, <3>1
    <2>2. Inbox!ToSet(batch)' = Inbox!ToSet(batch)
      BY <1>a DEF Inbox!ToSet
    <2>3. QED
      BY <2>1, <2>2 DEF Inbox!NeverHeldTwice
  <1>8. Inbox!HeldInCycle'
    <2>1. Inbox!ToSet(batch)' = Inbox!ToSet(batch)
      BY <1>a DEF Inbox!ToSet
    <2>2. Inbox!ToSet(batch) \cup inTool' \cup seen \subseteq 1 .. delivered'
      BY <1>1, <1>3, <1>4
    <2>3. QED
      BY <1>a, <2>1, <2>2 DEF Inbox!Consistent, Inbox!HeldInCycle
  <1>9. QED
    BY <1>5, <1>6, <1>7, <1>8 DEF Inbox!Consistent

(* A message that is added may push out others, the oldest first.               *)
LEMMA AddMessageStep == Inbox!Consistent /\ Inbox!AddMessage => Inbox!Consistent'
  <1> SUFFICES ASSUME Inbox!Consistent, Inbox!AddMessage PROVE Inbox!Consistent'
    OBVIOUS
  <1>1. /\ MaxMessages \in Nat /\ MaxLen \in Nat \ {0} /\ sent \in Nat /\ sent < MaxMessages
        /\ delivered \in Nat /\ delivered <= sent /\ stream \subseteq 1 .. sent
        /\ publishing \in Nat /\ wakeups \in Nat /\ publishing + wakeups <= sent
        /\ batch \in Seq(1 .. sent)
    BY InboxTypes DEF Inbox!AddMessage
  <1>2. /\ sent' = sent + 1 /\ publishing' = publishing + 1
        /\ stream' \in Inbox!Trimmed(stream \cup {sent + 1})
        /\ UNCHANGED <<delivered, pel, wakeups, loop, batch, inTool, seen, inHours, inboxFaults>>
    BY DEF Inbox!AddMessage
  <1>3. 1 .. sent \subseteq 1 .. sent' /\ sent' \in Nat
    BY <1>1, <1>2
  <1>4. stream \cup {sent + 1} \subseteq 1 .. sent' /\ sent' \in stream \cup {sent + 1}
    BY <1>1, <1>2, <1>3
  <1>5. /\ stream' \subseteq stream \cup {sent + 1}
        /\ \A i \in (stream \cup {sent + 1}) \ stream' : sent' - i >= MaxLen
    <2> DEFINE S == stream \cup {sent + 1}
    <2>1. sent' \in Nat /\ sent' \in S /\ S \subseteq 1 .. sent' /\ MaxLen \in Nat \ {0}
          /\ stream' \in Inbox!Trimmed(S)
      BY <1>1, <1>2, <1>3, <1>4
    <2> HIDE DEF S
    <2>2. stream' \subseteq S /\ \A i \in S \ stream' : sent' - i >= MaxLen
      BY <2>1, Trims
    <2>3. QED
      BY <2>2 DEF S
  <1>6. Inbox!TypeOK'
    <2>1. sent' \in 0 .. MaxMessages /\ publishing' \in 0 .. sent' /\ wakeups' \in 0 .. sent'
          /\ delivered' \in 0 .. sent'
      BY <1>1, <1>2
    <2>2. stream' \subseteq 1 .. sent'
      BY <1>4, <1>5
    <2>3. batch' \in Seq(1 .. sent')
      BY <1>1, <1>2, <1>3, SeqMonotonic
    <2>4. inTool' \subseteq 1 .. sent' /\ seen' \subseteq 1 .. sent'
      BY <1>2, <1>3 DEF Inbox!Consistent, Inbox!TypeOK
    <2>5. QED
      BY <1>2, <2>1, <2>2, <2>3, <2>4 DEF Inbox!Consistent, Inbox!TypeOK
  <1>7. Inbox!RemovedOnlyIfSeenOrFull'
    <2>1. ASSUME NEW i \in 1 .. sent', i \notin stream'
          PROVE  i \in seen' \/ sent' - i >= MaxLen
      <3>1. CASE i \in stream \cup {sent + 1}
        BY <1>5, <2>1, <3>1
      <3>2. CASE i \notin stream \cup {sent + 1}
        <4>1. i \in 1 .. sent /\ i \in Nat
          BY <1>1, <1>2, <3>2
        <4>2. i \in seen \/ sent - i >= MaxLen
          BY <3>2, <4>1 DEF Inbox!Consistent, Inbox!RemovedOnlyIfSeenOrFull
        <4>3. QED
          BY <1>1, <1>2, <4>1, <4>2
      <3>3. QED
        BY <3>1, <3>2
    <2>2. QED
      BY <2>1 DEF Inbox!RemovedOnlyIfSeenOrFull
  <1>8. Inbox!NeverHeldTwice'
    BY <1>2 DEF Inbox!Consistent, Inbox!NeverHeldTwice, Inbox!ToSet
  <1>9. Inbox!HeldInCycle'
    <2>1. publishing' + wakeups' <= sent'
      BY <1>1, <1>2
    <2>2. QED
      BY <1>2, <2>1 DEF Inbox!Consistent, Inbox!HeldInCycle, Inbox!ToSet
  <1>10. QED
    BY <1>6, <1>7, <1>8, <1>9 DEF Inbox!Consistent

(* An execution returns, and its messages are acknowledged.                     *)
LEMMA CycleStep ==
  Inbox!Consistent /\ (Inbox!ExecutionReturns \/ Inbox!AckMessage) => Inbox!Consistent'
  <1>1. ASSUME Inbox!Consistent, Inbox!ExecutionReturns PROVE Inbox!Consistent'
    <2>1. /\ loop' = (IF batch = <<>> THEN "waiting" ELSE "acking")
          /\ seen' = seen \cup Inbox!ToSet(batch)
          /\ UNCHANGED <<sent, stream, delivered, pel, publishing, wakeups, batch, inTool, inHours,
                         inboxFaults>>
      BY <1>1 DEF Inbox!ExecutionReturns, Inbox!streamVars
    <2>2. Inbox!ToSet(batch)' = Inbox!ToSet(batch)
      BY <2>1 DEF Inbox!ToSet
    <2>3. seen' \subseteq 1 .. delivered /\ 1 .. delivered \subseteq 1 .. sent
      BY <1>1, <2>1, InboxTypes
    <2>4. Inbox!TypeOK'
      BY <1>1, <2>1, <2>3 DEF Inbox!Consistent, Inbox!TypeOK, Inbox!LoopPc
    <2>5. Inbox!RemovedOnlyIfSeenOrFull' /\ Inbox!NeverHeldTwice'
      BY <1>1, <2>1, <2>2 DEF Inbox!Consistent, Inbox!RemovedOnlyIfSeenOrFull, Inbox!NeverHeldTwice
    <2>6. Inbox!HeldInCycle'
      BY <1>1, <2>1, <2>2, <2>3 DEF Inbox!Consistent, Inbox!HeldInCycle
    <2>7. QED
      BY <2>4, <2>5, <2>6 DEF Inbox!Consistent
  <1>2. ASSUME Inbox!Consistent, Inbox!AckMessage PROVE Inbox!Consistent'
    <2>1. /\ loop = "acking" /\ batch' = Tail(batch) /\ pel' \subseteq pel
          /\ stream' = stream \ {Head(batch)}
          /\ loop' = (IF Len(batch) = 1 THEN "waiting" ELSE "acking")
          /\ UNCHANGED <<sent, delivered, publishing, wakeups, inTool, seen, inHours, inboxFaults>>
      BY <1>2 DEF Inbox!AckMessage, Inbox!Deletes
    <2>2. batch # <<>> /\ Inbox!ToSet(batch) \subseteq seen
      BY <1>2, <2>1 DEF Inbox!Consistent, Inbox!HeldInCycle
    <2>3. batch \in Seq(1 .. sent) /\ Len(batch) \in Nat /\ Len(batch) # 0
      BY <1>2, <2>2, InboxTypes, EmptySeq
    <2>4. /\ Tail(batch) \in Seq(1 .. sent) /\ Len(Tail(batch)) = Len(batch) - 1
          /\ \A i \in 1 .. Len(Tail(batch)) : Tail(batch)[i] = batch[i + 1]
      BY <2>2, <2>3, HeadTailProperties
    <2>5. /\ DOMAIN batch = 1 .. Len(batch) /\ DOMAIN Tail(batch) = 1 .. Len(Tail(batch))
          /\ \A i \in 1 .. Len(Tail(batch)) : i + 1 \in 1 .. Len(batch)
          /\ 1 \in DOMAIN batch /\ Head(batch) = batch[1]
      BY <2>2, <2>3, <2>4, HeadTailProperties, LenProperties
    <2>6. /\ Inbox!ToSet(batch)' = Inbox!ToSet(Tail(batch))
          /\ Inbox!ToSet(Tail(batch)) \subseteq Inbox!ToSet(batch)
          /\ Head(batch) \in Inbox!ToSet(batch)
      BY <2>1, <2>4, <2>5 DEF Inbox!ToSet
    <2>7. Len(batch) # 1 => Tail(batch) # <<>>
      BY <2>3, <2>4, EmptySeq
    <2>8. Len(batch) = 1 => Tail(batch) = <<>>
      <3>1. Tail(batch) \in Seq(1 .. sent)
        BY <2>4
      <3>2. Len(batch) = 1 => Len(Tail(batch)) = 0
        BY <2>4
      <3>3. QED
        BY <3>1, <3>2, EmptySeq, Zenon
    <2>9. Inbox!TypeOK'
      <3>1. Len(batch') <= PerCycle
        BY <1>2, <2>1, <2>3, <2>4, InboxTypes DEF Inbox!Consistent, Inbox!TypeOK
      <3>2. QED
        BY <1>2, <2>1, <2>4, <3>1 DEF Inbox!Consistent, Inbox!TypeOK, Inbox!LoopPc
    <2>10. Inbox!RemovedOnlyIfSeenOrFull' /\ Inbox!NeverHeldTwice'
      BY <1>2, <2>1, <2>2, <2>6 DEF Inbox!Consistent, Inbox!RemovedOnlyIfSeenOrFull, Inbox!NeverHeldTwice
    <2>11. Inbox!HeldInCycle'
      BY <1>2, <2>1, <2>2, <2>6, <2>7, <2>8 DEF Inbox!Consistent, Inbox!HeldInCycle
    <2>12. QED
      BY <2>9, <2>10, <2>11 DEF Inbox!Consistent
  <1>3. QED
    BY <1>1, <1>2

(* A step that forgets the batch of the loop.                                   *)
LEMMA ForgetsBatch ==
  ASSUME Inbox!Consistent, batch' = <<>>, loop' \in {"waiting", "off"},
         UNCHANGED <<sent, stream, delivered, pel, publishing, inTool, seen, inHours>>,
         wakeups' \in {0, wakeups}, inboxFaults' \in 0 .. InboxFaults
  PROVE  Inbox!Consistent'
  <1>1. /\ sent \in Nat /\ publishing \in Nat /\ wakeups \in Nat /\ publishing + wakeups <= sent
        /\ PerCycle \in Nat
    BY InboxTypes
  <1>2. /\ Inbox!ToSet(batch)' = {} /\ Len(batch') = 0 /\ batch' \in Seq(1 .. sent)
    BY EmptySeq DEF Inbox!ToSet
  <1>3. wakeups' \in 0 .. sent /\ publishing' + wakeups' <= sent
    <2>1. wakeups' = 0 \/ wakeups' = wakeups
      OBVIOUS
    <2>2. publishing' = publishing
      OBVIOUS
    <2>3. \A s, p, w, v \in Nat : p + w <= s /\ (v = 0 \/ v = w) => v \in 0 .. s /\ p + v <= s
      OBVIOUS
    <2>4. wakeups' \in Nat
      BY <1>1, <2>1
    <2>5. QED
      BY <1>1, <2>1, <2>2, <2>3, <2>4, Zenon
  <1>4. Inbox!TypeOK'
    BY <1>1, <1>2, <1>3 DEF Inbox!Consistent, Inbox!TypeOK, Inbox!LoopPc
  <1>5. Inbox!RemovedOnlyIfSeenOrFull' /\ Inbox!NeverHeldTwice'
    BY <1>2 DEF Inbox!Consistent, Inbox!RemovedOnlyIfSeenOrFull, Inbox!NeverHeldTwice
  <1>6. Inbox!HeldInCycle'
    BY <1>2, <1>3 DEF Inbox!Consistent, Inbox!HeldInCycle
  <1>7. QED
    BY <1>4, <1>5, <1>6 DEF Inbox!Consistent

(* The tool's call ends.                                                        *)
LEMMA ToolEnds ==
  ASSUME Inbox!Consistent, inTool' = {}, seen' \subseteq seen \cup inTool, seen \subseteq seen',
         UNCHANGED <<sent, stream, delivered, pel, publishing, wakeups, loop, batch, inHours>>,
         inboxFaults' \in 0 .. InboxFaults
  PROVE  Inbox!Consistent'
  <1>1. /\ inTool \subseteq 1 .. delivered /\ seen \subseteq 1 .. delivered
        /\ 1 .. delivered \subseteq 1 .. sent
    BY InboxTypes
  <1>2. Inbox!ToSet(batch)' = Inbox!ToSet(batch)
    BY DEF Inbox!ToSet
  <1>3. Inbox!TypeOK'
    BY <1>1 DEF Inbox!Consistent, Inbox!TypeOK
  <1>4. Inbox!RemovedOnlyIfSeenOrFull' /\ Inbox!NeverHeldTwice'
    BY <1>2 DEF Inbox!Consistent, Inbox!RemovedOnlyIfSeenOrFull, Inbox!NeverHeldTwice
  <1>5. Inbox!HeldInCycle'
    BY <1>1, <1>2 DEF Inbox!Consistent, Inbox!HeldInCycle
  <1>6. QED
    BY <1>3, <1>4, <1>5 DEF Inbox!Consistent

LEMMA InboxStepKeeps == Inbox!Consistent /\ InboxStep => Inbox!Consistent'
  <1> SUFFICES ASSUME Inbox!Consistent, InboxStep PROVE Inbox!Consistent'
    OBVIOUS
  <1>0. /\ sent \in Nat /\ publishing \in Nat /\ wakeups \in Nat /\ publishing + wakeups <= sent
        /\ InboxFaults \in Nat /\ inboxFaults \in Nat
    BY InboxTypes
  <1>a. /\ loop \in Inbox!LoopPc /\ inHours \in BOOLEAN /\ inboxFaults \in 0 .. InboxFaults
        /\ loop \notin {"executing", "acking"} => batch = <<>>
    BY DEF Inbox!Consistent, Inbox!TypeOK, Inbox!HeldInCycle
  <1>b. \A f \in Nat : f < InboxFaults => f + 1 \in 0 .. InboxFaults
    BY <1>0
  <1>1. ASSUME Inbox!Notify \/ Inbox!NotifyFails PROVE Inbox!Consistent'
    <2>1. /\ publishing > 0 /\ publishing' = publishing - 1
          /\ wakeups' \in {wakeups, wakeups + 1}
          /\ inboxFaults' = inboxFaults \/ (inboxFaults < InboxFaults /\ inboxFaults' = inboxFaults + 1)
          /\ UNCHANGED <<sent, stream, delivered, pel, batch, inTool, seen, loop, inHours>>
      BY <1>1 DEF Inbox!Notify, Inbox!NotifyFails, Inbox!streamVars
    <2>2. publishing' \in Nat /\ wakeups' \in Nat /\ publishing' + wakeups' <= sent
      <3>1. wakeups' = wakeups \/ wakeups' = wakeups + 1
        BY <2>1
      <3>2. /\ publishing - 1 \in Nat /\ wakeups + 1 \in Nat
            /\ (publishing - 1) + wakeups <= sent /\ (publishing - 1) + (wakeups + 1) <= sent
        BY <1>0, <2>1, Counts
      <3>3. publishing' = publishing - 1
        BY <2>1
      <3>4. QED
        BY <1>0, <3>1, <3>2, <3>3
    <2>3. QED
      BY <1>0, <1>a, <1>b, <2>1, <2>2, LoopMoves
  <1>2. ASSUME \/ Inbox!StartLoop \/ Inbox!Subscribe \/ Inbox!WakeByMessage \/ Inbox!WakeByTick
               \/ Inbox!SleepOver \/ Inbox!ClockMoves \/ UNCHANGED inboxVars
        PROVE  Inbox!Consistent'
    <2>1. /\ wakeups' \in {0, wakeups} \/ (wakeups > 0 /\ wakeups' = wakeups - 1)
          /\ UNCHANGED <<sent, stream, delivered, pel, publishing, batch, inTool, seen, inboxFaults>>
          /\ \/ loop' = loop
             \/ /\ loop \notin {"executing", "acking"}
                /\ loop' \in {"starting", "waiting", "reading", "outside"}
      BY <1>2 DEF Inbox!StartLoop, Inbox!Subscribe, Inbox!WakeByMessage, Inbox!WakeByTick,
                  Inbox!SleepOver, Inbox!ClockMoves, Inbox!AfterWaking, Inbox!streamVars, inboxVars
    <2>2. inHours' \in BOOLEAN
      BY <1>2, <1>a, Zenon DEF Inbox!StartLoop, Inbox!Subscribe, Inbox!WakeByMessage, Inbox!WakeByTick,
                  Inbox!SleepOver, Inbox!ClockMoves, inboxVars
    <2>3. publishing' \in Nat /\ wakeups' \in Nat /\ publishing' + wakeups' <= sent
      BY <1>0, <2>1
    <2>4. loop' \in Inbox!LoopPc
      BY <1>a, <2>1 DEF Inbox!LoopPc
    <2>5. \/ loop' \notin {"executing", "acking"} /\ (loop \in {"executing", "acking"} => batch = <<>>)
          \/ loop' = loop
      BY <2>1
    <2>6. QED
      BY <1>a, <2>1, <2>2, <2>3, <2>4, <2>5, LoopMoves
  <1>3. ASSUME \/ Inbox!CycleFails \/ Inbox!LoopEnds
               \/ Inbox!LoopGone /\ UNCHANGED inboxFaults
        PROVE  Inbox!Consistent'
    <2>1. /\ batch' = <<>> /\ loop' \in {"waiting", "off"} /\ wakeups' \in {0, wakeups}
          /\ UNCHANGED <<sent, stream, delivered, pel, publishing, inTool, seen, inHours>>
          /\ inboxFaults' = inboxFaults \/ (inboxFaults < InboxFaults /\ inboxFaults' = inboxFaults + 1)
      BY <1>3 DEF Inbox!CycleFails, Inbox!LoopEnds, Inbox!LoopGone, Inbox!streamVars
    <2>2. QED
      BY <1>0, <1>a, <1>b, <2>1, ForgetsBatch
  <1>4. ASSUME Inbox!ToolReturns \/ Inbox!ToolFails PROVE Inbox!Consistent'
    <2>1. /\ inTool' = {} /\ seen' \subseteq seen \cup inTool /\ seen \subseteq seen'
          /\ UNCHANGED <<sent, stream, delivered, pel, publishing, wakeups, loop, batch, inHours>>
          /\ inboxFaults' = inboxFaults \/ (inboxFaults < InboxFaults /\ inboxFaults' = inboxFaults + 1)
      BY <1>4 DEF Inbox!ToolReturns, Inbox!ToolFails, Inbox!streamVars
    <2>2. QED
      BY <1>0, <1>a, <1>b, <2>1, ToolEnds
  <1>5. QED
    BY <1>1, <1>2, <1>3, <1>4, ReadInboxStep, ToolReadsStep, AddMessageStep, CycleStep
       DEF InboxStep, Inbox!Next, Inbox!Loop, Inbox!Cycle, Inbox!Around

-----------------------------------------------------------------------------
(* The steps of the three scopes, for the inbox. *)

LEMMA Bounds ==
  /\ JointMessages \in Nat /\ MaxMessages \in Nat /\ JointMessages <= MaxMessages
  /\ JointEvents \in Nat /\ MaxEvents \in Nat /\ JointEvents <= MaxEvents
  /\ JointFaults \in Nat /\ InboxFaults \in Nat /\ JointFaults <= InboxFaults
  /\ ManagerFaults \in Nat /\ JointFaults <= ManagerFaults
  /\ Served \in Daemons
  BY DaemonsAssumption DEF Inbox!InboxAssumption, Manager!ManagerAssumption

(* With the manager the inbox does what it does alone, within lower bounds.     *)
LEMMA JointInboxSteps ==
  ASSUME sent \in Nat, inboxFaults \in Nat
  PROVE  /\ JointInbox!AddMessage => Inbox!AddMessage
         /\ JointInbox!Notify => Inbox!Notify
         /\ JointInbox!CycleFails => Inbox!CycleFails
         /\ JointInbox!LoopEnds => Inbox!LoopEnds
         /\ JointInbox!LoopGone => Inbox!LoopGone
         /\ JointInbox!StartLoop => Inbox!StartLoop
         /\ JointInbox!WakeByMessage => Inbox!WakeByMessage
         /\ JointInbox!WakeByTick => Inbox!WakeByTick
         /\ JointInbox!Cycle => Inbox!Cycle
         /\ JointInbox!SleepOver => Inbox!SleepOver
         /\ JointInbox!ClockMoves => Inbox!ClockMoves
  <1>0. JointInbox!LoopGone => Inbox!LoopGone
    BY DEF JointInbox!LoopGone, Inbox!LoopGone, JointInbox!streamVars, Inbox!streamVars
  <1>1. JointInbox!AddMessage => Inbox!AddMessage
    <2>1. sent < JointMessages => sent < MaxMessages
      BY Bounds
    <2>2. \A S : JointInbox!Trimmed(S) = Inbox!Trimmed(S)
      BY DEF JointInbox!Trimmed, Inbox!Trimmed, JointInbox!Min, Inbox!Min,
             JointInbox!Cardinality, Inbox!Cardinality
    <2>3. QED
      BY <2>1, <2>2 DEF JointInbox!AddMessage, Inbox!AddMessage
  <1>2. JointInbox!Notify => Inbox!Notify
    BY DEF JointInbox!Notify, Inbox!Notify, JointInbox!Subscribed, Inbox!Subscribed,
           JointInbox!streamVars, Inbox!streamVars
  <1>3. inboxFaults < JointFaults => inboxFaults < InboxFaults
    BY Bounds
  <1>4. JointInbox!CycleFails => Inbox!CycleFails
    BY <1>3 DEF JointInbox!CycleFails, Inbox!CycleFails, JointInbox!streamVars, Inbox!streamVars
  <1>5. JointInbox!LoopEnds => Inbox!LoopEnds
    BY <1>0, <1>3 DEF JointInbox!LoopEnds, Inbox!LoopEnds
  <1>6. /\ JointInbox!StartLoop => Inbox!StartLoop
        /\ JointInbox!WakeByMessage => Inbox!WakeByMessage
        /\ JointInbox!WakeByTick => Inbox!WakeByTick
        /\ JointInbox!SleepOver => Inbox!SleepOver
        /\ JointInbox!Subscribe => Inbox!Subscribe
        /\ JointInbox!ClockMoves => Inbox!ClockMoves
    BY DEF JointInbox!StartLoop, Inbox!StartLoop, JointInbox!WakeByMessage, Inbox!WakeByMessage,
           JointInbox!WakeByTick, Inbox!WakeByTick, JointInbox!SleepOver, Inbox!SleepOver,
           JointInbox!Subscribe, Inbox!Subscribe, JointInbox!ClockMoves, Inbox!ClockMoves,
           JointInbox!AfterWaking, Inbox!AfterWaking, JointInbox!Ticks, Inbox!Ticks,
           JointInbox!streamVars, Inbox!streamVars
  <1>7. JointInbox!ReadInbox => Inbox!ReadInbox
    BY DEF JointInbox!ReadInbox, Inbox!ReadInbox, JointInbox!Oldest, Inbox!Oldest,
           JointInbox!BoundedSeq, Inbox!BoundedSeq, JointInbox!SeqOf, Inbox!SeqOf,
           JointInbox!ToSet, Inbox!ToSet, JointInbox!Deliverable, Inbox!Deliverable,
           JointInbox!Fresh, Inbox!Fresh, JointInbox!Deliver, Inbox!Deliver,
           JointInbox!Max, Inbox!Max
  <1>8. JointInbox!ExecutionReturns => Inbox!ExecutionReturns
    BY DEF JointInbox!ExecutionReturns, Inbox!ExecutionReturns, JointInbox!ToSet, Inbox!ToSet,
           JointInbox!streamVars, Inbox!streamVars
  <1>9. JointInbox!AckMessage => Inbox!AckMessage
    BY DEF JointInbox!AckMessage, Inbox!AckMessage, JointInbox!Deletes, Inbox!Deletes
  <1>10. QED
    BY <1>0, <1>1, <1>2, <1>4, <1>5, <1>6, <1>7, <1>8, <1>9 DEF JointInbox!Cycle, Inbox!Cycle

LEMMA InboxSteps == Inbox!Consistent /\ [Next]_vars => InboxStep
  <1> SUFFICES ASSUME Inbox!Consistent, [Next]_vars PROVE InboxStep
    OBVIOUS
  <1>0. sent \in Nat /\ inboxFaults \in Nat
    BY InboxTypes
  <1>1. CASE UNCHANGED vars
    BY <1>1 DEF vars, bothVars, InboxStep
  <1>2. CASE scope = "inbox" /\ Inbox!Next
    BY <1>2 DEF InboxStep
  <1>3. CASE scope = "manager" /\ Manager!Next /\ UNCHANGED inboxVars
    BY <1>3 DEF InboxStep
  <1>4. CASE Together
    <2>1. CASE Manages
      BY <1>0, <2>1, JointInboxSteps DEF Manages, TaskTakesLoop, InboxStep
    <2>2. CASE RunsLoop
      BY <1>0, <2>2, JointInboxSteps DEF RunsLoop, InboxStep, Inbox!Next, Inbox!Loop
    <2>3. CASE LoopReturns
      BY <1>0, <2>3, JointInboxSteps DEF LoopReturns, JointInbox!StopLoop, InboxStep
    <2>4. CASE WakesByMessage \/ WakesByTick \/ LoopWorks
      BY <1>0, <2>4, JointInboxSteps DEF WakesByMessage, WakesByTick, LoopWorks, InboxStep,
                                         Inbox!Next, Inbox!Loop
    <2>5. CASE Recovers
      BY <2>5 DEF Recovers, InboxStep
    <2>6. CASE LoopRaises
      BY <1>0, <2>6, JointInboxSteps DEF LoopRaises, InboxStep, Inbox!Next
    <2>7. CASE ClockMoves \/ JointInbox!AddMessage \/ JointInbox!Notify \/ JointInbox!CycleFails
      BY <1>0, <2>7, JointInboxSteps DEF ClockMoves, InboxStep, Inbox!Next, Inbox!Around
    <2>8. QED
      BY <1>4, <2>1, <2>2, <2>3, <2>4, <2>5, <2>6, <2>7, Zenon DEF Together, DaemonTask
  <1>5. QED
    BY <1>1, <1>2, <1>3, <1>4, Zenon DEF Next

LEMMA InboxInvariance == Spec => []Inbox!Consistent
  <1>1. Init => Inbox!Consistent
    BY InboxInit DEF Init
  <1>2. Inbox!Consistent /\ [Next]_vars => Inbox!Consistent'
    BY InboxSteps, InboxStepKeeps
  <1>3. QED
    BY <1>1, <1>2, PTL DEF Spec

-----------------------------------------------------------------------------
(* The inbox keeps the promise of a lossy AtMostOnceQueue. *)

Fate == [i \in Inbox!Messages |-> Inbox!FateOf(i)]

(* The fate of one message before and after a step.                             *)
LEMMA FateCases ==
  ASSUME NEW i \in Inbox!Messages
  PROVE  /\ Fate[i] = IF i > sent THEN "none" ELSE
                      IF i \in seen THEN "done" ELSE
                      IF i \in stream /\ i > delivered THEN "queued" ELSE
                      IF i \in Inbox!ToSet(batch) \cup inTool THEN "taken" ELSE "lost"
         /\ Fate'[i] = IF i > sent' THEN "none" ELSE
                       IF i \in seen' THEN "done" ELSE
                       IF i \in stream' /\ i > delivered' THEN "queued" ELSE
                       IF i \in Inbox!ToSet(batch') \cup inTool' THEN "taken" ELSE "lost"
  <1>1. /\ i \in Inbox!Fresh <=> i \in stream /\ i > delivered
        /\ i \in Inbox!Fresh' <=> i \in stream' /\ i > delivered'
        /\ Inbox!ToSet(batch)' = Inbox!ToSet(batch')
    BY DEF Inbox!Fresh, Inbox!ToSet
  <1>2. Fate[i] = IF i > sent THEN "none" ELSE
                  IF i \in seen THEN "done" ELSE
                  IF i \in stream /\ i > delivered THEN "queued" ELSE
                  IF i \in Inbox!ToSet(batch) \cup inTool THEN "taken" ELSE "lost"
    BY <1>1 DEF Fate, Inbox!FateOf
  <1>3. Fate'[i] = IF i > sent' THEN "none" ELSE
                   IF i \in seen' THEN "done" ELSE
                   IF i \in stream' /\ i > delivered' THEN "queued" ELSE
                   IF i \in Inbox!ToSet(batch') \cup inTool' THEN "taken" ELSE "lost"
    <2>1. Fate'[i] = Inbox!FateOf(i)'
      BY DEF Fate, Inbox!Messages
    <2>2. QED
      BY <1>1, <2>1 DEF Inbox!FateOf
  <1>4. QED
    BY <1>2, <1>3

(* And from the invariant of the inbox.                                         *)
LEMMA FateIs ==
  ASSUME Inbox!Consistent, NEW i \in Inbox!Messages
  PROVE  /\ i \in Nat
         /\ Fate[i] = "none"   <=> i > sent
         /\ Fate[i] = "done"   <=> i \in seen
         /\ Fate[i] = "queued" <=> i \in stream /\ i > delivered
         /\ Fate[i] = "taken"  <=> i \in (Inbox!ToSet(batch) \cup inTool) \ seen
         /\ Fate[i] = "lost"   <=> \/ i <= delivered /\ i \notin seen \cup Inbox!ToSet(batch) \cup inTool
                                   \/ i \in ((delivered + 1) .. sent) \ stream
  <1>1. /\ sent \in Nat /\ delivered \in Nat /\ delivered <= sent /\ MaxMessages \in Nat
        /\ stream \subseteq 1 .. sent
        /\ inTool \subseteq 1 .. delivered /\ seen \subseteq 1 .. delivered
        /\ Inbox!ToSet(batch) \subseteq 1 .. delivered
    BY InboxTypes
  <1>2. i \in Nat /\ i >= 1
    BY <1>1 DEF Inbox!Messages
  <1>3. \A k \in 1 .. delivered : k \in Nat /\ k <= delivered /\ k <= sent
    BY <1>1
  <1>4. i \in seen \cup inTool \cup Inbox!ToSet(batch) => i <= delivered /\ i <= sent
    BY <1>1, <1>3
  <1>5. i \in stream => i <= sent
    BY <1>1
  <1>6. i \in (delivered + 1) .. sent <=> i > delivered /\ i <= sent
    BY <1>1, <1>2
  <1>7. QED
    BY <1>1, <1>2, <1>4, <1>5, <1>6, FateCases

LEMMA PromiseInit == Inbox!Init => Inbox!Promise!Init
  <1> SUFFICES ASSUME Inbox!Init PROVE Inbox!Promise!Init
    OBVIOUS
  <1>1. sent = 0 /\ Inbox!Consistent
    BY InboxInit DEF Inbox!Init
  <1>2. \A i \in Inbox!Messages : Fate[i] = "none"
    <2>1. \A i \in Inbox!Messages : i > 0
      BY Bounds DEF Inbox!Messages
    <2>2. QED
      BY <1>1, <2>1, FateIs
  <1>3. QED
    BY <1>1, <1>2 DEF Inbox!Promise!Init, Inbox!Promise!Items, Fate, Inbox!Messages

(* A step that changes the fate of the messages in S only, to f.                *)
LEMMA BecomeIs ==
  ASSUME NEW S, NEW f, \A i \in Inbox!Messages : Fate'[i] = IF i \in S THEN f ELSE Fate[i]
  PROVE  Fate' = Inbox!Promise!Become(S, f)
  <1>1. Inbox!Promise!Become(S, f) = [i \in Inbox!Messages |-> IF i \in S THEN f ELSE Fate[i]]
    BY DEF Inbox!Promise!Become, Inbox!Promise!Items, Inbox!Messages, Fate
  <1>2. Fate' = [i \in Inbox!Messages |-> Fate'[i]]
    BY DEF Fate, Inbox!Messages
  <1>3. QED
    BY <1>1, <1>2

LEMMA SameFate ==
  ASSUME \A i \in Inbox!Messages : Fate'[i] = Fate[i]
  PROVE  Fate' = Fate
  <1>1. Fate' = [i \in Inbox!Messages |-> Fate'[i]] /\ Fate = [i \in Inbox!Messages |-> Fate[i]]
    BY DEF Fate, Inbox!Messages
  <1>2. QED
    BY <1>1

(* Every read takes the oldest messages that are queued, all the read gave.     *)
LEMMA ReadTakes ==
  ASSUME Inbox!Consistent, NEW b \in Inbox!Oldest(Inbox!Deliverable, PerCycle),
         Inbox!Deliver(b), UNCHANGED <<sent, stream, seen>>,
         \/ batch = <<>> /\ batch' = b /\ inTool' = inTool
         \/ inTool = {} /\ inTool' = Inbox!ToSet(b) /\ batch' = batch
  PROVE  Inbox!Promise!Next
  <1> DEFINE S == Inbox!ToSet(b)
  <1>a. /\ sent \in Nat /\ sent <= MaxMessages /\ MaxMessages \in Nat /\ delivered \in Nat
        /\ delivered <= sent
        /\ stream \subseteq 1 .. sent /\ seen \subseteq 1 .. delivered
        /\ inTool \subseteq 1 .. delivered
        /\ Inbox!ToSet(batch) \subseteq 1 .. delivered /\ 1 .. delivered \subseteq Nat
    BY InboxTypes
  <1>b. /\ delivered' \in Nat /\ delivered <= delivered' /\ delivered' <= sent
        /\ S = {k \in Inbox!Fresh : k <= delivered'}
    BY InboxReads
  <1>1. ASSUME NEW i \in Inbox!Messages
        PROVE  i \in S <=> i \in stream /\ i > delivered /\ i <= delivered'
    BY <1>b DEF Inbox!Fresh
  <1>2. S \subseteq Inbox!Messages
    <2>1. 1 .. sent \subseteq Inbox!Messages
      BY <1>a DEF Inbox!Messages
    <2>2. QED
      BY <1>a, <1>b, <2>1 DEF Inbox!Fresh
  <1>3. Inbox!ToSet(batch') \cup inTool' = Inbox!ToSet(batch) \cup inTool \cup S
    <2>1. batch = <<>> => Inbox!ToSet(batch) = {}
      BY DEF Inbox!ToSet
    <2>2. QED
      BY <2>1
  <1> HIDE DEF S
  <1>4. ASSUME NEW i \in Inbox!Messages
        PROVE  Fate'[i] = IF i \in S THEN "taken" ELSE Fate[i]
    <2>1. i \in Nat
      BY FateIs
    <2>2. i \in seen \cup inTool \cup Inbox!ToSet(batch) => i <= delivered
      BY <1>a
    <2>3. i \in stream => i <= sent
      BY <1>a
    <2>4. CASE i \in S
      <3>1. i \in stream /\ i > delivered /\ i <= delivered' /\ i \notin seen /\ i <= sent
        BY <1>1, <1>a, <2>1, <2>2, <2>3, <2>4
      <3>2. i \in Inbox!ToSet(batch') \cup inTool' /\ ~(i > sent) /\ ~(i > delivered')
        BY <1>3, <1>a, <1>b, <2>1, <2>4, <3>1
      <3>3. Fate'[i] = "taken"
        BY <3>1, <3>2, FateCases
      <3>4. QED
        BY <2>4, <3>3
    <2>5. CASE i \notin S
      <3>1. i \in stream /\ i > delivered <=> i \in stream /\ i > delivered'
        BY <1>1, <1>a, <1>b, <2>1, <2>5
      <3>2. i \in Inbox!ToSet(batch') \cup inTool' <=> i \in Inbox!ToSet(batch) \cup inTool
        BY <1>3, <2>5
      <3>3. Fate'[i] = Fate[i]
        BY <3>1, <3>2, FateCases
      <3>4. QED
        BY <2>5, <3>3
    <2>6. QED
      BY <2>4, <2>5
  <1>5. Fate' = Inbox!Promise!Become(S, "taken")
    BY <1>4, BecomeIs
  <1>6. Inbox!Promise!Items = Inbox!Messages
    BY DEF Inbox!Promise!Items, Inbox!Messages
  <1>7. Inbox!Promise!In("queued") = {i \in Inbox!Messages : i \in stream /\ i > delivered}
    BY <1>6, FateIs DEF Inbox!Promise!In, Fate
  <1>8. S \subseteq Inbox!Promise!In("queued")
    BY <1>1, <1>2, <1>7
  <1>9. ASSUME NEW i \in S, NEW j \in Inbox!Promise!In("queued") \ S
        PROVE  i < j
    <2>1. i \in Inbox!Messages /\ j \in Inbox!Messages /\ j \in stream /\ j > delivered /\ j \notin S
      BY <1>2, <1>7
    <2>2. i \in Nat /\ j \in Nat
      BY <2>1, FateIs
    <2>3. i <= delivered' /\ ~(j <= delivered')
      BY <1>1, <2>1
    <2>4. QED
      BY <1>b, <2>2, <2>3
  <1>10. Inbox!Promise!Take(S)
    BY <1>5, <1>8, <1>9 DEF Inbox!Promise!Take, Fate
  <1>11. QED
    BY <1>2, <1>6, <1>10 DEF Inbox!Promise!Next

(* A message is put; those the stream drops and nobody took are lost.           *)
LEMMA AddMessagePuts ==
  Inbox!Consistent /\ Inbox!AddMessage => Inbox!Promise!Next
  <1> SUFFICES ASSUME Inbox!Consistent, Inbox!AddMessage PROVE Inbox!Promise!Next
    OBVIOUS
  <1> DEFINE S == {i \in Inbox!Messages : i \in stream \ stream' /\ i > delivered /\ i <= sent}
  <1>a. /\ MaxMessages \in Nat /\ sent \in Nat /\ sent < MaxMessages
        /\ delivered \in Nat /\ delivered <= sent
        /\ stream \subseteq 1 .. sent /\ seen \subseteq 1 .. delivered
        /\ 1 .. delivered \subseteq Nat /\ MaxLen \in Nat \ {0}
    BY InboxTypes DEF Inbox!AddMessage
  <1>b. /\ sent' = sent + 1 /\ stream' \in Inbox!Trimmed(stream \cup {sent + 1})
        /\ UNCHANGED <<delivered, batch, inTool, seen>>
    BY DEF Inbox!AddMessage
  <1>c. stream' \subseteq stream \cup {sent + 1} /\ sent + 1 \in stream'
    <2> DEFINE T == stream \cup {sent + 1}
    <2>1. /\ sent + 1 \in Nat /\ sent + 1 \in T /\ T \subseteq 1 .. (sent + 1)
          /\ stream' \in Inbox!Trimmed(T)
      BY <1>a, <1>b
    <2> HIDE DEF T
    <2>2. stream' \subseteq T /\ sent + 1 \in stream'
      BY <1>a, <2>1, Trims
    <2>3. QED
      BY <2>2 DEF T
  <1>1. sent + 1 \in Inbox!Messages
    BY <1>a DEF Inbox!Messages
  <1>2. ASSUME NEW i \in Inbox!Messages
        PROVE  Fate'[i] = IF i = sent + 1 THEN "queued" ELSE
                          IF i \in S THEN "lost" ELSE Fate[i]
    <2>1. i \in Nat /\ (i \in seen => i <= delivered) /\ (i \in stream => i <= sent)
      BY <1>a, FateIs
    <2>2. CASE i = sent + 1
      <3>1. i \notin seen /\ ~(i > sent') /\ i > delivered' /\ i \in stream'
        BY <1>a, <1>b, <1>c, <2>1, <2>2
      <3>2. QED
        BY <1>b, <2>2, <3>1, FateCases
    <2>3. CASE i # sent + 1
      <3>1. (i > sent' <=> i > sent) /\ (i \in stream' => i \in stream)
        BY <1>a, <1>b, <1>c, <2>1, <2>3
      <3>2. CASE i \in S
        <4>1. ~(i > sent') /\ i \notin seen' /\ i \notin stream' /\ ~(i <= delivered)
          BY <1>a, <1>b, <2>1, <3>1, <3>2
        <4>2. i \notin Inbox!ToSet(batch') \cup inTool'
          <5>1. Inbox!ToSet(batch') \cup inTool' = Inbox!ToSet(batch) \cup inTool
            BY <1>b
          <5>2. Inbox!ToSet(batch) \cup inTool \subseteq 1 .. delivered
            BY InboxTypes
          <5>3. QED
            BY <1>a, <2>1, <4>1, <5>1, <5>2
        <4>3. Fate'[i] = "lost"
          BY <4>1, <4>2, FateCases
        <4>4. QED
          BY <2>3, <3>2, <4>3
      <3>3. CASE i \notin S
        <4>1. i \in stream' /\ i > delivered <=> i \in stream /\ i > delivered
          BY <1>a, <2>1, <3>1, <3>3
        <4>2. Inbox!ToSet(batch') \cup inTool' = Inbox!ToSet(batch) \cup inTool
          BY <1>b
        <4>3. Fate'[i] = Fate[i]
          BY <1>b, <3>1, <4>1, <4>2, FateCases
        <4>4. QED
          BY <2>3, <3>3, <4>3
      <3>4. QED
        BY <3>2, <3>3
    <2>4. QED
      BY <2>2, <2>3
  <1>3. Inbox!Promise!Items = Inbox!Messages
    BY DEF Inbox!Promise!Items, Inbox!Messages
  <1>4. S \subseteq Inbox!Messages /\ S \subseteq Inbox!Promise!In("queued")
    BY <1>3, FateIs DEF Inbox!Promise!In, Fate
  <1> HIDE DEF S
  <1>5. Fate' = [Inbox!Promise!Become(S, "lost") EXCEPT ![sent + 1] = "queued"]
    <2>1. Inbox!Promise!Become(S, "lost") = [i \in Inbox!Messages |-> IF i \in S THEN "lost" ELSE Fate[i]]
      BY DEF Inbox!Promise!Become, Inbox!Promise!Items, Inbox!Messages, Fate
    <2>2. Fate' = [i \in Inbox!Messages |-> Fate'[i]]
      BY DEF Fate, Inbox!Messages
    <2>3. QED
      BY <1>1, <1>2, <2>1, <2>2
  <1>6. Inbox!Promise!PutAndLose(S)
    BY <1>a, <1>b, <1>4, <1>5 DEF Inbox!Promise!PutAndLose, Fate
  <1>7. QED
    BY <1>3, <1>4, <1>6 DEF Inbox!Promise!Next

(* What an execution, or the agent through its tool, was given is done.         *)
LEMMA ReturnFinishes ==
  ASSUME Inbox!Consistent, NEW S, S \subseteq Inbox!ToSet(batch) \cup inTool,
         seen' = seen \cup S, Inbox!ToSet(batch') \cup inTool' \cup S = Inbox!ToSet(batch) \cup inTool,
         UNCHANGED <<sent, stream, delivered>>
  PROVE  Inbox!Promise!Next
  <1> DEFINE T == {i \in Inbox!Messages : i \in S \ seen}
  <1>a. /\ sent \in Nat /\ sent <= MaxMessages /\ delivered \in Nat /\ delivered <= sent
        /\ S \subseteq 1 .. delivered /\ S \subseteq Inbox!Messages
    BY InboxTypes, Bounds DEF Inbox!Messages
  <1>1. ASSUME NEW i \in Inbox!Messages
        PROVE  Fate'[i] = IF i \in T THEN "done" ELSE Fate[i]
    <2>1. i \in Nat /\ (i \in S => i <= sent)
      BY <1>a, FateIs
    <2>2. CASE i \in S
      <3>1. Fate'[i] = "done"
        BY <1>a, <2>1, <2>2, FateCases
      <3>2. i \notin T => Fate[i] = "done"
        BY <2>2, FateIs
      <3>3. QED
        BY <3>1, <3>2
    <2>3. CASE i \notin S
      <3>1. /\ i \in Inbox!ToSet(batch') \cup inTool' <=> i \in Inbox!ToSet(batch) \cup inTool
            /\ i \in seen' <=> i \in seen
        BY <2>3
      <3>2. QED
        BY <2>3, <3>1, FateCases
    <2>4. QED
      BY <2>2, <2>3
  <1>2. Fate' = Inbox!Promise!Become(T, "done")
    BY <1>1, BecomeIs
  <1>3. Inbox!Promise!Items = Inbox!Messages
    BY DEF Inbox!Promise!Items, Inbox!Messages
  <1>4. T \subseteq Inbox!Promise!In("taken")
    BY <1>3, FateIs DEF Inbox!Promise!In, Fate
  <1>5. Inbox!Promise!Finish(T)
    BY <1>2, <1>4 DEF Inbox!Promise!Finish, Fate
  <1>6. QED
    BY <1>3, <1>5 DEF Inbox!Promise!Next

(* What was held and is forgotten is lost.                                      *)
LEMMA ForgettingLoses ==
  ASSUME Inbox!Consistent,
         Inbox!ToSet(batch') \cup inTool' \subseteq Inbox!ToSet(batch) \cup inTool,
         UNCHANGED <<sent, stream, delivered, seen>>
  PROVE  Inbox!Promise!Next
  <1> DEFINE S == {i \in Inbox!Messages : Fate[i] = "taken" /\ i \notin Inbox!ToSet(batch') \cup inTool'}
  <1>1. ASSUME NEW i \in Inbox!Messages
        PROVE  Fate'[i] = IF i \in S THEN "lost" ELSE Fate[i]
    BY FateCases
  <1>2. Fate' = Inbox!Promise!Become(S, "lost")
    BY <1>1, BecomeIs
  <1>3. Inbox!Promise!Items = Inbox!Messages
    BY DEF Inbox!Promise!Items, Inbox!Messages
  <1>4. S \subseteq Inbox!Promise!In("taken")
    BY <1>3 DEF Inbox!Promise!In, Fate
  <1>5. Inbox!Promise!Lose(S)
    BY <1>2, <1>4 DEF Inbox!Promise!Lose, Fate
  <1>6. QED
    BY <1>3, <1>5 DEF Inbox!Promise!Next

(* An acknowledged message stays done.                                          *)
LEMMA AckKeepsFate ==
  Inbox!Consistent /\ Inbox!AckMessage => UNCHANGED <<sent, Fate>>
  <1> SUFFICES ASSUME Inbox!Consistent, Inbox!AckMessage PROVE UNCHANGED <<sent, Fate>>
    OBVIOUS
  <1>1. /\ batch' = Tail(batch) /\ stream' = stream \ {Head(batch)}
        /\ batch # <<>> /\ Inbox!ToSet(batch) \subseteq seen
        /\ UNCHANGED <<sent, delivered, inTool, seen>>
    BY DEF Inbox!AckMessage, Inbox!Deletes, Inbox!Consistent, Inbox!HeldInCycle
  <1>2. batch \in Seq(1 .. sent) /\ Len(batch) \in Nat
    BY InboxTypes
  <1>3. Inbox!ToSet(batch) = Inbox!ToSet(batch') \cup {Head(batch)}
    <2>1. /\ Tail(batch) \in Seq(1 .. sent) /\ Len(Tail(batch)) = Len(batch) - 1
          /\ \A i \in 1 .. Len(Tail(batch)) : Tail(batch)[i] = batch[i + 1]
          /\ Head(batch) = batch[1] /\ Len(batch) # 0
      BY <1>1, <1>2, HeadTailProperties, EmptySeq
    <2>2. DOMAIN batch = 1 .. Len(batch) /\ DOMAIN Tail(batch) = 1 .. Len(Tail(batch))
      BY <1>2, <2>1, LenProperties
    <2>3. 1 \in DOMAIN batch /\ \A i \in DOMAIN batch : i = 1 \/ i - 1 \in DOMAIN Tail(batch)
      BY <1>2, <2>1, <2>2
    <2>4. \A i \in DOMAIN Tail(batch) : i + 1 \in DOMAIN batch /\ Tail(batch)[i] = batch[i + 1]
      BY <1>2, <2>1, <2>2
    <2>5. \A i \in DOMAIN batch : i = 1 \/ (i - 1 \in DOMAIN Tail(batch) /\ Tail(batch)[i - 1] = batch[i])
      BY <1>2, <2>1, <2>2, <2>3
    <2>6. QED
      BY <1>1, <2>1, <2>3, <2>4, <2>5 DEF Inbox!ToSet
  <1>4. Head(batch) \in seen
    BY <1>1, <1>3
  <1>5. \A i \in Inbox!Messages : Fate'[i] = Fate[i]
    BY <1>1, <1>3, <1>4, FateCases
  <1>6. QED
    BY <1>1, <1>5, SameFate

(* Every step of the inbox is one of the promise, or leaves it alone.           *)
LEMMA PromiseStep ==
  Inbox!Consistent /\ InboxStep => [Inbox!Promise!Next]_<<sent, Fate>>
  <1> SUFFICES ASSUME Inbox!Consistent, InboxStep
               PROVE  Inbox!Promise!Next \/ UNCHANGED <<sent, Fate>>
    OBVIOUS
  <1>1. CASE Inbox!AddMessage
    BY <1>1, AddMessagePuts
  <1>2. CASE Inbox!ReadInbox
    <2>1. batch = <<>>
      BY <1>2 DEF Inbox!ReadInbox, Inbox!Consistent, Inbox!HeldInCycle
    <2>2. QED
      BY <1>2, <2>1, ReadTakes DEF Inbox!ReadInbox
  <1>3. CASE Inbox!ToolReads
    BY <1>3, ReadTakes DEF Inbox!ToolReads
  <1>4. CASE Inbox!ExecutionReturns
    BY <1>4, ReturnFinishes DEF Inbox!ExecutionReturns, Inbox!streamVars
  <1>5. CASE Inbox!ToolReturns
    BY <1>5, ReturnFinishes DEF Inbox!ToolReturns, Inbox!streamVars
  <1>6. CASE \/ Inbox!CycleFails \/ Inbox!LoopEnds \/ Inbox!ToolFails
             \/ Inbox!LoopGone /\ UNCHANGED inboxFaults
    <2>1. /\ \/ batch' = <<>> /\ inTool' = inTool
             \/ batch' = batch /\ inTool' = {}
          /\ UNCHANGED <<sent, stream, delivered, seen>>
      <3>1. CASE Inbox!ToolFails
        BY <3>1 DEF Inbox!ToolFails, Inbox!streamVars
      <3>2. CASE Inbox!CycleFails
        BY <3>2 DEF Inbox!CycleFails, Inbox!streamVars
      <3>3. CASE Inbox!LoopGone
        BY <3>3 DEF Inbox!LoopGone, Inbox!streamVars
      <3>4. QED
        BY <1>6, <3>1, <3>2, <3>3 DEF Inbox!LoopEnds
    <2>2. batch' = <<>> => Inbox!ToSet(batch') = {}
      BY DEF Inbox!ToSet
    <2>3. QED
      BY <2>1, <2>2, ForgettingLoses
  <1>7. CASE Inbox!AckMessage
    BY <1>7, AckKeepsFate
  <1>8. CASE \/ Inbox!Notify \/ Inbox!NotifyFails \/ Inbox!StartLoop \/ Inbox!Subscribe
             \/ Inbox!WakeByMessage \/ Inbox!WakeByTick \/ Inbox!SleepOver \/ Inbox!ClockMoves
             \/ UNCHANGED inboxVars
    <2>1. UNCHANGED <<sent, stream, delivered, batch, inTool, seen>>
      BY <1>8 DEF Inbox!Notify, Inbox!NotifyFails, Inbox!StartLoop, Inbox!Subscribe,
                  Inbox!WakeByMessage, Inbox!WakeByTick, Inbox!SleepOver, Inbox!ClockMoves,
                  Inbox!streamVars, inboxVars
    <2>2. QED
      BY <2>1, FateCases, SameFate
  <1>9. QED
    BY <1>1, <1>2, <1>3, <1>4, <1>5, <1>6, <1>7, <1>8
       DEF InboxStep, Inbox!Next, Inbox!Loop, Inbox!Cycle, Inbox!Around

(* The inbox keeps the promise of a lossy AtMostOnceQueue and no more           *)
(* (inbox.py:62), for every length of the stream and of a cycle, alone or with  *)
(* the manager that starts, stops and restarts its loop.                        *)
THEOREM InboxKeepsPromise == Spec => ImplementsPromise
  <1>1. Init => Inbox!Promise!Init
    BY PromiseInit DEF Init
  <1>2. Inbox!Consistent /\ [Next]_vars => [Inbox!Promise!Next]_<<sent, Fate>>
    BY InboxSteps, PromiseStep
  <1>3. QED
    BY <1>1, <1>2, InboxInvariance, PTL
       DEF Spec, ImplementsPromise, Inbox!ImplementsPromise, Inbox!Promise!Spec, Fate

-----------------------------------------------------------------------------
(* The manager of the tasks. *)

ManagerInv == /\ Manager!TypeOK /\ Manager!NoForgottenTask /\ Manager!EntriesAlive
              /\ Manager!DeadIsListed /\ Manager!HandledIsListed

LEMMA ManagerTypes ==
  ASSUME Manager!TypeOK
  PROVE  /\ MaxEvents \in Nat /\ ManagerFaults \in Nat
         /\ published \in Nat /\ managerFaults \in Nat
         /\ published < MaxEvents => published + 1 \in 0 .. MaxEvents
         /\ managerFaults < ManagerFaults => managerFaults + 1 \in 0 .. ManagerFaults
  BY Bounds DEF Manager!TypeOK

(* With the inbox the manager does what it does alone, within lower bounds.     *)
LEMMA JointManagerSteps ==
  ASSUME published \in Nat, managerFaults \in Nat
  PROVE  /\ JointManager!Managing => Manager!Managing
         /\ JointManager!Keeper => Manager!Keeper
         /\ \A d \in Daemons : /\ JointManager!RunLoop(d) => Manager!RunLoop(d)
                               /\ JointManager!LoopReturns(d) => Manager!LoopReturns(d)
                               /\ JointManager!LoopRaises(d) => Manager!LoopRaises(d)
                               /\ JointManager!Backoff(d) => Manager!Backoff(d)
                               /\ JointManager!BackoffEnds(d) => Manager!BackoffEnds(d)
  <1>1. /\ managerFaults < JointFaults => managerFaults < ManagerFaults
        /\ published < JointEvents => published < MaxEvents
    BY Bounds
  <1>2. ASSUME NEW d \in Daemons
        PROVE  /\ JointManager!RunLoop(d) => Manager!RunLoop(d)
               /\ JointManager!LoopReturns(d) => Manager!LoopReturns(d)
               /\ JointManager!LoopRaises(d) => Manager!LoopRaises(d)
               /\ JointManager!Backoff(d) => Manager!Backoff(d)
               /\ JointManager!BackoffEnds(d) => Manager!BackoffEnds(d)
               /\ JointManager!AuditRaises(d) => Manager!AuditRaises(d)
    BY <1>1 DEF JointManager!RunLoop, Manager!RunLoop, JointManager!LoopReturns, Manager!LoopReturns,
           JointManager!LoopRaises, Manager!LoopRaises, JointManager!Backoff, Manager!Backoff,
           JointManager!BackoffEnds, Manager!BackoffEnds, JointManager!AuditRaises, Manager!AuditRaises,
           JointManager!Step, Manager!Step, JointManager!MayRun, Manager!MayRun
  <1>3. ASSUME NEW d \in Daemons
        PROVE  /\ JointManager!StartUp(d) => Manager!StartUp(d)
               /\ JointManager!StartNotLogged(d) => Manager!StartNotLogged(d)
               /\ JointManager!StopNotLogged(d) => Manager!StopNotLogged(d)
               /\ JointManager!CreateAgent(d) => Manager!CreateAgent(d)
               /\ JointManager!DeleteAgent(d) => Manager!DeleteAgent(d)
               /\ \A k \in Manager!Kinds : JointManager!Publish(k, d) => Manager!Publish(k, d)
    BY <1>1 DEF JointManager!StartUp, Manager!StartUp, JointManager!StartNotLogged, Manager!StartNotLogged,
           JointManager!StopNotLogged, Manager!StopNotLogged, JointManager!CreateAgent, Manager!CreateAgent,
           JointManager!DeleteAgent, Manager!DeleteAgent, JointManager!Publish, Manager!Publish,
           JointManager!StartDaemon, Manager!StartDaemon, JointManager!HasEntry, Manager!HasEntry,
           JointManager!Forget, Manager!Forget, JointManager!Stopping, Manager!Stopping,
           JointManager!Event, Manager!Event, JointManager!Nothing, Manager!Nothing,
           JointManager!taskVars, Manager!taskVars
  <1>4. ASSUME NEW d \in Daemons
        PROVE  /\ JointManager!StopReturns(d) => Manager!StopReturns(d)
               /\ JointManager!StopTimesOut(d) => Manager!StopTimesOut(d)
               /\ JointManager!CancelledEnds(d) => Manager!CancelledEnds(d)
               /\ JointManager!StopRaises(d) => Manager!StopRaises(d)
               /\ JointManager!StopNext(d) => Manager!StopNext(d)
               /\ JointManager!StopAborts(d) => Manager!StopAborts(d)
    BY DEF JointManager!StopReturns, Manager!StopReturns, JointManager!StopTimesOut, Manager!StopTimesOut,
           JointManager!CancelledEnds, Manager!CancelledEnds, JointManager!StopRaises, Manager!StopRaises,
           JointManager!StopNext, Manager!StopNext, JointManager!StopAborts, Manager!StopAborts,
           JointManager!AfterStop, Manager!AfterStop, JointManager!BeginStop, Manager!BeginStop,
           JointManager!Forget, Manager!Forget, JointManager!Stopping, Manager!Stopping,
           JointManager!Event, Manager!Event, JointManager!Nothing, Manager!Nothing,
           JointManager!taskVars, Manager!taskVars, JointManager!Alive, Manager!Alive,
           JointManager!Idle, Manager!Idle
  <1>5. /\ JointManager!Listen => Manager!Listen
        /\ JointManager!HandleEvent => Manager!HandleEvent
        /\ JointManager!Stop => Manager!Stop
        /\ JointManager!StopDone => Manager!StopDone
        /\ JointManager!ListenerFails => Manager!ListenerFails
        /\ JointManager!StopFindsError => Manager!StopFindsError
    BY <1>1 DEF JointManager!ListenerFails, Manager!ListenerFails,
           JointManager!StopFindsError, Manager!StopFindsError, JointManager!Listen, Manager!Listen, JointManager!HandleEvent, Manager!HandleEvent,
           JointManager!Stop, Manager!Stop, JointManager!StopDone, Manager!StopDone,
           JointManager!StartDaemon, Manager!StartDaemon, JointManager!HasEntry, Manager!HasEntry,
           JointManager!BeginStop, Manager!BeginStop, JointManager!Stopping, Manager!Stopping,
           JointManager!Nothing, Manager!Nothing, JointManager!Idle, Manager!Idle,
           JointManager!taskVars, Manager!taskVars, JointManager!Alive, Manager!Alive
  <1>6. JointManager!Keeper => Manager!Keeper
    BY <1>3, <1>4, <1>5 DEF JointManager!Keeper, Manager!Keeper, JointManager!Listener, Manager!Listener,
                            JointManager!Shutdown, Manager!Shutdown
  <1>7. JointManager!Kinds = Manager!Kinds
    BY DEF JointManager!Kinds, Manager!Kinds
  <1>8. JointManager!Managing => Manager!Managing
    BY <1>2, <1>3, <1>5, <1>6, <1>7 DEF JointManager!Managing, Manager!Managing
  <1>9. QED
    BY <1>2, <1>6, <1>8

LEMMA ManagerSteps == Manager!TypeOK /\ [Next]_vars => [Manager!Next]_managerVars
  <1> SUFFICES ASSUME Manager!TypeOK, [Next]_vars PROVE [Manager!Next]_managerVars
    OBVIOUS
  <1>0. published \in Nat /\ managerFaults \in Nat /\ Served \in Daemons
    BY ManagerTypes, Bounds
  <1>1. CASE UNCHANGED vars
    BY <1>1 DEF vars, bothVars
  <1>2. CASE scope = "inbox" /\ Inbox!Next /\ UNCHANGED managerVars
    BY <1>2
  <1>3. CASE scope = "manager" /\ Manager!Next
    BY <1>3
  <1>4. CASE Together
    <2>1. CASE Manages
      BY <1>0, <2>1, JointManagerSteps DEF Manages, Manager!Next
    <2>2. CASE RunsLoop \/ LoopReturns \/ LoopRaises
      BY <1>0, <2>2, JointManagerSteps DEF RunsLoop, LoopReturns, LoopRaises, Manager!Next
    <2>3. CASE Recovers
      BY <1>0, <2>3, JointManagerSteps DEF Recovers, Manager!Next, Manager!Managing
    <2>4. CASE \/ WakesByMessage \/ WakesByTick \/ LoopWorks \/ ClockMoves \/ UNCHANGED managerVars
      BY <2>4 DEF WakesByMessage, WakesByTick, LoopWorks, ClockMoves
    <2>5. QED
      BY <1>4, <2>1, <2>2, <2>3, <2>4, Zenon DEF Together, DaemonTask
  <1>5. QED
    BY <1>1, <1>2, <1>3, <1>4, Zenon DEF Next

(* What a step does to one daemon's task, entry and stop event.                 *)
Starts(d)    == /\ d \notin entry \/ entry' = entry
                /\ entry' = entry \cup {d}
                /\ task' = [task EXCEPT ![d] = "checking"]
                /\ stopSet' = [stopSet EXCEPT ![d] = FALSE]
Forgets(d)   == /\ entry' = entry \ {d}
                /\ task' = [task EXCEPT ![d] = "none"]
                /\ stopSet' = [stopSet EXCEPT ![d] = FALSE]
Told(d)      == /\ d \in entry /\ UNCHANGED <<entry, task>>
                /\ stopSet' = [stopSet EXCEPT ![d] = TRUE]
Moves(d, to) == /\ task' = [task EXCEPT ![d] = to]
                /\ UNCHANGED <<entry, stopSet>>
Tasks        == UNCHANGED <<entry, task, stopSet>>

TaskState == {"none"} \cup Manager!Alive \cup Manager!Done

TasksTyped ==
  /\ entry \subseteq Daemons /\ task \in [Daemons -> TaskState]
  /\ stopSet \in [Daemons -> BOOLEAN]
  /\ \A d \in Daemons : stopSet[d] => d \in entry

(* The tasks keep their types, and the other daemons their state.               *)
LEMMA TaskSteps ==
  ASSUME TasksTyped, NEW d \in Daemons,
         \/ Starts(d) \/ Forgets(d) \/ Told(d) \/ Tasks
         \/ \E to \in TaskState : Moves(d, to)
  PROVE  /\ TasksTyped'
         /\ \A o \in Daemons \ {d} : /\ task'[o] = task[o] /\ (stopSet'[o] <=> stopSet[o])
                                     /\ o \in entry' <=> o \in entry
  <1>1. CASE Starts(d)
    <2>1. TasksTyped'
      <3>1. entry' \subseteq Daemons /\ task' \in [Daemons -> TaskState]
        BY <1>1 DEF TasksTyped, Starts, TaskState, Manager!Alive
      <3>2. stopSet' \in [Daemons -> BOOLEAN] /\ \A o \in Daemons : stopSet'[o] => o \in entry'
        BY <1>1, Zenon DEF TasksTyped, Starts
      <3>3. QED
        BY <3>1, <3>2 DEF TasksTyped
    <2>2. QED
      BY <1>1, <2>1 DEF TasksTyped, Starts
  <1>2. CASE Forgets(d)
    <2>1. entry' \subseteq Daemons /\ task' \in [Daemons -> TaskState]
      BY <1>2 DEF TasksTyped, Forgets, TaskState
    <2>2. stopSet' \in [Daemons -> BOOLEAN] /\ \A o \in Daemons : stopSet'[o] => o \in entry'
      BY <1>2, Zenon DEF TasksTyped, Forgets
    <2>3. QED
      BY <1>2, <2>1, <2>2 DEF TasksTyped, Forgets
  <1>3. CASE Told(d)
    <2>1. stopSet' \in [Daemons -> BOOLEAN] /\ \A o \in Daemons : stopSet'[o] => o \in entry'
      BY <1>3, Zenon DEF TasksTyped, Told
    <2>2. QED
      BY <1>3, <2>1 DEF TasksTyped, Told
  <1>4. CASE Tasks
    BY <1>4 DEF Tasks, TasksTyped
  <1>5. ASSUME NEW to \in TaskState, Moves(d, to)
        PROVE  /\ TasksTyped'
               /\ \A o \in Daemons \ {d} : /\ task'[o] = task[o] /\ (stopSet'[o] <=> stopSet[o])
                                           /\ o \in entry' <=> o \in entry
    BY <1>5 DEF Moves, TasksTyped
  <1>6. QED
    BY <1>1, <1>2, <1>3, <1>4, <1>5

LEMMA ManagerInit == Manager!Init => ManagerInv
  <1> SUFFICES ASSUME Manager!Init PROVE ManagerInv
    OBVIOUS
  <1>1. stopSet \in [Daemons -> BOOLEAN] /\ \A d \in Daemons : ~stopSet[d]
    BY Zenon DEF Manager!Init
  <1>2. Manager!TypeOK
    BY <1>1, Bounds DEF Manager!Init, Manager!TypeOK
  <1>3. QED
    BY <1>2 DEF ManagerInv, Manager!Init, Manager!NoForgottenTask, Manager!EntriesAlive,
           Manager!DeadIsListed, Manager!HandledIsListed, Manager!Alive, Manager!Nothing

(* The daemon of such a step after it.                                          *)
LEMMA TaskAfter ==
  ASSUME TasksTyped, NEW d \in Daemons
  PROVE  /\ Starts(d) => task'[d] = "checking" /\ ~stopSet'[d] /\ d \in entry'
         /\ Forgets(d) => task'[d] = "none" /\ ~stopSet'[d] /\ d \notin entry'
         /\ Told(d) => task'[d] = task[d] /\ d \in entry'
         /\ Tasks => task' = task /\ stopSet' = stopSet /\ entry' = entry
         /\ \A to : Moves(d, to) => task'[d] = to /\ stopSet' = stopSet /\ entry' = entry
  BY Zenon DEF TasksTyped, Starts, Forgets, Told, Tasks, Moves

DaemonInv(d) ==
  /\ task[d] \in Manager!Alive \cup {"raised"} => d \in entry
  /\ task[d] = "raised" => managerFaults > 0
  /\ managerFaults = 0 /\ manager \in {"starting", "listening"} /\ d \in entry
     /\ (stopSet[d] \/ task[d] \notin Manager!Alive) => Manager!Stopping(d)

(* What the listener is in changes, for another daemon than d, to nothing new.  *)
HandlesOnly(d) ==
  /\ managerFaults' = managerFaults \/ (managerFaults < ManagerFaults /\ managerFaults' = managerFaults + 1)
  /\ manager' \in {"starting", "listening"} => manager \in {"starting", "listening"}
  /\ \/ handling' = handling
     \/ handling.daemon = d /\ handling' = Manager!Nothing
     \/ /\ handling = Manager!Nothing \/ handling.daemon = d
        /\ handling' \in [kind : Manager!Kinds \cup {"forget", "replace"}, daemon : {d}]

OtherTypes ==
  /\ defined \subseteq Daemons
  /\ manager \in {"starting", "listening", "deaf", "stopping", "stopped", "aborted"}
  /\ events \in Seq(Manager!EventSet)
  /\ published \in 0 .. MaxEvents

(* The same invariant, daemon by daemon.                                        *)
ManagerParts ==
  /\ TasksTyped /\ OtherTypes /\ managerFaults \in 0 .. ManagerFaults
  /\ handling \in {Manager!Nothing} \cup
                  [kind : Manager!Kinds \cup {"forget", "replace"}, daemon : Daemons]
  /\ \A d \in Daemons : DaemonInv(d)
  /\ Manager!HandledIsListed

LEMMA InvIs == ManagerInv <=> ManagerParts
  <1>1. Manager!TypeOK <=>
          /\ TasksTyped /\ OtherTypes /\ managerFaults \in 0 .. ManagerFaults
          /\ handling \in {Manager!Nothing} \cup
                          [kind : Manager!Kinds \cup {"forget", "replace"}, daemon : Daemons]
    BY DEF Manager!TypeOK, TasksTyped, OtherTypes, TaskState
  <1>2. TasksTyped =>
          ((\A d \in Daemons : DaemonInv(d)) <=>
             Manager!NoForgottenTask /\ Manager!EntriesAlive /\ Manager!DeadIsListed)
    BY DEF TasksTyped, DaemonInv, Manager!NoForgottenTask, Manager!EntriesAlive, Manager!DeadIsListed
  <1>3. QED
    BY <1>1, <1>2 DEF ManagerInv, ManagerParts

LEMMA InvIsNext == ManagerInv' <=> ManagerParts'
  BY InvIs, PTL

(* A step about one daemon.                                                     *)
LEMMA OneDaemon ==
  ASSUME ManagerInv, NEW d \in Daemons,
         \/ Starts(d) \/ Forgets(d) \/ Told(d) \/ Tasks
         \/ \E to \in TaskState : Moves(d, to),
         HandlesOnly(d), OtherTypes', DaemonInv(d)', Manager!HandledIsListed'
  PROVE  ManagerInv'
  <1>0. /\ TasksTyped /\ managerFaults \in Nat /\ ManagerFaults \in Nat
        /\ managerFaults \in 0 .. ManagerFaults
        /\ handling \in {Manager!Nothing} \cup
                        [kind : Manager!Kinds \cup {"forget", "replace"}, daemon : Daemons]
        /\ \A o \in Daemons : DaemonInv(o)
    BY InvIs, Bounds DEF ManagerParts
  <1>1. /\ TasksTyped'
        /\ \A o \in Daemons \ {d} : /\ task'[o] = task[o] /\ (stopSet'[o] <=> stopSet[o])
                                    /\ o \in entry' <=> o \in entry
    BY <1>0, TaskSteps
  <1>2. /\ managerFaults' \in 0 .. ManagerFaults
        /\ handling' \in {Manager!Nothing} \cup
                         [kind : Manager!Kinds \cup {"forget", "replace"}, daemon : Daemons]
    BY <1>0 DEF HandlesOnly
  <1>3. ASSUME NEW o \in Daemons \ {d}
        PROVE  DaemonInv(o)'
    <2>1. DaemonInv(o)
      BY <1>0
    <2>2. Manager!Stopping(o) => Manager!Stopping(o)'
      BY <1>0, <1>3 DEF HandlesOnly, Manager!Stopping, Manager!Nothing
    <2>3. /\ managerFaults > 0 => managerFaults' > 0
          /\ managerFaults' = 0 => managerFaults = 0
          /\ manager' \in {"starting", "listening"} => manager \in {"starting", "listening"}
      BY <1>0 DEF HandlesOnly
    <2>4. task'[o] = task[o] /\ (stopSet'[o] <=> stopSet[o]) /\ (o \in entry' <=> o \in entry)
      BY <1>1
    <2>5. /\ task'[o] \in Manager!Alive \cup {"raised"} => o \in entry'
          /\ task'[o] = "raised" => managerFaults' > 0
          /\ managerFaults' = 0 /\ manager' \in {"starting", "listening"} /\ o \in entry'
             /\ (stopSet'[o] \/ task'[o] \notin Manager!Alive) => Manager!Stopping(o)'
      BY <2>1, <2>2, <2>3, <2>4, Zenon DEF DaemonInv
    <2>6. Manager!Alive' = Manager!Alive
      BY DEF Manager!Alive
    <2>7. QED
      BY <2>5, <2>6, Zenon DEF DaemonInv
  <1>4. \A o \in Daemons : DaemonInv(o)'
    BY <1>3
  <1>5. QED
    BY <1>1, <1>2, <1>4, InvIsNext DEF ManagerParts

(* The steps of start(), the routes and the task itself.                        *)
LEMMA TasksOwnSteps ==
  ASSUME ManagerInv, NEW d \in Daemons,
         \/ Manager!StartUp(d) \/ Manager!StartNotLogged(d)
         \/ Manager!RunLoop(d) \/ Manager!LoopReturns(d) \/ Manager!LoopRaises(d)
         \/ Manager!Backoff(d) \/ Manager!AuditRaises(d) \/ Manager!BackoffEnds(d)
  PROVE  ManagerInv'
  <1>0. /\ TasksTyped /\ OtherTypes /\ DaemonInv(d) /\ Manager!HandledIsListed
        /\ managerFaults \in Nat /\ ManagerFaults \in Nat
    BY InvIs, Bounds DEF ManagerParts
  <1>1. CASE Manager!StartUp(d) \/ Manager!StartNotLogged(d)
    <2>1. /\ d \notin entry /\ d \in defined /\ Starts(d) /\ manager = "starting"
          /\ UNCHANGED <<defined, events, handling, published>>
          /\ manager' \in {"starting", "aborted"}
          /\ managerFaults' = managerFaults \/ (managerFaults < ManagerFaults /\ managerFaults' = managerFaults + 1)
      BY <1>1 DEF Manager!StartUp, Manager!StartNotLogged, Manager!StartDaemon, Manager!HasEntry,
                  Starts
    <2>2. task'[d] = "checking" /\ ~stopSet'[d] /\ d \in entry'
      BY <1>0, <2>1, TaskAfter
    <2>3. DaemonInv(d)'
      BY <2>2 DEF DaemonInv, Manager!Alive
    <2>4. HandlesOnly(d) /\ OtherTypes'
      BY <1>0, <2>1 DEF HandlesOnly, OtherTypes
    <2>5. Manager!HandledIsListed'
      BY <1>0, <2>1 DEF Manager!HandledIsListed
    <2>6. QED
      BY <2>1, <2>3, <2>4, <2>5, OneDaemon
  <1>2. ASSUME \/ Manager!RunLoop(d) \/ Manager!LoopReturns(d) \/ Manager!LoopRaises(d)
               \/ Manager!Backoff(d) \/ Manager!AuditRaises(d) \/ Manager!BackoffEnds(d)
        PROVE  ManagerInv'
    <2>1. /\ task[d] \in Manager!Alive
          /\ \E to \in {"running", "returned", "checking", "crashed", "backoff", "raised"} :
               /\ Moves(d, to)
               /\ to = "returned" => stopSet[d]
               /\ to = "raised" => managerFaults' = managerFaults + 1
          /\ UNCHANGED <<defined, manager, events, handling, published>>
          /\ managerFaults' = managerFaults \/ (managerFaults < ManagerFaults /\ managerFaults' = managerFaults + 1)
      BY <1>2 DEF Manager!RunLoop, Manager!LoopReturns, Manager!LoopRaises, Manager!Backoff,
                  Manager!AuditRaises, Manager!BackoffEnds, Manager!Step, Manager!MayRun, Moves,
                  Manager!Alive
    <2>2. PICK to \in {"running", "returned", "checking", "crashed", "backoff", "raised"} :
            /\ Moves(d, to)
            /\ to = "returned" => stopSet[d]
            /\ to = "raised" => managerFaults' = managerFaults + 1
      BY <2>1
    <2>3. to \in TaskState
      BY DEF TaskState, Manager!Alive, Manager!Done
    <2>4. task'[d] = to /\ stopSet' = stopSet /\ entry' = entry
      BY <1>0, <2>2, TaskAfter
    <2>5. managerFaults' = 0 => managerFaults = 0
      BY <1>0, <2>1
    <2>6. Manager!Stopping(d)' <=> Manager!Stopping(d)
      BY <2>1 DEF Manager!Stopping, Manager!Nothing
    <2>7. d \in entry
      BY <1>0, <2>1 DEF DaemonInv
    <2>8. task'[d] = "raised" => managerFaults' > 0
      BY <1>0, <2>2, <2>4
    <2>9. to \notin Manager!Alive => to = "returned" \/ to = "raised"
      BY DEF Manager!Alive
    <2>10. ASSUME managerFaults' = 0, manager \in {"starting", "listening"},
                  stopSet[d] \/ to \notin Manager!Alive
           PROVE  Manager!Stopping(d)
      BY <1>0, <2>2, <2>5, <2>7, <2>8, <2>4, <2>9, <2>10 DEF DaemonInv
    <2>11. DaemonInv(d)'
      BY <2>1, <2>4, <2>6, <2>7, <2>8, <2>10 DEF DaemonInv, Manager!Alive
    <2>12. HandlesOnly(d) /\ OtherTypes'
      BY <1>0, <2>1 DEF HandlesOnly, OtherTypes
    <2>13. Manager!HandledIsListed'
      BY <1>0, <2>1, <2>4 DEF Manager!HandledIsListed
    <2>14. QED
      BY <2>2, <2>3, <2>11, <2>12, <2>13, OneDaemon
  <1>3. QED
    BY <1>1, <1>2

(* Steps that leave the tasks alone: the routes, the subscription, and the ends *)
(* of a wait that forget nothing.                                               *)
LEMMA TasksLeftAlone ==
  ASSUME ManagerInv, NEW d \in Daemons,
         \/ Manager!CreateAgent(d) \/ Manager!DeleteAgent(d)
         \/ \E k \in Manager!Kinds : Manager!Publish(k, d)
         \/ Manager!Listen \/ Manager!StopDone \/ Manager!StopRaises(d) \/ Manager!StopAborts(d)
         \/ Manager!StopFindsError \/ UNCHANGED managerVars
  PROVE  ManagerInv'
  <1>0. /\ TasksTyped /\ OtherTypes /\ DaemonInv(d) /\ Manager!HandledIsListed
        /\ managerFaults \in Nat /\ ManagerFaults \in Nat
        /\ published < MaxEvents => published + 1 \in 0 .. MaxEvents
    BY InvIs, Bounds, ManagerTypes DEF ManagerParts, ManagerInv
  <1>1. /\ Tasks /\ managerFaults' = managerFaults
        /\ manager' = manager \/ manager' \in {"stopped", "aborted"}
           \/ (manager = "starting" /\ manager' = "listening")
        /\ handling' = handling \/ (handling.daemon = d /\ handling' = Manager!Nothing)
        /\ \/ handling' = handling \/ manager' = "aborted"
           \/ task[d] = "raised"
    BY DEF Manager!CreateAgent, Manager!DeleteAgent, Manager!Publish, Manager!Listen, Manager!StopDone,
           Manager!StopRaises, Manager!StopAborts, Manager!StopFindsError, Manager!Stopping, Manager!taskVars, Tasks, managerVars
  <1>2. defined' \subseteq Daemons /\ published' \in 0 .. MaxEvents
    BY <1>0 DEF Manager!CreateAgent, Manager!DeleteAgent, Manager!Publish, Manager!Listen, Manager!StopDone,
           Manager!StopRaises, Manager!StopAborts, Manager!StopFindsError, Manager!taskVars, OtherTypes, managerVars
  <1>3. /\ events' \in Seq(Manager!EventSet)
        /\ events' = events \/ manager = "listening"
    <2>1. ASSUME NEW k \in Manager!Kinds, Manager!Publish(k, d)
          PROVE  /\ events' \in Seq(Manager!EventSet)
                 /\ events' = events \/ manager = "listening"
      <3>1. Manager!Event(k, d) \in Manager!EventSet
        BY DEF Manager!Event, Manager!EventSet
      <3>2. Append(events, Manager!Event(k, d)) \in Seq(Manager!EventSet)
        BY <1>0, <3>1 DEF OtherTypes
      <3>3. QED
        BY <1>0, <2>1, <3>2 DEF Manager!Publish, OtherTypes
    <2>2. QED
      BY <1>0, <2>1 DEF Manager!CreateAgent, Manager!DeleteAgent, Manager!Listen, Manager!StopDone,
           Manager!StopRaises, Manager!StopAborts, Manager!StopFindsError, Manager!taskVars, OtherTypes, managerVars
  <1>4. HandlesOnly(d)
    BY <1>1 DEF HandlesOnly
  <1>5. OtherTypes'
    BY <1>0, <1>1, <1>2, <1>3 DEF OtherTypes, Manager!EventSet, Manager!Kinds
  <1>6. task' = task /\ stopSet' = stopSet /\ entry' = entry
    BY <1>1 DEF Tasks
  <1>7. DaemonInv(d)'
    <2>1. ASSUME managerFaults = 0, manager' \in {"starting", "listening"}, d \in entry,
                 stopSet[d] \/ task[d] \notin Manager!Alive
          PROVE  Manager!Stopping(d)'
      <3>1. manager \in {"starting", "listening"} /\ manager' # "aborted"
        BY <1>1, <2>1
      <3>2. Manager!Stopping(d) /\ task[d] # "raised"
        BY <1>0, <2>1, <3>1 DEF DaemonInv
      <3>3. QED
        BY <1>1, <3>1, <3>2 DEF Manager!Stopping, Manager!Nothing
    <2>2. QED
      BY <1>0, <1>1, <1>6, <2>1 DEF DaemonInv, Manager!Alive
  <1>8. Manager!HandledIsListed'
    BY <1>0, <1>1, <1>3, <1>6 DEF Manager!HandledIsListed, Manager!Nothing
  <1>9. QED
    BY <1>1, <1>4, <1>5, <1>7, <1>8, OneDaemon

(* The listener takes an event.                                                 *)
LEMMA EventHandled == ManagerInv /\ Manager!HandleEvent => ManagerInv'
  <1> SUFFICES ASSUME ManagerInv, Manager!HandleEvent PROVE ManagerInv'
    OBVIOUS
  <1>0. /\ TasksTyped /\ OtherTypes /\ Manager!HandledIsListed /\ \A o \in Daemons : DaemonInv(o)
        /\ managerFaults \in Nat /\ ManagerFaults \in Nat
    BY InvIs, Bounds DEF ManagerParts
  <1>1. /\ manager = "listening" /\ handling = Manager!Nothing /\ events # <<>>
        /\ events' = Tail(events) /\ UNCHANGED <<defined, manager, published, managerFaults>>
    BY DEF Manager!HandleEvent, Manager!Idle
  <1>2. events \in Seq(Manager!EventSet)
    BY <1>0 DEF OtherTypes
  <1>a. Head(events) \in Manager!EventSet /\ Tail(events) \in Seq(Manager!EventSet)
    BY <1>1, <1>2, HeadTailProperties
  <1>b. PICK e \in Manager!EventSet : e = Head(events)
    BY <1>a
  <1>c. PICK d \in Daemons : d = e.daemon
    BY DEF Manager!EventSet
  <1>4. e.daemon \in Daemons /\ e.kind \in Manager!Kinds
        /\ e \in [kind : Manager!Kinds, daemon : {e.daemon}]
    BY DEF Manager!EventSet
  <1>5. \/ Tasks /\ handling' = handling
        \/ Starts(d) /\ handling' = handling
        \/ Told(d) /\ handling' = e
    BY <1>b, <1>c DEF Manager!HandleEvent, Manager!StartDaemon, Manager!HasEntry, Manager!BeginStop,
           Manager!taskVars, Tasks, Starts, Told
  <1>6. OtherTypes'
    BY <1>0, <1>1, <1>a DEF OtherTypes, Manager!EventSet, Manager!Kinds
  <1>7. d \in Daemons /\ DaemonInv(d)
    BY <1>0, <1>4
  <1>8. HandlesOnly(d)
    BY <1>0, <1>1, <1>4, <1>5, <1>c DEF HandlesOnly, Manager!Kinds
  <1>9. e # Manager!Nothing
    BY <1>4 DEF Manager!Nothing, Manager!Kinds
  <1>10. CASE Tasks /\ handling' = handling
    <2>1. task' = task /\ stopSet' = stopSet /\ entry' = entry
      BY <1>10 DEF Tasks
    <2>2. DaemonInv(d)' /\ Manager!HandledIsListed'
      BY <1>0, <1>1, <1>7, <1>10, <2>1
         DEF DaemonInv, Manager!HandledIsListed, Manager!Stopping, Manager!Nothing, Manager!Alive
    <2>3. QED
      BY <1>6, <1>7, <1>8, <1>10, <2>2, OneDaemon
  <1>11. CASE Starts(d) /\ handling' = handling
    <2>1. task'[d] = "checking" /\ ~stopSet'[d] /\ d \in entry'
      BY <1>0, <1>7, <1>11, TaskAfter
    <2>2. DaemonInv(d)'
      BY <2>1 DEF DaemonInv, Manager!Alive
    <2>3. Manager!HandledIsListed'
      BY <1>1, <1>11 DEF Manager!HandledIsListed, Manager!Nothing
    <2>4. QED
      BY <1>6, <1>7, <1>8, <1>11, <2>2, <2>3, OneDaemon
  <1>12. CASE Told(d) /\ handling' = e
    <2>1. task'[d] = task[d] /\ d \in entry'
      BY <1>0, <1>7, <1>12, TaskAfter
    <2>2. Manager!Stopping(d)'
      BY <1>9, <1>12, <1>c DEF Manager!Stopping, Manager!Nothing
    <2>3. DaemonInv(d)'
      BY <1>1, <1>7, <2>1, <2>2 DEF DaemonInv
    <2>4. Manager!HandledIsListed'
      BY <1>1, <1>12, <1>c, <2>1 DEF Manager!HandledIsListed
    <2>5. QED
      BY <1>6, <1>7, <1>8, <1>12, <2>3, <2>4, OneDaemon
  <1>13. QED
    BY <1>5, <1>10, <1>11, <1>12

(* A stop comes to its end, or to its timeout.                                  *)
LEMMA StopEnds ==
  ASSUME ManagerInv, NEW d \in Daemons,
         \/ Manager!StopReturns(d) \/ Manager!CancelledEnds(d) \/ Manager!StopNotLogged(d)
         \/ Manager!StopTimesOut(d)
  PROVE  ManagerInv'
  <1>0. /\ TasksTyped /\ OtherTypes /\ DaemonInv(d) /\ Manager!HandledIsListed
        /\ managerFaults \in Nat /\ ManagerFaults \in Nat
        /\ handling \in {Manager!Nothing} \cup
                        [kind : Manager!Kinds \cup {"forget", "replace"}, daemon : Daemons]
    BY InvIs, Bounds DEF ManagerParts
  <1>1. /\ handling # Manager!Nothing /\ handling.daemon = d /\ d \in entry /\ manager # "starting"
    BY <1>0 DEF Manager!StopReturns, Manager!CancelledEnds, Manager!StopNotLogged, Manager!StopTimesOut,
                Manager!Stopping, Manager!HandledIsListed
  <1>2. CASE Manager!StopTimesOut(d)
    <2>1. /\ Moves(d, "cancelled")
          /\ handling' \in [kind : Manager!Kinds \cup {"forget", "replace"}, daemon : {d}]
          /\ UNCHANGED <<defined, entry, stopSet, manager, events, published, managerFaults>>
      <3>1. handling \in [kind : Manager!Kinds \cup {"forget", "replace"}, daemon : {d}]
        BY <1>0, <1>1
      <3>2. handling' = [handling EXCEPT !.kind =
                           IF handling.kind = "stop" THEN "forget" ELSE
                           IF handling.kind = "restart" THEN "replace" ELSE handling.kind]
        BY <1>2 DEF Manager!StopTimesOut
      <3>3. handling' \in [kind : Manager!Kinds \cup {"forget", "replace"}, daemon : {d}]
        BY <3>1, <3>2
      <3>4. QED
        BY <1>2, <3>3 DEF Manager!StopTimesOut, Moves
    <2>2. task'[d] = "cancelled" /\ stopSet' = stopSet /\ entry' = entry
      BY <1>0, <2>1, TaskAfter
    <2>3. handling' # Manager!Nothing /\ handling'.daemon = d
      BY <2>1 DEF Manager!Nothing, Manager!Kinds
    <2>4. Manager!Stopping(d)' /\ Manager!HandledIsListed'
      BY <1>1, <2>1, <2>3 DEF Manager!Stopping, Manager!HandledIsListed, Manager!Nothing
    <2>5. DaemonInv(d)'
      BY <1>1, <2>2, <2>4 DEF DaemonInv
    <2>6. HandlesOnly(d)
      BY <1>0, <1>1, <2>1 DEF HandlesOnly
    <2>7. OtherTypes'
      BY <1>0, <2>1 DEF OtherTypes, Manager!EventSet, Manager!Kinds
    <2>8. "cancelled" \in TaskState
      BY DEF TaskState, Manager!Done
    <2>9. QED
      BY <2>1, <2>4, <2>5, <2>6, <2>7, <2>8, OneDaemon
  <1>3. CASE Manager!StopReturns(d) \/ Manager!CancelledEnds(d) \/ Manager!StopNotLogged(d)
    <2>1. /\ Starts(d) \/ Forgets(d)
          /\ handling' = Manager!Nothing
          /\ UNCHANGED <<defined, events, published>>
          /\ manager' = manager \/ manager' = "aborted"
          /\ managerFaults' = managerFaults \/ (managerFaults < ManagerFaults /\ managerFaults' = managerFaults + 1)
      <3>1. CASE Manager!StopReturns(d)
        BY <1>1, <3>1 DEF Manager!StopReturns, Manager!AfterStop, Manager!Forget, Starts, Forgets
      <3>2. CASE Manager!CancelledEnds(d)
        BY <1>1, <3>2 DEF Manager!CancelledEnds, Manager!Forget, Starts, Forgets
      <3>3. CASE Manager!StopNotLogged(d)
        BY <3>3 DEF Manager!StopNotLogged, Manager!Forget, Forgets
      <3>4. QED
        BY <1>3, <3>1, <3>2, <3>3
    <2>2. \/ task'[d] = "checking" /\ ~stopSet'[d] /\ d \in entry'
          \/ task'[d] = "none" /\ ~stopSet'[d] /\ d \notin entry'
      BY <1>0, <2>1, TaskAfter
    <2>3. DaemonInv(d)'
      BY <2>2 DEF DaemonInv, Manager!Alive
    <2>4. HandlesOnly(d)
      BY <1>0, <1>1, <2>1 DEF HandlesOnly
    <2>5. OtherTypes'
      BY <1>0, <2>1 DEF OtherTypes, Manager!EventSet, Manager!Kinds
    <2>6. Manager!HandledIsListed'
      BY <1>1, <2>1 DEF Manager!HandledIsListed, Manager!Nothing
    <2>7. QED
      BY <2>1, <2>3, <2>4, <2>5, <2>6, OneDaemon
  <1>4. QED
    BY <1>2, <1>3

(* The shutdown: the task the listener waits for is cancelled, and every daemon *)
(* is stopped in turn.                                                          *)
LEMMA ShutdownSteps ==
  ManagerInv /\ (Manager!Stop \/ \E d \in Daemons : Manager!StopNext(d)) => ManagerInv'
  <1> SUFFICES ASSUME ManagerInv PROVE Manager!Stop \/ (\E d \in Daemons : Manager!StopNext(d)) => ManagerInv'
    OBVIOUS
  <1>0. /\ TasksTyped /\ OtherTypes /\ Manager!HandledIsListed /\ \A o \in Daemons : DaemonInv(o)
        /\ managerFaults \in Nat /\ ManagerFaults \in Nat
        /\ handling \in {Manager!Nothing} \cup
                        [kind : Manager!Kinds \cup {"forget", "replace"}, daemon : Daemons]
    BY InvIs, Bounds DEF ManagerParts
  <1>1. ASSUME Manager!Stop PROVE ManagerInv'
    <2>1. /\ manager = "listening" /\ manager' \in {"stopping", "aborted"} /\ events' = <<>>
          /\ handling' = Manager!Nothing
          /\ managerFaults' = managerFaults \/ (managerFaults < ManagerFaults /\ managerFaults' = managerFaults + 1)
          /\ task' = [d \in Daemons |-> IF Manager!Stopping(d) /\ task[d] \in Manager!Alive
                                        THEN "cancelled" ELSE task[d]]
          /\ UNCHANGED <<defined, entry, stopSet, published>>
      BY <1>1 DEF Manager!Stop
    <2>2. OtherTypes' /\ Manager!HandledIsListed'
      BY <1>0, <2>1 DEF OtherTypes, Manager!HandledIsListed, Manager!Nothing, Manager!EventSet,
                        Manager!Kinds
    <2>3. \A d \in Daemons : HandlesOnly(d) <=> handling = Manager!Nothing \/ handling.daemon = d
      BY <1>0, <2>1 DEF HandlesOnly, Manager!Nothing, Manager!Kinds
    <2>4. CASE handling = Manager!Nothing
      <3>1. task' = [d \in Daemons |-> task[d]]
        BY <2>1, <2>4 DEF Manager!Stopping
      <3>2. Tasks
        BY <1>0, <2>1, <3>1 DEF Tasks, TasksTyped
      <3>3. DaemonInv(Served)'
        BY <1>0, <2>1, <3>2, Bounds DEF DaemonInv, Tasks, Manager!Alive
      <3>4. QED
        BY <2>2, <2>3, <2>4, <3>2, <3>3, Bounds, OneDaemon
    <2>5. CASE handling # Manager!Nothing
      <3>1. PICK d \in Daemons : d = handling.daemon
        BY <1>0, <2>5
      <3>2. PICK to \in TaskState : to = IF task[d] \in Manager!Alive THEN "cancelled" ELSE task[d]
        BY <1>0, <3>1 DEF TasksTyped, TaskState, Manager!Done
      <3>3. \A o \in Daemons : Manager!Stopping(o) <=> o = d
        BY <2>5, <3>1 DEF Manager!Stopping
      <3>4. task' = [task EXCEPT ![d] = to]
        <4>1. task \in [Daemons -> TaskState]
          BY <1>0 DEF TasksTyped
        <4>2. task' = [o \in Daemons |-> IF Manager!Stopping(o) /\ task[o] \in Manager!Alive
                                         THEN "cancelled" ELSE task[o]]
          BY <2>1
        <4>3. QED
          BY <3>1, <3>2, <3>3, <4>1, <4>2
      <3>5. Moves(d, to)
        BY <2>1, <3>4 DEF Moves
      <3>6. task'[d] = to /\ to \notin Manager!Alive /\ (to = "raised" => task[d] = "raised")
        BY <1>0, <3>1, <3>2, <3>4 DEF TasksTyped, Manager!Alive
      <3>7. DaemonInv(d)
        BY <1>0, <3>1
      <3>8. DaemonInv(d)'
        <4>1. manager' \notin {"starting", "listening"} /\ entry' = entry
          BY <2>1
        <4>2. task'[d] = "raised" => managerFaults' > 0
          BY <1>0, <2>1, <3>6, <3>7 DEF DaemonInv
        <4>3. task'[d] \in Manager!Alive \cup {"raised"} => d \in entry
          BY <3>6, <3>7 DEF DaemonInv
        <4>4. QED
          BY <4>1, <4>2, <4>3 DEF DaemonInv, Manager!Alive
      <3>9. HandlesOnly(d)
        BY <2>3, <3>1
      <3>10. QED
        BY <2>2, <3>1, <3>2, <3>5, <3>8, <3>9, OneDaemon
    <2>6. QED
      BY <2>4, <2>5
  <1>2. ASSUME NEW d \in Daemons, Manager!StopNext(d) PROVE ManagerInv'
    <2>1. /\ manager = "stopping" /\ handling = Manager!Nothing /\ Told(d)
          /\ handling' = Manager!Event("stop", d)
          /\ UNCHANGED <<defined, manager, events, published, managerFaults>>
      BY <1>2 DEF Manager!StopNext, Manager!Idle, Manager!BeginStop, Told
    <2>2. task'[d] = task[d] /\ d \in entry'
      BY <1>0, <2>1, TaskAfter
    <2>3. DaemonInv(d)'
      BY <1>0, <2>1, <2>2 DEF DaemonInv
    <2>4. HandlesOnly(d)
      BY <1>0, <2>1 DEF HandlesOnly, Manager!Event, Manager!Kinds
    <2>5. OtherTypes'
      BY <1>0, <2>1 DEF OtherTypes, Manager!EventSet, Manager!Kinds
    <2>6. Manager!HandledIsListed'
      BY <1>0, <2>1, <2>2 DEF Manager!HandledIsListed, Manager!Event
    <2>7. QED
      BY <2>1, <2>3, <2>4, <2>5, <2>6, OneDaemon
  <1>3. QED
    BY <1>1, <1>2

(* The listener fails between two events; the tasks go on.                       *)
LEMMA ListenerGoes == ManagerInv /\ Manager!ListenerFails => ManagerInv'
  <1> SUFFICES ASSUME ManagerInv, Manager!ListenerFails PROVE ManagerInv'
    OBVIOUS
  <1>0. /\ TasksTyped /\ OtherTypes /\ Manager!HandledIsListed /\ DaemonInv(Served)
        /\ managerFaults \in Nat /\ ManagerFaults \in Nat
    BY InvIs, Bounds DEF ManagerParts
  <1>1. /\ manager = "listening" /\ manager' = "deaf" /\ events' = <<>>
        /\ managerFaults < ManagerFaults /\ managerFaults' = managerFaults + 1
        /\ UNCHANGED <<defined, entry, task, stopSet, handling, published>>
    BY DEF Manager!ListenerFails, Manager!taskVars
  <1>2. Tasks /\ HandlesOnly(Served)
    BY <1>1 DEF Tasks, HandlesOnly
  <1>3. OtherTypes' /\ Manager!HandledIsListed'
    BY <1>0, <1>1 DEF OtherTypes, Manager!HandledIsListed, Manager!EventSet, Manager!Kinds
  <1>4. DaemonInv(Served)'
    BY <1>0, <1>1 DEF DaemonInv, Manager!Alive
  <1>5. QED
    BY <1>2, <1>3, <1>4, Bounds, OneDaemon

LEMMA ManagerKeeps == ManagerInv /\ [Manager!Next]_managerVars => ManagerInv'
  <1> SUFFICES ASSUME ManagerInv, [Manager!Next]_managerVars PROVE ManagerInv'
    OBVIOUS
  <1>1. CASE UNCHANGED managerVars
    BY <1>1, TasksLeftAlone, Bounds
  <1>2. CASE \/ Manager!Listen \/ Manager!StopDone \/ Manager!StopFindsError
    BY <1>2, TasksLeftAlone, Bounds
  <1>3. ASSUME NEW d \in Daemons,
               \/ Manager!StartUp(d) \/ Manager!StartNotLogged(d) \/ Manager!StopNotLogged(d)
               \/ Manager!CreateAgent(d) \/ Manager!DeleteAgent(d) \/ Manager!Backoff(d)
               \/ Manager!BackoffEnds(d) \/ Manager!AuditRaises(d) \/ Manager!RunLoop(d)
               \/ Manager!LoopReturns(d) \/ Manager!LoopRaises(d)
               \/ Manager!StopReturns(d) \/ Manager!StopTimesOut(d) \/ Manager!CancelledEnds(d)
               \/ Manager!StopRaises(d) \/ Manager!StopAborts(d)
               \/ \E k \in Manager!Kinds : Manager!Publish(k, d)
        PROVE  ManagerInv'
    BY <1>3, TasksOwnSteps, TasksLeftAlone, StopEnds
  <1>4. CASE Manager!HandleEvent \/ Manager!Stop \/ \E d \in Daemons : Manager!StopNext(d)
    BY <1>4, EventHandled, ShutdownSteps
  <1>5. CASE Manager!ListenerFails
    BY <1>5, ListenerGoes
  <1>6. QED
    BY <1>1, <1>2, <1>3, <1>4, <1>5 DEF Manager!Next, Manager!Managing, Manager!Keeper, Manager!Listener,
                                        Manager!Shutdown

LEMMA ManagerInvariance == Spec => []ManagerInv
  <1>1. Init => ManagerInv
    BY ManagerInit DEF Init
  <1>2. ManagerInv /\ [Next]_vars => ManagerInv'
    BY ManagerSteps, ManagerKeeps DEF ManagerInv
  <1>3. QED
    BY <1>1, <1>2, PTL DEF Spec

(* What a step may do to the task of a daemon.                                  *)
TaskMayGo(d) ==
  /\ task[d] \in Manager!Alive => task'[d] \in Manager!Alive \cup Manager!Done
  /\ stopSet[d] /\ task[d] # "running" /\ stopSet'[d] => task'[d] # "running"

LEMMA TaskGoes ==
  ManagerInv /\ [Manager!Next]_managerVars => \A o \in Daemons : TaskMayGo(o)
  <1> SUFFICES ASSUME ManagerInv, [Manager!Next]_managerVars, NEW o \in Daemons PROVE TaskMayGo(o)
    OBVIOUS
  <1>0. /\ TasksTyped /\ OtherTypes /\ Manager!HandledIsListed
        /\ \A d \in Daemons : task[d] \in TaskState
        /\ "checking" \in Manager!Alive /\ "checking" # "running"
    BY InvIs DEF ManagerParts, TasksTyped, Manager!Alive
  <1>1. ASSUME UNCHANGED <<task, stopSet>> PROVE TaskMayGo(o)
    BY <1>1 DEF TaskMayGo
  <1>2. ASSUME NEW d \in Daemons, Starts(d), task[o] \in Manager!Alive => task[o] # "none"
        PROVE  TaskMayGo(o)
    <2>1. CASE o = d
      BY <1>0, <1>2, <2>1, TaskAfter DEF TaskMayGo
    <2>2. CASE o # d
      BY <1>0, <1>2, <2>2, TaskSteps DEF TaskMayGo
    <2>3. QED
      BY <2>1, <2>2
  <1>3. ASSUME NEW d \in Daemons, Forgets(d), task[d] \notin Manager!Alive
        PROVE  TaskMayGo(o)
    <2>1. CASE o = d
      BY <1>0, <1>3, <2>1, TaskAfter DEF TaskMayGo
    <2>2. CASE o # d
      BY <1>0, <1>3, <2>2, TaskSteps DEF TaskMayGo
    <2>3. QED
      BY <2>1, <2>2
  <1>4. ASSUME NEW d \in Daemons, NEW to \in Manager!Alive \cup Manager!Done, Moves(d, to),
               to = "running" => ~stopSet[d]
        PROVE  TaskMayGo(o)
    <2>0. to \in TaskState
      BY DEF TaskState
    <2>1. CASE o = d
      BY <1>0, <1>4, <2>1, TaskAfter DEF TaskMayGo
    <2>2. CASE o # d
      BY <1>0, <1>4, <2>0, <2>2, TaskSteps DEF TaskMayGo
    <2>3. QED
      BY <2>1, <2>2
  <1>5. Manager!Alive \cap Manager!Done = {} /\ "none" \notin Manager!Alive
    BY DEF Manager!Alive, Manager!Done
  <1>6. CASE \/ Manager!Listen \/ Manager!StopDone \/ Manager!ListenerFails \/ Manager!StopFindsError
             \/ UNCHANGED managerVars
    BY <1>1, <1>6 DEF Manager!Listen, Manager!StopDone, Manager!ListenerFails, Manager!StopFindsError,
                      Manager!taskVars, managerVars
  <1>7. ASSUME NEW d \in Daemons,
               \/ Manager!CreateAgent(d) \/ Manager!DeleteAgent(d) \/ Manager!StopRaises(d)
               \/ Manager!StopAborts(d) \/ \E k \in Manager!Kinds : Manager!Publish(k, d)
        PROVE  TaskMayGo(o)
    <2>1. UNCHANGED <<task, stopSet>>
      BY <1>7 DEF Manager!CreateAgent, Manager!DeleteAgent, Manager!StopRaises, Manager!StopAborts,
                  Manager!Publish, Manager!taskVars
    <2>2. QED
      BY <1>1, <2>1
  <1>8. ASSUME NEW d \in Daemons, Manager!StartUp(d) \/ Manager!StartNotLogged(d)
        PROVE  TaskMayGo(o)
    <2>1. Starts(d)
      BY <1>8 DEF Manager!StartUp, Manager!StartNotLogged, Manager!StartDaemon, Manager!HasEntry, Starts
    <2>2. QED
      BY <1>2, <1>5, <2>1
  <1>9. ASSUME NEW d \in Daemons, Manager!StopReturns(d) \/ Manager!CancelledEnds(d) \/ Manager!StopNotLogged(d)
        PROVE  TaskMayGo(o)
    <2>1. d \in entry /\ task[d] \in {"returned", "cancelled"}
      BY <1>0, <1>9 DEF Manager!StopReturns, Manager!CancelledEnds, Manager!StopNotLogged,
                        Manager!Stopping, Manager!HandledIsListed
    <2>2. Starts(d) \/ Forgets(d)
      <3>1. CASE Manager!StopReturns(d)
        BY <2>1, <3>1 DEF Manager!StopReturns, Manager!AfterStop, Manager!Forget, Starts, Forgets
      <3>2. CASE Manager!CancelledEnds(d)
        BY <2>1, <3>2 DEF Manager!CancelledEnds, Manager!Forget, Starts, Forgets
      <3>3. CASE Manager!StopNotLogged(d)
        BY <3>3 DEF Manager!StopNotLogged, Manager!Forget, Forgets
      <3>4. QED
        BY <1>9, <3>1, <3>2, <3>3
    <2>3. task[d] \notin Manager!Alive
      BY <2>1 DEF Manager!Alive
    <2>4. QED
      BY <1>2, <1>3, <1>5, <2>2, <2>3
  <1>10. ASSUME NEW d \in Daemons,
                \/ Manager!RunLoop(d) \/ Manager!LoopReturns(d) \/ Manager!LoopRaises(d)
                \/ Manager!Backoff(d) \/ Manager!AuditRaises(d) \/ Manager!BackoffEnds(d)
                \/ Manager!StopTimesOut(d)
         PROVE  TaskMayGo(o)
    <2>1. PICK to \in {"running", "returned", "checking", "crashed", "backoff", "raised", "cancelled"} :
            Moves(d, to) /\ (to = "running" => ~stopSet[d])
      BY <1>10 DEF Manager!RunLoop, Manager!LoopReturns, Manager!LoopRaises, Manager!Backoff,
                   Manager!AuditRaises, Manager!BackoffEnds, Manager!StopTimesOut, Manager!Step,
                   Manager!MayRun, Moves
    <2>2. to \in Manager!Alive \cup Manager!Done
      BY DEF Manager!Alive, Manager!Done
    <2>3. QED
      BY <1>4, <2>1, <2>2
  <1>11. CASE Manager!HandleEvent
    <2>1. Head(events).daemon \in Daemons
      <3>1. events # <<>> /\ events \in Seq(Manager!EventSet)
        BY <1>0, <1>11 DEF OtherTypes, Manager!HandleEvent
      <3>2. Head(events) \in Manager!EventSet
        BY <3>1, HeadTailProperties
      <3>3. QED
        BY <3>2 DEF Manager!EventSet
    <2>2. PICK d \in Daemons : d = Head(events).daemon
      BY <2>1
    <2>3. Tasks \/ Starts(d) \/ Told(d)
      BY <1>11, <2>2 DEF Manager!HandleEvent, Manager!StartDaemon, Manager!HasEntry, Manager!BeginStop,
             Manager!taskVars, Tasks, Starts, Told
    <2>4. CASE Told(d)
      BY <2>4 DEF Told, TaskMayGo
    <2>5. QED
      BY <1>1, <1>2, <1>5, <2>3, <2>4 DEF Tasks
  <1>12. CASE Manager!Stop
    <2>1. task'[o] = (IF Manager!Stopping(o) /\ task[o] \in Manager!Alive THEN "cancelled" ELSE task[o])
      BY <1>12 DEF Manager!Stop
    <2>2. QED
      BY <2>1 DEF TaskMayGo, Manager!Done
  <1>13. ASSUME NEW d \in Daemons, Manager!StopNext(d) PROVE TaskMayGo(o)
    BY <1>13 DEF Manager!StopNext, Manager!BeginStop, TaskMayGo
  <1>14. QED
    BY <1>6, <1>7, <1>8, <1>9, <1>10, <1>11, <1>12, <1>13
       DEF Manager!Next, Manager!Managing, Manager!Keeper, Manager!Listener, Manager!Shutdown

(* The dictionary of the manager and the tasks tell one story, and what is      *)
(* stopped stays stopped and is not forgotten before it is (manager.py:68), for *)
(* any daemons, events and failures, alone or with the loop of an inbox.        *)
THEOREM TasksAreAccounted == Spec => TasksAccounted
  <1> DEFINE Listed == Manager!TypeOK /\ Manager!NoForgottenTask /\ Manager!EntriesAlive
                       /\ Manager!DeadIsListed /\ Manager!HandledIsListed
             OnlyEnded == \A d \in Daemons : task[d] \in Manager!Alive =>
                                               task'[d] \in Manager!Alive \cup Manager!Done
             NeverRuns == \A d \in Daemons :
                            stopSet[d] /\ task[d] # "running" /\ stopSet'[d] => task'[d] # "running"
  <1>1. ManagerInv /\ [Next]_vars => [OnlyEnded]_managerVars /\ [NeverRuns]_managerVars
    <2> SUFFICES ASSUME ManagerInv, [Next]_vars PROVE OnlyEnded /\ NeverRuns
      OBVIOUS
    <2>1. [Manager!Next]_managerVars
      BY ManagerSteps DEF ManagerInv
    <2>2. \A o \in Daemons : TaskMayGo(o)
      BY <2>1, TaskGoes
    <2>3. QED
      BY <2>2 DEF TaskMayGo
  <1>2. Spec => [][OnlyEnded]_managerVars /\ [][NeverRuns]_managerVars
    BY <1>1, ManagerInvariance, PTL DEF Spec
  <1>3. ManagerInv <=> Listed
    BY DEF ManagerInv
  <1>4. QED
    BY <1>2, <1>3, ManagerInvariance, PTL
       DEF TasksAccounted, Manager!Consistent, Manager!ForgetsOnlyEndedTasks, Manager!StoppedNeverRuns,
           managerVars, Manager!vars

-----------------------------------------------------------------------------
(* The two together. *)

(* No step that manages changes a running task but by cancelling it.            *)
LEMMA RunningIsCancelled ==
  ASSUME ManagerInv, Manager!Managing, NEW o \in Daemons, task[o] = "running"
  PROVE  task'[o] \in {"running", "cancelled"}
  <1>0. /\ TasksTyped /\ OtherTypes /\ Manager!HandledIsListed /\ "running" \in Manager!Alive
    BY InvIs DEF ManagerParts, Manager!Alive
  <1>1. ASSUME NEW d \in Daemons, Starts(d), d # o PROVE task'[o] = "running"
    BY <1>0, <1>1, TaskSteps
  <1>2. ASSUME NEW d \in Daemons, Forgets(d), d # o PROVE task'[o] = "running"
    BY <1>0, <1>2, TaskSteps
  <1>3. ASSUME UNCHANGED task PROVE task'[o] = "running"
    BY <1>3
  <1>4. o \in entry
    BY InvIs, <1>0 DEF ManagerParts, DaemonInv
  <1>5. CASE Manager!Listen \/ Manager!StopDone \/ Manager!ListenerFails \/ Manager!StopFindsError
    BY <1>5 DEF Manager!Listen, Manager!StopDone, Manager!ListenerFails, Manager!StopFindsError,
                Manager!taskVars
  <1>6. ASSUME NEW d \in Daemons,
               \/ Manager!CreateAgent(d) \/ Manager!DeleteAgent(d) \/ Manager!StopRaises(d)
               \/ Manager!StopAborts(d) \/ Manager!StopNext(d)
               \/ \E k \in Manager!Kinds : Manager!Publish(k, d)
        PROVE  task'[o] = "running"
    <2>1. UNCHANGED task
      BY <1>6 DEF Manager!CreateAgent, Manager!DeleteAgent, Manager!StopRaises, Manager!StopAborts,
                  Manager!StopNext, Manager!BeginStop, Manager!Publish, Manager!taskVars
    <2>2. QED
      BY <2>1
  <1>7. ASSUME NEW d \in Daemons, Manager!StartUp(d) \/ Manager!StartNotLogged(d)
        PROVE  task'[o] = "running"
    <2>1. Starts(d) /\ d \notin entry
      BY <1>7 DEF Manager!StartUp, Manager!StartNotLogged, Manager!StartDaemon, Manager!HasEntry, Starts
    <2>2. QED
      BY <1>1, <1>4, <2>1
  <1>8. ASSUME NEW d \in Daemons, Manager!StopReturns(d) \/ Manager!CancelledEnds(d) \/ Manager!StopNotLogged(d)
        PROVE  task'[o] = "running"
    <2>1. d \in entry /\ task[d] \in {"returned", "cancelled"}
      BY <1>0, <1>8 DEF Manager!StopReturns, Manager!CancelledEnds, Manager!StopNotLogged,
                        Manager!Stopping, Manager!HandledIsListed
    <2>2. Starts(d) \/ Forgets(d)
      <3>1. CASE Manager!StopReturns(d)
        BY <2>1, <3>1 DEF Manager!StopReturns, Manager!AfterStop, Manager!Forget, Starts, Forgets
      <3>2. CASE Manager!CancelledEnds(d)
        BY <2>1, <3>2 DEF Manager!CancelledEnds, Manager!Forget, Starts, Forgets
      <3>3. CASE Manager!StopNotLogged(d)
        BY <3>3 DEF Manager!StopNotLogged, Manager!Forget, Forgets
      <3>4. QED
        BY <1>8, <3>1, <3>2, <3>3
    <2>3. d # o
      BY <2>1
    <2>4. QED
      BY <1>1, <1>2, <2>2, <2>3
  <1>9. ASSUME NEW d \in Daemons,
               \/ Manager!Backoff(d) \/ Manager!AuditRaises(d) \/ Manager!BackoffEnds(d)
               \/ Manager!StopTimesOut(d)
        PROVE  task'[o] \in {"running", "cancelled"}
    <2>1. PICK to : /\ task' = [task EXCEPT ![d] = to]
                    /\ to = "cancelled" \/ task[d] # "running"
      BY <1>9 DEF Manager!Backoff, Manager!AuditRaises, Manager!BackoffEnds, Manager!StopTimesOut,
                  Manager!Step
    <2>2. task \in [Daemons -> TaskState]
      BY <1>0 DEF TasksTyped
    <2>3. QED
      BY <2>1, <2>2
  <1>10. CASE Manager!HandleEvent
    <2>1. PICK d : Tasks \/ (Starts(d) /\ d \notin entry) \/ Told(d)
      BY <1>10 DEF Manager!HandleEvent, Manager!StartDaemon, Manager!HasEntry, Manager!BeginStop,
             Manager!taskVars, Tasks, Starts, Told
    <2>2. ASSUME Starts(d), d \notin entry PROVE task'[o] = "running"
      BY <1>0, <1>4, <2>2 DEF TasksTyped, Starts
    <2>3. QED
      BY <2>1, <2>2 DEF Tasks, Told
  <1>11. CASE Manager!Stop
    BY <1>11 DEF Manager!Stop
  <1>12. QED
    BY <1>5, <1>6, <1>7, <1>8, <1>9, <1>10, <1>11
       DEF Manager!Managing, Manager!Keeper, Manager!Listener, Manager!Shutdown

HasTask == scope = "together" => LoopHasTask

LEMMA HasTaskStep == ManagerInv /\ HasTask /\ [Next]_vars => HasTask'
  <1> SUFFICES ASSUME HasTask, [Next]_vars, scope' = "together", ManagerInv PROVE LoopHasTask'
    BY DEF HasTask
  <1>0. /\ task \in [Daemons -> TaskState] /\ Served \in Daemons
    BY InvIs, Bounds DEF ManagerParts, TasksTyped
  <1>1. CASE UNCHANGED vars
    BY <1>1 DEF HasTask, LoopHasTask, vars, bothVars, inboxVars, managerVars
  <1>2. CASE Together /\ scope = "together"
    <2>0. loop # "off" => task[Served] = "running"
      BY <1>2 DEF HasTask, LoopHasTask
    <2>1. CASE Manages
      BY <2>0, <2>1 DEF Manages, TaskTakesLoop, JointInbox!LoopGone, LoopHasTask, inboxVars
    <2>2. CASE RunsLoop
      <3>1. task[Served] = "checking"
        BY <2>2 DEF RunsLoop, JointManager!RunLoop, JointManager!Step
      <3>2. QED
        BY <2>0, <2>2, <3>1 DEF RunsLoop, LoopHasTask, inboxVars
    <2>3. CASE LoopReturns \/ LoopRaises
      BY <2>3 DEF LoopReturns, LoopRaises, JointInbox!StopLoop, JointInbox!LoopEnds,
                  JointInbox!LoopGone, LoopHasTask
    <2>4. CASE Recovers
      <3>1. task[Served] # "running" /\ loop' = loop
        BY <2>4 DEF Recovers, JointManager!Backoff, JointManager!BackoffEnds, JointManager!Step, inboxVars
      <3>2. QED
        BY <2>0, <3>1 DEF LoopHasTask
    <2>5. CASE WakesByMessage \/ WakesByTick \/ LoopWorks \/ ClockMoves
      <3>1. loop # "off" \/ loop' = loop
        BY <2>5 DEF WakesByMessage, WakesByTick, LoopWorks, ClockMoves, JointInbox!WakeByMessage,
                    JointInbox!WakeByTick, JointInbox!Cycle, JointInbox!Subscribe, JointInbox!SleepOver,
                    JointInbox!ReadInbox, JointInbox!ExecutionReturns, JointInbox!AckMessage,
                    JointInbox!ClockMoves
      <3>2. task' = task
        BY <2>5 DEF WakesByMessage, WakesByTick, LoopWorks, ClockMoves, managerVars
      <3>3. QED
        BY <2>0, <3>1, <3>2 DEF LoopHasTask
    <2>6. CASE /\ JointInbox!AddMessage \/ JointInbox!Notify \/ JointInbox!CycleFails
               /\ UNCHANGED managerVars
      <3>1. loop # "off" \/ loop' = loop
        BY <2>6 DEF JointInbox!AddMessage, JointInbox!Notify, JointInbox!CycleFails
      <3>2. QED
        BY <2>0, <2>6, <3>1 DEF LoopHasTask, managerVars
    <2>7. QED
      BY <1>2, <2>1, <2>2, <2>3, <2>4, <2>5, <2>6, Zenon DEF Together, DaemonTask
  <1>3. QED
    BY <1>1, <1>2, Zenon DEF Next

LEMMA HasTaskInvariance == Spec => []HasTask
  <1>1. Init => HasTask
    BY DEF Init, Inbox!Init, HasTask, LoopHasTask
  <1>2. QED
    BY <1>1, HasTaskStep, ManagerInvariance, PTL DEF Spec

(* A message leaves the inbox only after an execution was given it or because   *)
(* the stream was full, daemon and tool never hold the same one (loop.py:97),   *)
(* and no loop serves the inbox but in the manager's running task.              *)
THEOREM InboxIsAccounted == Spec => []InboxAccounted
  <1>1. Inbox!Consistent /\ HasTask => InboxAccounted
    BY DEF HasTask, InboxAccounted
  <1>2. QED
    BY <1>1, InboxInvariance, HasTaskInvariance, PTL

(* What is held stays held or is done, unless the step fails or the task ends   *)
(* cancelled; what waits stays in the stream or is taken, unless one is added.  *)
KeepsHeld   == Inbox!ToSet(batch) \cup inTool \subseteq Inbox!ToSet(batch') \cup inTool' \cup seen'
KeepsFresh  == \A i \in stream : i > delivered =>
                 i \in Inbox!ToSet(batch') \cup inTool' \cup seen' \/ (i \in stream' /\ i > delivered')

LEMMA ForceOnly ==
  ASSUME Inbox!Consistent, ManagerInv, LoopHasTask, Together
  PROVE  /\ KeepsHeld \/ inboxFaults' # inboxFaults \/ task'[Served] = "cancelled"
         /\ KeepsFresh \/ sent' # sent
  <1>0. /\ sent \in Nat /\ inboxFaults \in Nat /\ published \in Nat /\ managerFaults \in Nat
        /\ Served \in Daemons
    BY InboxTypes, ManagerTypes, Bounds DEF ManagerInv
  <1>a. inboxFaults + 1 # inboxFaults /\ sent + 1 # sent
    BY <1>0
  <1>1. ASSUME UNCHANGED <<stream, delivered, batch, inTool>>, seen \subseteq seen'
        PROVE  KeepsHeld /\ KeepsFresh
    BY <1>1 DEF KeepsHeld, KeepsFresh
  <1>2. ASSUME Inbox!LoopGone PROVE KeepsFresh
    BY <1>2 DEF Inbox!LoopGone, Inbox!streamVars, KeepsFresh
  <1>3. CASE Manages
    <2>1. CASE loop # "off" /\ task'[Served] # "running"
      <3>1. task'[Served] = "cancelled"
        BY <1>0, <1>3, <2>1, JointManagerSteps, RunningIsCancelled DEF Manages, LoopHasTask
      <3>2. KeepsFresh
        BY <1>0, <1>2, <1>3, <2>1, JointInboxSteps DEF Manages, TaskTakesLoop
      <3>3. QED
        BY <3>1, <3>2
    <2>2. CASE ~(loop # "off" /\ task'[Served] # "running")
      BY <1>1, <1>3, <2>2 DEF Manages, TaskTakesLoop, inboxVars
    <2>3. QED
      BY <2>1, <2>2
  <1>4. CASE RunsLoop \/ Recovers
    <2>1. UNCHANGED <<stream, delivered, batch, inTool, seen>>
      BY <1>4 DEF RunsLoop, Recovers, JointInbox!StartLoop, JointInbox!streamVars, inboxVars
    <2>2. QED
      BY <1>1, <2>1
  <1>5. CASE LoopReturns
    <2>1. Inbox!LoopGone /\ loop = "waiting"
      BY <1>0, <1>5, JointInboxSteps DEF LoopReturns, JointInbox!StopLoop, JointInbox!BetweenCycles
    <2>2. batch = <<>> /\ batch' = batch
      BY <2>1 DEF Inbox!Consistent, Inbox!HeldInCycle, Inbox!LoopGone
    <2>3. UNCHANGED <<stream, delivered, batch, inTool, seen>>
      BY <2>1, <2>2 DEF Inbox!LoopGone, Inbox!streamVars
    <2>4. QED
      BY <1>1, <2>3
  <1>6. CASE LoopRaises
    <2>1. Inbox!LoopGone /\ inboxFaults' = inboxFaults + 1
      BY <1>0, <1>6, JointInboxSteps DEF LoopRaises, JointInbox!LoopEnds
    <2>2. QED
      BY <1>2, <1>a, <2>1
  <1>7. CASE WakesByMessage \/ WakesByTick \/ ClockMoves \/ JointInbox!Notify
    <2>1. UNCHANGED <<stream, delivered, batch, inTool, seen>>
      BY <1>7 DEF WakesByMessage, WakesByTick, ClockMoves, JointInbox!WakeByMessage,
                  JointInbox!WakeByTick, JointInbox!ClockMoves, JointInbox!Notify, JointInbox!streamVars
    <2>2. QED
      BY <1>1, <2>1
  <1>8. CASE LoopWorks
    <2>1. Inbox!Cycle
      BY <1>0, <1>8, JointInboxSteps DEF LoopWorks
    <2>2. CASE Inbox!Subscribe \/ Inbox!SleepOver \/ Inbox!ExecutionReturns
      BY <1>1, <2>2 DEF Inbox!Subscribe, Inbox!SleepOver, Inbox!ExecutionReturns, Inbox!streamVars
    <2>3. CASE Inbox!ReadInbox
      <3>1. /\ batch = <<>> /\ batch' \in Inbox!Oldest(Inbox!Deliverable, PerCycle)
            /\ Inbox!Deliver(batch') /\ UNCHANGED <<sent, stream, inTool, seen>>
        BY <2>3 DEF Inbox!ReadInbox, Inbox!Consistent, Inbox!HeldInCycle
      <3>2. Inbox!ToSet(batch') = {k \in Inbox!Fresh : k <= delivered'} /\ delivered' \in Nat
        BY <3>1, InboxReads
      <3>3. Inbox!ToSet(batch) = {}
        BY <3>1 DEF Inbox!ToSet
      <3>4. KeepsHeld
        BY <3>1, <3>3 DEF KeepsHeld
      <3>5. stream \subseteq Nat
        BY InboxTypes
      <3>6. KeepsFresh
        BY <3>1, <3>2, <3>5 DEF KeepsFresh, Inbox!Fresh
      <3>7. QED
        BY <3>4, <3>6
    <2>4. CASE Inbox!AckMessage
      <3>1. /\ batch' = Tail(batch) /\ stream' = stream \ {Head(batch)}
            /\ batch # <<>> /\ Inbox!ToSet(batch) \subseteq seen
            /\ UNCHANGED <<sent, delivered, inTool, seen>>
        BY <2>4 DEF Inbox!AckMessage, Inbox!Deletes, Inbox!Consistent, Inbox!HeldInCycle
      <3>2. Head(batch) \in Inbox!ToSet(batch)
        <4>1. batch \in Seq(1 .. sent)
          BY InboxTypes
        <4>2. Len(batch) # 0 /\ Head(batch) = batch[1]
          BY <3>1, <4>1, EmptySeq, HeadTailProperties
        <4>3. 1 \in DOMAIN batch
          BY <4>1, <4>2, LenProperties
        <4>4. QED
          BY <4>2, <4>3 DEF Inbox!ToSet
      <3>3. QED
        BY <3>1, <3>2 DEF KeepsHeld, KeepsFresh
    <2>5. QED
      BY <2>1, <2>2, <2>3, <2>4 DEF Inbox!Cycle
  <1>9. CASE JointInbox!AddMessage
    <2>1. Inbox!AddMessage
      BY <1>0, <1>9, JointInboxSteps
    <2>2. sent' = sent + 1 /\ UNCHANGED <<batch, inTool, seen>>
      BY <2>1 DEF Inbox!AddMessage
    <2>3. QED
      BY <1>a, <2>2 DEF KeepsHeld
  <1>10. CASE JointInbox!CycleFails
    <2>1. inboxFaults' = inboxFaults + 1 /\ UNCHANGED <<stream, delivered>>
      BY <1>10 DEF JointInbox!CycleFails, JointInbox!streamVars
    <2>2. QED
      BY <1>a, <2>1 DEF KeepsFresh
  <1>11. QED
    BY <1>3, <1>4, <1>5, <1>6, <1>7, <1>8, <1>9, <1>10, Zenon DEF Together, DaemonTask

LEMMA JointFates ==
  ASSUME NEW i \in 1 .. JointMessages
  PROVE  /\ i \in Inbox!Messages
         /\ JointInbox!FateOf(i) = Fate[i] /\ JointInbox!FateOf(i)' = Fate'[i]
  <1>1. i \in Inbox!Messages
    BY Bounds DEF Inbox!Messages
  <1>2. JointInbox!FateOf(i) = Inbox!FateOf(i)
    BY DEF JointInbox!FateOf, Inbox!FateOf, JointInbox!Fresh, Inbox!Fresh, JointInbox!ToSet, Inbox!ToSet
  <1>3. JointInbox!FateOf(i)' = Inbox!FateOf(i)'
    BY DEF JointInbox!FateOf, Inbox!FateOf, JointInbox!Fresh, Inbox!Fresh, JointInbox!ToSet, Inbox!ToSet
  <1>4. QED
    BY <1>1, <1>2, <1>3 DEF Fate, Inbox!Messages

(* The manager never costs the daemon its mail by a graceful stop or restart:   *)
(* a message that was taken is lost by a failure, or by the cancellation after  *)
(* the 60 seconds or at shutdown (manager.py:78); one that waits, by trimming.  *)
THEOREM MailIsLostByForceOnly == Spec => LostByForceOnly
  <1> DEFINE Forced == scope = "together" =>
               \A i \in 1 .. JointMessages :
                 /\ JointInbox!FateOf(i) = "taken" /\ JointInbox!FateOf(i)' = "lost" =>
                      inboxFaults' # inboxFaults \/ task'[Served] = "cancelled"
                 /\ JointInbox!FateOf(i) = "queued" /\ JointInbox!FateOf(i)' = "lost" =>
                      sent' # sent
  <1>1. Inbox!Consistent /\ ManagerInv /\ HasTask /\ Inbox!Consistent' /\ [Next]_vars => [Forced]_vars
    <2> SUFFICES ASSUME Inbox!Consistent, ManagerInv, HasTask, Inbox!Consistent', Next, scope = "together",
                        NEW i \in 1 .. JointMessages
                 PROVE  /\ Fate[i] = "taken" /\ Fate'[i] = "lost" =>
                             inboxFaults' # inboxFaults \/ task'[Served] = "cancelled"
                        /\ Fate[i] = "queued" /\ Fate'[i] = "lost" => sent' # sent
      BY JointFates
    <2>1. Together /\ LoopHasTask
      BY DEF Next, HasTask
    <2>2. /\ KeepsHeld \/ inboxFaults' # inboxFaults \/ task'[Served] = "cancelled"
          /\ KeepsFresh \/ sent' # sent
      BY <2>1, ForceOnly
    <2>3. i \in Inbox!Messages
      BY JointFates
    <2>4. Fate'[i] = "lost" => /\ i \notin Inbox!ToSet(batch') \cup inTool' \cup seen'
                               /\ ~(i \in stream' /\ i > delivered')
      BY <2>3, FateCases
    <2>5. /\ Fate[i] = "taken" => i \in Inbox!ToSet(batch) \cup inTool
          /\ Fate[i] = "queued" => i \in stream /\ i > delivered
      BY <2>3, FateIs
    <2>6. QED
      BY <2>2, <2>4, <2>5 DEF KeepsHeld, KeepsFresh
  <1>2. QED
    BY <1>1, InboxInvariance, ManagerInvariance, HasTaskInvariance, PTL DEF Spec, LostByForceOnly
=============================================================================
