---------------------------- MODULE DeliveryProofs ----------------------------
(***************************************************************************)
(* Theorems about the signal queue, alone and with the orchestrator, for    *)
(* every number of signals, batch size and number of faults.  The queue's    *)
(* inductive invariant IInv says that the worker holds delivered entries in  *)
(* their order and that what was delivered is pending until it is processed; *)
(* from it follow the bookkeeping, the order and the refinement of           *)
(* AtMostOnceQueue.  With the orchestrator, whose own invariant is proved in *)
(* OrchestratorProofs, Linked says where a signal may be in process().       *)
(***************************************************************************)
EXTENDS MCDelivery, FiniteSetTheorems, SequenceTheorems, TLAPS

-----------------------------------------------------------------------------
(* Reading the stream. *)

Ascending(b) == \A i, j \in DOMAIN b : i < j => b[i] < b[j]

(* What one read returns: the oldest entries in order, at least one if there   *)
(* is one.                                                                     *)
LEMMA ReadOldest ==
  ASSUME NEW S, S \subseteq Nat, NEW n \in Nat \ {0}, NEW b \in Oldest(S, n)
  PROVE  /\ b \in Seq(S) /\ b \in Seq(Nat)
         /\ Len(b) \in 0 .. n /\ DOMAIN b = 1 .. Len(b)
         /\ Ascending(b)
         /\ ToSet(b) \subseteq S
         /\ \A k \in S \ ToSet(b) : \A i \in DOMAIN b : b[i] < k
         /\ S # {} => b # <<>>
  <1>1. PICK m \in 0 .. n : b \in [1 .. m -> S]
    BY DEF Oldest, BoundedSeq, SeqOf
  <1>2. b \in Seq(S) /\ Len(b) = m /\ DOMAIN b = 1 .. m
    BY <1>1
  <1>3. b \in Seq(Nat)
    BY <1>2, SeqMonotonic
  <1>4. Ascending(b)
    BY DEF Oldest, Ascending
  <1>5. ToSet(b) \subseteq S
    BY <1>1 DEF ToSet
  <1>6. \A k \in S \ ToSet(b) : Len(b) = n /\ \A i \in DOMAIN b : b[i] < k
    BY DEF Oldest
  <1>7. ASSUME S # {}, b = <<>>
        PROVE  FALSE
    <2>1. Len(b) = 0 /\ ToSet(b) = {}
      BY <1>1, <1>2, <1>7 DEF ToSet
    <2>2. QED
      BY <1>6, <1>7, <2>1
  <1>8. QED
    BY <1>1, <1>2, <1>3, <1>4, <1>5, <1>6, <1>7

(* The last-delivered id after a read.                                         *)
LEMMA LastDelivered ==
  ASSUME NEW d \in Nat, NEW b \in Seq(Nat), Ascending(b), \A i \in DOMAIN b : b[i] > d
  PROVE  Max({d} \cup ToSet(b)) = IF b = <<>> THEN d ELSE b[Len(b)]
  <1> DEFINE last == IF b = <<>> THEN d ELSE b[Len(b)]
             S == {d} \cup ToSet(b)
  <1>1. /\ Len(b) \in Nat /\ DOMAIN b = 1 .. Len(b)
        /\ b # <<>> => Len(b) > 0
        /\ \A i \in DOMAIN b : b[i] \in Nat
    BY LenProperties, EmptySeq, ElementOfSeq
  <1>2. last \in S
    BY <1>1 DEF ToSet
  <1>3. \A y \in S : last >= y
    <2>1. CASE b = <<>>
      BY <2>1, <1>1 DEF ToSet
    <2>2. CASE b # <<>>
      <3>1. Len(b) \in DOMAIN b /\ b[Len(b)] \in Nat /\ b[Len(b)] > d
        BY <1>1, <2>2
      <3>2. ASSUME NEW i \in DOMAIN b PROVE b[Len(b)] >= b[i]
        <4>1. CASE i = Len(b)
          BY <3>1, <4>1
        <4>2. CASE i # Len(b)
          <5>1. i < Len(b)
            BY <1>1, <4>2
          <5>2. b[i] < b[Len(b)]
            BY <3>1, <5>1 DEF Ascending
          <5>3. QED
            BY <1>1, <3>1, <5>2
        <4>3. QED
          BY <4>1, <4>2
      <3>3. QED
        BY <2>2, <3>1, <3>2 DEF ToSet
    <2>3. QED
      BY <2>1, <2>2
  <1>4. S \subseteq Nat
    BY <1>1 DEF ToSet
  <1>5. \A x \in S : (\A y \in S : x >= y) => x = last
    BY <1>2, <1>3, <1>4
  <1>6. Max(S) = last
    <2> HIDE DEF S, last
    <2>1. (CHOOSE x \in S : \A y \in S : x >= y) = last
      BY <1>2, <1>3, <1>5
    <2>2. QED
      BY <2>1 DEF Max
  <1>7. QED
    BY <1>6

(* A sequence has no more elements than it is long.                            *)
LEMMA FewElements ==
  ASSUME NEW b \in Seq(Nat)
  PROVE  IsFiniteSet(ToSet(b)) /\ Cardinality(ToSet(b)) <= Len(b)
  <1>1. Len(b) \in Nat /\ DOMAIN b = 1 .. Len(b) /\ b \in [1 .. Len(b) -> Nat]
    BY LenProperties
  <1> DEFINE D == 1 .. Len(b)
             T == ToSet(b)
  <1>2. IsFiniteSet(D) /\ Cardinality(D) = Len(b)
    <2>1. Len(b) \in Int /\ (Len(b) < 1 => Len(b) = 0)
      BY <1>1
    <2>2. IsFiniteSet(1 .. Len(b))
          /\ Cardinality(1 .. Len(b)) = IF 1 > Len(b) THEN 0 ELSE Len(b) - 1 + 1
      BY <2>1, FS_Interval
    <2>3. QED
      BY <2>1, <2>2
  <1>3. b \in Surjection(D, T)
    BY <1>1 DEF Surjection, ToSet
  <1>4. IsFiniteSet(T) /\ Cardinality(T) <= Cardinality(D)
    <2> HIDE DEF D, T
    <2>1. QED
      BY <1>2, <1>3, FS_Surjection, Zenon
  <1>5. QED
    BY <1>2, <1>4

-----------------------------------------------------------------------------
(* The queue.  Its inductive invariant. *)

IInv == /\ TypeOK /\ DeletedOnlyIfProcessed /\ PendingIsHeld /\ StrandedBounded
        /\ HeldInOrder /\ PendingUntilProcessed

(* The types of the batch, as the provers need them.                           *)
LEMMA BatchTypes ==
  ASSUME IInv
  PROVE  /\ MaxSignals \in Nat /\ BatchSize \in Nat \ {0} /\ MaxFaults \in Nat
         /\ sent \in Nat /\ sent <= MaxSignals
         /\ delivered \in Nat /\ delivered <= sent
         /\ batch \in Seq(Nat) /\ batch \in Seq(1 .. sent)
         /\ Len(batch) \in Nat /\ Len(batch) <= BatchSize
         /\ DOMAIN batch = 1 .. Len(batch)
         /\ \A i \in DOMAIN batch : batch[i] \in 1 .. delivered /\ batch[i] \in Signals
         /\ Ascending(batch)
  <1>1. /\ MaxSignals \in Nat /\ BatchSize \in Nat \ {0} /\ MaxFaults \in Nat
        /\ sent \in Nat /\ sent <= MaxSignals
        /\ delivered \in Nat /\ delivered <= sent
        /\ batch \in Seq(1 .. sent) /\ Len(batch) <= BatchSize
    BY BoundsAssumption DEF IInv, TypeOK
  <1>2. /\ Len(batch) \in Nat /\ DOMAIN batch = 1 .. Len(batch)
        /\ \A i \in DOMAIN batch : batch[i] \in 1 .. sent
    BY <1>1, LenProperties, ElementOfSeq
  <1>3. batch \in Seq(Nat)
    <2>1. 1 .. sent \subseteq Nat
      BY <1>1
    <2>2. QED
      BY <1>1, <2>1, SeqMonotonic
  <1>4. Ascending(batch) /\ \A i \in DOMAIN batch : batch[i] <= delivered
    BY DEF IInv, HeldInOrder, Ascending
  <1>5. \A i \in DOMAIN batch : batch[i] \in 1 .. delivered /\ batch[i] \in Signals
    BY <1>1, <1>2, <1>4 DEF Signals
  <1>6. QED
    BY <1>1, <1>2, <1>3, <1>4, <1>5

(* The worker's entry, and those behind it.                                    *)
LEMMA HeadOfBatch ==
  ASSUME IInv, batch # <<>>
  PROVE  /\ Head(batch) = batch[1] /\ 1 \in DOMAIN batch
         /\ Head(batch) \in 1 .. delivered /\ Head(batch) \in Signals
         /\ Head(batch) \in ToSet(batch)
         /\ \A i \in DOMAIN batch : i # 1 => Head(batch) < batch[i]
  <1>1. Len(batch) \in Nat /\ Len(batch) > 0
    BY BatchTypes, EmptySeq
  <1>2. Head(batch) = batch[1] /\ 1 \in DOMAIN batch
    BY <1>1, BatchTypes
  <1>3. \A i \in DOMAIN batch : i # 1 => batch[1] < batch[i]
    <2>1. \A i \in DOMAIN batch : i # 1 => 1 < i
      BY BatchTypes
    <2>2. QED
      BY <1>2, <2>1, BatchTypes DEF Ascending
  <1>4. QED
    BY <1>2, <1>3, BatchTypes DEF ToSet

LEMMA TailOfBatch ==
  ASSUME IInv, batch # <<>>
  PROVE  /\ Tail(batch) \in Seq(1 .. sent)
         /\ Len(Tail(batch)) = Len(batch) - 1
         /\ DOMAIN Tail(batch) = 1 .. (Len(batch) - 1)
         /\ \A i \in 1 .. (Len(batch) - 1) : Tail(batch)[i] = batch[i + 1]
         /\ Tail(batch) # <<>> <=> Len(batch) # 1
         /\ ToSet(batch) = ToSet(Tail(batch)) \cup {Head(batch)}
         /\ Head(batch) \notin ToSet(Tail(batch))
  <1>1. Len(batch) \in Nat /\ Len(batch) > 0 /\ batch \in Seq(1 .. sent)
    BY BatchTypes, EmptySeq
  <1>2. /\ Tail(batch) \in Seq(1 .. sent)
        /\ Len(Tail(batch)) = Len(batch) - 1
        /\ \A i \in 1 .. Len(Tail(batch)) : Tail(batch)[i] = batch[i + 1]
    BY <1>1, HeadTailProperties
  <1>3. DOMAIN Tail(batch) = 1 .. (Len(batch) - 1)
    BY <1>2, LenProperties
  <1>4. Tail(batch) # <<>> <=> Len(batch) # 1
    BY <1>1, <1>2, EmptySeq
  <1>5. ASSUME NEW x \in ToSet(batch)
        PROVE  x \in ToSet(Tail(batch)) \cup {Head(batch)}
    <2>1. PICK i \in DOMAIN batch : x = batch[i]
      BY DEF ToSet
    <2>2. CASE i = 1
      BY <2>1, <2>2, HeadOfBatch
    <2>3. CASE i # 1
      <3>1. i - 1 \in DOMAIN Tail(batch) /\ Tail(batch)[i - 1] = x
        BY <1>1, <1>2, <1>3, <2>1, <2>3, BatchTypes
      <3>2. QED
        BY <3>1 DEF ToSet
    <2>4. QED
      BY <2>2, <2>3
  <1>6. ASSUME NEW x \in ToSet(Tail(batch))
        PROVE  x \in ToSet(batch) /\ x # Head(batch)
    <2>1. PICK i \in 1 .. (Len(batch) - 1) : x = Tail(batch)[i]
      BY <1>3 DEF ToSet
    <2>2. i + 1 \in DOMAIN batch /\ i + 1 # 1 /\ x = batch[i + 1]
      BY <1>1, <1>2, <2>1, BatchTypes
    <2>a. delivered \in Nat /\ batch[i + 1] \in 1 .. delivered /\ Head(batch) \in 1 .. delivered
      BY <2>2, HeadOfBatch, BatchTypes
    <2>b. Head(batch) < batch[i + 1]
      BY <2>2, HeadOfBatch
    <2>3. Head(batch) < batch[i + 1] /\ batch[i + 1] \in Nat /\ Head(batch) \in Nat
      BY <2>a, <2>b
    <2>4. x \in ToSet(batch)
      BY <2>2 DEF ToSet
    <2>5. x # Head(batch)
      BY <2>2, <2>3
    <2>6. QED
      BY <2>4, <2>5
  <1>7. QED
    BY <1>2, <1>3, <1>4, <1>5, <1>6, HeadOfBatch

(* What one Dequeue hands to the worker.                                       *)
LEMMA DequeueStep ==
  ASSUME IInv, Dequeue
  PROVE  /\ batch = <<>> /\ batch' # <<>>
         /\ batch' \in Seq(Nat) /\ batch' \in Seq(1 .. sent)
         /\ Len(batch') \in 1 .. BatchSize
         /\ DOMAIN batch' = 1 .. Len(batch')
         /\ Ascending(batch')
         /\ delivered' = batch'[Len(batch')]
         /\ delivered' \in 1 .. sent /\ delivered < delivered'
         /\ \A i \in DOMAIN batch' : /\ batch'[i] \in Fresh
                                     /\ delivered < batch'[i] /\ batch'[i] <= delivered'
         /\ ToSet(batch') = {i \in Fresh : i <= delivered'}
         /\ Fresh = {i \in 1 .. sent : i > delivered}
  <1>1. Fresh \subseteq Nat /\ Fresh \subseteq 1 .. sent
    <2>1. stream \subseteq 1 .. sent
      BY DEF IInv, TypeOK
    <2>2. sent \in Nat
      BY BatchTypes
    <2>3. 1 .. sent \subseteq Nat
      BY <2>2
    <2>4. Fresh \subseteq stream
      BY DEF Fresh
    <2>5. QED
      BY <2>1, <2>3, <2>4
  <1>2. batch' \in Oldest(Fresh, BatchSize) /\ Fresh # {} /\ BatchSize \in Nat \ {0}
    BY BoundsAssumption DEF Dequeue, Deliverable
  <1>3. /\ batch' \in Seq(Fresh) /\ batch' \in Seq(Nat)
        /\ Len(batch') \in 0 .. BatchSize /\ DOMAIN batch' = 1 .. Len(batch')
        /\ Ascending(batch')
        /\ ToSet(batch') \subseteq Fresh
        /\ \A k \in Fresh \ ToSet(batch') : \A i \in DOMAIN batch' : batch'[i] < k
        /\ batch' # <<>>
    BY <1>1, <1>2, ReadOldest
  <1>4. Len(batch') \in 1 .. BatchSize /\ Len(batch') \in DOMAIN batch'
    BY <1>2, <1>3, EmptySeq
  <1>5. \A i \in DOMAIN batch' : batch'[i] \in Fresh /\ batch'[i] > delivered
    BY <1>3 DEF ToSet, Fresh
  <1>6. delivered' = batch'[Len(batch')]
    <2>1. delivered \in Nat
      BY BatchTypes
    <2>2. delivered' = Max({delivered} \cup ToSet(batch'))
      BY DEF Dequeue
    <2>3. Max({delivered} \cup ToSet(batch')) = IF batch' = <<>> THEN delivered ELSE batch'[Len(batch')]
      BY <1>3, <1>5, <2>1, LastDelivered
    <2>4. QED
      BY <1>3, <2>2, <2>3
  <1>7. delivered' \in Fresh /\ delivered' \in 1 .. sent /\ delivered < delivered'
    BY <1>1, <1>4, <1>5, <1>6, BatchTypes
  <1>8. \A i \in DOMAIN batch' : batch'[i] <= delivered'
    <2> SUFFICES ASSUME NEW i \in DOMAIN batch' PROVE batch'[i] <= batch'[Len(batch')]
      BY <1>6
    <2>1. batch'[i] \in Nat /\ batch'[Len(batch')] \in Nat
      BY <1>1, <1>4, <1>5
    <2>2. CASE i = Len(batch')
      BY <2>1, <2>2
    <2>3. CASE i # Len(batch')
      <3>1. i < Len(batch')
        BY <1>3, <2>3
      <3>2. batch'[i] < batch'[Len(batch')]
        BY <1>3, <1>4, <3>1 DEF Ascending
      <3>3. QED
        BY <2>1, <3>2
    <2>4. QED
      BY <2>2, <2>3
  <1>9. ToSet(batch') = {i \in Fresh : i <= delivered'}
    <2>1. ASSUME NEW k \in Fresh, k <= delivered', k \notin ToSet(batch')
          PROVE  FALSE
      <3>1. batch'[Len(batch')] < k
        BY <1>3, <1>4, <2>1
      <3>2. QED
        BY <1>1, <1>6, <1>7, <2>1, <3>1
    <2>2. QED
      BY <1>3, <1>8, <2>1 DEF ToSet
  <1>10. Fresh = {i \in 1 .. sent : i > delivered}
    <2>1. ASSUME NEW i \in 1 .. sent, i > delivered
          PROVE  i \in stream
      <3>1. i \in Signals
        BY BatchTypes DEF Signals
      <3>2. result[i] = "none"
        BY <2>1, <3>1, BatchTypes DEF IInv, PendingUntilProcessed
      <3>3. QED
        BY <3>2 DEF IInv, DeletedOnlyIfProcessed
    <2>2. QED
      BY <1>1, <2>1 DEF Fresh
  <1>11. batch = <<>>
    BY DEF Dequeue, IInv, HeldInOrder
  <1>12. batch' \in Seq(1 .. sent)
    BY <1>1, <1>3, SeqMonotonic
  <1>13. QED
    BY <1>3, <1>4, <1>5, <1>6, <1>7, <1>8, <1>9, <1>10, <1>11, <1>12

LEMMA QueueInit == Init => IInv
  <1> SUFFICES ASSUME Init PROVE IInv
    OBVIOUS
  <1> USE DEF Init
  <1>1. TypeOK
    <2>1. <<>> \in Seq(1 .. 0) /\ Len(<<>>) = 0
      BY EmptySeq
    <2>2. QED
      BY <2>1, BoundsAssumption DEF TypeOK, WorkerPc, Results, Signals
  <1>2. DeletedOnlyIfProcessed /\ PendingIsHeld
    BY DEF DeletedOnlyIfProcessed, PendingIsHeld
  <1>3. StrandedBounded
    <2>1. Stranded = {}
      BY DEF Stranded
    <2>2. QED
      BY <2>1, FS_EmptySet, BoundsAssumption DEF StrandedBounded
  <1>4. HeldInOrder /\ PendingUntilProcessed
    BY BoundsAssumption DEF HeldInOrder, PendingUntilProcessed
  <1>5. QED
    BY <1>1, <1>2, <1>3, <1>4 DEF IInv

LEMMA QueueTypeStep == IInv /\ [Next]_vars => TypeOK'
  <1> SUFFICES ASSUME IInv, [Next]_vars PROVE TypeOK'
    OBVIOUS
  <1>0. TypeOK
    BY DEF IInv
  <1>a. /\ MaxSignals \in Nat /\ BatchSize \in Nat \ {0} /\ MaxFaults \in Nat
        /\ sent \in Nat /\ delivered \in Nat
    BY BatchTypes
  <1>1. CASE EnqueueSignal
    <2>1. batch \in Seq(1 .. (sent + 1))
      <3>1. 1 .. sent \subseteq 1 .. (sent + 1)
        BY <1>a
      <3>2. QED
        BY <3>1, <1>0, SeqMonotonic DEF TypeOK
    <2>2. QED
      BY <1>0, <1>a, <1>1, <2>1 DEF TypeOK, EnqueueSignal
  <1>2. CASE Dequeue
    <2>1. /\ batch' \in Seq(1 .. sent) /\ Len(batch') \in 1 .. BatchSize
          /\ delivered' \in 1 .. sent /\ delivered < delivered'
          /\ ToSet(batch') = {i \in Fresh : i <= delivered'}
          /\ Fresh = {i \in 1 .. sent : i > delivered}
      BY <1>2, DequeueStep
    <2>2. pel' \subseteq 1 .. delivered'
      <3>1. pel' = pel \cup ToSet(batch') /\ pel \subseteq 1 .. delivered
        BY <1>0, <1>2 DEF TypeOK, Dequeue
      <3>2. 1 .. delivered \subseteq 1 .. delivered'
        BY <1>a, <2>1
      <3>3. ToSet(batch') \subseteq 1 .. delivered'
        BY <1>a, <2>1
      <3>4. QED
        BY <3>1, <3>2, <3>3
    <2>3. delivered' \in 0 .. sent /\ Len(batch') <= BatchSize
      BY <1>a, <2>1
    <2>4. worker' \in WorkerPc /\ UNCHANGED <<sent, stream, result, faults>>
      BY <1>2 DEF Dequeue, WorkerPc
    <2>5. QED
      BY <1>0, <2>1, <2>2, <2>3, <2>4 DEF TypeOK
  <1>3. ASSUME NEW res \in Returned, ProcessReturns(res)
        PROVE  TypeOK'
    BY <1>0, <1>3 DEF TypeOK, ProcessReturns, WorkerPc, Results, Returned
  <1>4. CASE AckSignal
    BY <1>0, <1>4 DEF TypeOK, AckSignal, Acked, WorkerPc
  <1>5. CASE DeleteSignal
    <2>1. batch # <<>>
      BY <1>5 DEF DeleteSignal, IInv, HeldInOrder
    <2>2. Tail(batch) \in Seq(1 .. sent) /\ Len(Tail(batch)) = Len(batch) - 1
      BY <2>1, TailOfBatch
    <2>3. Len(Tail(batch)) <= BatchSize
      BY <2>2, BatchTypes
    <2>4. QED
      BY <1>0, <1>5, <2>2, <2>3 DEF TypeOK, DeleteSignal, Deletes, WorkerPc
  <1>6. CASE WorkerFails \/ Restart \/ Resume
    <2>1. <<>> \in Seq(1 .. sent) /\ Len(<<>>) = 0
      BY EmptySeq
    <2>2. faults' \in 0 .. MaxFaults
      BY <1>0, <1>6, <1>a DEF TypeOK, WorkerFails, Restart, Resume
    <2>3. batch' \in {batch, <<>>} /\ worker' \in {"resting", "reading"}
          /\ UNCHANGED <<sent, stream, delivered, pel, result>>
      BY <1>6 DEF WorkerFails, Restart, Resume, AfterRest
    <2>4. batch' \in Seq(1 .. sent) /\ Len(batch') <= BatchSize
      <3>1. CASE batch' = batch
        BY <1>0, <3>1 DEF TypeOK
      <3>2. CASE batch' = <<>>
        <4>1. 0 <= BatchSize
          BY <1>a
        <4>2. QED
          BY <2>1, <3>2, <4>1
      <3>3. QED
        BY <2>3, <3>1, <3>2
    <2>5. QED
      BY <1>0, <2>2, <2>3, <2>4 DEF TypeOK, WorkerPc
  <1>7. CASE UNCHANGED vars
    BY <1>0, <1>7 DEF TypeOK, vars
  <1>8. QED
    BY <1>1, <1>2, <1>3, <1>4, <1>5, <1>6, <1>7 DEF Next, Worker

(* What the worker holds stays delivered, in order and unprocessed, and what   *)
(* was delivered pending until it is processed.                                *)
LEMMA HeldStep == IInv /\ [Next]_vars => HeldInOrder' /\ PendingUntilProcessed'
  <1> SUFFICES ASSUME IInv, [Next]_vars PROVE HeldInOrder' /\ PendingUntilProcessed'
    OBVIOUS
  <1>a. /\ MaxSignals \in Nat /\ sent \in Nat /\ sent <= MaxSignals
        /\ delivered \in Nat /\ delivered <= sent
        /\ DOMAIN batch = 1 .. Len(batch) /\ Len(batch) \in Nat
        /\ \A i \in DOMAIN batch : batch[i] \in 1 .. delivered /\ batch[i] \in Signals
    BY BatchTypes
  <1>b. /\ batch # <<>> <=> worker \in {"processing", "acking", "deleting"}
        /\ \A i, j \in DOMAIN batch : i < j => batch[i] < batch[j]
        /\ \A i \in DOMAIN batch :
             /\ batch[i] <= delivered
             /\ result[batch[i]] = "none" <=> i > 1 \/ worker = "processing"
    BY DEF IInv, HeldInOrder
  <1>c. /\ \A i \in 1 .. delivered : result[i] = "none" => i \in pel
        /\ \A i \in Signals : result[i] # "none" => i <= delivered
        /\ worker = "deleting" => Head(batch) \notin pel
    BY DEF IInv, PendingUntilProcessed
  <1>d. result \in [Signals -> Results] /\ pel \subseteq 1 .. delivered
    BY DEF IInv, TypeOK
  <1>1. CASE EnqueueSignal \/ UNCHANGED vars
    <2>1. UNCHANGED <<delivered, pel, batch, worker, result>>
      BY <1>1 DEF EnqueueSignal, vars
    <2>2. QED
      BY <1>b, <1>c, <2>1 DEF HeldInOrder, PendingUntilProcessed
  <1>2. CASE Dequeue
    <2>1. /\ batch' # <<>>
          /\ DOMAIN batch' = 1 .. Len(batch') /\ Len(batch') \in 1 .. BatchSize
          /\ Ascending(batch')
          /\ delivered' \in 1 .. sent /\ delivered < delivered'
          /\ \A i \in DOMAIN batch' : /\ batch'[i] \in Fresh
                                      /\ delivered < batch'[i] /\ batch'[i] <= delivered'
          /\ ToSet(batch') = {i \in Fresh : i <= delivered'}
          /\ Fresh = {i \in 1 .. sent : i > delivered}
      BY <1>2, DequeueStep
    <2>2. worker' = "processing" /\ result' = result /\ pel' = pel \cup ToSet(batch')
      BY <1>2 DEF Dequeue
    <2>3. \A i \in Signals : i > delivered => result[i] = "none"
      BY <1>a, <1>c DEF Signals
    <2>4. \A i \in DOMAIN batch' : batch'[i] \in Signals /\ batch'[i] > delivered
      BY <1>a, <2>1 DEF Signals
    <2>5. HeldInOrder'
      BY <2>1, <2>2, <2>3, <2>4 DEF HeldInOrder, Ascending
    <2>6. \A i \in 1 .. delivered' : result'[i] = "none" => i \in pel'
      <3> SUFFICES ASSUME NEW i \in 1 .. delivered', result[i] = "none" PROVE i \in pel'
        BY <2>2
      <3>1. CASE i <= delivered
        BY <1>a, <1>c, <2>1, <2>2, <3>1
      <3>2. CASE i > delivered
        <4>1. i \in 1 .. sent
          BY <1>a, <2>1
        <4>2. i \in Fresh /\ i <= delivered'
          BY <1>a, <2>1, <3>2, <4>1
        <4>3. QED
          BY <2>1, <2>2, <4>2
      <3>3. QED
        BY <1>a, <2>1, <3>1, <3>2
    <2>7. \A i \in Signals : result'[i] # "none" => i <= delivered'
      BY <1>a, <1>c, <2>1, <2>2 DEF Signals
    <2>8. QED
      BY <2>2, <2>5, <2>6, <2>7 DEF PendingUntilProcessed
  <1>3. ASSUME NEW res \in Returned, ProcessReturns(res)
        PROVE  HeldInOrder' /\ PendingUntilProcessed'
    <2>1. /\ worker = "processing" /\ worker' = "acking"
          /\ result' = [result EXCEPT ![Head(batch)] = res]
          /\ UNCHANGED <<sent, stream, delivered, pel, batch, faults>>
          /\ res # "none"
      BY <1>3 DEF ProcessReturns, Returned
    <2>2. batch # <<>>
      BY <1>b, <2>1
    <2>3. /\ Head(batch) = batch[1] /\ Head(batch) \in 1 .. delivered
          /\ Head(batch) \in Signals
          /\ \A i \in DOMAIN batch : i # 1 => Head(batch) < batch[i]
      BY <2>2, HeadOfBatch
    <2>4. \A i \in DOMAIN batch : i # 1 => Head(batch) # batch[i]
      BY <1>a, <2>3
    <2>5. \A i \in Signals : result'[i] = IF i = Head(batch) THEN res ELSE result[i]
      BY <1>d, <2>1, <2>3
    <2>6. \A i \in DOMAIN batch : result'[batch[i]] = "none" <=> i > 1
      BY <1>a, <1>b, <2>1, <2>3, <2>4, <2>5
    <2>7. HeldInOrder'
      BY <1>b, <2>1, <2>2, <2>6 DEF HeldInOrder
    <2>8. \A i \in 1 .. delivered : i \in Signals
      BY <1>a DEF Signals
    <2>9. \A i \in 1 .. delivered : result'[i] = "none" => i \in pel
      BY <1>c, <2>1, <2>5, <2>8
    <2>10. \A i \in Signals : result'[i] # "none" => i <= delivered
      BY <1>a, <1>c, <2>3, <2>5
    <2>11. QED
      BY <2>1, <2>7, <2>9, <2>10 DEF PendingUntilProcessed
  <1>4. CASE AckSignal
    <2>1. /\ worker = "acking" /\ worker' = "deleting" /\ pel' = pel \ {Head(batch)}
          /\ UNCHANGED <<sent, stream, delivered, batch, result, faults>>
      BY <1>4 DEF AckSignal, Acked
    <2>2. batch # <<>>
      BY <1>b, <2>1
    <2>3. Head(batch) = batch[1] /\ 1 \in DOMAIN batch
      BY <2>2, HeadOfBatch
    <2>4. result[Head(batch)] # "none"
      BY <1>b, <2>1, <2>3
    <2>5. HeldInOrder'
      BY <1>b, <2>1, <2>2 DEF HeldInOrder
    <2>6. QED
      BY <1>c, <2>1, <2>4, <2>5 DEF PendingUntilProcessed
  <1>5. CASE DeleteSignal
    <2>1. /\ worker = "deleting" /\ batch' = Tail(batch)
          /\ worker' = IF Len(batch) = 1 THEN "reading" ELSE "processing"
          /\ UNCHANGED <<sent, delivered, pel, result, faults>>
      BY <1>5 DEF DeleteSignal
    <2>2. batch # <<>>
      BY <1>b, <2>1
    <2>3. /\ DOMAIN Tail(batch) = 1 .. (Len(batch) - 1)
          /\ \A i \in 1 .. (Len(batch) - 1) : Tail(batch)[i] = batch[i + 1]
          /\ Tail(batch) # <<>> <=> Len(batch) # 1
      BY <2>2, TailOfBatch
    <2>4. \A i \in 1 .. (Len(batch) - 1) : i + 1 \in DOMAIN batch /\ i + 1 > 1
      BY <1>a
    <2>5. batch' # <<>> <=> worker' \in {"processing", "acking", "deleting"}
      BY <2>1, <2>3
    <2>6. \A i, j \in DOMAIN batch' : i < j => batch'[i] < batch'[j]
      <3> SUFFICES ASSUME NEW i \in 1 .. (Len(batch) - 1), NEW j \in 1 .. (Len(batch) - 1), i < j
                   PROVE  batch[i + 1] < batch[j + 1]
        BY <2>1, <2>3
      <3>1. i + 1 \in DOMAIN batch /\ j + 1 \in DOMAIN batch /\ i + 1 < j + 1
        BY <1>a, <2>4
      <3>2. QED
        BY <1>b, <3>1
    <2>7. \A i \in DOMAIN batch' : /\ batch'[i] <= delivered
                                   /\ result[batch'[i]] = "none"
                                   /\ worker' = "processing"
      <3> SUFFICES ASSUME NEW i \in 1 .. (Len(batch) - 1)
                   PROVE  /\ batch[i + 1] <= delivered
                          /\ result[batch[i + 1]] = "none"
                          /\ worker' = "processing"
        BY <2>1, <2>3
      <3>1. i + 1 \in DOMAIN batch /\ i + 1 > 1 /\ Len(batch) # 1
        BY <1>a, <2>4
      <3>2. QED
        BY <1>b, <2>1, <3>1
    <2>8. HeldInOrder'
      BY <2>1, <2>5, <2>6, <2>7 DEF HeldInOrder
    <2>9. worker' # "deleting"
      BY <2>1
    <2>10. QED
      BY <1>c, <2>1, <2>8, <2>9 DEF PendingUntilProcessed
  <1>6. CASE WorkerFails \/ Restart
    <2>1. /\ batch' = <<>> /\ worker' \in {"resting", "reading"}
          /\ UNCHANGED <<sent, stream, delivered, pel, result>>
      BY <1>6 DEF WorkerFails, Restart
    <2>2. DOMAIN batch' = {}
      BY <2>1
    <2>3. HeldInOrder'
      BY <2>1, <2>2 DEF HeldInOrder
    <2>4. QED
      BY <1>c, <2>1, <2>3 DEF PendingUntilProcessed
  <1>7. CASE Resume
    <2>1. /\ worker = "resting" /\ worker' = "reading"
          /\ UNCHANGED <<sent, stream, delivered, pel, batch, result, faults>>
      BY <1>7 DEF Resume, AfterRest
    <2>2. QED
      BY <1>b, <1>c, <2>1 DEF HeldInOrder, PendingUntilProcessed
  <1>8. QED
    BY <1>1, <1>2, <1>3, <1>4, <1>5, <1>6, <1>7 DEF Next, Worker

(* A signal leaves the stream only after it was processed, and while nothing   *)
(* failed all that is pending is held.                                         *)
LEMMA DeletedStep == IInv /\ [Next]_vars => DeletedOnlyIfProcessed' /\ PendingIsHeld'
  <1> SUFFICES ASSUME IInv, [Next]_vars PROVE DeletedOnlyIfProcessed' /\ PendingIsHeld'
    OBVIOUS
  <1>a. /\ MaxSignals \in Nat /\ sent \in Nat /\ sent <= MaxSignals
        /\ delivered \in Nat /\ delivered <= sent
    BY BatchTypes
  <1>b. /\ \A i \in 1 .. sent : i \notin stream => result[i] # "none"
        /\ faults = 0 => pel \subseteq ToSet(batch)
        /\ result \in [Signals -> Results] /\ faults \in Nat
        /\ 1 .. sent \subseteq Signals
    BY <1>a DEF IInv, TypeOK, DeletedOnlyIfProcessed, PendingIsHeld, Signals
  <1>1. CASE EnqueueSignal
    <2>1. /\ sent' = sent + 1 /\ stream' = stream \cup {sent + 1}
          /\ UNCHANGED <<pel, batch, result, faults>>
      BY <1>1 DEF EnqueueSignal
    <2>2. \A i \in 1 .. sent' : i \in 1 .. sent \/ i = sent + 1
      BY <1>a, <2>1
    <2>3. QED
      BY <1>b, <2>1, <2>2 DEF DeletedOnlyIfProcessed, PendingIsHeld
  <1>2. CASE Dequeue
    <2>1. batch = <<>> /\ ToSet(batch) = {}
      BY <1>2, DequeueStep DEF ToSet
    <2>2. pel' = pel \cup ToSet(batch') /\ UNCHANGED <<sent, stream, result, faults>>
      BY <1>2 DEF Dequeue
    <2>3. QED
      BY <1>b, <2>1, <2>2 DEF DeletedOnlyIfProcessed, PendingIsHeld
  <1>3. ASSUME NEW res \in Returned, ProcessReturns(res)
        PROVE  DeletedOnlyIfProcessed' /\ PendingIsHeld'
    <2>1. /\ result' = [result EXCEPT ![Head(batch)] = res] /\ res # "none"
          /\ UNCHANGED <<sent, stream, pel, batch, faults>>
      BY <1>3 DEF ProcessReturns, Returned
    <2>2. \A i \in Signals : result[i] # "none" => result'[i] # "none"
      BY <1>b, <2>1
    <2>3. QED
      BY <1>b, <2>1, <2>2 DEF DeletedOnlyIfProcessed, PendingIsHeld
  <1>4. CASE AckSignal \/ Resume \/ UNCHANGED vars
    <2>1. pel' \subseteq pel /\ UNCHANGED <<sent, stream, batch, result, faults>>
      BY <1>4 DEF AckSignal, Acked, Resume, vars
    <2>2. QED
      BY <1>b, <2>1 DEF DeletedOnlyIfProcessed, PendingIsHeld
  <1>5. CASE DeleteSignal
    <2>1. /\ worker = "deleting" /\ batch' = Tail(batch) /\ stream' = stream \ {Head(batch)}
          /\ UNCHANGED <<sent, pel, result, faults>>
      BY <1>5 DEF DeleteSignal, Deletes
    <2>2. batch # <<>>
      BY <2>1 DEF IInv, HeldInOrder
    <2>3. ToSet(batch) = ToSet(batch') \cup {Head(batch)} /\ Head(batch) \notin pel
      BY <2>1, <2>2, TailOfBatch DEF IInv, PendingUntilProcessed
    <2>4. result[Head(batch)] # "none"
      <3>1. Head(batch) = batch[1] /\ 1 \in DOMAIN batch
        BY <2>2, HeadOfBatch
      <3>2. QED
        BY <2>1, <3>1 DEF IInv, HeldInOrder
    <2>5. QED
      BY <1>b, <2>1, <2>3, <2>4 DEF DeletedOnlyIfProcessed, PendingIsHeld
  <1>6. CASE WorkerFails \/ Restart
    <2>1. faults' = faults + 1 /\ UNCHANGED <<sent, stream, result>>
      BY <1>6 DEF WorkerFails, Restart
    <2>2. faults' # 0
      BY <1>b, <2>1
    <2>3. QED
      BY <1>b, <2>1, <2>2 DEF DeletedOnlyIfProcessed, PendingIsHeld
  <1>7. QED
    BY <1>1, <1>2, <1>3, <1>4, <1>5, <1>6 DEF Next, Worker

(* Only a failure strands signals: at most those of one batch.                 *)
LEMMA StrandedStep == IInv /\ [Next]_vars => StrandedBounded'
  <1> SUFFICES ASSUME IInv, [Next]_vars PROVE StrandedBounded'
    OBVIOUS
  <1>a. /\ BatchSize \in Nat /\ delivered \in Nat /\ delivered <= sent /\ sent \in Nat
        /\ faults \in Nat /\ pel \subseteq 1 .. delivered /\ result \in [Signals -> Results]
        /\ 1 .. delivered \subseteq Signals
    <2>1. /\ BatchSize \in Nat /\ delivered \in Nat /\ delivered <= sent /\ sent \in Nat
          /\ MaxSignals \in Nat /\ sent <= MaxSignals
      BY BatchTypes
    <2>2. faults \in Nat /\ pel \subseteq 1 .. delivered /\ result \in [Signals -> Results]
      BY BoundsAssumption DEF IInv, TypeOK
    <2>3. QED
      BY <2>1, <2>2 DEF Signals
  <1>b. /\ IsFiniteSet(Stranded) /\ Cardinality(Stranded) \in Nat
        /\ Cardinality(Stranded) <= faults * BatchSize
    <2>1. IsFiniteSet(1 .. delivered)
      BY <1>a, FS_Interval
    <2>2. Stranded \subseteq 1 .. delivered
      BY <1>a DEF Stranded
    <2>3. IsFiniteSet(Stranded)
      BY <2>1, <2>2, FS_Subset
    <2>4. QED
      BY <2>3, FS_CardinalityType DEF IInv, StrandedBounded
  <1>1. ASSUME Stranded' \subseteq Stranded, faults' = faults
        PROVE  StrandedBounded'
    <2>1. IsFiniteSet(Stranded') /\ Cardinality(Stranded') <= Cardinality(Stranded)
      BY <1>b, <1>1, FS_Subset
    <2>2. Cardinality(Stranded') \in Nat /\ faults * BatchSize \in Nat
      BY <1>a, <2>1, FS_CardinalityType
    <2>3. QED
      BY <1>1, <1>b, <2>1, <2>2 DEF StrandedBounded
  <1>2. CASE EnqueueSignal \/ Resume \/ UNCHANGED vars
    BY <1>1, <1>2 DEF EnqueueSignal, Resume, vars, Stranded
  <1>3. CASE Dequeue
    <2>1. batch = <<>> /\ ToSet(batch) = {}
      BY <1>3, DequeueStep DEF ToSet
    <2>2. pel' = pel \cup ToSet(batch') /\ UNCHANGED <<result, faults>>
      BY <1>3 DEF Dequeue
    <2>3. QED
      BY <1>1, <2>1, <2>2 DEF Stranded
  <1>4. ASSUME NEW res \in Returned, ProcessReturns(res)
        PROVE  StrandedBounded'
    <2>1. /\ result' = [result EXCEPT ![Head(batch)] = res] /\ res # "none"
          /\ UNCHANGED <<pel, batch, faults>>
      BY <1>4 DEF ProcessReturns, Returned
    <2>2. \A i \in Signals : result'[i] = "none" => result[i] = "none"
      BY <1>a, <2>1
    <2>3. Stranded' \subseteq Stranded
      BY <1>a, <2>1, <2>2 DEF Stranded
    <2>4. QED
      BY <1>1, <2>1, <2>3
  <1>5. CASE AckSignal
    BY <1>1, <1>5 DEF AckSignal, Acked, Stranded
  <1>6. CASE DeleteSignal
    <2>1. /\ worker = "deleting" /\ batch' = Tail(batch) /\ UNCHANGED <<pel, result, faults>>
      BY <1>6 DEF DeleteSignal
    <2>2. batch # <<>>
      BY <2>1 DEF IInv, HeldInOrder
    <2>3. ToSet(batch) = ToSet(batch') \cup {Head(batch)} /\ Head(batch) \notin pel
      BY <2>1, <2>2, TailOfBatch DEF IInv, PendingUntilProcessed
    <2>4. QED
      BY <1>1, <2>1, <2>3 DEF Stranded
  <1>7. CASE WorkerFails \/ Restart
    <2>1. /\ faults' = faults + 1 /\ batch' = <<>> /\ UNCHANGED <<pel, result>>
      BY <1>7 DEF WorkerFails, Restart
    <2>2. Stranded' \subseteq Stranded \cup ToSet(batch)
      BY <2>1 DEF Stranded
    <2>3. IsFiniteSet(ToSet(batch)) /\ Cardinality(ToSet(batch)) <= BatchSize
      <3>1. batch \in Seq(Nat) /\ Len(batch) \in Nat /\ Len(batch) <= BatchSize
        BY BatchTypes
      <3>2. IsFiniteSet(ToSet(batch)) /\ Cardinality(ToSet(batch)) <= Len(batch)
        BY <3>1, FewElements
      <3>3. Cardinality(ToSet(batch)) \in Nat
        BY <3>2, FS_CardinalityType
      <3>4. QED
        BY <1>a, <3>1, <3>2, <3>3
    <2>4. /\ IsFiniteSet(Stranded \cup ToSet(batch))
          /\ Cardinality(Stranded \cup ToSet(batch)) <= Cardinality(Stranded) + Cardinality(ToSet(batch))
      <3>1. /\ IsFiniteSet(Stranded \cup ToSet(batch)) /\ IsFiniteSet(Stranded \cap ToSet(batch))
            /\ Cardinality(Stranded \cup ToSet(batch)) =
                 Cardinality(Stranded) + Cardinality(ToSet(batch)) - Cardinality(Stranded \cap ToSet(batch))
        BY <1>b, <2>3, FS_Union, FS_Intersection
      <3>2. Cardinality(Stranded \cap ToSet(batch)) \in Nat /\ Cardinality(ToSet(batch)) \in Nat
        BY <2>3, <3>1, FS_CardinalityType
      <3>3. QED
        BY <1>b, <3>1, <3>2
    <2>5. /\ IsFiniteSet(Stranded')
          /\ Cardinality(Stranded') <= Cardinality(Stranded \cup ToSet(batch))
      BY <2>2, <2>4, FS_Subset
    <2>6. /\ Cardinality(Stranded') \in Nat /\ Cardinality(ToSet(batch)) \in Nat
          /\ Cardinality(Stranded \cup ToSet(batch)) \in Nat
      BY <2>3, <2>4, <2>5, FS_CardinalityType
    <2>7. (faults + 1) * BatchSize = faults * BatchSize + BatchSize /\ faults * BatchSize \in Nat
      BY <1>a
    <2>8. Cardinality(Stranded') <= faults * BatchSize + BatchSize
      BY <1>a, <1>b, <2>3, <2>4, <2>5, <2>6, <2>7
    <2>9. QED
      BY <2>1, <2>7, <2>8 DEF StrandedBounded
  <1>8. QED
    BY <1>2, <1>3, <1>4, <1>5, <1>6, <1>7 DEF Next, Worker

LEMMA QueueStep == IInv /\ [Next]_vars => IInv'
  BY QueueTypeStep, DeletedStep, StrandedStep, HeldStep DEF IInv

(* A signal that gets its result was unprocessed, and all before it are done   *)
(* or stranded.                                                                *)
LEMMA ResultStep ==
  IInv /\ [Next]_vars =>
    [\A i \in Signals :
       result'[i] # result[i] =>
         /\ result[i] = "none"
         /\ \A j \in 1 .. (i - 1) : result[j] # "none" \/ j \in Stranded]_vars
  <1> SUFFICES ASSUME IInv, Next, NEW i \in Signals, result'[i] # result[i]
               PROVE  /\ result[i] = "none"
                      /\ \A j \in 1 .. (i - 1) : result[j] # "none" \/ j \in Stranded
    OBVIOUS
  <1>1. PICK res \in Returned : ProcessReturns(res)
    BY DEF Next, Worker, EnqueueSignal, Dequeue, AckSignal, DeleteSignal, WorkerFails, Resume,
           Restart
  <1>2. worker = "processing" /\ result' = [result EXCEPT ![Head(batch)] = res]
    BY <1>1 DEF ProcessReturns
  <1>3. batch # <<>>
    BY <1>2 DEF IInv, HeldInOrder
  <1>4. /\ Head(batch) = batch[1] /\ 1 \in DOMAIN batch
        /\ Head(batch) \in 1 .. delivered /\ Head(batch) \in Signals
        /\ \A k \in DOMAIN batch : k # 1 => Head(batch) < batch[k]
    BY <1>3, HeadOfBatch
  <1>5. i = Head(batch)
    BY <1>2, <1>4 DEF IInv, TypeOK
  <1>6. result[i] = "none"
    BY <1>2, <1>4, <1>5 DEF IInv, HeldInOrder
  <1>7. ASSUME NEW j \in 1 .. (i - 1), result[j] = "none"
        PROVE  j \in Stranded
    <2>1. delivered \in Nat /\ \A k \in DOMAIN batch : batch[k] \in 1 .. delivered
      BY BatchTypes
    <2>2. j \in 1 .. delivered /\ j < i
      BY <1>4, <1>5, <1>7, <2>1
    <2>3. j \in pel
      BY <1>7, <2>2 DEF IInv, PendingUntilProcessed
    <2>4. \A k \in DOMAIN batch : batch[k] >= i /\ batch[k] # j
      BY <1>4, <1>5, <2>1, <2>2
    <2>5. QED
      BY <1>7, <2>3, <2>4 DEF Stranded, ToSet
  <1>8. QED
    BY <1>6, <1>7

-----------------------------------------------------------------------------
(* The promise of AtMostOnceQueue. *)

Fate == [i \in Signals |-> FateOf(i)]

(* The fate of one signal before and after a step.                             *)
LEMMA FateCases ==
  ASSUME NEW i \in Signals
  PROVE  /\ Fate[i] = IF i > sent THEN "none" ELSE
                      IF result[i] # "none" THEN "done" ELSE
                      IF i > delivered THEN "queued" ELSE
                      IF i \in ToSet(batch) THEN "taken" ELSE "lost"
         /\ Fate'[i] = IF i > sent' THEN "none" ELSE
                       IF result'[i] # "none" THEN "done" ELSE
                       IF i > delivered' THEN "queued" ELSE
                       IF i \in ToSet(batch') THEN "taken" ELSE "lost"
  BY DEF Fate, FateOf

(* And from the queue's invariant.                                             *)
LEMMA FateIs ==
  ASSUME IInv, NEW i \in Signals
  PROVE  /\ Fate[i] = "none"   <=> i > sent
         /\ Fate[i] = "done"   <=> i <= sent /\ result[i] # "none"
         /\ Fate[i] = "queued" <=> i <= sent /\ i > delivered
         /\ Fate[i] = "taken"  <=> i <= delivered /\ result[i] = "none" /\ i \in ToSet(batch)
         /\ Fate[i] = "lost"   <=> i <= delivered /\ result[i] = "none" /\ i \notin ToSet(batch)
         /\ Fate[i] \in {"none", "done", "queued", "taken", "lost"}
  <1>1. /\ sent \in Nat /\ delivered \in Nat /\ delivered <= sent /\ i \in Nat
    BY BatchTypes DEF Signals
  <1>2. result[i] # "none" => i <= delivered
    BY DEF IInv, PendingUntilProcessed
  <1>3. QED
    BY <1>1, <1>2, FateCases

LEMMA PromiseInit == Init => Promise!Init
  <1> SUFFICES ASSUME Init PROVE Promise!Init
    OBVIOUS
  <1>1. IInv
    BY QueueInit
  <1>2. sent = 0
    BY DEF Init
  <1>3. \A i \in Signals : Fate[i] = "none"
    BY <1>1, <1>2, FateIs, BoundsAssumption DEF Signals
  <1>4. QED
    BY <1>2, <1>3 DEF Promise!Init, Promise!Items, Fate, Signals

(* A step that changes the fate of the signals in S only, to f.                 *)
LEMMA BecomeIs ==
  ASSUME NEW S, NEW f, \A i \in Signals : Fate'[i] = IF i \in S THEN f ELSE Fate[i]
  PROVE  Fate' = Promise!Become(S, f)
  <1>1. Promise!Become(S, f) = [i \in Signals |-> IF i \in S THEN f ELSE Fate[i]]
    BY DEF Promise!Become, Promise!Items, Signals, Fate
  <1>2. Fate' = [i \in Signals |-> Fate'[i]]
    BY DEF Fate
  <1>3. QED
    BY <1>1, <1>2

(* Every step of the queue is one of the promise, or leaves it alone.           *)
LEMMA PromiseStep ==
  IInv /\ IInv' /\ [Next]_vars => [Promise!Next]_<<sent, Fate>>
  <1> SUFFICES ASSUME IInv, IInv', [Next]_vars
               PROVE  Promise!Next \/ UNCHANGED <<sent, Fate>>
    OBVIOUS
  <1>a. /\ MaxSignals \in Nat /\ sent \in Nat /\ sent <= MaxSignals
        /\ delivered \in Nat /\ delivered <= sent
        /\ result \in [Signals -> Results]
        /\ Signals \subseteq Nat
    <2>1. Signals \subseteq Nat
      BY BoundsAssumption DEF Signals
    <2>2. QED
      BY <2>1, BatchTypes DEF IInv, TypeOK
  <1>c. \A i \in Signals : result[i] # "none" => i <= delivered
    BY DEF IInv, PendingUntilProcessed
  <1>d. Promise!Items = Signals
    BY DEF Promise!Items, Signals
  <1>e. ASSUME NEW S \in SUBSET Signals,
               Promise!Take(S) \/ Promise!Finish(S) \/ Promise!Lose(S)
        PROVE  Promise!Next
    BY <1>d, <1>e DEF Promise!Next
  <1>1. CASE EnqueueSignal
    <2>1. /\ sent < MaxSignals /\ sent' = sent + 1
          /\ UNCHANGED <<delivered, batch, result>>
      BY <1>1 DEF EnqueueSignal
    <2>2. sent + 1 \in Signals
      BY <1>a, <2>1 DEF Signals
    <2>3. \A i \in Signals : Fate'[i] = IF i = sent + 1 THEN "queued" ELSE Fate[i]
      <3> SUFFICES ASSUME NEW i \in Signals
                   PROVE  Fate'[i] = IF i = sent + 1 THEN "queued" ELSE Fate[i]
        OBVIOUS
      <3>1. i \in Nat /\ (i > sent' <=> i > sent /\ i # sent + 1)
        BY <1>a, <2>1
      <3>2. i = sent + 1 => result[i] = "none" /\ i > delivered
        BY <1>a, <1>c
      <3>3. QED
        BY <1>a, <2>1, <3>1, <3>2, FateCases
    <2>4. Fate' = [Fate EXCEPT ![sent + 1] = "queued"]
      BY <2>3 DEF Fate
    <2>5. Promise!Put
      BY <2>1, <2>4 DEF Promise!Put, Fate
    <2>6. QED
      BY <2>5 DEF Promise!Next
  <1>2. CASE Dequeue
    <2> DEFINE S == ToSet(batch')
    <2>1. /\ batch = <<>> /\ ToSet(batch) = {}
          /\ delivered' \in 1 .. sent /\ delivered < delivered'
          /\ S = {i \in Fresh : i <= delivered'}
          /\ Fresh = {i \in 1 .. sent : i > delivered}
      BY <1>2, DequeueStep DEF ToSet
    <2>2. UNCHANGED <<sent, result>>
      BY <1>2 DEF Dequeue
    <2>3. \A i \in Signals : i \in S <=> i > delivered /\ i <= delivered'
      BY <1>a, <2>1 DEF Signals
    <2>4. S \subseteq Signals
      BY <1>a, <2>1 DEF Signals
    <2> HIDE DEF S
    <2>5. ASSUME NEW i \in Signals
          PROVE  Fate'[i] = IF i \in S THEN "taken" ELSE Fate[i]
      <3>1. i \in Nat
        BY <1>a
      <3>2. i \in S <=> i \in ToSet(batch')
        BY DEF S
      <3>3. QED
        BY <1>a, <1>c, <2>1, <2>2, <2>3, <3>1, <3>2, FateCases
    <2>6. Fate' = Promise!Become(S, "taken")
      BY <2>5, BecomeIs
    <2>7. Promise!In("queued") = {i \in Signals : i <= sent /\ i > delivered}
      BY <1>d, FateIs DEF Promise!In, Fate
    <2>8. S \subseteq Promise!In("queued")
      BY <1>a, <2>1, <2>3, <2>4, <2>7
    <2>9. ASSUME NEW i \in S, NEW j \in Promise!In("queued") \ S
          PROVE  i < j
      <3>1. i \in Nat /\ j \in Nat /\ delivered' \in Nat
        BY <1>a, <2>1, <2>4, <2>7
      <3>2. i <= delivered' /\ j > delivered'
        BY <2>3, <2>4, <2>7, <3>1
      <3>3. QED
        BY <3>1, <3>2
    <2>10. Promise!Take(S)
      BY <2>2, <2>6, <2>8, <2>9 DEF Promise!Take, Fate
    <2>11. QED
      BY <1>e, <2>4, <2>10
  <1>3. ASSUME NEW res \in Returned, ProcessReturns(res)
        PROVE  Promise!Next
    <2>1. /\ worker = "processing"
          /\ result' = [result EXCEPT ![Head(batch)] = res] /\ res # "none"
          /\ UNCHANGED <<sent, delivered, batch>>
      BY <1>3 DEF ProcessReturns, Returned
    <2>2. batch # <<>>
      BY <2>1 DEF IInv, HeldInOrder
    <2>3. /\ Head(batch) \in Signals /\ Head(batch) \in ToSet(batch)
          /\ Head(batch) \in 1 .. delivered /\ Head(batch) = batch[1] /\ 1 \in DOMAIN batch
      BY <2>2, HeadOfBatch
    <2>4. result[Head(batch)] = "none"
      BY <2>1, <2>3 DEF IInv, HeldInOrder
    <2> DEFINE S == {Head(batch)}
    <2>5. ASSUME NEW i \in Signals
          PROVE  Fate'[i] = IF i \in S THEN "done" ELSE Fate[i]
      <3>1. result'[i] = IF i \in S THEN res ELSE result[i]
        BY <1>a, <2>1, <2>3
      <3>2. i \in Nat /\ (i \in S => i <= sent)
        BY <1>a, <2>3
      <3>3. QED
        BY <1>a, <2>1, <3>1, <3>2, FateCases
    <2>6. Fate' = Promise!Become(S, "done")
      BY <2>5, BecomeIs
    <2>7. S \subseteq Promise!In("taken")
      BY <1>a, <1>d, <2>3, <2>4, FateIs DEF Promise!In, Fate
    <2>8. Promise!Finish(S)
      BY <2>1, <2>6, <2>7 DEF Promise!Finish, Fate
    <2>9. QED
      BY <1>e, <2>3, <2>8
  <1>4. CASE AckSignal \/ Resume \/ UNCHANGED vars
    BY <1>4 DEF AckSignal, Resume, vars, Fate, FateOf
  <1>5. CASE DeleteSignal
    <2>1. /\ worker = "deleting" /\ batch' = Tail(batch)
          /\ UNCHANGED <<sent, delivered, result>>
      BY <1>5 DEF DeleteSignal
    <2>2. batch # <<>>
      BY <2>1 DEF IInv, HeldInOrder
    <2>3. ToSet(batch) = ToSet(batch') \cup {Head(batch)}
      BY <2>1, <2>2, TailOfBatch
    <2>4. result[Head(batch)] # "none"
      <3>1. Head(batch) = batch[1] /\ 1 \in DOMAIN batch
        BY <2>2, HeadOfBatch
      <3>2. QED
        BY <2>1, <3>1 DEF IInv, HeldInOrder
    <2>5. \A i \in Signals : Fate'[i] = Fate[i]
      BY <2>1, <2>3, <2>4, FateCases
    <2>6. Fate' = [i \in Signals |-> Fate'[i]] /\ Fate = [i \in Signals |-> Fate[i]]
      BY DEF Fate
    <2>7. QED
      BY <2>1, <2>5, <2>6
  <1>6. CASE WorkerFails \/ Restart
    <2>1. batch' = <<>> /\ UNCHANGED <<sent, delivered, result>>
      BY <1>6 DEF WorkerFails, Restart
    <2> DEFINE S == {i \in Signals : Fate[i] = "taken"}
    <2>2. ASSUME NEW i \in Signals
          PROVE  Fate'[i] = IF i \in S THEN "lost" ELSE Fate[i]
      <3>1. ToSet(batch') = {}
        BY <2>1 DEF ToSet
      <3>2. i \in S <=> i <= delivered /\ result[i] = "none" /\ i \in ToSet(batch)
        BY FateIs
      <3>3. i \in Nat
        BY <1>a
      <3> HIDE DEF S
      <3>4. QED
        BY <1>a, <1>c, <2>1, <3>1, <3>2, <3>3, FateCases
    <2>3. Fate' = Promise!Become(S, "lost")
      BY <2>2, BecomeIs
    <2>4. S \subseteq Promise!In("taken")
      BY <1>d DEF Promise!In, Fate
    <2>5. Promise!Lose(S)
      BY <2>1, <2>3, <2>4 DEF Promise!Lose, Fate
    <2>6. QED
      BY <1>e, <2>5
  <1>7. QED
    BY <1>1, <1>2, <1>3, <1>4, <1>5, <1>6 DEF Next, Worker

-----------------------------------------------------------------------------
(* The queue, alone or with the orchestrator. *)

(* Whatever the scope, a step is a step of the queue or leaves it alone.       *)
LEMMA QueueSteps == [DeliveryNext]_<<scope, bothVars>> => [Next]_vars
  <1> SUFFICES ASSUME [DeliveryNext]_<<scope, bothVars>> PROVE [Next]_vars
    OBVIOUS
  <1>1. CASE UNCHANGED <<scope, bothVars>>
    BY <1>1 DEF bothVars
  <1>2. CASE scope = "queue" /\ Next
    BY <1>2
  <1>3. CASE Delivery
    <2>1. CASE Accepts
      BY <2>1 DEF Accepts, Next
    <2>2. CASE GoesOn
      BY <2>2 DEF GoesOn, Next, Worker
    <2>3. CASE FailsAround
      BY <2>3 DEF FailsAround, Next
    <2>4. CASE Dies
      BY <2>4 DEF Dies, Next
    <2>5. ASSUME NEW s \in Accepted, Processes(s) \/ Returns(s) \/ Raises(s)
          PROVE  [Next]_vars
      <3>1. CASE Processes(s)
        BY <3>1 DEF Processes
      <3>2. CASE Returns(s)
        <4>1. Status(s) \in Returned
          BY DEF Status, Returned
        <4>2. QED
          BY <3>2, <4>1 DEF Returns, Next, Worker
      <3>3. CASE Raises(s)
        BY <3>3 DEF Raises, Next
      <3>4. QED
        BY <2>5, <3>1, <3>2, <3>3
    <2>6. CASE UNCHANGED vars
      BY <2>6
    <2>7. QED
      BY <1>3, <2>1, <2>2, <2>3, <2>4, <2>5, <2>6, Zenon DEF Delivery
  <1>4. QED
    BY <1>1, <1>2, <1>3 DEF DeliveryNext

LEMMA QueueInvariance == DeliverySpec => []IInv
  <1>1. DeliveryInit => IInv
    BY QueueInit DEF DeliveryInit
  <1>2. IInv /\ [DeliveryNext]_<<scope, bothVars>> => IInv'
    BY QueueSteps, QueueStep
  <1>3. QED
    BY <1>1, <1>2, PTL DEF DeliverySpec

(* However crashes and exceptions fall between the calls to Redis, a signal     *)
(* leaves the stream only after process() returned for it, a fault strands at   *)
(* most one batch, and signals get their results once and in their order.       *)
THEOREM QueueIsConsistent == DeliverySpec => Consistent
  <1>1. IInv /\ [DeliveryNext]_<<scope, bothVars>> =>
          [\A i \in Signals :
             result'[i] # result[i] =>
               /\ result[i] = "none"
               /\ \A j \in 1 .. (i - 1) : result[j] # "none" \/ j \in Stranded]_vars
    BY QueueSteps, ResultStep
  <1>2. IInv => /\ TypeOK /\ DeletedOnlyIfProcessed /\ PendingIsHeld /\ StrandedBounded
                /\ HeldInOrder /\ PendingUntilProcessed
    BY DEF IInv
  <1>3. QED
    BY QueueInvariance, <1>1, <1>2, PTL DEF DeliverySpec, Consistent, OnceAndInOrder

(* The stream and its consumer keep the promise of AtMostOnceQueue: every       *)
(* signal is taken in its order and once, and then done or lost for good.       *)
THEOREM QueueKeepsPromise == DeliverySpec => ImplementsPromise
  <1>1. DeliveryInit => Promise!Init
    BY PromiseInit DEF DeliveryInit
  <1>2. IInv /\ IInv' /\ [DeliveryNext]_<<scope, bothVars>> => [Promise!Next]_<<sent, Fate>>
    BY QueueSteps, PromiseStep
  <1>3. QED
    BY QueueInvariance, <1>1, <1>2, PTL DEF DeliverySpec, ImplementsPromise, Promise!Spec, Fate

-----------------------------------------------------------------------------
(* The orchestrator in the composition.  Its invariant is proved for any set of *)
(* signals in OrchestratorProofs; the accepted ones are such a set.             *)

CoreProofs == INSTANCE OrchestratorProofs
                WITH Signals <- Accepted, faults <- coreFaults, MaxFaults <- JointFaults

(* The definitions of the two instances are the same.                           *)
LEMMA CoreAlike ==
  /\ Core!IInv <=> CoreProofs!IInv
  /\ Core!IInv' <=> CoreProofs!IInv'
  /\ Core!vars = CoreProofs!vars /\ Core!vars' = CoreProofs!vars'
  /\ Core!Next <=> CoreProofs!Next
  <1>1. Core!IInv <=> CoreProofs!IInv
    BY DEF CoreProofs!IInv, Core!IInv, CoreProofs!TypeOK, Core!TypeOK,
           CoreProofs!Accounted, Core!Accounted, CoreProofs!HaltAccounted,
           Core!HaltAccounted, CoreProofs!Ready, Core!Ready, CoreProofs!Pcs, Core!Pcs,
           CoreProofs!Answers, Core!Answers, CoreProofs!AgentAnswers, Core!AgentAnswers,
           CoreProofs!Statuses, Core!Statuses, CoreProofs!Targets, Core!Targets,
           CoreProofs!Early, Core!Early, CoreProofs!Executes, Core!Executes,
           CoreProofs!Refusals, Core!Refusals
  <1>2. Core!IInv' <=> CoreProofs!IInv'
    BY DEF CoreProofs!IInv, Core!IInv, CoreProofs!TypeOK, Core!TypeOK,
           CoreProofs!Accounted, Core!Accounted, CoreProofs!HaltAccounted,
           Core!HaltAccounted, CoreProofs!Ready, Core!Ready, CoreProofs!Pcs, Core!Pcs,
           CoreProofs!Answers, Core!Answers, CoreProofs!AgentAnswers, Core!AgentAnswers,
           CoreProofs!Statuses, Core!Statuses, CoreProofs!Targets, Core!Targets,
           CoreProofs!Early, Core!Early, CoreProofs!Executes, Core!Executes,
           CoreProofs!Refusals, Core!Refusals
  <1>3. Core!vars = CoreProofs!vars /\ Core!vars' = CoreProofs!vars'
    BY DEF Core!vars, CoreProofs!vars, Core!routing, CoreProofs!routing, Core!posted, CoreProofs!posted, Core!halt, CoreProofs!halt, Core!bounds, CoreProofs!bounds
  <1>4. Core!Next <=> CoreProofs!Next
    BY DEF CoreProofs!Next, Core!Next, CoreProofs!Process, Core!Process,
           CoreProofs!Granted, Core!Granted, CoreProofs!Receive, Core!Receive,
           CoreProofs!ApplyRules, Core!ApplyRules, CoreProofs!AskLLM, Core!AskLLM,
           CoreProofs!Route, Core!Route, CoreProofs!RequestApproval,
           Core!RequestApproval, CoreProofs!Enqueue, Core!Enqueue, CoreProofs!TooLong,
           Core!TooLong, CoreProofs!Woken, Core!Woken, CoreProofs!FallBack,
           Core!FallBack, CoreProofs!Answer, Core!Answer, CoreProofs!Raise, Core!Raise,
           CoreProofs!Fails, Core!Fails, CoreProofs!Look, Core!Look, CoreProofs!Step,
           Core!Step, CoreProofs!Ends, Core!Ends, CoreProofs!Hands, Core!Hands,
           CoreProofs!Steps, Core!Steps, CoreProofs!NextStep, Core!NextStep,
           CoreProofs!Resolve, Core!Resolve, CoreProofs!GrantedLooks, Core!GrantedLooks,
           CoreProofs!FirstLook, Core!FirstLook, CoreProofs!LookAgain, Core!LookAgain,
           CoreProofs!GrantedSteps, Core!GrantedSteps, CoreProofs!GrantedEnds,
           Core!GrantedEnds, CoreProofs!ReadMail, Core!ReadMail, CoreProofs!MoveDaemon,
           Core!MoveDaemon, CoreProofs!DaemonEnds, Core!DaemonEnds, CoreProofs!Kill,
           Core!Kill, CoreProofs!Resume, Core!Resume, CoreProofs!Crash, Core!Crash,
           CoreProofs!Ready, Core!Ready, CoreProofs!Goes, Core!Goes, CoreProofs!Replies,
           Core!Replies, CoreProofs!Forgets, Core!Forgets, CoreProofs!Moves, Core!Moves,
           CoreProofs!Chooses, Core!Chooses, CoreProofs!OnlyRoutes, Core!OnlyRoutes,
           CoreProofs!Way, Core!Way, CoreProofs!AfterEnqueue, Core!AfterEnqueue,
           CoreProofs!InFlight, Core!InFlight, CoreProofs!IsRunning, Core!IsRunning,
           CoreProofs!Statuses, Core!Statuses, CoreProofs!routing, Core!routing,
           CoreProofs!posted, Core!posted, CoreProofs!halt, Core!halt, CoreProofs!bounds,
           Core!bounds, CoreProofs!vars, Core!vars
  <1>5. QED
    BY <1>1, <1>2, <1>3, <1>4

LEMMA CoreInit == Core!Init => Core!IInv
  <1>1. Core!Init <=> CoreProofs!Init
    BY DEF Core!Init, CoreProofs!Init
  <1>2. CoreProofs!OrchestratorAssumption
    BY DeliveryAssumption DEF Core!OrchestratorAssumption, CoreProofs!OrchestratorAssumption
  <1>3. QED
    BY <1>1, <1>2, CoreAlike, CoreProofs!InitAccounted

LEMMA CoreStep == Core!IInv /\ [Core!Next]_(Core!vars) => Core!IInv'
  <1>1. CoreProofs!OrchestratorAssumption
    BY DeliveryAssumption DEF Core!OrchestratorAssumption, CoreProofs!OrchestratorAssumption
  <1>2. SUFFICES ASSUME Core!IInv, [Core!Next]_(Core!vars) PROVE Core!IInv'
    OBVIOUS
  <1>3. CoreProofs!IInv /\ [CoreProofs!Next]_(CoreProofs!vars)
    BY <1>2, CoreAlike
  <1>4. CoreProofs!IInv'
    BY <1>1, <1>3, CoreProofs!StepAccounted
  <1>5. QED
    BY <1>4, CoreAlike

LEMMA CoreImplies == Core!IInv => Core!HandedOnce /\ Core!AnswerTellsFate /\ Core!HaltBoundsWork
  <1>1. CoreProofs!OrchestratorAssumption
    BY DeliveryAssumption DEF Core!OrchestratorAssumption, CoreProofs!OrchestratorAssumption
  <1>2. /\ Core!HandedOnce <=> CoreProofs!HandedOnce
        /\ Core!HaltBoundsWork <=> CoreProofs!HaltBoundsWork
    BY DEF Core!HandedOnce, CoreProofs!HandedOnce, Core!HaltBoundsWork, CoreProofs!HaltBoundsWork
  <1>3. Core!AnswerTellsFate <=> CoreProofs!AnswerTellsFate
    BY DEF Core!AnswerTellsFate, CoreProofs!AnswerTellsFate, Core!Untaken, CoreProofs!Untaken,
           Core!Over, CoreProofs!Over, Core!Refusals, CoreProofs!Refusals, Core!AgentAnswers,
           CoreProofs!AgentAnswers, Core!Statuses, CoreProofs!Statuses
  <1>4. QED
    BY <1>1, <1>2, <1>3, CoreAlike, CoreProofs!InvariantImplies

(* Where a step of the orchestrator takes the signal it is about.               *)
LEMMA RoutingMoves ==
  ASSUME Core!TypeOK, NEW s \in Accepted, Core!Receive(s) \/ Core!Process(s)
  PROVE  /\ \A t \in Accepted : t # s => pc'[t] = pc[t] /\ out'[t] = out[t]
         /\ pc'[s] # "new"
         /\ pc'[s] = "answered" => pc[s] = "answering"
         /\ pc[s] # "answered"
         /\ out'[s] = out[s] \/ out'[s] # "raised"
  <1> DEFINE Moved ==
        /\ \A t \in Accepted : t # s => pc'[t] = pc[t] /\ out'[t] = out[t]
        /\ pc'[s] # "new"
        /\ pc'[s] = "answered" => pc[s] = "answering"
        /\ pc[s] # "answered"
        /\ out'[s] = out[s] \/ out'[s] # "raised"
  <1>a. pc \in [Accepted -> Core!Pcs] /\ out \in [Accepted -> Core!Answers]
    BY DEF Core!TypeOK
  <1>b. ASSUME NEW from, NEW answer, answer # "raised", from # "answered",
               Core!Replies(s, from, answer)
        PROVE  Moved
    BY <1>a, <1>b DEF Core!Replies, Core!Goes
  <1>c. ASSUME NEW from, NEW to, from # "answered", to \notin {"new", "answered"},
               Core!Goes(s, from, to), UNCHANGED out
        PROVE  Moved
    BY <1>a, <1>c DEF Core!Goes
  <1> HIDE DEF Moved
  <1>1. ASSUME Core!Receive(s) PROVE Moved
    <2>1. \/ Core!Replies(s, "new", "halted")
          \/ Core!Goes(s, "new", "received") /\ UNCHANGED out
      BY <1>1, Zenon DEF Core!Receive, Core!Chooses
    <2>2. QED
      BY <1>b, <1>c, <2>1
  <1>2. ASSUME Core!ApplyRules(s) PROVE Moved
    <2>1. \/ Core!Replies(s, "received", "rejected")
          \/ Core!Goes(s, "received", "requesting") /\ UNCHANGED out
          \/ Core!Goes(s, "received", "executing") /\ UNCHANGED out
          \/ Core!Goes(s, "received", "asking") /\ UNCHANGED out
      BY <1>2, Zenon DEF Core!ApplyRules, Core!Chooses
    <2>2. QED
      BY <1>b, <1>c, <2>1
  <1>3. ASSUME Core!AskLLM(s) PROVE Moved
    BY <1>3, <1>b, <1>c DEF Core!AskLLM, Core!Chooses
  <1>4. ASSUME Core!Route(s) PROVE Moved
    <2>1. Core!Way(s) \in {"requesting", "executing", "enqueuing", "falling"}
      BY DEF Core!Way
    <2>2. QED
      BY <1>4, <1>c, <2>1 DEF Core!Route, Core!Moves
  <1>5. ASSUME Core!RequestApproval(s) PROVE Moved
    BY <1>5, <1>b DEF Core!RequestApproval
  <1>6. ASSUME Core!Enqueue(s) \/ Core!TooLong(s) \/ Core!FallBack(s) PROVE Moved
    BY <1>6, <1>c DEF Core!Enqueue, Core!TooLong, Core!FallBack, Core!Moves
  <1>7. ASSUME Core!Woken(s) PROVE Moved
    BY <1>7, <1>b DEF Core!Woken, Core!AfterEnqueue
  <1>d. ASSUME NEW from, from # "answered", NEW st \in Core!Statuses, Core!Ends(s, from, st)
        PROVE  Moved
    <2>1. Core!Replies(s, from, "ok") \/ Core!Replies(s, from, st)
      BY <1>d, Zenon DEF Core!Ends
    <2>2. st # "raised"
      BY DEF Core!Statuses
    <2>3. QED
      BY <1>b, <1>d, <2>1, <2>2
  <1>8. ASSUME Core!Look(s) PROVE Moved
    <2>1. PICK from \in {"executing", "looking"} :
            \/ Core!Ends(s, from, "stopped")
            \/ Core!Goes(s, from, "stepping") /\ UNCHANGED out
      BY <1>8, Zenon DEF Core!Look, Core!Moves
    <2>2. QED
      BY <1>c, <1>d, <2>1 DEF Core!Statuses
  <1>9. ASSUME Core!Step(s) PROVE Moved
    <2>1. \/ Core!Ends(s, "stepping", "completed")
          \/ Core!Goes(s, "stepping", "looking") /\ UNCHANGED out
      BY <1>9, Zenon DEF Core!Step, Core!NextStep
    <2>2. QED
      BY <1>c, <1>d, <2>1 DEF Core!Statuses
  <1>10. ASSUME Core!Fails(s) PROVE Moved
    BY <1>10, <1>d DEF Core!Fails, Core!Statuses
  <1>11. ASSUME Core!Answer(s) PROVE Moved
    BY <1>11, <1>a DEF Core!Answer, Core!Moves, Core!Goes, Moved
  <1>12. Moved
    BY <1>1, <1>2, <1>3, <1>4, <1>5, <1>6, <1>7, <1>8, <1>9, <1>10, <1>11 DEF Core!Process
  <1>13. QED
    BY <1>12 DEF Moved

-----------------------------------------------------------------------------
(* Queue and orchestrator together. *)

(* Where the queue, its worker and process() have one signal.                   *)
Placed(s) ==
  /\ pc[s] \notin {"new", "answered"} => InHand(s)
  /\ InHand(s) => pc[s] # "answered"
  /\ s > delivered \/ (\E i \in 2 .. Len(batch) : s = batch[i]) => pc[s] = "new"
  /\ result[s] # "none" => pc[s] = "answered" /\ out[s] # "raised"
  /\ out[s] = "raised" => pc[s] = "answered"
  /\ s \in Stranded => pc[s] = "new" \/ out[s] = "raised"

JointInv == Core!IInv /\ sent <= JointSignals /\ \A s \in Accepted : Placed(s)

(* The facts of both invariants that the steps below use.                       *)
LEMMA JointFacts ==
  ASSUME IInv, JointInv
  PROVE  /\ JointSignals \in Nat /\ Accepted \subseteq Signals
         /\ \A s \in Accepted : s \in Nat
         /\ sent \in Nat /\ delivered \in Nat
         /\ pc \in [Accepted -> Core!Pcs] /\ out \in [Accepted -> Core!Answers]
         /\ result \in [Signals -> Results]
         /\ DOMAIN batch = 1 .. Len(batch) /\ Len(batch) \in Nat
         /\ worker \in {"processing", "acking", "deleting"} <=> batch # <<>>
         /\ \A i \in DOMAIN batch :
              /\ batch[i] \in Accepted /\ batch[i] \in Nat /\ batch[i] <= delivered
              /\ result[batch[i]] = "none" <=> i > 1 \/ worker = "processing"
  <1>1. JointSignals \in Nat /\ Accepted \subseteq Signals /\ \A s \in Accepted : s \in Nat
    BY DeliveryAssumption, BoundsAssumption DEF Accepted, Signals
  <1>2. /\ sent \in Nat /\ delivered \in Nat /\ delivered <= sent
        /\ DOMAIN batch = 1 .. Len(batch) /\ Len(batch) \in Nat
        /\ \A i \in DOMAIN batch : batch[i] \in 1 .. delivered
    BY BatchTypes
  <1>3. pc \in [Accepted -> Core!Pcs] /\ out \in [Accepted -> Core!Answers]
    BY DEF JointInv, Core!IInv, Core!TypeOK
  <1>4. result \in [Signals -> Results]
    BY DEF IInv, TypeOK
  <1>5. /\ worker \in {"processing", "acking", "deleting"} <=> batch # <<>>
        /\ \A i \in DOMAIN batch : result[batch[i]] = "none" <=> i > 1 \/ worker = "processing"
    BY DEF IInv, HeldInOrder
  <1>6. ASSUME NEW i \in DOMAIN batch
        PROVE  batch[i] \in Accepted /\ batch[i] \in Nat /\ batch[i] <= delivered
    <2>1. batch[i] \in Nat /\ 1 <= batch[i] /\ batch[i] <= delivered
      BY <1>2
    <2>2. sent <= JointSignals
      BY DEF JointInv
    <2>3. QED
      BY <1>1, <1>2, <2>1, <2>2 DEF Accepted
  <1>7. QED
    BY <1>1, <1>2, <1>3, <1>4, <1>5, <1>6

(* The signal in hand is the first of the batch, delivered and without result,  *)
(* and no signal is in process() while the worker does something else.          *)
LEMMA InHandFacts ==
  ASSUME IInv, JointInv, NEW s \in Accepted
  PROVE  /\ InHand(s) => /\ s = batch[1] /\ 1 \in DOMAIN batch /\ s \in ToSet(batch)
                         /\ s <= delivered /\ result[s] = "none"
                         /\ \A i \in 2 .. Len(batch) : s # batch[i]
         /\ s \in Stranded <=> s \in pel /\ s \notin ToSet(batch) /\ result[s] = "none"
         /\ s \in ToSet(batch) /\ result[s] = "none" =>
              InHand(s) \/ \E i \in 2 .. Len(batch) : s = batch[i]
  <1>0. /\ DOMAIN batch = 1 .. Len(batch) /\ Len(batch) \in Nat
        /\ worker \in {"processing", "acking", "deleting"} <=> batch # <<>>
        /\ \A i \in DOMAIN batch :
              /\ batch[i] \in Nat /\ batch[i] <= delivered
              /\ result[batch[i]] = "none" <=> i > 1 \/ worker = "processing"
        /\ s \in Nat
    BY JointFacts
  <1>1. ASSUME InHand(s)
        PROVE  /\ s = batch[1] /\ 1 \in DOMAIN batch /\ s \in ToSet(batch)
               /\ s <= delivered /\ result[s] = "none"
               /\ \A i \in 2 .. Len(batch) : s # batch[i]
    <2>1. worker = "processing" /\ s = Head(batch) /\ batch # <<>>
      BY <1>0, <1>1 DEF InHand
    <2>2. /\ s = batch[1] /\ 1 \in DOMAIN batch /\ s \in ToSet(batch)
          /\ \A i \in DOMAIN batch : i # 1 => s < batch[i]
      BY <2>1, HeadOfBatch
    <2>3. s <= delivered /\ result[s] = "none"
      BY <1>0, <2>1, <2>2
    <2>4. ASSUME NEW i \in 2 .. Len(batch) PROVE s # batch[i]
      <3>1. i \in DOMAIN batch /\ i # 1
        BY <1>0
      <3>2. s < batch[i] /\ batch[i] \in Nat
        BY <1>0, <2>2, <3>1
      <3>3. QED
        BY <1>0, <3>2
    <2>5. QED
      BY <2>2, <2>3, <2>4
  <1>2. s \in Stranded <=> s \in pel /\ s \notin ToSet(batch) /\ result[s] = "none"
    BY DEF Stranded
  <1>3. ASSUME s \in ToSet(batch), result[s] = "none"
        PROVE  InHand(s) \/ \E i \in 2 .. Len(batch) : s = batch[i]
    <2>1. PICK i \in DOMAIN batch : s = batch[i]
      BY <1>3 DEF ToSet
    <2>2. CASE i = 1
      <3>1. batch # <<>>
        BY <1>0, <2>2
      <3>2. Head(batch) = batch[1]
        BY <3>1, HeadOfBatch
      <3>3. worker = "processing"
        BY <1>0, <1>3, <2>1, <2>2
      <3>4. QED
        BY <2>1, <2>2, <3>2, <3>3 DEF InHand
    <2>3. CASE i # 1
      BY <1>0, <2>1, <2>3
    <2>4. QED
      BY <2>2, <2>3
  <1>4. QED
    BY <1>1, <1>2, <1>3

(* A signal that only the queue moves.                                          *)
LEMMA QueuePlaces ==
  ASSUME IInv, JointInv, NEW s \in Accepted, pc'[s] = pc[s], out'[s] = out[s],
         EnqueueSignal \/ Dequeue \/ AckSignal \/ DeleteSignal \/ Resume \/ UNCHANGED vars
  PROVE  Placed(s)'
  <1>0. /\ Placed(s)
        /\ pc \in [Accepted -> Core!Pcs] /\ s \in Nat
        /\ s \in ToSet(batch) /\ result[s] = "none" =>
              InHand(s) \/ \E i \in 2 .. Len(batch) : s = batch[i]
        /\ DOMAIN batch = 1 .. Len(batch) /\ Len(batch) \in Nat /\ delivered \in Nat
        /\ worker \in {"processing", "acking", "deleting"} <=> batch # <<>>
    BY JointFacts, InHandFacts DEF JointInv
  <1>1. CASE EnqueueSignal \/ UNCHANGED vars
    BY <1>0, <1>1 DEF EnqueueSignal, vars, Placed, InHand, Stranded
  <1>2. CASE AckSignal
    BY <1>0, <1>2 DEF AckSignal, Acked, Placed, InHand, Stranded
  <1>3. CASE Resume
    BY <1>0, <1>3 DEF Resume, AfterRest, Placed, InHand, Stranded
  <1>4. CASE Dequeue
    <2>1. /\ worker = "reading" /\ batch = <<>> /\ batch' # <<>>
          /\ DOMAIN batch' = 1 .. Len(batch') /\ Len(batch') \in Nat
          /\ delivered' \in Nat /\ delivered < delivered'
          /\ \A i \in DOMAIN batch' : delivered < batch'[i]
          /\ result' = result /\ worker' = "processing" /\ pel' = pel \cup ToSet(batch')
      BY <1>0, <1>4, DequeueStep DEF Dequeue
    <2>2. Head(batch') = batch'[1] /\ 1 \in DOMAIN batch'
      <3>1. batch' \in Seq(Nat)
        BY <1>4, DequeueStep
      <3>2. QED
        BY <2>1, <3>1, HeadTailProperties, EmptySeq
    <2>3. pc[s] \in {"new", "answered"}
      BY <1>0, <2>1 DEF Placed, InHand
    <2>4. s \in ToSet(batch') => pc[s] = "new"
      <3>1. \A i \in DOMAIN batch' : s = batch'[i] => s > delivered
        BY <1>0, <2>1
      <3>2. QED
        BY <1>0, <3>1 DEF Placed, ToSet
    <2>5. InHand(s)' => s \in ToSet(batch')
      BY <2>1, <2>2 DEF InHand, ToSet
    <2>6. s > delivered' \/ (\E i \in 2 .. Len(batch') : s = batch'[i]) => pc[s] = "new"
      <3>1. s > delivered' => s > delivered
        BY <1>0, <2>1
      <3>2. (\E i \in 2 .. Len(batch') : s = batch'[i]) => s \in ToSet(batch')
        BY <2>1 DEF ToSet
      <3>3. QED
        BY <1>0, <2>4, <3>1, <3>2 DEF Placed
    <2>7. (s \in Stranded)' => s \in Stranded
      BY <2>1, EmptySeq DEF Stranded, ToSet
    <2>8. QED
      BY <1>0, <2>1, <2>3, <2>4, <2>5, <2>6, <2>7 DEF Placed, ToSet
  <1>5. CASE DeleteSignal
    <2>1. /\ worker = "deleting" /\ batch # <<>> /\ batch' = Tail(batch) /\ pel' = pel
          /\ result' = result /\ delivered' = delivered
          /\ worker' = IF Len(batch) = 1 THEN "reading" ELSE "processing"
      BY <1>0, <1>5 DEF DeleteSignal
    <2>2. /\ Len(batch') = Len(batch) - 1 /\ batch' \in Seq(1 .. sent)
          /\ \A i \in 1 .. (Len(batch) - 1) : batch'[i] = batch[i + 1]
          /\ batch' # <<>> <=> Len(batch) # 1
          /\ ToSet(batch) = ToSet(batch') \cup {Head(batch)}
      BY <2>1, TailOfBatch
    <2>3. pc[s] \in {"new", "answered"} /\ ~InHand(s)
      BY <1>0, <2>1 DEF Placed, InHand
    <2>4. \A i \in 1 .. (Len(batch) - 1) : s = batch'[i] => pc[s] = "new"
      <3>1. \A i \in 1 .. (Len(batch) - 1) : i + 1 \in 2 .. Len(batch)
        BY <1>0
      <3>2. QED
        BY <1>0, <2>2, <3>1 DEF Placed
    <2>5. InHand(s)' => pc[s] = "new"
      <3>1. ASSUME InHand(s)' PROVE batch' # <<>> /\ s = batch'[1] /\ 1 \in 1 .. (Len(batch) - 1)
        <4>1. batch' # <<>> /\ s = Head(batch')
          BY <2>1, <2>2, <3>1 DEF InHand
        <4>2. QED
          BY <1>0, <2>1, <2>2, <4>1, HeadTailProperties, EmptySeq
      <3>2. QED
        BY <2>4, <3>1
    <2>6. s > delivered' \/ (\E i \in 2 .. Len(batch') : s = batch'[i]) => pc[s] = "new"
      <3>1. 2 .. Len(batch') \subseteq 1 .. (Len(batch) - 1)
        BY <1>0, <2>2
      <3>2. QED
        BY <1>0, <2>1, <2>4, <3>1 DEF Placed
    <2>7. (s \in Stranded)' => s \in Stranded
      <3>1. ASSUME (s \in Stranded)' PROVE s \in Stranded
        <4>1. s \in pel /\ result[s] = "none" /\ s \notin ToSet(batch')
          BY <2>1, <3>1 DEF Stranded
        <4>2. s # Head(batch)
          <5>1. Head(batch) = batch[1] /\ 1 \in DOMAIN batch
            BY <2>1, HeadOfBatch
          <5>2. result[Head(batch)] # "none"
            BY <2>1, <5>1, JointFacts
          <5>3. QED
            BY <4>1, <5>2
        <4>3. QED
          BY <2>2, <4>1, <4>2 DEF Stranded
      <3>2. QED
        BY <3>1
    <2>8. QED
      BY <1>0, <2>1, <2>3, <2>5, <2>6, <2>7 DEF Placed
  <1>6. QED
    BY <1>1, <1>2, <1>3, <1>4, <1>5

(* A signal when the worker forgets its batch, by an exception or with the      *)
(* process: the one in hand was raised or not begun.                            *)
LEMMA ForgottenPlaces ==
  ASSUME IInv, JointInv, NEW s \in Accepted,
         batch' = <<>>, worker' \in {"reading", "resting"},
         UNCHANGED <<sent, delivered, pel, result>>,
         \/ pc'[s] = "answered" /\ out'[s] = "raised" /\ pc[s] \notin {"new", "answered"}
         \/ pc'[s] = pc[s] /\ out'[s] = out[s] /\ pc[s] \in {"new", "answered"}
  PROVE  Placed(s)'
  <1>0. /\ Placed(s) /\ s \in Nat /\ delivered \in Nat
        /\ s \in ToSet(batch) /\ result[s] = "none" =>
              InHand(s) \/ \E i \in 2 .. Len(batch) : s = batch[i]
        /\ InHand(s) => /\ s <= delivered /\ result[s] = "none"
                        /\ \A i \in 2 .. Len(batch) : s # batch[i]
    BY JointFacts, InHandFacts DEF JointInv
  <1>1. Len(batch') = 0 /\ ToSet(batch') = {} /\ 2 .. Len(batch') = {}
    BY EmptySeq DEF ToSet
  <1>2. ~InHand(s)'
    BY DEF InHand
  <1>3. (s \in Stranded)' => s \in pel /\ result[s] = "none"
    BY DEF Stranded
  <1>4. (s \in Stranded)' => s \in Stranded \/ InHand(s) \/ pc[s] = "new"
    BY <1>0, <1>3 DEF Placed, Stranded
  <1>5. CASE pc'[s] = "answered" /\ out'[s] = "raised" /\ pc[s] \notin {"new", "answered"}
    BY <1>0, <1>1, <1>2, <1>5 DEF Placed
  <1>6. CASE pc'[s] = pc[s] /\ out'[s] = out[s] /\ pc[s] \in {"new", "answered"}
    <2>1. InHand(s) => pc[s] = "new"
      BY <1>0, <1>6 DEF Placed
    <2>2. s > delivered' \/ (\E i \in 2 .. Len(batch') : s = batch'[i]) => pc[s] = "new"
      BY <1>0, <1>1 DEF Placed
    <2>3. QED
      BY <1>0, <1>2, <1>4, <1>6, <2>1, <2>2 DEF Placed
  <1>7. QED
    BY <1>5, <1>6

(* The signal in process() takes a step there.                                  *)
LEMMA ProcessPlaces ==
  ASSUME IInv, JointInv, NEW s \in Accepted, Processes(s), NEW t \in Accepted
  PROVE  Placed(t)'
  <1>0. /\ \A u \in Accepted : Placed(u)
        /\ pc \in [Accepted -> Core!Pcs] /\ Core!TypeOK
        /\ s \in Nat /\ delivered \in Nat
    BY JointFacts DEF JointInv, Core!IInv
  <1>1. InHand(s) /\ UNCHANGED vars /\ (Core!Receive(s) \/ Core!Process(s))
    BY DEF Processes
  <1>2. pc'[s] \notin {"new", "answered"}
    <2>1. CASE Core!Receive(s)
      <3>1. pc[s] = "new"
        BY <2>1, Zenon DEF Core!Receive, Core!Replies, Core!Chooses, Core!Goes
      <3>2. QED
        BY <1>0, <1>1, <3>1, RoutingMoves
    <2>2. CASE pc[s] # "answering" /\ Core!Process(s)
      BY <1>0, <1>1, <2>2, RoutingMoves
    <2>3. QED
      BY <2>1, <2>2 DEF Processes
  <1>3. /\ \A u \in Accepted : u # s => pc'[u] = pc[u] /\ out'[u] = out[u]
        /\ \/ pc[s] # "answered" /\ out'[s] = out[s]
           \/ out'[s] # "raised"
    BY <1>0, <1>1, RoutingMoves
  <1>4. CASE t # s
    BY <1>1, <1>3, <1>4, QueuePlaces
  <1>5. CASE t = s
    <2>1. /\ s \in ToSet(batch) /\ s <= delivered /\ result[s] = "none"
          /\ \A i \in 2 .. Len(batch) : s # batch[i]
      BY <1>1, InHandFacts
    <2>2. /\ InHand(s)' /\ ~(s \in Stranded)' /\ result'[s] = "none" /\ ~(s > delivered')
          /\ ~ \E i \in 2 .. Len(batch') : s = batch'[i]
      BY <1>0, <1>1, <2>1 DEF InHand, Stranded, vars
    <2>3. out'[s] # "raised"
      BY <1>0, <1>3 DEF Placed
    <2>4. QED
      BY <1>2, <1>5, <2>2, <2>3 DEF Placed
  <1>6. QED
    BY <1>4, <1>5

(* process() returns.                                                           *)
LEMMA ReturnPlaces ==
  ASSUME IInv, JointInv, NEW s \in Accepted, Returns(s), NEW t \in Accepted
  PROVE  Placed(t)'
  <1>0. /\ \A u \in Accepted : Placed(u)
        /\ pc \in [Accepted -> Core!Pcs] /\ result \in [Signals -> Results]
        /\ s \in Nat /\ delivered \in Nat /\ Accepted \subseteq Signals
    BY JointFacts DEF JointInv
  <1>1. /\ InHand(s) /\ s = Head(batch) /\ worker' = "acking"
        /\ result' = [result EXCEPT ![s] = Status(s)]
        /\ UNCHANGED <<sent, stream, delivered, pel, batch>>
    BY DEF Returns, ProcessReturns, InHand
  <1>2. pc[s] = "answering" /\ pc' = [pc EXCEPT ![s] = "answered"] /\ out' = out
    BY DEF Returns, Core!Answer, Core!Moves, Core!Goes
  <1>3. Status(s) # "none"
    BY DEF Status, Returned
  <1>4. ~InHand(t)'
    BY <1>1 DEF InHand
  <1>5. CASE t # s
    <2>1. pc'[t] = pc[t] /\ out'[t] = out[t] /\ result'[t] = result[t]
      BY <1>0, <1>1, <1>2, <1>5
    <2>2. ~InHand(t)
      BY <1>1, <1>5 DEF InHand
    <2>3. (t \in Stranded)' => t \in Stranded
      BY <1>1, <2>1 DEF Stranded
    <2>4. QED
      BY <1>0, <1>1, <1>4, <2>1, <2>2, <2>3 DEF Placed
  <1>6. CASE t = s
    <2>1. /\ s <= delivered /\ s \in ToSet(batch)
          /\ \A i \in 2 .. Len(batch) : s # batch[i]
      BY <1>1, InHandFacts
    <2>2. pc'[s] = "answered" /\ out'[s] = out[s] /\ out[s] # "raised" /\ result'[s] # "none"
      BY <1>0, <1>1, <1>2, <1>3 DEF Placed
    <2>3. ~(s \in Stranded)'
      BY <1>1, <2>1 DEF Stranded
    <2>4. ~(s > delivered') /\ ~ \E i \in 2 .. Len(batch') : s = batch'[i]
      BY <1>0, <1>1, <2>1
    <2>5. QED
      BY <1>4, <1>6, <2>2, <2>3, <2>4 DEF Placed
  <1>7. QED
    BY <1>5, <1>6

(* An exception, in process() or around it, and the end of the process.         *)
LEMMA FailurePlaces ==
  ASSUME IInv, JointInv,
         FailsAround \/ Dies \/ \E s \in Accepted : Raises(s),
         NEW t \in Accepted
  PROVE  Placed(t)'
  <1>0. /\ \A u \in Accepted : Placed(u)
        /\ pc \in [Accepted -> Core!Pcs] /\ out \in [Accepted -> Core!Answers]
    BY JointFacts DEF JointInv
  <1>1. /\ batch' = <<>> /\ worker' \in {"reading", "resting"}
        /\ UNCHANGED <<sent, delivered, pel, result>>
    BY DEF FailsAround, Dies, Raises, WorkerFails, Restart
  <1>2. \/ pc'[t] = "answered" /\ out'[t] = "raised" /\ pc[t] \notin {"new", "answered"}
        \/ pc'[t] = pc[t] /\ out'[t] = out[t] /\ pc[t] \in {"new", "answered"}
    <2>1. CASE FailsAround
      BY <1>0, <2>1 DEF FailsAround, coreVars, Placed, InHand
    <2>2. CASE Dies
      BY <1>0, <2>2 DEF Dies, Core!Crash, Core!InFlight
    <2>3. ASSUME NEW s \in Accepted, Raises(s)
          PROVE  \/ pc'[t] = "answered" /\ out'[t] = "raised" /\ pc[t] \notin {"new", "answered"}
                 \/ pc'[t] = pc[t] /\ out'[t] = out[t] /\ pc[t] \in {"new", "answered"}
      <3>1. /\ InHand(s) /\ pc[s] \notin {"new", "answered"}
            /\ pc' = [pc EXCEPT ![s] = "answered"] /\ out' = [out EXCEPT ![s] = "raised"]
        BY <2>3 DEF Raises, Core!Raise, Core!InFlight
      <3>2. t # s => ~InHand(t)
        BY <3>1 DEF InHand
      <3>3. QED
        BY <1>0, <3>1, <3>2 DEF Placed
    <2>4. QED
      BY <2>1, <2>2, <2>3
  <1>3. QED
    BY <1>1, <1>2, ForgottenPlaces

(* Every step of the composition is one of the orchestrator or leaves it alone. *)
LEMMA CoreSteps == Delivery => [Core!Next]_(Core!vars)
  <1> SUFFICES ASSUME Delivery PROVE [Core!Next]_(Core!vars)
    OBVIOUS
  <1>1. CASE Accepts \/ GoesOn \/ FailsAround
    BY <1>1 DEF Accepts, GoesOn, FailsAround, coreVars, Core!vars, Core!routing, Core!posted,
                Core!halt, Core!bounds
  <1>2. CASE Dies
    BY <1>2 DEF Dies, Core!Next
  <1>3. CASE \E s \in Accepted : Processes(s) \/ Returns(s) \/ Raises(s)
    BY <1>3 DEF Processes, Returns, Raises, Core!Next, Core!Process
  <1>4. CASE Others
    BY <1>4 DEF Others, Core!Next
  <1>5. QED
    BY <1>1, <1>2, <1>3, <1>4 DEF Delivery

(* The approval route, the daemon and the administrators move no signal.        *)
LEMMA OthersPlace == Others => UNCHANGED <<pc, out>>
  BY DEF Others, Core!Granted, Core!GrantedLooks, Core!GrantedSteps, Core!GrantedEnds, Core!ReadMail,
         Core!Resolve, Core!MoveDaemon, Core!DaemonEnds, Core!Kill, Core!Resume, Core!routing

LEMMA JointInit == DeliveryInit => JointInv
  <1> SUFFICES ASSUME DeliveryInit PROVE JointInv
    OBVIOUS
  <1>1. Core!IInv
    BY CoreInit DEF DeliveryInit
  <1>2. sent = 0 /\ delivered = 0 /\ batch = <<>> /\ worker = "reading" /\ pel = {}
    BY DEF DeliveryInit, Init
  <1>3. sent <= JointSignals
    BY <1>2, DeliveryAssumption, BoundsAssumption
  <1>4. ASSUME NEW s \in Accepted PROVE Placed(s)
    <2>1. pc[s] = "new" /\ out[s] = "none" /\ result[s] = "none"
      BY DeliveryAssumption, BoundsAssumption DEF DeliveryInit, Init, Core!Init, Accepted, Signals
    <2>2. ~InHand(s) /\ s \notin Stranded
      BY <1>2 DEF InHand, Stranded
    <2>3. QED
      BY <2>1, <2>2 DEF Placed
  <1>5. QED
    BY <1>1, <1>3, <1>4 DEF JointInv

LEMMA JointStep == IInv /\ JointInv /\ Delivery => JointInv'
  <1> SUFFICES ASSUME IInv, JointInv, Delivery PROVE JointInv'
    OBVIOUS
  <1>1. Core!IInv'
    BY CoreSteps, CoreStep DEF JointInv
  <1>2. (sent <= JointSignals)'
    <2>0. sent \in Nat /\ JointSignals \in Nat /\ sent <= JointSignals
      BY JointFacts DEF JointInv
    <2>1. CASE Accepts
      BY <2>0, <2>1 DEF Accepts, EnqueueSignal
    <2>2. CASE ~Accepts
      <3>1. sent' = sent
        BY <2>2 DEF Delivery, GoesOn, FailsAround, Dies, Processes, Returns, Raises, vars,
                    Dequeue, AckSignal, DeleteSignal, Resume, WorkerFails, Restart,
                    ProcessReturns
      <3>2. QED
        BY <2>0, <3>1
    <2>3. QED
      BY <2>1, <2>2
  <1>3. ASSUME NEW t \in Accepted PROVE Placed(t)'
    <2>1. CASE Accepts \/ GoesOn
      <3>1. /\ EnqueueSignal \/ Dequeue \/ AckSignal \/ DeleteSignal \/ Resume
            /\ pc'[t] = pc[t] /\ out'[t] = out[t]
        BY <2>1 DEF Accepts, GoesOn, coreVars
      <3>2. QED
        BY <3>1, QueuePlaces
    <2>2. CASE Others /\ UNCHANGED vars
      <3>1. pc'[t] = pc[t] /\ out'[t] = out[t]
        BY <2>2, OthersPlace
      <3>2. QED
        BY <2>2, <3>1, QueuePlaces
    <2>3. CASE FailsAround \/ Dies \/ \E s \in Accepted : Raises(s)
      BY <2>3, FailurePlaces
    <2>4. ASSUME NEW s \in Accepted, Processes(s) \/ Returns(s) PROVE Placed(t)'
      BY <2>4, ProcessPlaces, ReturnPlaces
    <2>5. QED
      BY <2>1, <2>2, <2>3, <2>4, Zenon DEF Delivery
  <1>4. QED
    BY <1>1, <1>2, <1>3 DEF JointInv

LEMMA JointUnchanged == IInv /\ JointInv /\ UNCHANGED bothVars => JointInv'
  <1> SUFFICES ASSUME IInv, JointInv, UNCHANGED bothVars PROVE JointInv'
    OBVIOUS
  <1>1. UNCHANGED vars /\ UNCHANGED coreVars
    BY DEF bothVars
  <1>2. Core!IInv'
    BY <1>1, CoreStep DEF JointInv, coreVars, Core!vars, Core!routing, Core!posted,
                Core!halt, Core!bounds
  <1>3. ASSUME NEW t \in Accepted PROVE Placed(t)'
    BY <1>1, QueuePlaces DEF coreVars
  <1>4. QED
    BY <1>1, <1>2, <1>3 DEF JointInv, vars

(* The two invariants say what DeliveryAccounted asks for.                      *)
LEMMA JointImplies ==
  ASSUME IInv, JointInv
  PROVE  /\ worker = "processing" => pc[Head(batch)] # "answered"
         /\ \A s \in 1 .. sent : s \notin stream => pc[s] = "answered" /\ out[s] # "raised"
         /\ \A s \in Stranded : pc[s] = "new" \/ out[s] = "raised"
         /\ Core!HandedOnce /\ Core!AnswerTellsFate /\ Core!HaltBoundsWork
         /\ Linked
  <1>0. /\ \A s \in Accepted : Placed(s)
        /\ Core!IInv /\ sent <= JointSignals
        /\ sent \in Nat /\ JointSignals \in Nat
        /\ worker \in {"processing", "acking", "deleting"} <=> batch # <<>>
        /\ \A i \in DOMAIN batch : batch[i] \in Accepted
    BY JointFacts DEF JointInv
  <1>1. worker = "processing" => pc[Head(batch)] # "answered"
    <2>1. ASSUME worker = "processing" PROVE pc[Head(batch)] # "answered"
      <3>1. Head(batch) = batch[1] /\ 1 \in DOMAIN batch
        BY <1>0, <2>1, HeadOfBatch
      <3>2. QED
        BY <1>0, <2>1, <3>1 DEF Placed, InHand
    <2>2. QED
      BY <2>1
  <1>2. 1 .. sent \subseteq Accepted
    BY <1>0 DEF Accepted
  <1>3. \A s \in 1 .. sent : s \notin stream => pc[s] = "answered" /\ out[s] # "raised"
    BY <1>0, <1>2 DEF IInv, DeletedOnlyIfProcessed, Placed
  <1>4. \A s \in Stranded : pc[s] = "new" \/ out[s] = "raised"
    <2>1. Stranded \subseteq 1 .. sent
      <3>1. pel \subseteq 1 .. delivered /\ delivered \in Nat /\ delivered <= sent /\ sent \in Nat
        BY BatchTypes DEF IInv, TypeOK
      <3>2. 1 .. delivered \subseteq 1 .. sent
        BY <3>1
      <3>3. QED
        BY <3>1, <3>2 DEF Stranded
    <2>2. QED
      BY <1>0, <1>2, <2>1 DEF Placed
  <1>5. Core!HandedOnce /\ Core!AnswerTellsFate /\ Core!HaltBoundsWork
    BY <1>0, CoreImplies
  <1>6. Linked
    BY <1>0 DEF Linked, Placed
  <1>7. QED
    BY <1>1, <1>3, <1>4, <1>5, <1>6

(* DeliveryAccounted: for every accepted signal, from the stream through        *)
(* process() to the agents and the approvals, no restart and no exception lets  *)
(* process() have it twice, what was deleted was answered, and the answer and   *)
(* the kill switch keep what AnswerTellsFate and HaltBoundsWork say of them.    *)
THEOREM DeliveryIsAccounted == DeliverySpec => []DeliveryAccounted
  <1> DEFINE Joint == scope = "delivery" => JointInv
  <1>1. DeliveryInit => Joint
    BY JointInit
  <1>2. IInv /\ Joint /\ [DeliveryNext]_<<scope, bothVars>> => Joint'
    BY JointStep, JointUnchanged DEF DeliveryNext
  <1>3. IInv /\ Joint => DeliveryAccounted
    BY JointImplies DEF DeliveryAccounted
  <1>4. QED
    BY QueueInvariance, <1>1, <1>2, <1>3, PTL DEF DeliverySpec
=============================================================================
