----------------------------- MODULE SharedProofs -----------------------------
(***************************************************************************)
(* Theorems about MCShared and the components it joins, for every number of *)
(* requests, rules, sessions, pages, faults and instants.  Each component   *)
(* has an inductive invariant of its own, which its module states and       *)
(* MCShared's run checks; here every step of it is shown to keep it:        *)
(*   the token bucket    spent and earned balance (IInv),                   *)
(*   the rate limiter    the ledger of each life of a counter (LimiterInv), *)
(*   the rules engine    what each change has in hand and each reload has   *)
(*                       read, and what overtook it (RulesInv),             *)
(*   the client pool     one owner of each session (PoolInv), and requests  *)
(*                       one at a time in step (PoolSerial, LostByFaults),  *)
(*   the browser         one owner of each page (BrowserInv), and calls one *)
(*                       at a time in step (BrowserSerial).                 *)
(***************************************************************************)
EXTENDS MCShared, FiniteSetTheorems, SequenceTheorems, TLAPS

(* Each module counts as this one does. *)
LEMMA SameCount ==
  ASSUME NEW S, NEW n
  PROVE  /\ Limiter!Cardinality(S) = Cardinality(S) /\ (Limiter!IsFiniteSet(S) <=> IsFiniteSet(S))
         /\ Rules!Cardinality(S) = Cardinality(S) /\ (Rules!IsFiniteSet(S) <=> IsFiniteSet(S))
         /\ McpPool(n)!Cardinality(S) = Cardinality(S)
         /\ McpPool(n)!IsFiniteSet(S) <=> IsFiniteSet(S)
         /\ Browser(n, n)!Cardinality(S) = Cardinality(S)
         /\ Browser(n, n)!IsFiniteSet(S) <=> IsFiniteSet(S)
  BY DEF Limiter!Cardinality, Limiter!IsFiniteSet, Rules!Cardinality, Rules!IsFiniteSet,
     McpPool!Cardinality, McpPool!IsFiniteSet, Browser!Cardinality, Browser!IsFiniteSet,
     Cardinality, IsFiniteSet

-----------------------------------------------------------------------------
(* The token bucket.  Its invariant is an account: what has been spent and   *)
(* what may be spent at once never exceed the allowance earned since the      *)
(* observation began.                                                         *)

(* Nothing is spent when the observation begins. *)
LEMMA InitIInv == Init => IInv
  BY BucketAssumption
  DEF Init, IInv, TypeOK, SleepsLongEnough, Allowance, Refilled, Least

(* Every step keeps the types. *)
LEMMA TypeStep == IInv /\ [Next]_vars => TypeOK'
  <1> SUFFICES ASSUME IInv, [Next]_vars PROVE TypeOK'
    OBVIOUS
  <1> USE BucketAssumption DEF IInv, TypeOK
  <1>1. CASE Pass
    BY <1>1 DEF Pass, Refilled, Least
  <1>2. CASE BeginWait
    BY <1>2 DEF BeginWait, Refilled, Least
  <1>3. CASE EndWait \/ CancelWait
    BY <1>3 DEF EndWait, CancelWait
  <1>4. CASE Tick \/ Observe
    BY <1>4 DEF Tick, Observe
  <1>5. CASE UNCHANGED vars
    BY <1>5 DEF vars
  <1>6. QED
    BY <1>1, <1>2, <1>3, <1>4, <1>5 DEF Next

(* Every step keeps the sleep long enough and the account balanced. *)
LEMMA AccountStep == IInv /\ [Next]_vars => SleepsLongEnough' /\ Allowance'
  <1> SUFFICES ASSUME IInv, [Next]_vars PROVE SleepsLongEnough' /\ Allowance'
    OBVIOUS
  <1> USE BucketAssumption
      DEF IInv, TypeOK, SleepsLongEnough, Allowance, Refilled, Least
  <1>1. CASE Pass
    BY <1>1 DEF Pass
  <1>2. CASE BeginWait
    BY <1>2 DEF BeginWait
  <1>3. CASE EndWait
    <2>1. now - last >= Cost - tokens
      BY <1>3 DEF EndWait, SleepIsOver
    <2>2. CASE since <= last /\ spent + tokens <= Capacity + Cost + 2 * (last - since)
      BY <1>3, <2>1, <2>2 DEF EndWait
    <2>3. CASE since >= last /\ spent = 0
      BY <1>3, <2>1, <2>3 DEF EndWait
    <2>4. QED
      BY <1>3, <2>2, <2>3 DEF EndWait
  <1>4. CASE CancelWait
    BY <1>4 DEF CancelWait
  <1>5. CASE Tick
    BY <1>5 DEF Tick
  <1>6. CASE Observe
    BY <1>6 DEF Observe
  <1>7. CASE UNCHANGED vars
    BY <1>7 DEF vars
  <1>8. QED
    BY <1>1, <1>2, <1>3, <1>4, <1>5, <1>6, <1>7 DEF Next

(* A balanced account keeps to the bucket, one call and twice the rate. *)
LEMMA BucketKeeps == IInv => AtMostDoubleRate
  <1> SUFFICES ASSUME IInv PROVE AtMostDoubleRate
    OBVIOUS
  <1> USE BucketAssumption DEF IInv, TypeOK, Allowance, Refilled, Least, AtMostDoubleRate
  <1>1. CASE caller = "none"
    BY <1>1
  <1>2. CASE caller = "sleeping"
    BY <1>2
  <1>3. QED
    BY <1>1, <1>2

-----------------------------------------------------------------------------
(* The rate limiter of the API.                                               *)

LimiterInv ==
  /\ Limiter!TypeOK /\ Limiter!KeysOutliveWindows /\ Limiter!CountersUnbroken
  /\ Limiter!PassedInLife /\ Limiter!RescuedAreCounted
  /\ \A w \in Limiter!Windows : rescued[w] <= FallbackLimit

(* Windows are numbered in the order of time, and a lifetime ends in a later one.  *)
LEMMA WindowOrder ==
  ASSUME Limiter!LimiterAssumption
  PROVE  /\ \A t \in Nat : Limiter!Window(t) \in Nat
         /\ \A t, u \in Nat : t <= u => Limiter!Window(t) <= Limiter!Window(u)
         /\ \A t \in Nat : Limiter!Window(t + Minute) = Limiter!Window(t) + 1
         /\ \A t \in Limiter!Instants : t \in Nat /\ Limiter!Window(t) \in Limiter!Windows
         /\ \A w \in Limiter!Windows : w \in Nat
  <1>1. Minute \in Nat \ {0} /\ LimiterTime \in Nat
    BY DEF Limiter!LimiterAssumption
  <1>2. \A n \in Nat, p \in Nat \ {0} : n \div p \in Nat /\ (n + p) \div p = n \div p + 1
    OBVIOUS
  <1>3. \A m, n \in Nat, p \in Nat \ {0} : m <= n => m \div p <= n \div p
    OBVIOUS
  <1>4. \A t \in Nat : Limiter!Window(t) = t \div Minute
    BY DEF Limiter!Window
  <1>5. \A t \in Nat : t + Minute \in Nat
    BY <1>1
  <1>6. /\ \A t \in Nat : Limiter!Window(t) \in Nat
        /\ \A t \in Nat : Limiter!Window(t + Minute) = Limiter!Window(t) + 1
    BY <1>1, <1>2, <1>4, <1>5
  <1>7. \A t, u \in Nat : t <= u => Limiter!Window(t) <= Limiter!Window(u)
    BY <1>1, <1>3, <1>4
  <1>8. \A t \in Limiter!Instants : t \in Nat /\ Limiter!Window(t) \in Limiter!Windows
    BY <1>1 DEF Limiter!Instants, Limiter!Windows
  <1>9. \A w \in Limiter!Windows : w \in Nat
    BY <1>6, <1>8 DEF Limiter!Windows
  <1>10. QED
    BY <1>6, <1>7, <1>8, <1>9

(* The types, one by one. *)
LimiterTyped ==
  /\ minuteClock \in Limiter!Instants /\ limiterFaults \in 0 .. LimiterFaults
  /\ count \in [Limiter!Windows -> Nat] /\ dies \in [Limiter!Windows -> {-1} \cup Nat]
  /\ memory \in [Limiter!Windows -> Nat]
  /\ req \in [Posts -> [pc : {"new", "counting", "expiring", "done"}, window : Limiter!Windows,
                        current : Nat]]
  /\ incrs \in [Limiter!Windows -> Nat] /\ lives \in [Limiter!Windows -> Nat]
  /\ passed \in [Limiter!Windows -> Nat] /\ rescued \in [Limiter!Windows -> Nat]
  /\ at \in [Limiter!Instants -> Nat]

Pairing ==
  /\ \A w \in Limiter!Windows : count[w] = 0 => dies[w] = -1
  /\ \A r \in Posts : req[r].pc = "expiring" => req[r].current = 1

(* TypeOK, taken apart; and the same after a step. *)
LEMMA LimiterUnpacked == Limiter!TypeOK <=> LimiterTyped /\ Pairing
  BY DEF Limiter!TypeOK, LimiterTyped, Pairing, Limiter!Never

LEMMA LimiterPacked == (Limiter!TypeOK)' <=> LimiterTyped' /\ Pairing'
  BY LimiterUnpacked, PTL

(* INCR moves one counter on. *)
LEMMA IncrementsCounts ==
  ASSUME LimiterTyped, NEW w \in Limiter!Windows, Limiter!Increments(w)
  PROVE  /\ count' \in [Limiter!Windows -> Nat] /\ incrs' \in [Limiter!Windows -> Nat]
         /\ lives' \in [Limiter!Windows -> Nat] /\ dies' = dies
         /\ count'[w] = count[w] + 1 /\ incrs'[w] = incrs[w] + 1
         /\ lives'[w] = IF count[w] = 0 THEN lives[w] + 1 ELSE lives[w]
         /\ \A v \in Limiter!Windows \ {w} :
              count'[v] = count[v] /\ incrs'[v] = incrs[v] /\ lives'[v] = lives[v]
  BY DEF Limiter!Increments, LimiterTyped

(* Time passes, and keys die. *)
LEMMA LimiterTickTypes ==
  ASSUME Limiter!LimiterAssumption, LimiterTyped, Pairing, Limiter!Tick
  PROVE  LimiterTyped' /\ Pairing'
  <1>1. minuteClock' \in Limiter!Instants
    BY DEF Limiter!Tick, Limiter!Instants, LimiterTyped, Limiter!LimiterAssumption
  <1>2. count' \in [Limiter!Windows -> Nat] /\ dies' \in [Limiter!Windows -> {-1} \cup Nat]
    BY DEF Limiter!Tick, LimiterTyped, Limiter!Never
  <1>3. Pairing'
    BY DEF Limiter!Tick, LimiterTyped, Pairing, Limiter!Never
  <1>4. QED
    BY <1>1, <1>2, <1>3 DEF Limiter!Tick, LimiterTyped

(* Redis starts again with nothing. *)
LEMMA LimiterRestartTypes ==
  ASSUME Limiter!LimiterAssumption, LimiterTyped, Pairing, Limiter!RedisRestarts
  PROVE  LimiterTyped' /\ Pairing'
  BY DEF Limiter!RedisRestarts, LimiterTyped, Pairing, Limiter!Never, Limiter!LimiterAssumption

(* A request arrives in the window of the moment. *)
LEMMA LimiterArriveTypes ==
  ASSUME Limiter!LimiterAssumption, LimiterTyped, Pairing, NEW r \in Posts, Limiter!Arrive(r)
  PROVE  LimiterTyped' /\ Pairing'
  <1>1. Limiter!Window(minuteClock) \in Limiter!Windows
    BY WindowOrder DEF LimiterTyped
  <1>2. QED
    BY <1>1 DEF Limiter!Arrive, Limiter!redis, LimiterTyped, Pairing

(* A request is decided: it passes or it does not. *)
LEMMA DecidesTypes ==
  ASSUME Limiter!LimiterAssumption, LimiterTyped, NEW r \in Posts, NEW c \in Nat,
         Limiter!Decides(r, c)
  PROVE  /\ req' = [req EXCEPT ![r] = [pc |-> "done", window |-> req[r].window, current |-> c]]
         /\ passed' \in [Limiter!Windows -> Nat] /\ at' \in [Limiter!Instants -> Nat]
         /\ passed'[req[r].window] = IF c > Limit THEN passed[req[r].window]
                                                  ELSE passed[req[r].window] + 1
         /\ \A v \in Limiter!Windows \ {req[r].window} : passed'[v] = passed[v]
  <1>1. /\ req[r] \in [pc : {"new", "counting", "expiring", "done"}, window : Limiter!Windows,
                       current : Nat]
        /\ passed \in [Limiter!Windows -> Nat] /\ at \in [Limiter!Instants -> Nat]
        /\ minuteClock \in Limiter!Instants
    BY DEF LimiterTyped
  <1>2. req' = [req EXCEPT ![r] = [pc |-> "done", window |-> req[r].window, current |-> c]]
    <2>1. req'[r] = [pc |-> "done", window |-> req[r].window, current |-> c]
      BY <1>1 DEF Limiter!Decides, LimiterTyped
    <2>2. \A q \in Posts \ {r} : req'[q] = req[q]
      BY DEF Limiter!Decides, LimiterTyped
    <2>3. req' = [q \in Posts |-> req'[q]] /\ req = [q \in Posts |-> req[q]]
      BY DEF Limiter!Decides, LimiterTyped
    <2>4. QED
      BY <2>1, <2>2, <2>3
  <1>3. CASE c > Limit
    BY <1>1, <1>2, <1>3 DEF Limiter!Decides, Limiter!Exceeds
  <1>4. CASE ~(c > Limit)
    <2>1. /\ passed' = [passed EXCEPT ![req[r].window] = passed[req[r].window] + 1]
          /\ at' = [at EXCEPT ![minuteClock] = at[minuteClock] + 1]
      BY <1>4 DEF Limiter!Decides, Limiter!Exceeds, Limiter!LetsThrough
    <2>2. req[r].window \in Limiter!Windows
      BY <1>1
    <2>3. passed' \in [Limiter!Windows -> Nat] /\ at' \in [Limiter!Instants -> Nat]
      BY <1>1, <2>1, <2>2
    <2>4. QED
      BY <1>1, <1>2, <1>4, <2>1, <2>2, <2>3
  <1>5. QED
    BY <1>3, <1>4

(* INCR, answered or lost, finds or makes its counter. *)
LEMMA LimiterCountTypes ==
  ASSUME Limiter!LimiterAssumption, LimiterTyped, Pairing, NEW r \in Posts, Limiter!Count(r)
  PROVE  LimiterTyped' /\ Pairing'
  <1>1. /\ req[r] \in [pc : {"new", "counting", "expiring", "done"}, window : Limiter!Windows,
                       current : Nat]
        /\ req[r].window \in Limiter!Windows /\ count[req[r].window] + 1 \in Nat
    BY DEF LimiterTyped
  <1> DEFINE w == req[r].window
             c == count[w] + 1
  <1>2. /\ Limiter!Increments(w)
        /\ IF c = 1 THEN /\ req' = [req EXCEPT ![r].pc = "expiring", ![r].current = c]
                         /\ UNCHANGED <<passed, at>>
                    ELSE Limiter!Decides(r, c)
        /\ UNCHANGED <<minuteClock, memory, rescued, limiterFaults>>
    BY DEF Limiter!Count, Limiter!First
  <1> HIDE DEF c
  <1>3. c \in Nat /\ w \in Limiter!Windows
    BY <1>1 DEF c
  <1>4. /\ count' \in [Limiter!Windows -> Nat] /\ incrs' \in [Limiter!Windows -> Nat]
        /\ lives' \in [Limiter!Windows -> Nat] /\ dies' = dies
    BY <1>2, <1>3, IncrementsCounts
  <1>5. \A v \in Limiter!Windows : count'[v] = 0 => count[v] = 0
    BY <1>2, <1>3, IncrementsCounts DEF LimiterTyped
  <1>6. /\ req' \in [Posts -> [pc : {"new", "counting", "expiring", "done"},
                               window : Limiter!Windows, current : Nat]]
        /\ passed' \in [Limiter!Windows -> Nat] /\ at' \in [Limiter!Instants -> Nat]
        /\ \A q \in Posts : req'[q].pc = "expiring" => req'[q].current = 1
    <2>1. CASE c = 1
      <3>1. /\ req' = [req EXCEPT ![r].pc = "expiring", ![r].current = c]
            /\ UNCHANGED <<passed, at>>
        BY <1>2, <2>1
      <3>2. req'[r] = [pc |-> "expiring", window |-> w, current |-> c]
        BY <1>1, <3>1 DEF LimiterTyped
      <3>3. /\ \A q \in Posts \ {r} : req'[q] = req[q]
            /\ req' = [q \in Posts |-> req'[q]]
        BY <3>1 DEF LimiterTyped
      <3>4. QED
        BY <1>3, <2>1, <3>1, <3>2, <3>3 DEF LimiterTyped, Pairing
    <2>2. CASE c # 1
      <3>1. Limiter!Decides(r, c)
        BY <1>2, <2>2
      <3>2. /\ req' = [req EXCEPT ![r] = [pc |-> "done", window |-> w, current |-> c]]
            /\ passed' \in [Limiter!Windows -> Nat] /\ at' \in [Limiter!Instants -> Nat]
        BY <1>3, <3>1, DecidesTypes
      <3>3. QED
        BY <1>3, <3>2 DEF LimiterTyped, Pairing
    <2>3. QED
      BY <2>1, <2>2
  <1>7. QED
    BY <1>2, <1>4, <1>5, <1>6 DEF LimiterTyped, Pairing

(* EXPIRE, answered or lost, gives the counter its time. *)
LEMMA LimiterExpireTypes ==
  ASSUME Limiter!LimiterAssumption, LimiterTyped, Pairing, NEW r \in Posts, Limiter!Expire(r)
  PROVE  LimiterTyped' /\ Pairing'
  <1> DEFINE w == req[r].window
  <1>1. w \in Limiter!Windows /\ req[r].current \in Nat
    BY DEF LimiterTyped
  <1>2. /\ dies' = [dies EXCEPT ![w] = IF count[w] = 0 THEN dies[w] ELSE minuteClock + Minute]
        /\ Limiter!Decides(r, req[r].current)
        /\ UNCHANGED <<minuteClock, count, incrs, lives, memory, rescued, limiterFaults>>
    BY DEF Limiter!Expire, Limiter!Lifetime
  <1>3. minuteClock + Minute \in Nat
    BY DEF LimiterTyped, Limiter!Instants, Limiter!LimiterAssumption
  <1>4. dies' \in [Limiter!Windows -> {-1} \cup Nat]
        /\ \A v \in Limiter!Windows : count[v] = 0 => dies'[v] = -1
    BY <1>1, <1>2, <1>3 DEF LimiterTyped, Pairing
  <1>5. /\ req' = [req EXCEPT ![r] = [pc |-> "done", window |-> w, current |-> req[r].current]]
        /\ passed' \in [Limiter!Windows -> Nat] /\ at' \in [Limiter!Instants -> Nat]
    BY <1>1, <1>2, DecidesTypes
  <1>6. req' \in [Posts -> [pc : {"new", "counting", "expiring", "done"},
                            window : Limiter!Windows, current : Nat]]
        /\ \A q \in Posts : req'[q].pc = "expiring" => req'[q].current = 1
    BY <1>1, <1>5 DEF LimiterTyped, Pairing
  <1>7. QED
    BY <1>2, <1>4, <1>5, <1>6 DEF LimiterTyped, Pairing

(* What the fallback does, the counter of Redis apart. *)
LEMMA FallBackCounts ==
  ASSUME Limiter!LimiterAssumption, LimiterTyped, NEW r \in Posts, Limiter!FallBack(r)
  PROVE  LET w == Limiter!Window(minuteClock) IN
         /\ w \in Limiter!Windows
         /\ memory' \in [Limiter!Windows -> Nat] /\ rescued' \in [Limiter!Windows -> Nat]
         /\ at' \in [Limiter!Instants -> Nat]
         /\ req' = [req EXCEPT ![r] = [pc |-> "done", window |-> req[r].window,
                                       current |-> req[r].current]]
         /\ limiterFaults < LimiterFaults /\ limiterFaults' = limiterFaults + 1
         /\ minuteClock' = minuteClock /\ passed' = passed
         /\ memory'[w] = memory[w] + 1
         /\ rescued'[w] = IF memory[w] + 1 <= FallbackLimit THEN rescued[w] + 1 ELSE rescued[w]
         /\ \A v \in Limiter!Windows \ {w} : rescued'[v] = rescued[v]
         /\ \A v \in Limiter!Windows : w < v => memory'[v] = memory[v]
         /\ \/ UNCHANGED <<count, dies, incrs, lives>>
            \/ req[r].pc = "counting" /\ Limiter!Increments(req[r].window)
  <1> DEFINE w == Limiter!Window(minuteClock)
             kept == Limiter!Kept(w)
  <1>1. /\ w \in Limiter!Windows /\ w \in Nat /\ \A v \in Limiter!Windows : v \in Nat
        /\ minuteClock \in Limiter!Instants
    BY WindowOrder DEF LimiterTyped
  <1>2. /\ kept \in [Limiter!Windows -> Nat]
        /\ \A v \in Limiter!Windows : v >= w => kept[v] = memory[v]
    <2>1. kept = [v \in Limiter!Windows |-> IF v < w - 1 THEN 0 ELSE memory[v]]
      BY DEF Limiter!Kept
    <2> HIDE DEF kept, w
    <2>2. \A v \in Limiter!Windows : v >= w => ~(v < w - 1)
      BY <1>1
    <2>3. QED
      BY <2>1, <2>2 DEF LimiterTyped
  <1>3. /\ limiterFaults < LimiterFaults /\ limiterFaults' = limiterFaults + 1
        /\ memory' = [kept EXCEPT ![w] = kept[w] + 1]
        /\ req' = [req EXCEPT ![r].pc = "done"]
        /\ IF kept[w] + 1 <= FallbackLimit
           THEN rescued' = [rescued EXCEPT ![w] = @ + 1] /\ Limiter!LetsThrough
           ELSE UNCHANGED <<rescued, at>>
        /\ UNCHANGED <<minuteClock, passed>>
        /\ \/ UNCHANGED <<count, dies, incrs, lives>>
           \/ req[r].pc = "counting" /\ Limiter!Increments(req[r].window)
    BY DEF Limiter!FallBack, Limiter!redis
  <1> HIDE DEF kept, w
  <1>4. req' = [req EXCEPT ![r] = [pc |-> "done", window |-> req[r].window,
                                   current |-> req[r].current]]
    <2>1. req'[r] = [pc |-> "done", window |-> req[r].window, current |-> req[r].current]
      BY <1>3 DEF LimiterTyped
    <2>2. \A q \in Posts \ {r} : req'[q] = req[q]
      BY <1>3 DEF LimiterTyped
    <2>3. req' = [q \in Posts |-> req'[q]] /\ req = [q \in Posts |-> req[q]]
      BY <1>3 DEF LimiterTyped
    <2>4. QED
      BY <2>1, <2>2, <2>3
  <1>5. /\ memory' \in [Limiter!Windows -> Nat] /\ memory'[w] = memory[w] + 1
        /\ \A v \in Limiter!Windows : w < v => memory'[v] = memory[v]
    BY <1>1, <1>2, <1>3
  <1>6. /\ rescued' \in [Limiter!Windows -> Nat] /\ at' \in [Limiter!Instants -> Nat]
        /\ rescued'[w] = IF memory[w] + 1 <= FallbackLimit THEN rescued[w] + 1 ELSE rescued[w]
        /\ \A v \in Limiter!Windows \ {w} : rescued'[v] = rescued[v]
    <2>1. kept[w] = memory[w]
      BY <1>1, <1>2
    <2>2. CASE memory[w] + 1 <= FallbackLimit
      <3>1. rescued' = [rescued EXCEPT ![w] = @ + 1] /\ Limiter!LetsThrough
        BY <1>3, <2>1, <2>2
      <3>2. /\ rescued' \in [Limiter!Windows -> Nat] /\ rescued'[w] = rescued[w] + 1
            /\ \A v \in Limiter!Windows \ {w} : rescued'[v] = rescued[v]
        BY <1>1, <3>1 DEF LimiterTyped
      <3>3. at' \in [Limiter!Instants -> Nat]
        BY <1>1, <3>1 DEF LimiterTyped, Limiter!LetsThrough
      <3>4. QED
        BY <2>2, <3>2, <3>3
    <2>3. CASE ~(memory[w] + 1 <= FallbackLimit)
      BY <1>1, <1>3, <2>1, <2>3 DEF LimiterTyped
    <2>4. QED
      BY <2>2, <2>3
  <1>7. QED
    BY <1>1, <1>3, <1>4, <1>5, <1>6 DEF w

(* Without an answer the request is counted in memory. *)
LEMMA LimiterFallBackTypes ==
  ASSUME Limiter!LimiterAssumption, LimiterTyped, Pairing, NEW r \in Posts, Limiter!FallBack(r)
  PROVE  LimiterTyped' /\ Pairing'
  <1>1. req[r].window \in Limiter!Windows /\ req[r].current \in Nat
    BY DEF LimiterTyped
  <1>2. /\ req' \in [Posts -> [pc : {"new", "counting", "expiring", "done"},
                               window : Limiter!Windows, current : Nat]]
        /\ \A q \in Posts : req'[q].pc = "expiring" => req'[q].current = 1
    BY <1>1, FallBackCounts DEF LimiterTyped, Pairing
  <1>3. limiterFaults' \in 0 .. LimiterFaults
    BY FallBackCounts DEF LimiterTyped, Limiter!LimiterAssumption
  <1>4. /\ count' \in [Limiter!Windows -> Nat] /\ dies' \in [Limiter!Windows -> {-1} \cup Nat]
        /\ incrs' \in [Limiter!Windows -> Nat] /\ lives' \in [Limiter!Windows -> Nat]
        /\ \A v \in Limiter!Windows : count'[v] = 0 => dies'[v] = -1
    <2>1. CASE UNCHANGED <<count, dies, incrs, lives>>
      BY <2>1 DEF LimiterTyped, Pairing
    <2>2. CASE Limiter!Increments(req[r].window)
      <3>1. \A v \in Limiter!Windows : count'[v] = 0 => count[v] = 0
        BY <1>1, <2>2, IncrementsCounts DEF LimiterTyped
      <3>2. QED
        BY <1>1, <2>2, <3>1, IncrementsCounts DEF LimiterTyped, Pairing
    <2>3. QED
      BY <2>1, <2>2, FallBackCounts
  <1>5. QED
    BY <1>2, <1>3, <1>4, FallBackCounts DEF LimiterTyped, Pairing

(* Every step keeps the types. *)
LEMMA LimiterTypes ==
  ASSUME Limiter!LimiterAssumption, Limiter!TypeOK, Limiter!Next
  PROVE  (Limiter!TypeOK)'
  <1>1. LimiterTyped /\ Pairing
    BY LimiterUnpacked
  <1>2. LimiterTyped' /\ Pairing'
    BY <1>1, LimiterTickTypes, LimiterRestartTypes, LimiterArriveTypes, LimiterCountTypes,
       LimiterExpireTypes, LimiterFallBackTypes DEF Limiter!Next
  <1>3. QED
    BY <1>2, LimiterPacked

(* What a step does to the counter of a window, as far as its key is concerned.   *)
LEMMA KeysStep ==
  ASSUME Limiter!LimiterAssumption, LimiterInv, Limiter!Next
  PROVE  (Limiter!KeysOutliveWindows)'
  <1>1. LimiterTyped /\ Pairing /\ LimiterTyped'
    BY LimiterUnpacked, LimiterTypes, LimiterPacked DEF LimiterInv
  <1>2. /\ \A r \in Posts : req[r].window <= Limiter!Window(minuteClock)
        /\ \A w \in Limiter!Windows : dies[w] # -1 => Limiter!Window(dies[w]) > w
    BY DEF LimiterInv, Limiter!KeysOutliveWindows, Limiter!Never
  <1>3. minuteClock \in Nat /\ minuteClock' \in Nat /\ minuteClock <= minuteClock'
    <2>1. minuteClock \in Nat /\ minuteClock' \in Nat
      BY <1>1, WindowOrder DEF LimiterTyped
    <2>2. minuteClock' = minuteClock \/ minuteClock' = minuteClock + 1
      BY <1>1, FallBackCounts DEF Limiter!Next, Limiter!Tick, Limiter!RedisRestarts,
         Limiter!Arrive, Limiter!Count, Limiter!Expire
    <2>3. QED
      BY <2>1, <2>2
  <1>4. /\ Limiter!Window(minuteClock) \in Nat /\ Limiter!Window(minuteClock') \in Nat
        /\ Limiter!Window(minuteClock) <= Limiter!Window(minuteClock')
    BY <1>3, WindowOrder
  <1>5. \A r \in Posts : req'[r].window = req[r].window \/ req'[r].window = Limiter!Window(minuteClock)
    <2>1. CASE Limiter!Tick \/ Limiter!RedisRestarts
      BY <2>1 DEF Limiter!Tick, Limiter!RedisRestarts
    <2>2. ASSUME NEW r \in Posts, Limiter!Arrive(r) \/ Limiter!Count(r) \/ Limiter!Expire(r)
                                  \/ Limiter!FallBack(r)
          PROVE  \A q \in Posts : \/ req'[q].window = req[q].window
                                  \/ req'[q].window = Limiter!Window(minuteClock)
      BY <1>1, <2>2 DEF LimiterTyped, Limiter!Arrive, Limiter!Count, Limiter!Expire,
         Limiter!FallBack, Limiter!Decides
    <2>3. QED
      BY <2>1, <2>2 DEF Limiter!Next
  <1>6. \A r \in Posts : req'[r].window <= Limiter!Window(minuteClock')
    <2>1. \A r \in Posts : req[r].window \in Nat
      BY <1>1, WindowOrder DEF LimiterTyped
    <2>2. QED
      BY <1>2, <1>4, <1>5, <2>1
  <1>7. \A w \in Limiter!Windows :
          dies'[w] # -1 => \/ dies'[w] = dies[w]
                           \/ dies'[w] = minuteClock + Minute /\ \E r \in Posts : req[r].window = w
    <2>1. CASE Limiter!Tick \/ Limiter!RedisRestarts
      BY <1>1, <2>1 DEF Limiter!Tick, Limiter!RedisRestarts, Limiter!Never, LimiterTyped
    <2>2. ASSUME NEW r \in Posts, Limiter!Arrive(r) \/ Limiter!Count(r) \/ Limiter!FallBack(r)
          PROVE  dies' = dies
      BY <2>2 DEF Limiter!Arrive, Limiter!Count, Limiter!FallBack, Limiter!redis,
         Limiter!Increments
    <2>3. ASSUME NEW r \in Posts, Limiter!Expire(r)
          PROVE  \A w \in Limiter!Windows :
                   dies'[w] = dies[w] \/ (dies'[w] = minuteClock + Minute /\ req[r].window = w)
      BY <1>1, <2>3 DEF Limiter!Expire, Limiter!Lifetime, LimiterTyped
    <2>4. QED
      BY <2>1, <2>2, <2>3 DEF Limiter!Next
  <1>8. ASSUME NEW w \in Limiter!Windows, dies'[w] # -1
        PROVE  Limiter!Window(dies'[w]) > w
    <2>1. CASE dies'[w] = dies[w]
      BY <1>2, <1>8, <2>1
    <2>2. CASE dies'[w] = minuteClock + Minute /\ \E r \in Posts : req[r].window = w
      <3>1. w <= Limiter!Window(minuteClock) /\ w \in Nat
        BY <1>2, <2>2, WindowOrder
      <3>2. Limiter!Window(dies'[w]) = Limiter!Window(minuteClock) + 1
        BY <1>3, <2>2, WindowOrder
      <3>3. QED
        BY <1>4, <3>1, <3>2
    <2>3. QED
      BY <1>7, <1>8, <2>1, <2>2
  <1>9. QED
    BY <1>6, <1>8 DEF Limiter!KeysOutliveWindows, Limiter!Never

(* A counter that has lost nothing counts what was counted. *)
LEMMA UnbrokenStep ==
  ASSUME Limiter!LimiterAssumption, LimiterInv, Limiter!Next
  PROVE  (Limiter!CountersUnbroken)'
  <1>1. LimiterTyped /\ Pairing
    BY LimiterUnpacked DEF LimiterInv
  <1>2. SUFFICES ASSUME limiterFaults' = 0, NEW w \in Limiter!Windows,
                        Limiter!Window(minuteClock') <= w
                 PROVE  count'[w] = incrs'[w]
    BY DEF Limiter!CountersUnbroken
  <1>3. limiterFaults \in Nat /\ minuteClock \in Nat /\ w \in Nat
    BY <1>1, WindowOrder DEF LimiterTyped, Limiter!LimiterAssumption
  <1>4. CASE Limiter!Tick
    <2>1. /\ minuteClock' = minuteClock + 1 /\ limiterFaults = 0 /\ incrs' = incrs
          /\ count' = [v \in Limiter!Windows |->
                         IF v \in Limiter!Expired(minuteClock + 1) THEN 0 ELSE count[v]]
      BY <1>2, <1>4 DEF Limiter!Tick
    <2>2. /\ Limiter!Window(minuteClock) <= Limiter!Window(minuteClock + 1)
          /\ Limiter!Window(minuteClock) \in Nat /\ Limiter!Window(minuteClock + 1) \in Nat
      BY <1>3, WindowOrder
    <2>3. count[w] = incrs[w]
      BY <1>2, <1>3, <2>1, <2>2 DEF LimiterInv, Limiter!CountersUnbroken
    <2>4. w \notin Limiter!Expired(minuteClock + 1)
      <3>1. SUFFICES ASSUME dies[w] # -1, dies[w] <= minuteClock + 1 PROVE FALSE
        BY DEF Limiter!Expired, Limiter!Never
      <3>2. dies[w] \in Nat /\ Limiter!Window(dies[w]) > w
        BY <1>1, <3>1 DEF LimiterTyped, LimiterInv, Limiter!KeysOutliveWindows, Limiter!Never
      <3>3. Limiter!Window(dies[w]) <= Limiter!Window(minuteClock + 1)
        BY <1>3, <3>1, <3>2, WindowOrder
      <3>4. Limiter!Window(dies[w]) \in Nat
        BY <3>2, WindowOrder
      <3>5. QED
        BY <1>2, <1>3, <2>1, <2>2, <3>2, <3>3, <3>4
    <2>5. QED
      BY <2>1, <2>3, <2>4
  <1>5. CASE Limiter!RedisRestarts
    BY <1>2, <1>3, <1>5 DEF Limiter!RedisRestarts
  <1>6. ASSUME NEW r \in Posts, Limiter!Arrive(r) \/ Limiter!Count(r) \/ Limiter!Expire(r)
        PROVE  count'[w] = incrs'[w]
    <2>1. minuteClock' = minuteClock /\ limiterFaults = 0
      BY <1>2, <1>6 DEF Limiter!Arrive, Limiter!Count, Limiter!Expire
    <2>2. count[w] = incrs[w]
      BY <1>2, <2>1 DEF LimiterInv, Limiter!CountersUnbroken
    <2>3. CASE Limiter!Arrive(r) \/ Limiter!Expire(r)
      BY <2>2, <2>3 DEF Limiter!Arrive, Limiter!Expire, Limiter!redis
    <2>4. CASE Limiter!Count(r)
      <3>1. Limiter!Increments(req[r].window) /\ req[r].window \in Limiter!Windows
        BY <1>1, <2>4 DEF Limiter!Count, LimiterTyped
      <3>2. QED
        BY <1>1, <2>2, <3>1, IncrementsCounts
    <2>5. QED
      BY <1>6, <2>3, <2>4
  <1>7. ASSUME NEW r \in Posts, Limiter!FallBack(r) PROVE FALSE
    BY <1>1, <1>2, <1>3, <1>7, FallBackCounts
  <1>8. QED
    BY <1>4, <1>5, <1>6, <1>7 DEF Limiter!Next

(* The fallback keeps its own count, and its own limit. *)
LEMMA RescuedStep ==
  ASSUME Limiter!LimiterAssumption, LimiterInv, Limiter!Next
  PROVE  /\ (Limiter!RescuedAreCounted)'
         /\ \A w \in Limiter!Windows : rescued'[w] <= FallbackLimit
  <1>1. /\ LimiterTyped
        /\ \A w \in Limiter!Windows : Limiter!Window(minuteClock) <= w => rescued[w] <= memory[w]
        /\ \A w \in Limiter!Windows : rescued[w] <= FallbackLimit
    BY LimiterUnpacked DEF LimiterInv, Limiter!RescuedAreCounted
  <1>2. minuteClock \in Nat /\ Limiter!Window(minuteClock) \in Limiter!Windows
    BY <1>1, WindowOrder DEF LimiterTyped
  <1>3. CASE Limiter!Tick \/ Limiter!RedisRestarts
                          \/ \E r \in Posts : Limiter!Arrive(r) \/ Limiter!Count(r) \/ Limiter!Expire(r)
    <2>1. /\ rescued' = rescued /\ memory' = memory
          /\ minuteClock' = minuteClock \/ minuteClock' = minuteClock + 1
      BY <1>3 DEF Limiter!Tick, Limiter!RedisRestarts, Limiter!Arrive, Limiter!Count,
         Limiter!Expire
    <2>2. /\ Limiter!Window(minuteClock) <= Limiter!Window(minuteClock')
          /\ Limiter!Window(minuteClock) \in Nat /\ Limiter!Window(minuteClock') \in Nat
      BY <1>2, <2>1, WindowOrder
    <2>3. \A w \in Limiter!Windows : Limiter!Window(minuteClock') <= w => rescued[w] <= memory[w]
      BY <1>1, <2>2, WindowOrder
    <2>4. QED
      BY <1>1, <2>1, <2>3 DEF Limiter!RescuedAreCounted
  <1>4. ASSUME NEW r \in Posts, Limiter!FallBack(r)
        PROVE  /\ (Limiter!RescuedAreCounted)'
               /\ \A w \in Limiter!Windows : rescued'[w] <= FallbackLimit
    <2>1. PICK c \in Limiter!Windows : c = Limiter!Window(minuteClock)
      BY <1>2
    <2>2. /\ minuteClock' = minuteClock
          /\ memory'[c] = memory[c] + 1
          /\ rescued'[c] = IF memory[c] + 1 <= FallbackLimit THEN rescued[c] + 1 ELSE rescued[c]
          /\ \A v \in Limiter!Windows \ {c} : rescued'[v] = rescued[v]
          /\ \A v \in Limiter!Windows : c < v => memory'[v] = memory[v]
      BY <1>1, <1>4, <2>1, FallBackCounts
    <2>3. /\ c \in Nat /\ FallbackLimit \in Nat
          /\ \A v \in Limiter!Windows : v \in Nat /\ memory[v] \in Nat /\ rescued[v] \in Nat
          /\ rescued[c] <= memory[c]
      BY <1>1, <2>1, WindowOrder DEF LimiterTyped, Limiter!LimiterAssumption
    <2>4. rescued'[c] <= memory'[c] /\ rescued'[c] <= FallbackLimit
      BY <1>1, <2>2, <2>3
    <2>5. \A v \in Limiter!Windows : rescued'[v] <= FallbackLimit
      BY <1>1, <2>2, <2>4
    <2>6. ASSUME NEW v \in Limiter!Windows, c <= v PROVE rescued'[v] <= memory'[v]
      <3>1. CASE v = c
        BY <2>4, <3>1
      <3>2. CASE v # c
        <4>1. c < v
          BY <2>3, <2>6, <3>2
        <4>2. QED
          BY <1>1, <2>1, <2>2, <2>6, <3>2, <4>1
      <3>3. QED
        BY <3>1, <3>2
    <2>7. QED
      BY <2>1, <2>2, <2>5, <2>6 DEF Limiter!RescuedAreCounted
  <1>5. QED
    BY <1>3, <1>4 DEF Limiter!Next

(* The account of a counter: p have passed, n are about to, in l lives, the last of *)
(* which has counted c.                                                             *)
Ledger(c, l, p, n) == p + n <= Limit * l - (IF c < Limit /\ c # 0 THEN Limit - c ELSE 0)

(* What one life of a counter has let through changes with what it has counted. *)
LEMMA LedgerMoves ==
  ASSUME Limit \in Nat \ {0}, NEW c \in Nat, NEW l \in Nat, NEW p \in Nat, NEW n \in Nat,
         Ledger(c, l, p, n)
  PROVE  /\ Ledger(0, l, p, n)
         /\ n > 0 => Ledger(c, l, p, n - 1) /\ Ledger(c, l, p + 1, n - 1)
         /\ Ledger(c + 1, IF c = 0 THEN l + 1 ELSE l, p, n)
         /\ c = 0 => Ledger(1, l + 1, p, n + 1)
         /\ c # 0 /\ c + 1 <= Limit => Ledger(c + 1, l, p + 1, n)
  <1>1. \A m, k \in Nat : m * k \in Nat /\ m * (k + 1) = m * k + m
    OBVIOUS
  <1>2. PICK a \in Nat : a = Limit * l
    BY <1>1
  <1>3. Limit * (l + 1) = a + Limit
    BY <1>1, <1>2
  <1>4. p + n <= a - (IF c < Limit /\ c # 0 THEN Limit - c ELSE 0)
    BY <1>2 DEF Ledger
  <1>5. Ledger(0, l, p, n)
    BY <1>2, <1>4 DEF Ledger
  <1>6. n > 0 => Ledger(c, l, p, n - 1) /\ Ledger(c, l, p + 1, n - 1)
    BY <1>2, <1>4 DEF Ledger
  <1>7. CASE c = 0
    <2>1. p + n <= a - 0
      BY <1>4, <1>7
    <2>2. Ledger(1, l + 1, p, n) /\ Ledger(1, l + 1, p, n + 1)
      BY <1>2, <1>3, <2>1 DEF Ledger
    <2>3. QED
      BY <1>5, <1>6, <1>7, <2>2
  <1>8. CASE c # 0
    <2>1. Ledger(c + 1, l, p, n)
      BY <1>2, <1>4, <1>8 DEF Ledger
    <2>2. c + 1 <= Limit => Ledger(c + 1, l, p + 1, n)
      BY <1>2, <1>4, <1>8 DEF Ledger
    <2>3. QED
      BY <1>5, <1>6, <1>8, <2>1, <2>2
  <1>9. QED
    BY <1>7, <1>8

(* How many requests have begun a counter and are yet to pass. *)
Pend(w) == Cardinality(Limiter!Expiring(w))

(* The requests that are counted and not yet answered. *)
LEMMA PendIsFinite ==
  ASSUME IsFiniteSet(Posts), NEW w
  PROVE  IsFiniteSet(Limiter!Expiring(w)) /\ Pend(w) \in Nat
  <1>1. Limiter!Expiring(w) \subseteq Posts
    BY DEF Limiter!Expiring
  <1>2. QED
    BY <1>1, FS_Subset, FS_CardinalityType DEF Pend

(* One request moves, in the window it has. *)
OneMoves(r) ==
  /\ \A q \in Posts \ {r} : req'[q] = req[q]
  /\ req'[r].window = req[r].window

(* They stay the same ... *)
LEMMA PendStays ==
  ASSUME NEW w, NEW r \in Posts, OneMoves(r),
         req[r].window # w \/ (req[r].pc # "expiring" /\ req'[r].pc # "expiring")
  PROVE  Pend(w)' = Pend(w)
  <1>1. (Limiter!Expiring(w))' = Limiter!Expiring(w)
    BY DEF OneMoves, Limiter!Expiring
  <1>2. QED
    BY <1>1 DEF Pend

(* ... become fewer as one is answered ... *)
LEMMA PendShrinks ==
  ASSUME IsFiniteSet(Posts), NEW r \in Posts, OneMoves(r), NEW w, w = req[r].window,
         req[r].pc = "expiring", req'[r].pc # "expiring"
  PROVE  Pend(w) > 0 /\ Pend(w)' = Pend(w) - 1
  <1>1. (Limiter!Expiring(w))' = Limiter!Expiring(w) \ {r} /\ r \in Limiter!Expiring(w)
    BY DEF OneMoves, Limiter!Expiring
  <1>2. /\ Cardinality(Limiter!Expiring(w) \ {r}) = Cardinality(Limiter!Expiring(w)) - 1
        /\ Cardinality(Limiter!Expiring(w)) \in Nat
    BY <1>1, PendIsFinite, FS_RemoveElement DEF Pend
  <1>3. Cardinality(Limiter!Expiring(w) \ {r}) \in Nat
    BY PendIsFinite, FS_RemoveElement, FS_CardinalityType
  <1>4. QED
    BY <1>1, <1>2, <1>3 DEF Pend

(* ... and more as one is counted. *)
LEMMA PendGrows ==
  ASSUME IsFiniteSet(Posts), NEW r \in Posts, OneMoves(r), NEW w, w = req[r].window,
         req[r].pc # "expiring", req'[r].pc = "expiring"
  PROVE  Pend(w)' = Pend(w) + 1
  <1>1. (Limiter!Expiring(w))' = Limiter!Expiring(w) \cup {r} /\ r \notin Limiter!Expiring(w)
    BY DEF OneMoves, Limiter!Expiring
  <1>2. QED
    BY <1>1, PendIsFinite, FS_AddElement DEF Pend

(* Every step keeps the ledger of each life. *)
LEMMA PassedStep ==
  ASSUME Limiter!LimiterAssumption, LimiterInv, Limiter!Next
  PROVE  (Limiter!PassedInLife)'
  <1>1. LimiterTyped /\ Pairing /\ IsFiniteSet(Posts) /\ Limit \in Nat \ {0}
    BY LimiterUnpacked, SameCount DEF LimiterInv, Limiter!LimiterAssumption
  <1>2. SUFFICES ASSUME NEW w \in Limiter!Windows
                 PROVE  Ledger(count'[w], lives'[w], passed'[w], Pend(w)')
    BY SameCount DEF Limiter!PassedInLife, Ledger, Pend
  <1>3. Ledger(count[w], lives[w], passed[w], Pend(w))
    BY SameCount DEF LimiterInv, Limiter!PassedInLife, Ledger, Pend
  <1>4. count[w] \in Nat /\ lives[w] \in Nat /\ passed[w] \in Nat /\ Pend(w) \in Nat
    BY <1>1, PendIsFinite DEF LimiterTyped
  <1>5. CASE Limiter!Tick \/ Limiter!RedisRestarts
    <2>1. req' = req /\ lives' = lives /\ passed' = passed /\ (count'[w] = 0 \/ count'[w] = count[w])
      BY <1>1, <1>5 DEF Limiter!Tick, Limiter!RedisRestarts, LimiterTyped
    <2>2. Pend(w)' = Pend(w)
      BY <2>1 DEF Pend, Limiter!Expiring
    <2>3. QED
      BY <1>1, <1>3, <1>4, <2>1, <2>2, LedgerMoves
  <1>6. ASSUME NEW r \in Posts, Limiter!Arrive(r)
        PROVE  Ledger(count'[w], lives'[w], passed'[w], Pend(w)')
    <2>1. count' = count /\ lives' = lives /\ passed' = passed
      BY <1>6 DEF Limiter!Arrive, Limiter!redis
    <2>2. (Limiter!Expiring(w))' = Limiter!Expiring(w)
      BY <1>1, <1>6 DEF Limiter!Arrive, Limiter!Expiring, LimiterTyped
    <2>3. QED
      BY <1>3, <2>1, <2>2 DEF Pend
  <1>7. ASSUME NEW r \in Posts, Limiter!Count(r)
        PROVE  Ledger(count'[w], lives'[w], passed'[w], Pend(w)')
    <2>1. PICK v \in Limiter!Windows : v = req[r].window
      BY <1>1 DEF LimiterTyped
    <2>2. /\ req[r].pc = "counting" /\ Limiter!Increments(v)
          /\ IF count[v] + 1 = 1
             THEN /\ req' = [req EXCEPT ![r].pc = "expiring", ![r].current = count[v] + 1]
                  /\ UNCHANGED <<passed, at>>
             ELSE Limiter!Decides(r, count[v] + 1)
      BY <1>7, <2>1 DEF Limiter!Count, Limiter!First
    <2>3. /\ count'[v] = count[v] + 1
          /\ lives'[v] = IF count[v] = 0 THEN lives[v] + 1 ELSE lives[v]
          /\ \A u \in Limiter!Windows \ {v} : count'[u] = count[u] /\ lives'[u] = lives[u]
      BY <1>1, <2>2, IncrementsCounts
    <2>4. count[v] \in Nat /\ count[v] + 1 \in Nat
      BY <1>1 DEF LimiterTyped
    <2>5. CASE count[v] = 0
      <3>1. /\ req' = [req EXCEPT ![r].pc = "expiring", ![r].current = count[v] + 1]
            /\ passed' = passed
        BY <2>2, <2>5
      <3>2. OneMoves(r) /\ req'[r].pc = "expiring"
        BY <1>1, <3>1 DEF OneMoves, LimiterTyped
      <3>3. CASE w = v
        <4>1. Pend(w)' = Pend(w) + 1
          BY <1>1, <2>1, <2>2, <3>2, <3>3, PendGrows
        <4>2. Ledger(1, lives[w] + 1, passed[w], Pend(w) + 1)
          BY <1>1, <1>3, <1>4, <2>5, <3>3, LedgerMoves
        <4>3. count'[w] = 1 /\ lives'[w] = lives[w] + 1 /\ passed'[w] = passed[w]
          BY <2>3, <2>5, <3>1, <3>3
        <4>4. QED
          BY <4>1, <4>2, <4>3
      <3>4. CASE w # v
        BY <1>3, <2>1, <2>3, <3>1, <3>2, <3>4, PendStays
      <3>5. QED
        BY <3>3, <3>4
    <2>6. CASE count[v] # 0
      <3>1. Limiter!Decides(r, count[v] + 1)
        BY <2>2, <2>4, <2>6
      <3>2. /\ req' = [req EXCEPT ![r] = [pc |-> "done", window |-> v, current |-> count[v] + 1]]
            /\ passed'[v] = IF count[v] + 1 > Limit THEN passed[v] ELSE passed[v] + 1
            /\ \A u \in Limiter!Windows \ {v} : passed'[u] = passed[u]
        BY <1>1, <2>1, <2>4, <3>1, DecidesTypes
      <3>3. OneMoves(r) /\ req'[r].pc = "done"
        BY <1>1, <2>1, <3>2 DEF OneMoves, LimiterTyped
      <3>4. Pend(w)' = Pend(w)
        BY <2>2, <3>3, PendStays
      <3>5. CASE w = v
        <4>1. Ledger(count[w] + 1, lives[w], passed[w], Pend(w))
          BY <1>1, <1>3, <1>4, <2>6, <3>5, LedgerMoves
        <4>2. count[w] + 1 <= Limit => Ledger(count[w] + 1, lives[w], passed[w] + 1, Pend(w))
          BY <1>1, <1>3, <1>4, <2>6, <3>5, LedgerMoves
        <4>3. count'[w] = count[w] + 1 /\ lives'[w] = lives[w]
          BY <2>3, <2>6, <3>5
        <4>4. \/ passed'[w] = passed[w]
              \/ passed'[w] = passed[w] + 1 /\ count[w] + 1 <= Limit
          BY <1>1, <1>4, <3>2, <3>5
        <4>5. QED
          BY <3>4, <4>1, <4>2, <4>3, <4>4
      <3>6. CASE w # v
        BY <1>3, <2>3, <3>2, <3>4, <3>6
      <3>7. QED
        BY <3>5, <3>6
    <2>7. QED
      BY <2>5, <2>6
  <1>8. ASSUME NEW r \in Posts, Limiter!Expire(r)
        PROVE  Ledger(count'[w], lives'[w], passed'[w], Pend(w)')
    <2>1. PICK v \in Limiter!Windows : v = req[r].window
      BY <1>1 DEF LimiterTyped
    <2>2. /\ req[r].pc = "expiring" /\ req[r].current = 1 /\ Limiter!Decides(r, 1)
          /\ count' = count /\ lives' = lives
      BY <1>1, <1>8 DEF Limiter!Expire, Pairing
    <2>3. /\ req' = [req EXCEPT ![r] = [pc |-> "done", window |-> v, current |-> 1]]
          /\ passed'[v] = IF 1 > Limit THEN passed[v] ELSE passed[v] + 1
          /\ \A u \in Limiter!Windows \ {v} : passed'[u] = passed[u]
      BY <1>1, <2>1, <2>2, DecidesTypes
    <2>4. OneMoves(r) /\ req'[r].pc = "done"
      BY <1>1, <2>1, <2>3 DEF OneMoves, LimiterTyped
    <2>5. CASE w = v
      <3>1. Pend(w) > 0 /\ Pend(w)' = Pend(w) - 1
        BY <1>1, <2>1, <2>2, <2>4, <2>5, PendShrinks
      <3>2. Ledger(count[w], lives[w], passed[w] + 1, Pend(w) - 1)
        BY <1>1, <1>3, <1>4, <3>1, LedgerMoves
      <3>3. passed'[w] = passed[w] + 1
        BY <1>1, <2>3, <2>5
      <3>4. QED
        BY <2>2, <3>1, <3>2, <3>3
    <2>6. CASE w # v
      BY <1>3, <2>1, <2>2, <2>3, <2>4, <2>6, PendStays
    <2>7. QED
      BY <2>5, <2>6
  <1>9. ASSUME NEW r \in Posts, Limiter!FallBack(r)
        PROVE  Ledger(count'[w], lives'[w], passed'[w], Pend(w)')
    <2>1. PICK v \in Limiter!Windows : v = req[r].window
      BY <1>1 DEF LimiterTyped
    <2>2. /\ req' = [req EXCEPT ![r] = [pc |-> "done", window |-> v, current |-> req[r].current]]
          /\ passed' = passed
          /\ \/ count' = count /\ lives' = lives
             \/ req[r].pc = "counting" /\ Limiter!Increments(v)
      BY <1>1, <1>9, <2>1, FallBackCounts
    <2>3. OneMoves(r) /\ req'[r].pc = "done"
      BY <1>1, <2>1, <2>2 DEF OneMoves, LimiterTyped
    <2>4. CASE count' = count /\ lives' = lives
      <3>1. CASE v = w /\ req[r].pc = "expiring"
        <4>1. Pend(w) > 0 /\ Pend(w)' = Pend(w) - 1
          BY <1>1, <2>1, <2>3, <3>1, PendShrinks
        <4>2. QED
          BY <1>1, <1>3, <1>4, <2>2, <2>4, <4>1, LedgerMoves
      <3>2. CASE ~(v = w /\ req[r].pc = "expiring")
        BY <1>3, <2>1, <2>2, <2>3, <2>4, <3>2, PendStays
      <3>3. QED
        BY <3>1, <3>2
    <2>5. CASE req[r].pc = "counting" /\ Limiter!Increments(v)
      <3>1. /\ count'[v] = count[v] + 1
            /\ lives'[v] = IF count[v] = 0 THEN lives[v] + 1 ELSE lives[v]
            /\ \A u \in Limiter!Windows \ {v} : count'[u] = count[u] /\ lives'[u] = lives[u]
        BY <1>1, <2>5, IncrementsCounts
      <3>2. Pend(w)' = Pend(w)
        BY <2>3, <2>5, PendStays
      <3>3. Ledger(count[w] + 1, IF count[w] = 0 THEN lives[w] + 1 ELSE lives[w], passed[w], Pend(w))
        BY <1>1, <1>3, <1>4, LedgerMoves
      <3>4. QED
        BY <1>3, <2>2, <3>1, <3>2, <3>3
    <2>6. QED
      BY <2>2, <2>4, <2>5
  <1>10. QED
    BY <1>5, <1>6, <1>7, <1>8, <1>9 DEF Limiter!Next

(* It holds when nothing has been counted. *)
LEMMA LimiterInit == Limiter!LimiterAssumption /\ Limiter!Init => LimiterInv
  <1> SUFFICES ASSUME Limiter!LimiterAssumption, Limiter!Init PROVE LimiterInv
    OBVIOUS
  <1>1. /\ 0 \in Limiter!Instants /\ limiterFaults \in 0 .. LimiterFaults
        /\ Limit \in Nat \ {0} /\ FallbackLimit \in Nat /\ IsFiniteSet(Posts)
    BY SameCount DEF Limiter!Init, Limiter!LimiterAssumption, Limiter!Instants
  <1>2. 0 \in Limiter!Windows /\ Limiter!Window(0) \in Nat
    <2>1. \A p \in Nat \ {0} : 0 \div p = 0
      OBVIOUS
    <2>2. Limiter!Window(0) = 0
      BY <2>1 DEF Limiter!Window, Limiter!LimiterAssumption
    <2>3. QED
      BY <1>1, <2>2, WindowOrder
  <1>3. LimiterTyped /\ Pairing
    BY <1>1, <1>2 DEF Limiter!Init, LimiterTyped, Pairing, Limiter!Idle, Limiter!Never
  <1>4. Limiter!KeysOutliveWindows
    BY <1>1, <1>2 DEF Limiter!Init, Limiter!KeysOutliveWindows, Limiter!Idle
  <1>5. Limiter!CountersUnbroken
    BY DEF Limiter!Init, Limiter!CountersUnbroken
  <1>6. Limiter!PassedInLife
    <2>1. ASSUME NEW w \in Limiter!Windows PROVE Ledger(count[w], lives[w], passed[w], Pend(w))
      <3>1. Limiter!Expiring(w) = {}
        BY DEF Limiter!Init, Limiter!Idle, Limiter!Expiring
      <3>2. Pend(w) = 0
        BY <3>1, FS_EmptySet DEF Pend
      <3>3. Limit * 0 = 0
        BY <1>1
      <3>4. QED
        BY <3>2, <3>3 DEF Limiter!Init, Ledger
    <2>2. QED
      BY <2>1, SameCount DEF Limiter!PassedInLife, Ledger, Pend
  <1>7. /\ Limiter!RescuedAreCounted
        /\ \A w \in Limiter!Windows : rescued[w] <= FallbackLimit
    BY <1>1 DEF Limiter!Init, Limiter!RescuedAreCounted
  <1>8. QED
    BY <1>3, <1>4, <1>5, <1>6, <1>7, LimiterUnpacked DEF LimiterInv

(* Every step keeps it. *)
LEMMA LimiterStep ==
  Limiter!LimiterAssumption /\ LimiterInv /\ (Limiter!Next \/ UNCHANGED limiterVars) => LimiterInv'
  <1>1. Limiter!LimiterAssumption /\ LimiterInv /\ Limiter!Next => LimiterInv'
    BY LimiterTypes, KeysStep, UnbrokenStep, PassedStep, RescuedStep DEF LimiterInv
  <1>2. LimiterInv /\ UNCHANGED limiterVars => LimiterInv'
    BY DEF limiterVars, LimiterInv, Limiter!TypeOK, Limiter!KeysOutliveWindows,
       Limiter!CountersUnbroken, Limiter!PassedInLife, Limiter!Expiring,
       Limiter!RescuedAreCounted
  <1>3. QED
    BY <1>1, <1>2

(* It says what CountersKept asks: the limit, once for each life of a counter. *)
LEMMA LimiterKeeps ==
  ASSUME Limiter!LimiterAssumption, LimiterInv
  PROVE  Limiter!WindowIsNotReset /\ Limiter!PassedBounded
  <1>1. LimiterTyped /\ IsFiniteSet(Posts) /\ Limit \in Nat
    BY LimiterUnpacked, SameCount DEF LimiterInv, Limiter!LimiterAssumption
  <1>2. Limiter!WindowIsNotReset
    <2>1. \A w \in Limiter!Windows : w <= w
      BY WindowOrder
    <2>2. QED
      BY <2>1 DEF LimiterInv, Limiter!WindowIsNotReset, Limiter!CountersUnbroken
  <1>3. ASSUME NEW w \in Limiter!Windows PROVE passed[w] <= Limit * lives[w]
    <2>1. Ledger(count[w], lives[w], passed[w], Pend(w))
      BY SameCount DEF LimiterInv, Limiter!PassedInLife, Ledger, Pend
    <2>2. count[w] \in Nat /\ lives[w] \in Nat /\ passed[w] \in Nat /\ Pend(w) \in Nat
      BY <1>1, PendIsFinite DEF LimiterTyped
    <2>3. \A m, k \in Nat : m * k \in Nat
      OBVIOUS
    <2>4. PICK a \in Nat : a = Limit * lives[w]
      BY <1>1, <2>2, <2>3
    <2>5. QED
      BY <1>1, <2>1, <2>2, <2>4 DEF Ledger
  <1>4. QED
    BY <1>2, <1>3 DEF LimiterInv, Limiter!PassedBounded

-----------------------------------------------------------------------------
(* The rules engine, with overlapping requests.                               *)

RulesInv ==
  /\ Rules!TypeOK /\ Rules!ChangesInHand /\ Rules!RowsAreRead /\ Rules!AcceptedAreLive
  /\ Rules!EnforcedOnceAccepted /\ Rules!GoneOnceDropped /\ Rules!NobodyOvertaken

TaskType == [pc : Rules!Pcs, op : {"add", "remove", "seed"}, rule : 0 .. MaxRules,
             rows : Seq(Rules!Cached), left : 0 .. NumSeeds]

(* The places that are filled have the ranks 1, 2, ... *)
LEMMA RanksAreDense ==
  ASSUME NumSlots \in Nat
  PROVE  /\ IsFiniteSet(Rules!Filled) /\ Cardinality(Rules!Filled) \in Nat
         /\ \A s \in Rules!Filled : Rules!Rank(s) \in 1 .. Cardinality(Rules!Filled)
         /\ \A s, u \in Rules!Filled : Rules!Rank(s) = Rules!Rank(u) => s = u
         /\ \A i \in 1 .. Cardinality(Rules!Filled) : \E s \in Rules!Filled : Rules!Rank(s) = i
  <1> DEFINE F == Rules!Filled
             Upto(s) == {u \in F : u <= s}
             n == Cardinality(F)
  <1>1. F \subseteq 1 .. NumSlots
    BY DEF Rules!Filled, Rules!Slots
  <1>2. IsFiniteSet(F) /\ n \in Nat /\ F \subseteq Nat
    <2>1. IsFiniteSet(1 .. NumSlots)
      BY FS_Interval
    <2>2. IsFiniteSet(F) /\ F \subseteq Nat
      <3>1. F \in SUBSET (1 .. NumSlots)
        BY <1>1
      <3>2. IsFiniteSet(F)
        BY <2>1, <3>1, FS_Subset, Zenon
      <3>3. QED
        BY <1>1, <3>2
    <2>3. n \in Nat
      BY <2>2, FS_CardinalityType
    <2>4. QED
      BY <2>2, <2>3
  <1>3. \A s : Rules!Rank(s) = Cardinality(Upto(s))
    BY SameCount DEF Rules!Rank
  <1> HIDE DEF F
  <1>4. ASSUME NEW s \in F
        PROVE  Cardinality(Upto(s)) \in 1 .. n /\ IsFiniteSet(Upto(s))
    <2>1. Upto(s) \subseteq F /\ s \in Upto(s)
      BY <1>2
    <2>2. IsFiniteSet(Upto(s)) /\ Cardinality(Upto(s)) <= n /\ Cardinality(Upto(s)) \in Nat
      BY <1>2, <2>1, FS_Subset, FS_CardinalityType
    <2>3. Cardinality(Upto(s)) # 0
      BY <2>1, <2>2, FS_EmptySet
    <2>4. QED
      BY <1>2, <2>2, <2>3
  <1>5. ASSUME NEW s \in F, NEW u \in F, s < u
        PROVE  Cardinality(Upto(s)) # Cardinality(Upto(u))
    <2>1. Upto(s) \subseteq Upto(u) /\ u \in Upto(u) /\ u \notin Upto(s)
      <3>1. s \in Nat /\ u \in Nat /\ \A v \in F : v \in Nat
        BY <1>2
      <3>2. \A v \in F : v <= s => v <= u
        BY <1>5, <3>1
      <3>3. u <= u /\ ~(u <= s)
        BY <1>5, <3>1
      <3>4. QED
        BY <3>2, <3>3
    <2>2. Cardinality(Upto(s)) < Cardinality(Upto(u))
      <3>1. Upto(s) # Upto(u) /\ IsFiniteSet(Upto(u))
        BY <1>4, <2>1
      <3>2. /\ Cardinality(Upto(s)) <= Cardinality(Upto(u))
            /\ Cardinality(Upto(u)) = Cardinality(Upto(s)) => Upto(u) = Upto(s)
        BY <2>1, <3>1, FS_Subset
      <3>3. Cardinality(Upto(s)) \in Nat /\ Cardinality(Upto(u)) \in Nat
        BY <1>4, <1>5
      <3>4. QED
        BY <3>1, <3>2, <3>3
    <2>3. QED
      BY <1>4, <2>2
  <1>6. \A s, u \in F : Cardinality(Upto(s)) = Cardinality(Upto(u)) => s = u
    BY <1>2, <1>5
  <1> DEFINE f == [s \in F |-> Cardinality(Upto(s))]
  <1>7. f \in Injection(F, 1 .. n)
    BY <1>4, <1>6 DEF Injection, IsInjective
  <1>8. IsFiniteSet(1 .. n) /\ Cardinality(1 .. n) = n
    BY <1>2, FS_Interval
  <1>9. f \in Surjection(F, 1 .. n)
    BY <1>2, <1>7, <1>8, FS_Injection
  <1>10. \A i \in 1 .. n : \E s \in F : Cardinality(Upto(s)) = i
    BY <1>9 DEF Surjection
  <1>11. QED
    BY <1>2, <1>3, <1>4, <1>6, <1>10 DEF F

(* What load_rules reads is what the table holds, each row once. *)
LEMMA RowsAreLive ==
  ASSUME Rules!RulesAssumption, Rules!TypeOK
  PROVE  Rules!Rows \in Seq(Rules!Cached) /\ Rules!Ids(Rules!Rows) = Rules!Live
  <1> DEFINE F == Rules!Filled
             n == Cardinality(F)
             Place(i) == CHOOSE s \in F : Rules!Rank(s) = i
  <1>1. /\ n \in Nat
        /\ \A s \in F : Rules!Rank(s) \in 1 .. n
        /\ \A s, u \in F : Rules!Rank(s) = Rules!Rank(u) => s = u
        /\ \A i \in 1 .. n : \E s \in F : Rules!Rank(s) = i
    BY RanksAreDense DEF Rules!RulesAssumption
  <1>2. Rules!Rows = [i \in 1 .. n |-> [id |-> heap[Place(i)], config |-> "default"]]
    BY SameCount DEF Rules!Rows, Rules!RowToRule
  <1>3. F = {s \in 1 .. NumSlots : heap[s] # 0} /\ Rules!Live = {heap[s] : s \in 1 .. NumSlots} \ {0}
    BY DEF Rules!Filled, Rules!Live, Rules!Slots
  <1>4. \A s \in F : heap[s] \in 1 .. MaxRules
    BY <1>3 DEF Rules!TypeOK, Rules!RulesAssumption, Rules!Slots
  <1> HIDE DEF F, n
  <1>5. \A i \in 1 .. n : Place(i) \in F /\ Rules!Rank(Place(i)) = i
    BY <1>1
  <1>6. \A s \in F : Place(Rules!Rank(s)) = s
    BY <1>1, <1>5
  <1> HIDE DEF Place
  <1>7. Rules!Rows \in Seq(Rules!Cached)
    <2>1. \A i \in 1 .. n : [id |-> heap[Place(i)], config |-> "default"] \in Rules!Cached
      BY <1>4, <1>5 DEF Rules!Cached, Rules!Rules, Rules!Configs
    <2>2. QED
      BY <1>1, <1>2, <2>1
  <1>8. Rules!Ids(Rules!Rows) = {heap[Place(i)] : i \in 1 .. n}
    BY <1>2 DEF Rules!Ids
  <1>9. {heap[Place(i)] : i \in 1 .. n} = {heap[s] : s \in F}
    BY <1>1, <1>5, <1>6
  <1>10. {heap[s] : s \in F} = Rules!Live
    BY <1>3
  <1>11. QED
    BY <1>7, <1>8, <1>9, <1>10

(* One task moves. *)
TaskBecomes(t, rec) == task' = [u \in Rules!Tasks |-> IF u = t THEN rec ELSE task[u]]

TaskMoves(t, p, o, r, q, l) ==
  TaskBecomes(t, [pc |-> p, op |-> o, rule |-> r, rows |-> q, left |-> l])

ComesToRest(t) == TaskMoves(t, "idle", "add", 0, <<>>, 0)

(* A task that goes on with another record leaves the others alone. *)
LEMMA TasksMove ==
  ASSUME Rules!TypeOK, NEW t \in Rules!Tasks
  PROVE  /\ Rules!BeginAdd(t) => TaskMoves(t, "writing", "add", 0, <<>>, 0)
         /\ \A r \in Rules!Rules : Rules!BeginRemove(t, r) => TaskMoves(t, "writing", "remove", r, <<>>, 0)
         /\ \A s \in Rules!Slots, c \in Rules!Configs :
              Rules!InsertRow(t, s, c) => TaskMoves(t, "reading", task[t].op, rules + 1, task[t].rows,
                                                    Rules!OneLess(task[t].left))
         /\ Rules!FindRow(t) => TaskMoves(t, "deleting", task[t].op, task[t].rule, task[t].rows,
                                          task[t].left)
         /\ Rules!DeleteRow(t) \/ Rules!DeletedMeanwhile(t) =>
              TaskMoves(t, "reading", task[t].op, task[t].rule, task[t].rows, task[t].left)
         /\ Rules!NothingToDelete(t) \/ Rules!Install(t) \/ Rules!RequestFails(t) => ComesToRest(t)
         /\ Rules!Read(t) => TaskMoves(t, "installing", task[t].op, task[t].rule, Rules!Rows,
                                       task[t].left)
  <1>1. task \in [Rules!Tasks -> TaskType] /\ task[t] \in TaskType
    BY DEF Rules!TypeOK, TaskType
  <1>2. Rules!BeginAdd(t) => TaskMoves(t, "writing", "add", 0, <<>>, 0)
    BY <1>1 DEF Rules!BeginAdd, TaskMoves, TaskBecomes, Rules!Idle
  <1>3. ASSUME NEW r \in Rules!Rules, Rules!BeginRemove(t, r)
        PROVE  TaskMoves(t, "writing", "remove", r, <<>>, 0)
    <2>1. task' = [task EXCEPT ![t] = [Rules!Idle EXCEPT !.pc = "writing", !.op = "remove", !.rule = r]]
      BY <1>3 DEF Rules!BeginRemove
    <2>2. task'[t] = [pc |-> "writing", op |-> "remove", rule |-> r, rows |-> <<>>, left |-> 0]
      BY <1>1, <2>1 DEF Rules!Idle
    <2>3. /\ \A u \in Rules!Tasks \ {t} : task'[u] = task[u]
          /\ task' = [u \in Rules!Tasks |-> task'[u]]
      BY <1>1, <2>1
    <2>4. QED
      BY <2>2, <2>3 DEF TaskMoves, TaskBecomes
  <1>4. ASSUME NEW s \in Rules!Slots, NEW c \in Rules!Configs, Rules!InsertRow(t, s, c)
        PROVE  TaskMoves(t, "reading", task[t].op, rules + 1, task[t].rows,
                         Rules!OneLess(task[t].left))
    <2>1. task' = [task EXCEPT ![t].pc = "reading", ![t].rule = rules + 1,
                               ![t].left = Rules!OneLess(@)]
      BY <1>4 DEF Rules!InsertRow
    <2>2. task'[t] = [pc |-> "reading", op |-> task[t].op, rule |-> rules + 1,
                      rows |-> task[t].rows, left |-> Rules!OneLess(task[t].left)]
      BY <1>1, <2>1 DEF TaskType
    <2>3. /\ \A u \in Rules!Tasks \ {t} : task'[u] = task[u]
          /\ task' = [u \in Rules!Tasks |-> task'[u]]
      BY <1>1, <2>1
    <2>4. QED
      BY <2>2, <2>3 DEF TaskMoves, TaskBecomes
  <1>5. ASSUME NEW p, task' = [task EXCEPT ![t].pc = p]
        PROVE  TaskMoves(t, p, task[t].op, task[t].rule, task[t].rows, task[t].left)
    <2>1. task'[t] = [pc |-> p, op |-> task[t].op, rule |-> task[t].rule,
                      rows |-> task[t].rows, left |-> task[t].left]
      BY <1>1, <1>5 DEF TaskType
    <2>2. /\ \A u \in Rules!Tasks \ {t} : task'[u] = task[u]
          /\ task' = [u \in Rules!Tasks |-> task'[u]]
      BY <1>1, <1>5
    <2>3. QED
      BY <2>1, <2>2 DEF TaskMoves, TaskBecomes
  <1>51. Rules!FindRow(t) => TaskMoves(t, "deleting", task[t].op, task[t].rule, task[t].rows,
                                       task[t].left)
    BY <1>5 DEF Rules!FindRow
  <1>52. Rules!DeleteRow(t) \/ Rules!DeletedMeanwhile(t) =>
           TaskMoves(t, "reading", task[t].op, task[t].rule, task[t].rows, task[t].left)
    BY <1>5 DEF Rules!DeleteRow, Rules!DeletedMeanwhile
  <1>6. Rules!NothingToDelete(t) \/ Rules!Install(t) \/ Rules!RequestFails(t) => ComesToRest(t)
    BY <1>1 DEF Rules!NothingToDelete, Rules!Install, Rules!RequestFails, ComesToRest, TaskMoves, TaskBecomes,
       Rules!Idle
  <1>7. ASSUME Rules!Read(t)
        PROVE  TaskMoves(t, "installing", task[t].op, task[t].rule, Rules!Rows, task[t].left)
    <2>1. task' = [task EXCEPT ![t].rows = Rules!Rows, ![t].pc = "installing"]
      BY <1>7 DEF Rules!Read
    <2>2. task'[t] = [pc |-> "installing", op |-> task[t].op, rule |-> task[t].rule,
                      rows |-> Rules!Rows, left |-> task[t].left]
      BY <1>1, <2>1 DEF TaskType
    <2>3. /\ \A u \in Rules!Tasks \ {t} : task'[u] = task[u]
          /\ task' = [u \in Rules!Tasks |-> task'[u]]
      BY <1>1, <2>1
    <2>4. QED
      BY <2>2, <2>3 DEF TaskMoves, TaskBecomes
  <1>8. QED
    BY <1>2, <1>3, <1>4, <1>51, <1>52, <1>6, <1>7

(* It keeps its type. *)
LEMMA MovesTyped ==
  ASSUME Rules!TypeOK, NEW t \in Rules!Tasks, NEW rec \in TaskType,
         TaskBecomes(t, rec), rec.pc # "installing" => rec.rows = <<>>
  PROVE  /\ task' \in [Rules!Tasks -> TaskType]
         /\ \A u \in Rules!Tasks : task'[u].pc # "installing" => task'[u].rows = <<>>
         /\ task'[t] = rec
         /\ \A u \in Rules!Tasks \ {t} : task'[u] = task[u]
  <1>1. /\ task \in [Rules!Tasks -> TaskType]
        /\ \A u \in Rules!Tasks : task[u].pc # "installing" => task[u].rows = <<>>
    BY DEF Rules!TypeOK, TaskType
  <1>3. task'[t] = rec /\ \A u \in Rules!Tasks \ {t} : task'[u] = task[u]
    BY DEF TaskBecomes
  <1>4. task' \in [Rules!Tasks -> TaskType]
    BY <1>1 DEF TaskBecomes
  <1>5. ASSUME NEW u \in Rules!Tasks, task'[u].pc # "installing" PROVE task'[u].rows = <<>>
    <2>1. CASE u = t
      BY <1>3, <1>5, <2>1
    <2>2. CASE u # t
      BY <1>1, <1>3, <1>5, <2>2
    <2>3. QED
      BY <2>1, <2>2
  <1>6. QED
    BY <1>3, <1>4, <1>5

(* The table with its places. *)
TableOK ==
  /\ heap \in [Rules!Slots -> 0 .. rules] /\ rules \in 0 .. MaxRules
  /\ extent \in 0 .. NumSlots /\ \A s \in Rules!Slots : s > extent => heap[s] = 0
  /\ \A s, u \in Rules!Slots : s # u /\ heap[s] # 0 => heap[s] # heap[u]

(* A row goes into the table: its rule is new. *)
LEMMA InsertTable ==
  ASSUME Rules!RulesAssumption, Rules!TypeOK, NEW t \in Rules!Tasks,
         NEW s \in Rules!Slots, NEW c \in Rules!Configs, Rules!InsertRow(t, s, c)
  PROVE  /\ TableOK' /\ rules' = rules + 1 /\ rules' \in 1 .. MaxRules
         /\ (Rules!Live)' = Rules!Live \cup {rules + 1}
         /\ wanted' \in [Rules!Rules -> Rules!Configs]
  <1>1. /\ TableOK /\ NumSlots \in Nat /\ MaxRules \in Nat /\ s \in 1 .. NumSlots
        /\ wanted \in [Rules!Rules -> Rules!Configs]
    BY DEF Rules!TypeOK, TableOK, Rules!RulesAssumption, Rules!Slots
  <1>2. /\ rules < MaxRules /\ rules' = rules + 1 /\ s <= extent + 1 /\ heap[s] = 0
        /\ heap' = [heap EXCEPT ![s] = rules + 1]
        /\ wanted' = [wanted EXCEPT ![rules + 1] = c]
        /\ extent' = Rules!Max({extent, s})
    BY DEF Rules!InsertRow
  <1>3. extent' = IF extent >= s THEN extent ELSE s
    <2>1. extent \in Int /\ s \in Int
      BY <1>1 DEF TableOK
    <2>2. \A x \in {extent, s} : (\A y \in {extent, s} : x >= y) =>
                                   x = IF extent >= s THEN extent ELSE s
      BY <2>1
    <2>3. \E x \in {extent, s} : \A y \in {extent, s} : x >= y
      BY <2>1
    <2>4. QED
      BY <1>2, <2>2, <2>3 DEF Rules!Max
  <1>4. rules \in Nat /\ rules + 1 \in 1 .. MaxRules /\ rules + 1 # 0
    BY <1>1, <1>2 DEF TableOK
  <1>5. heap' \in [Rules!Slots -> 0 .. rules']
    <2>1. \A u \in Rules!Slots : heap[u] \in 0 .. rules + 1
      BY <1>1, <1>4 DEF TableOK
    <2>2. heap' \in [Rules!Slots -> 0 .. rules + 1]
      BY <1>1, <1>2, <1>4, <2>1 DEF TableOK
    <2>3. QED
      BY <1>2, <2>2
  <1>6. /\ heap'[s] = rules + 1 /\ \A u \in Rules!Slots \ {s} : heap'[u] = heap[u]
        /\ \A u \in Rules!Slots : heap[u] # rules + 1
    BY <1>1, <1>2, <1>4 DEF TableOK
  <1>7. \A u, v \in Rules!Slots : u # v /\ heap'[u] # 0 => heap'[u] # heap'[v]
    BY <1>1, <1>2, <1>6 DEF TableOK
  <1>8. extent' \in 0 .. NumSlots /\ \A u \in Rules!Slots : u > extent' => heap'[u] = 0
    <2>1. extent \in Nat /\ extent <= NumSlots /\ s \in Nat /\ s <= NumSlots
      BY <1>1 DEF TableOK
    <2>2. \A u \in Rules!Slots : u \in Nat
      BY DEF Rules!Slots
    <2>3. \A u \in Rules!Slots : u > extent' => u > extent /\ u # s
      BY <1>3, <2>1, <2>2
    <2>4. QED
      BY <1>1, <1>3, <1>6, <2>1, <2>3 DEF TableOK
  <1>9. (Rules!Live)' = Rules!Live \cup {rules + 1}
    <2>1. Rules!Live = {heap[u] : u \in Rules!Slots} \ {0}
          /\ (Rules!Live)' = {heap'[u] : u \in Rules!Slots} \ {0}
      BY DEF Rules!Live
    <2>2. {heap'[u] : u \in Rules!Slots} \ {0} = ({heap[u] : u \in Rules!Slots} \ {0}) \cup {rules + 1}
      BY <1>2, <1>4, <1>6
    <2>3. QED
      BY <2>1, <2>2
  <1>10. wanted' \in [Rules!Rules -> Rules!Configs]
    BY <1>1, <1>2
  <1>11. rules' = rules + 1 /\ rules' \in 1 .. MaxRules /\ rules' \in 0 .. MaxRules
    BY <1>1, <1>2, <1>4
  <1>12. TableOK'
    BY <1>5, <1>7, <1>8, <1>11 DEF TableOK
  <1>13. QED
    BY <1>9, <1>10, <1>11, <1>12

(* A row leaves it. *)
LEMMA DeleteTable ==
  ASSUME Rules!TypeOK, NEW t \in Rules!Tasks, Rules!DeleteRow(t)
  PROVE  TableOK' /\ rules' = rules /\ (Rules!Live)' = Rules!Live \ {task[t].rule}
  <1>1. TableOK
    BY DEF Rules!TypeOK, TableOK
  <1>2. /\ heap' = [s \in Rules!Slots |-> IF heap[s] = task[t].rule THEN 0 ELSE heap[s]]
        /\ rules' = rules /\ extent' = extent
    BY DEF Rules!DeleteRow
  <1>3. TableOK'
    <2>1. heap' \in [Rules!Slots -> 0 .. rules] /\ rules \in 0 .. MaxRules
      BY <1>1, <1>2 DEF TableOK
    <2>2. \A s \in Rules!Slots : heap'[s] = 0 \/ heap'[s] = heap[s]
      BY <1>2
    <2>3. QED
      BY <1>1, <1>2, <2>1, <2>2 DEF TableOK
  <1>4. (Rules!Live)' = Rules!Live \ {task[t].rule}
    BY <1>2 DEF Rules!Live
  <1>5. QED
    BY <1>2, <1>3, <1>4

(* What a step leaves of the table. *)
LEMMA TableStays == UNCHANGED <<heap, rules, extent>> /\ TableOK => TableOK' /\ (Rules!Live)' = Rules!Live
  BY DEF TableOK, Rules!Live

(* The parts of the invariant. *)
RestOK ==
  /\ cache \in Seq(Rules!Cached) /\ up \in BOOLEAN /\ wanted \in [Rules!Rules -> Rules!Configs]
  /\ accepted \subseteq 1 .. rules /\ doomed \subseteq 1 .. rules
  /\ dropped \subseteq doomed \ Rules!Live /\ ruleFaults \in 0 .. RuleFaults
  /\ missed \subseteq 1 .. rules /\ overlap \in BOOLEAN

PassedOK == overtaken \in [Rules!Tasks -> SUBSET (1 .. rules)]

TasksOK == /\ task \in [Rules!Tasks -> TaskType]
           /\ \A t \in Rules!Tasks : task[t].pc # "installing" => task[t].rows = <<>>

Hand(t) ==
  /\ task[t].op = "seed" <=> t = "boot"
  /\ t \in Writers => up
  /\ task[t].op = "remove" => task[t].rule \in doomed
  /\ task[t].pc = "deleting" => task[t].op = "remove"
  /\ task[t].op = "remove" /\ task[t].pc \in {"reading", "installing"} => task[t].rule \notin Rules!Live
  /\ task[t].op = "add" /\ task[t].pc # "writing" => task[t].rule \in Rules!Live \cup doomed
  /\ t = "boot" /\ task[t].rule # 0 => task[t].rule \in Rules!Live \cup doomed

InHand == /\ up <=> "boot" \notin Rules!Active
          /\ \A t \in Rules!Active : Hand(t)

Agree(t) == task[t].pc = "installing" =>
              /\ Rules!Live \ overtaken[t] \subseteq Rules!Ids(task[t].rows)
              /\ Rules!Ids(task[t].rows) \ overtaken[t] \subseteq Rules!Live

Agreed == \A t \in Rules!Tasks : Agree(t)

Enforced == /\ (accepted \ doomed) \subseteq Rules!Live
            /\ up => (accepted \ doomed) \ missed \subseteq Rules!Ids(cache)
            /\ (dropped \ missed) \cap Rules!Ids(cache) = {}

Apart == ~overlap => /\ \A t, u \in Rules!Active : t = u
                     /\ \A t \in Rules!Tasks : overtaken[t] = {}
                     /\ missed = {}

RulesInParts == TableOK /\ RestOK /\ PassedOK /\ TasksOK /\ InHand /\ Agreed /\ Enforced /\ Apart

(* The invariant is these parts; and the same after a step. *)
LEMMA RulesParts == RulesInv <=> RulesInParts
  <1>1. Rules!TypeOK <=> TableOK /\ RestOK /\ PassedOK /\ TasksOK
    BY DEF Rules!TypeOK, TableOK, RestOK, PassedOK, TasksOK, TaskType
  <1>2. Rules!ChangesInHand <=> InHand
    BY DEF Rules!ChangesInHand, InHand, Hand
  <1>3. Rules!AcceptedAreLive /\ Rules!EnforcedOnceAccepted /\ Rules!GoneOnceDropped <=> Enforced
    BY DEF Rules!AcceptedAreLive, Rules!EnforcedOnceAccepted, Rules!GoneOnceDropped, Enforced
  <1>4. Rules!RowsAreRead <=> Agreed
    BY DEF Rules!RowsAreRead, Rules!At, Agreed, Agree
  <1>5. Rules!NobodyOvertaken <=> Apart
    BY DEF Rules!NobodyOvertaken, Apart
  <1>6. QED
    BY <1>1, <1>2, <1>3, <1>4, <1>5 DEF RulesInv, RulesInParts

LEMMA RulesParts1 == RulesInv' <=> RulesInParts'
  BY RulesParts, PTL

Others(t) == \A u \in Rules!Tasks \ {t} : task'[u] = task[u]

(* A step of one task: what it has in hand remains in order for the others, because *)
(* no rule comes back and none leaves that nobody asked to remove.                  *)
LEMMA HandsKept ==
  ASSUME RestOK, InHand, NEW t \in Rules!Tasks, Others(t),
         (Rules!Live)' \cap (1 .. rules) \subseteq Rules!Live,
         Rules!Live \ (Rules!Live)' \subseteq doomed', doomed \subseteq doomed',
         task'[t].pc # "idle" => Hand(t)',
         \/ t # "boot" /\ up' = up
         \/ t = "boot" /\ t \in Rules!Active /\ (up' <=> task'[t].pc = "idle")
  PROVE  InHand'
  <1>1. ASSUME NEW u \in (Rules!Active)' PROVE Hand(u)'
    <2>1. CASE u = t
      BY <1>1, <2>1 DEF Rules!Active
    <2>2. CASE u # t
      <3>1. u \in Rules!Active /\ task'[u] = task[u] /\ Hand(u)
        BY <1>1, <2>2 DEF Rules!Active, Others, InHand
      <3>2. up' = up
        <4>1. CASE t = "boot" /\ t \in Rules!Active
          <5>1. ~up /\ u \in Writers
            BY <2>2, <3>1, <4>1 DEF InHand, Rules!Active, Rules!Tasks
          <5>2. QED
            BY <3>1, <5>1 DEF Hand
        <4>2. QED
          BY <4>1
      <3>3. task[u].op = "remove" => task[u].rule \in 1 .. rules
        BY <3>1 DEF Hand, RestOK
      <3>4. QED
        BY <3>1, <3>2, <3>3 DEF Hand
    <2>3. QED
      BY <2>1, <2>2
  <1>2. up' <=> "boot" \notin (Rules!Active)'
    <2>1. CASE t = "boot"
      BY <2>1 DEF Rules!Active
    <2>2. CASE t # "boot"
      BY <2>2 DEF Rules!Active, InHand, Others, Rules!Tasks
    <2>3. QED
      BY <2>1, <2>2
  <1>3. QED
    BY <1>1, <1>2 DEF InHand

(* The others have read what they had read, and what changes behind their back is *)
(* noted.                                                                          *)
LEMMA AgreementKept ==
  ASSUME Agreed, NEW t \in Rules!Tasks, Others(t), Agree(t)',
         \A u \in Rules!Tasks \ {t} : task[u].pc = "installing" =>
           /\ overtaken[u] \subseteq overtaken'[u]
           /\ Rules!Live \ (Rules!Live)' \subseteq overtaken'[u]
           /\ (Rules!Live)' \ Rules!Live \subseteq overtaken'[u]
  PROVE  Agreed'
  <1>1. ASSUME NEW u \in Rules!Tasks, u # t PROVE Agree(u)'
    <2>1. task'[u] = task[u] /\ Agree(u)
      BY <1>1 DEF Others, Agreed
    <2>2. (Rules!Ids(task[u].rows))' = Rules!Ids(task[u].rows)
      BY <2>1 DEF Rules!Ids
    <2>3. QED
      BY <1>1, <2>1, <2>2 DEF Agree
  <1>2. QED
    BY <1>1 DEF Agreed

(* Who does not overlap with anybody overtakes nobody. *)
LEMMA ApartKept ==
  ASSUME Apart, NEW t \in Rules!Tasks, Others(t),
         ~overlap' => ~overlap /\ (t \in Rules!Active \/ Rules!Active = {}),
         ~overlap' => \A u \in Rules!Tasks : overtaken'[u] = {},
         ~overlap' => missed' = {}
  PROVE  Apart'
  <1>1. ~overlap' => (Rules!Active)' \subseteq {t}
    BY DEF Apart, Rules!Active, Others
  <1>2. QED
    BY <1>1 DEF Apart

(* What is noted when a row changes, and when a reload is over. *)
LEMMA Noted ==
  ASSUME PassedOK, Apart
  PROVE  /\ \A r \in 1 .. rules', t \in Rules!Tasks :
              Rules!Changed(r) /\ 1 .. rules \subseteq 1 .. rules' =>
                /\ PassedOK'
                /\ \A u \in Rules!Tasks : overtaken'[u] = IF task[u].pc = "installing" THEN overtaken[u] \cup {r}
                                                          ELSE overtaken[u]
                /\ ~overlap /\ t \in Rules!Active /\ task[t].pc # "installing" =>
                     \A u \in Rules!Tasks : overtaken'[u] = {}
         /\ \A t \in Rules!Tasks : Rules!Forgotten(t) /\ rules' = rules =>
              /\ PassedOK'
              /\ \A u \in Rules!Tasks \ {t} : overtaken'[u] = overtaken[u]
              /\ ~overlap => \A u \in Rules!Tasks : overtaken'[u] = {}
  <1>1. ASSUME NEW r \in 1 .. rules', NEW t \in Rules!Tasks, Rules!Changed(r), 1 .. rules \subseteq 1 .. rules'
        PROVE  /\ PassedOK'
               /\ \A u \in Rules!Tasks : overtaken'[u] = IF task[u].pc = "installing" THEN overtaken[u] \cup {r}
                                                         ELSE overtaken[u]
               /\ ~overlap /\ t \in Rules!Active /\ task[t].pc # "installing" =>
                    \A u \in Rules!Tasks : overtaken'[u] = {}
    <2>1. overtaken' = [u \in Rules!Tasks |-> IF task[u].pc = "installing" THEN overtaken[u] \cup {r}
                                              ELSE overtaken[u]]
      BY <1>1 DEF Rules!Changed, Rules!At
    <2>2. \A u \in Rules!Tasks : overtaken'[u] \subseteq 1 .. rules'
      BY <1>1, <2>1 DEF PassedOK
    <2>3. PassedOK'
      BY <2>1, <2>2 DEF PassedOK
    <2>4. ASSUME ~overlap, t \in Rules!Active, task[t].pc # "installing", NEW u \in Rules!Tasks
          PROVE  overtaken'[u] = {}
      <3>1. task[u].pc # "installing"
        BY <2>4 DEF Apart, Rules!Active
      <3>2. QED
        BY <2>1, <2>4, <3>1 DEF Apart
    <2>5. QED
      BY <2>1, <2>3, <2>4
  <1>2. ASSUME NEW t \in Rules!Tasks, Rules!Forgotten(t), rules' = rules
        PROVE  /\ PassedOK'
               /\ \A u \in Rules!Tasks \ {t} : overtaken'[u] = overtaken[u]
               /\ ~overlap => \A u \in Rules!Tasks : overtaken'[u] = {}
    <2>1. overtaken' = [overtaken EXCEPT ![t] = {}]
      BY <1>2 DEF Rules!Forgotten
    <2>2. QED
      BY <1>2, <2>1 DEF PassedOK, Apart
  <1>3. QED
    BY <1>1, <1>2

(* A request begins. *)
LEMMA BeginRule ==
  ASSUME Rules!RulesAssumption, RulesInv, NEW t \in Rules!Tasks,
         Rules!BeginAdd(t) \/ \E r \in Rules!Rules : Rules!BeginRemove(t, r)
  PROVE  RulesInv'
  <1>1. Rules!TypeOK /\ RulesInParts
    BY RulesParts DEF RulesInv
  <1>2. t \in Writers /\ t # "boot" /\ t \notin Rules!Active /\ up
    BY DEF Rules!BeginAdd, Rules!BeginRemove, Rules!Free, Rules!RulesAssumption
  <1>3. /\ UNCHANGED <<heap, extent, wanted, rules, cache, up, accepted, dropped, overtaken, missed, ruleFaults>>
        /\ overlap' = (overlap \/ Rules!Active # {})
    BY DEF Rules!BeginAdd, Rules!BeginRemove
  <1>4. TableOK' /\ (Rules!Live)' = Rules!Live
    BY <1>1, <1>3, TableStays DEF RulesInParts
  <1>5. PICK o \in {"add", "remove"}, r \in 0 .. MaxRules :
          /\ TaskMoves(t, "writing", o, r, <<>>, 0)
          /\ doomed' = IF o = "remove" THEN doomed \cup {r} ELSE doomed
          /\ o = "remove" => r \in 1 .. rules
    <2>1. CASE Rules!BeginAdd(t)
      <3>1. TaskMoves(t, "writing", "add", 0, <<>>, 0) /\ doomed' = doomed
        BY <1>1, <2>1, TasksMove DEF Rules!BeginAdd
      <3>2. 0 \in 0 .. MaxRules
        BY DEF Rules!RulesAssumption
      <3>3. QED
        BY <3>1, <3>2
    <2>2. ASSUME NEW r \in Rules!Rules, Rules!BeginRemove(t, r)
          PROVE  /\ TaskMoves(t, "writing", "remove", r, <<>>, 0)
                 /\ doomed' = doomed \cup {r} /\ r \in 1 .. rules /\ r \in 0 .. MaxRules
      <3>1. TaskMoves(t, "writing", "remove", r, <<>>, 0)
        BY <1>1, <2>2, TasksMove
      <3>2. r \in 0 .. MaxRules
        BY DEF Rules!RulesAssumption, Rules!Rules
      <3>3. QED
        BY <2>2, <3>1, <3>2 DEF Rules!BeginRemove
    <2>3. QED
      BY <2>1, <2>2
  <1>6. /\ TasksOK'
        /\ task'[t] = [pc |-> "writing", op |-> o, rule |-> r, rows |-> <<>>, left |-> 0]
        /\ Others(t)
    <2>1. "writing" \in Rules!Pcs /\ o \in {"add", "remove", "seed"}
      BY DEF Rules!Pcs
    <2>2. <<>> \in Seq(Rules!Cached)
      OBVIOUS
    <2>3. 0 \in 0 .. NumSeeds
      BY DEF Rules!RulesAssumption
    <2>4. PICK rec \in TaskType :
            rec = [pc |-> "writing", op |-> o, rule |-> r, rows |-> <<>>, left |-> 0]
      BY <2>1, <2>2, <2>3 DEF TaskType
    <2>5. TaskBecomes(t, rec)
      BY <1>5, <2>4 DEF TaskMoves
    <2>6. QED
      BY <1>1, <2>4, <2>5, MovesTyped DEF TasksOK, Others
  <1>7. doomed \subseteq doomed' /\ doomed' \subseteq 1 .. rules
    BY <1>1, <1>5 DEF RestOK, RulesInParts
  <1>8. InHand'
    <2>1. Hand(t)'
      BY <1>2, <1>3, <1>5, <1>6 DEF Hand
    <2>2. QED
      BY <1>1, <1>2, <1>3, <1>4, <1>6, <1>7, <2>1, HandsKept DEF RulesInParts
  <1>9. Agreed'
    <2>1. Agree(t)'
      BY <1>6 DEF Agree
    <2>2. QED
      BY <1>1, <1>3, <1>4, <1>6, <2>1, AgreementKept DEF RulesInParts
  <1>10. Apart'
    <2>1. ~overlap' => ~overlap /\ Rules!Active = {}
      BY <1>3
    <2>2. ~overlap' => missed' = {} /\ \A u \in Rules!Tasks : overtaken'[u] = {}
      BY <1>1, <1>3, <2>1 DEF RulesInParts, Apart
    <2>3. QED
      BY <1>1, <1>6, <2>1, <2>2, ApartKept DEF RulesInParts
  <1>11. RestOK' /\ PassedOK'
    <2>1. overlap' \in BOOLEAN
      BY <1>3
    <2>2. QED
      BY <1>1, <1>3, <1>4, <1>7, <2>1 DEF RestOK, PassedOK, RulesInParts
  <1>12. Enforced'
    BY <1>1, <1>3, <1>4, <1>7 DEF Enforced, Rules!Ids, RulesInParts
  <1>13. QED
    BY <1>4, <1>6, <1>8, <1>9, <1>10, <1>11, <1>12, RulesParts1 DEF RulesInParts

(* The task's own record, in the ranges of its fields. *)
LEMMA FieldsOfTask ==
  ASSUME TasksOK, NEW t \in Rules!Tasks
  PROVE  /\ task[t].op \in {"add", "remove", "seed"} /\ task[t].rule \in 0 .. MaxRules
         /\ task[t].rows \in Seq(Rules!Cached) /\ task[t].left \in 0 .. NumSeeds
         /\ task[t].pc # "installing" => task[t].rows = <<>>
  <1>1. task[t] \in TaskType
    BY DEF TasksOK
  <1>2. QED
    BY <1>1 DEF TaskType, TasksOK

(* The insert of a creation, or of a default at start-up. *)
LEMMA InsertRule ==
  ASSUME Rules!RulesAssumption, RulesInv, NEW t \in Rules!Tasks,
         NEW s \in Rules!Slots, NEW c \in Rules!Configs, Rules!InsertRow(t, s, c)
  PROVE  RulesInv'
  <1>1. Rules!TypeOK /\ RulesInParts
    BY RulesParts DEF RulesInv
  <1>2. /\ task[t].pc = "writing" /\ task[t].op \in {"add", "seed"}
        /\ UNCHANGED <<cache, up, accepted, dropped, doomed, missed, overlap, ruleFaults>>
        /\ Rules!Changed(rules + 1)
    BY DEF Rules!InsertRow, Rules!At
  <1>3. t \in Rules!Active /\ Hand(t)
    BY <1>1, <1>2 DEF RulesInParts, InHand, Rules!Active
  <1>4. /\ TableOK' /\ rules' = rules + 1 /\ rules' \in 1 .. MaxRules
        /\ (Rules!Live)' = Rules!Live \cup {rules + 1}
        /\ wanted' \in [Rules!Rules -> Rules!Configs]
    BY <1>1, InsertTable
  <1>5. /\ rules \in Nat /\ 1 .. rules \subseteq 1 .. rules' /\ rules + 1 \notin 1 .. rules
        /\ rules + 1 \in 1 .. rules'
    BY <1>1, <1>4 DEF TableOK, Rules!RulesAssumption, RulesInParts
  <1>6. /\ TasksOK'
        /\ task'[t] = [pc |-> "reading", op |-> task[t].op, rule |-> rules + 1,
                       rows |-> task[t].rows, left |-> Rules!OneLess(task[t].left)]
        /\ Others(t)
    <2>1. TaskMoves(t, "reading", task[t].op, rules + 1, task[t].rows,
                    Rules!OneLess(task[t].left))
      BY <1>1, TasksMove
    <2>2. "reading" \in Rules!Pcs /\ rules + 1 \in 0 .. MaxRules
      BY <1>4 DEF Rules!Pcs
    <2>3. Rules!OneLess(task[t].left) \in 0 .. NumSeeds
      BY <1>1, FieldsOfTask DEF Rules!OneLess, Rules!RulesAssumption, RulesInParts
    <2>4. PICK rec \in TaskType :
            rec = [pc |-> "reading", op |-> task[t].op, rule |-> rules + 1,
                   rows |-> task[t].rows, left |-> Rules!OneLess(task[t].left)]
      BY <1>1, <2>2, <2>3, FieldsOfTask DEF TaskType, RulesInParts
    <2>5. TaskBecomes(t, rec)
      BY <2>1, <2>4 DEF TaskMoves
    <2>6. rec.rows = <<>>
      BY <1>1, <1>2, <2>4, FieldsOfTask DEF RulesInParts
    <2>7. QED
      BY <1>1, <2>4, <2>5, <2>6, MovesTyped DEF TasksOK, Others
  <1>7. /\ PassedOK'
        /\ \A u \in Rules!Tasks : overtaken'[u] = IF task[u].pc = "installing" THEN overtaken[u] \cup {rules + 1}
                                                  ELSE overtaken[u]
        /\ ~overlap => \A u \in Rules!Tasks : overtaken'[u] = {}
    BY <1>1, <1>2, <1>3, <1>5, Noted DEF RulesInParts
  <1>8. InHand'
    <2>1. Hand(t)'
      BY <1>2, <1>3, <1>4, <1>6 DEF Hand
    <2>2. t = "boot" => ~up
      BY <1>1, <1>3 DEF RulesInParts, InHand
    <2>3. (Rules!Live)' \cap (1 .. rules) \subseteq Rules!Live /\ Rules!Live \subseteq (Rules!Live)'
      BY <1>4, <1>5
    <2>4. task'[t].pc = "reading"
      BY <1>6
    <2>5. QED
      BY <1>1, <1>2, <1>3, <1>6, <2>1, <2>2, <2>3, <2>4, HandsKept DEF RulesInParts
  <1>9. Agreed'
    <2>1. Agree(t)'
      BY <1>6 DEF Agree
    <2>2. QED
      BY <1>1, <1>4, <1>6, <1>7, <2>1, AgreementKept DEF RulesInParts
  <1>10. Apart'
    <2>1. ~overlap' => ~overlap /\ missed' = {}
      BY <1>1, <1>2 DEF RulesInParts, Apart
    <2>2. QED
      BY <1>1, <1>3, <1>6, <1>7, <2>1, ApartKept DEF RulesInParts
  <1>11. RestOK'
    BY <1>1, <1>2, <1>4, <1>5 DEF RestOK, RulesInParts
  <1>12. Enforced'
    BY <1>1, <1>2, <1>4 DEF Enforced, Rules!Ids, RulesInParts
  <1>13. QED
    BY <1>4, <1>6, <1>7, <1>8, <1>9, <1>10, <1>11, <1>12, RulesParts1 DEF RulesInParts

(* The delete of a removal. *)
LEMMA DeleteRule ==
  ASSUME Rules!RulesAssumption, RulesInv, NEW t \in Rules!Tasks, Rules!DeleteRow(t)
  PROVE  RulesInv'
  <1>1. Rules!TypeOK /\ RulesInParts
    BY RulesParts DEF RulesInv
  <1>2. /\ task[t].pc = "deleting"
        /\ UNCHANGED <<wanted, cache, up, accepted, dropped, doomed, missed, overlap, ruleFaults>>
        /\ Rules!Changed(task[t].rule)
    BY DEF Rules!DeleteRow, Rules!At
  <1>3. t \in Rules!Active /\ Hand(t)
    BY <1>1, <1>2 DEF RulesInParts, InHand, Rules!Active
  <1>4. t # "boot" /\ task[t].op = "remove" /\ task[t].rule \in doomed /\ task[t].rule \in 1 .. rules
    BY <1>1, <1>2, <1>3 DEF Hand, RulesInParts, RestOK
  <1>5. TableOK' /\ rules' = rules /\ (Rules!Live)' = Rules!Live \ {task[t].rule}
    BY <1>1, DeleteTable
  <1>6. /\ TasksOK'
        /\ task'[t] = [pc |-> "reading", op |-> task[t].op, rule |-> task[t].rule,
                       rows |-> task[t].rows, left |-> task[t].left]
        /\ Others(t)
    <2>1. TaskMoves(t, "reading", task[t].op, task[t].rule, task[t].rows, task[t].left)
      BY <1>1, TasksMove
    <2>2. "reading" \in Rules!Pcs
      BY DEF Rules!Pcs
    <2>3. PICK rec \in TaskType :
            rec = [pc |-> "reading", op |-> task[t].op, rule |-> task[t].rule,
                   rows |-> task[t].rows, left |-> task[t].left]
      BY <1>1, <2>2, FieldsOfTask DEF TaskType, RulesInParts
    <2>4. TaskBecomes(t, rec)
      BY <2>1, <2>3 DEF TaskMoves
    <2>5. rec.rows = <<>>
      BY <1>1, <1>2, <2>3, FieldsOfTask DEF RulesInParts
    <2>6. QED
      BY <1>1, <2>3, <2>4, <2>5, MovesTyped DEF TasksOK, Others
  <1>7. /\ PassedOK'
        /\ \A u \in Rules!Tasks : overtaken'[u] = IF task[u].pc = "installing"
                                                  THEN overtaken[u] \cup {task[t].rule}
                                                  ELSE overtaken[u]
        /\ ~overlap => \A u \in Rules!Tasks : overtaken'[u] = {}
    BY <1>1, <1>2, <1>3, <1>4, <1>5, Noted DEF RulesInParts
  <1>8. InHand'
    <2>1. Hand(t)'
      BY <1>2, <1>3, <1>4, <1>5, <1>6 DEF Hand
    <2>2. QED
      BY <1>1, <1>2, <1>4, <1>5, <1>6, <2>1, HandsKept DEF RulesInParts
  <1>9. Agreed'
    <2>1. Agree(t)'
      BY <1>6 DEF Agree
    <2>2. QED
      BY <1>1, <1>5, <1>6, <1>7, <2>1, AgreementKept DEF RulesInParts
  <1>10. Apart'
    <2>1. ~overlap' => ~overlap /\ missed' = {}
      BY <1>1, <1>2 DEF RulesInParts, Apart
    <2>2. QED
      BY <1>1, <1>3, <1>6, <1>7, <2>1, ApartKept DEF RulesInParts
  <1>11. RestOK'
    BY <1>1, <1>2, <1>5 DEF RestOK, RulesInParts
  <1>12. Enforced'
    BY <1>1, <1>2, <1>4, <1>5 DEF Enforced, Rules!Ids, RulesInParts
  <1>13. QED
    BY <1>5, <1>6, <1>7, <1>8, <1>9, <1>10, <1>11, <1>12, RulesParts1 DEF RulesInParts

(* A task goes on and leaves the table, the cache and the others alone. *)
LEMMA GoesOn ==
  ASSUME Rules!TypeOK, RulesInParts, NEW t \in Rules!Tasks, t \in Rules!Active,
         UNCHANGED <<heap, extent, rules, wanted, cache, up, accepted, dropped, doomed, overtaken,
                     missed, overlap, ruleFaults>>,
         NEW p \in {"deleting", "reading", "installing"}, NEW q \in Seq(Rules!Cached),
         p # "installing" => q = <<>>,
         TaskMoves(t, p, task[t].op, task[t].rule, q, task[t].left),
         p = "deleting" => task[t].op = "remove",
         p \in {"reading", "installing"} /\ task[t].op = "remove" => task[t].rule \notin Rules!Live,
         task[t].op = "add" => task[t].pc # "writing",
         p = "installing" => Rules!Ids(q) = Rules!Live
  PROVE  RulesInv'
  <1>1. TableOK' /\ (Rules!Live)' = Rules!Live
    BY TableStays DEF RulesInParts
  <1>2. /\ TasksOK'
        /\ task'[t] = [pc |-> p, op |-> task[t].op, rule |-> task[t].rule, rows |-> q, left |-> task[t].left]
        /\ Others(t)
    <2>1. p \in Rules!Pcs
      BY DEF Rules!Pcs
    <2>2. PICK rec \in TaskType :
            rec = [pc |-> p, op |-> task[t].op, rule |-> task[t].rule, rows |-> q, left |-> task[t].left]
      BY <2>1, FieldsOfTask DEF TaskType, RulesInParts
    <2>3. TaskBecomes(t, rec)
      BY <2>2 DEF TaskMoves
    <2>4. QED
      BY <2>2, <2>3, MovesTyped DEF TasksOK, Others
  <1>3. Hand(t)
    BY DEF RulesInParts, InHand
  <1>4. InHand'
    <2>1. Hand(t)'
      BY <1>1, <1>2, <1>3 DEF Hand
    <2>2. t = "boot" => ~up
      BY DEF RulesInParts, InHand
    <2>3. task'[t].pc # "idle"
      BY <1>2
    <2>4. QED
      BY <1>1, <1>2, <2>1, <2>2, <2>3, HandsKept DEF RulesInParts
  <1>5. Agreed'
    <2>1. task'[t].pc = p /\ task'[t].rows = q
      BY <1>2
    <2>2. p = "installing" => (Rules!Ids(task[t].rows))' = (Rules!Live)'
      BY <1>1, <2>1 DEF Rules!Ids
    <2>3. Agree(t)'
      BY <2>1, <2>2 DEF Agree
    <2>4. QED
      BY <1>1, <1>2, <2>3, AgreementKept DEF RulesInParts
  <1>6. Apart'
    <2>1. ~overlap' => ~overlap /\ missed' = {} /\ \A u \in Rules!Tasks : overtaken'[u] = {}
      BY DEF RulesInParts, Apart
    <2>2. QED
      BY <1>2, <2>1, ApartKept DEF RulesInParts
  <1>7. RestOK' /\ PassedOK'
    BY <1>1 DEF RestOK, PassedOK, RulesInParts
  <1>8. Enforced'
    BY <1>1 DEF Enforced, Rules!Ids, RulesInParts
  <1>9. QED
    BY <1>1, <1>2, <1>4, <1>5, <1>6, <1>7, <1>8, RulesParts1 DEF RulesInParts

(* The row of a removal is found, or is gone again when it is to be deleted. *)
LEMMA FoundRule ==
  ASSUME Rules!RulesAssumption, RulesInv, NEW t \in Rules!Tasks,
         Rules!FindRow(t) \/ Rules!DeletedMeanwhile(t)
  PROVE  RulesInv'
  <1>1. Rules!TypeOK /\ RulesInParts
    BY RulesParts DEF RulesInv
  <1>2. UNCHANGED <<heap, extent, rules, wanted, cache, up, accepted, dropped, doomed, overtaken,
                    missed, overlap, ruleFaults>>
    BY DEF Rules!FindRow, Rules!DeletedMeanwhile
  <1>3. task[t].rows = <<>> /\ <<>> \in Seq(Rules!Cached)
    BY <1>1, FieldsOfTask DEF RulesInParts, Rules!FindRow, Rules!DeletedMeanwhile, Rules!At
  <1>4. CASE Rules!FindRow(t)
    <2>1. task[t].pc = "writing" /\ task[t].op = "remove" /\ t \in Rules!Active
      BY <1>4 DEF Rules!FindRow, Rules!At, Rules!Active
    <2>2. TaskMoves(t, "deleting", task[t].op, task[t].rule, <<>>, task[t].left)
      BY <1>1, <1>3, <1>4, TasksMove
    <2>3. QED
      BY <1>1, <1>2, <1>3, <2>1, <2>2, GoesOn
  <1>5. CASE Rules!DeletedMeanwhile(t)
    <2>1. task[t].pc = "deleting" /\ task[t].rule \notin Rules!Live /\ t \in Rules!Active
      BY <1>5 DEF Rules!DeletedMeanwhile, Rules!At, Rules!Active
    <2>2. TaskMoves(t, "reading", task[t].op, task[t].rule, <<>>, task[t].left)
      BY <1>1, <1>3, <1>5, TasksMove
    <2>3. task[t].op = "remove"
      BY <1>1, <2>1 DEF RulesInParts, InHand, Hand
    <2>4. QED
      BY <1>1, <1>2, <1>3, <2>1, <2>2, <2>3, GoesOn
  <1>6. QED
    BY <1>4, <1>5

(* The rows that are read are those of the table. *)
LEMMA ReadRules ==
  ASSUME Rules!RulesAssumption, RulesInv, NEW t \in Rules!Tasks, Rules!Read(t)
  PROVE  RulesInv'
  <1>1. Rules!TypeOK /\ RulesInParts
    BY RulesParts DEF RulesInv
  <1>2. /\ task[t].pc = "reading" /\ t \in Rules!Active
        /\ UNCHANGED <<heap, extent, rules, wanted, cache, up, accepted, dropped, doomed, overtaken,
                       missed, overlap, ruleFaults>>
    BY DEF Rules!Read, Rules!At, Rules!Active
  <1>3. PICK q \in Seq(Rules!Cached) : q = Rules!Rows /\ Rules!Ids(q) = Rules!Live
    BY <1>1, RowsAreLive
  <1>4. TaskMoves(t, "installing", task[t].op, task[t].rule, q, task[t].left)
    BY <1>1, <1>3, TasksMove
  <1>5. task[t].op = "remove" => task[t].rule \notin Rules!Live
    BY <1>1, <1>2 DEF RulesInParts, InHand, Hand
  <1>6. QED
    BY <1>1, <1>2, <1>3, <1>4, <1>5, GoesOn

(* A request is over, one way or the other. *)
LEMMA RequestEnds ==
  ASSUME Rules!RulesAssumption, Rules!TypeOK, RulesInParts, NEW t \in Rules!Tasks,
         t \in Rules!Active, t # "boot", ComesToRest(t), up' = up, doomed' = doomed, rules' = rules,
         (Rules!Live)' = Rules!Live, overlap' = overlap,
         Rules!Forgotten(t), missed' = missed \/ missed' = overtaken[t]
  PROVE  TasksOK' /\ InHand' /\ Agreed' /\ Apart' /\ PassedOK'
  <1>1. /\ TasksOK'
        /\ task'[t].pc = "idle" /\ Others(t)
    <2>1. "idle" \in Rules!Pcs /\ "add" \in {"add", "remove", "seed"}
      BY DEF Rules!Pcs
    <2>2. <<>> \in Seq(Rules!Cached)
      OBVIOUS
    <2>3. 0 \in 0 .. NumSeeds /\ 0 \in 0 .. MaxRules
      BY DEF Rules!RulesAssumption
    <2>4. PICK rec \in TaskType :
            rec = [pc |-> "idle", op |-> "add", rule |-> 0, rows |-> <<>>, left |-> 0]
      BY <2>1, <2>2, <2>3 DEF TaskType
    <2>5. TaskBecomes(t, rec)
      BY <2>4 DEF ComesToRest, TaskMoves
    <2>6. QED
      BY <2>4, <2>5, MovesTyped DEF TasksOK, Others
  <1>2. InHand'
    BY <1>1, HandsKept DEF RulesInParts
  <1>3. /\ PassedOK'
        /\ \A u \in Rules!Tasks \ {t} : overtaken'[u] = overtaken[u]
        /\ ~overlap => \A u \in Rules!Tasks : overtaken'[u] = {}
    BY Noted DEF RulesInParts
  <1>4. Agreed'
    <2>1. Agree(t)'
      BY <1>1 DEF Agree
    <2>2. QED
      BY <1>1, <1>3, <2>1, AgreementKept DEF RulesInParts
  <1>5. Apart'
    <2>1. ~overlap' => ~overlap /\ missed' = {}
      BY DEF RulesInParts, Apart
    <2>2. QED
      BY <1>1, <1>3, <2>1, ApartKept DEF RulesInParts
  <1>6. QED
    BY <1>1, <1>2, <1>3, <1>4, <1>5

(* A request that ends without an effect on the cache. *)
LEMMA EndRule ==
  ASSUME Rules!RulesAssumption, RulesInv, NEW t \in Rules!Tasks,
         Rules!NothingToDelete(t) \/ Rules!RequestFails(t)
  PROVE  RulesInv'
  <1>1. Rules!TypeOK /\ RulesInParts
    BY RulesParts DEF RulesInv
  <1>2. /\ t \in Rules!Active
        /\ UNCHANGED <<heap, extent, rules, wanted, cache, up, accepted, dropped, doomed, missed, overlap>>
        /\ ruleFaults' \in 0 .. RuleFaults
    BY <1>1 DEF Rules!NothingToDelete, Rules!RequestFails, Rules!At, Rules!Active, Rules!Fault,
       RestOK, Rules!RulesAssumption, RulesInParts
  <1>3. t # "boot"
    <2>1. CASE Rules!NothingToDelete(t)
      BY <1>1, <1>2, <2>1 DEF Hand, Rules!NothingToDelete, RulesInParts, InHand
    <2>2. CASE Rules!RequestFails(t)
      BY <2>2 DEF Rules!RequestFails, Rules!RulesAssumption
    <2>3. QED
      BY <2>1, <2>2
  <1>4. TableOK' /\ (Rules!Live)' = Rules!Live
    BY <1>1, <1>2, TableStays DEF RulesInParts
  <1>5. ComesToRest(t)
    BY <1>1, TasksMove
  <1>6. TasksOK' /\ InHand' /\ Agreed' /\ Apart' /\ PassedOK'
    <2>1. CASE Rules!NothingToDelete(t)
      <3>1. task[t].pc = "writing" /\ overtaken' = overtaken
        BY <2>1 DEF Rules!NothingToDelete, Rules!At
      <3>2. TasksOK' /\ task'[t].pc = "idle" /\ Others(t)
        <4>1. "idle" \in Rules!Pcs /\ <<>> \in Seq(Rules!Cached)
          BY DEF Rules!Pcs
        <4>2. 0 \in 0 .. NumSeeds /\ 0 \in 0 .. MaxRules
          BY DEF Rules!RulesAssumption
        <4>3. PICK rec \in TaskType :
                rec = [pc |-> "idle", op |-> "add", rule |-> 0, rows |-> <<>>, left |-> 0]
          BY <4>1, <4>2 DEF TaskType
        <4>4. TaskBecomes(t, rec)
          BY <1>5, <4>3 DEF ComesToRest, TaskMoves
        <4>5. QED
          BY <1>1, <4>3, <4>4, MovesTyped DEF TasksOK, Others
      <3>3. InHand'
        BY <1>1, <1>2, <1>3, <1>4, <3>2, HandsKept DEF RulesInParts
      <3>4. Agree(t)'
        BY <3>2 DEF Agree
      <3>5. Agreed'
        BY <1>1, <1>4, <3>1, <3>2, <3>4, AgreementKept DEF RulesInParts
      <3>6. ~overlap' => ~overlap /\ missed' = {} /\ \A u \in Rules!Tasks : overtaken'[u] = {}
        BY <1>1, <1>2, <3>1 DEF RulesInParts, Apart
      <3>7. Apart'
        BY <1>1, <1>2, <3>2, <3>6, ApartKept DEF RulesInParts
      <3>8. PassedOK'
        BY <1>1, <1>2, <3>1 DEF RulesInParts, PassedOK
      <3>9. QED
        BY <3>2, <3>3, <3>5, <3>7, <3>8
    <2>2. CASE Rules!RequestFails(t)
      <3>1. Rules!Forgotten(t)
        BY <2>2 DEF Rules!RequestFails
      <3>2. QED
        BY <1>1, <1>2, <1>3, <1>4, <1>5, <3>1, RequestEnds
    <2>3. QED
      BY <2>1, <2>2
  <1>7. RestOK'
    BY <1>1, <1>2, <1>4 DEF RestOK, RulesInParts
  <1>8. Enforced'
    BY <1>1, <1>2, <1>4 DEF Enforced, Rules!Ids, RulesInParts
  <1>9. QED
    BY <1>4, <1>6, <1>7, <1>8, RulesParts1 DEF RulesInParts

(* The cache that a reload assigns has what it did not miss. *)
LEMMA Assigned ==
  ASSUME RestOK, Enforced, NEW t \in Rules!Tasks, task[t].pc = "installing", Agree(t),
         cache' = task[t].rows, missed' = overtaken[t], (Rules!Live)' = Rules!Live,
         doomed' = doomed, accepted' \subseteq accepted \cup Rules!Live \cup doomed,
         dropped' \subseteq doomed \ Rules!Live
  PROVE  Enforced'
  <1>1. (Rules!Ids(cache))' = Rules!Ids(task[t].rows)
    BY DEF Rules!Ids
  <1>2. (accepted' \ doomed') \subseteq Rules!Live
    BY DEF Enforced
  <1>3. (accepted' \ doomed') \ missed' \subseteq Rules!Ids(task[t].rows)
    BY <1>2 DEF Agree
  <1>4. (dropped' \ missed') \cap Rules!Ids(task[t].rows) = {}
    BY DEF Agree
  <1>5. QED
    BY <1>1, <1>2, <1>3, <1>4 DEF Enforced

(* The rows that were read become the cache, and the request is answered. *)
LEMMA InstallRules ==
  ASSUME Rules!RulesAssumption, RulesInv, NEW t \in Rules!Tasks, Rules!Install(t)
  PROVE  RulesInv'
  <1>1. Rules!TypeOK /\ RulesInParts
    BY RulesParts DEF RulesInv
  <1>2. /\ t \in Writers /\ task[t].pc = "installing" /\ cache' = task[t].rows
        /\ accepted' = IF task[t].op = "add" THEN accepted \cup {task[t].rule} ELSE accepted
        /\ dropped' = IF task[t].op = "remove" THEN dropped \cup {task[t].rule} ELSE dropped
        /\ missed' = overtaken[t] /\ Rules!Forgotten(t)
        /\ UNCHANGED <<heap, extent, wanted, rules, up, doomed, overlap, ruleFaults>>
    BY DEF Rules!Install, Rules!At, Rules!NewCache
  <1>3. t \in Rules!Active /\ Hand(t) /\ t # "boot" /\ Agree(t)
    BY <1>1, <1>2 DEF Rules!RulesAssumption, RulesInParts, InHand, Rules!Active, Agreed
  <1>4. TableOK' /\ (Rules!Live)' = Rules!Live
    BY <1>1, <1>2, TableStays DEF RulesInParts
  <1>5. TasksOK' /\ InHand' /\ Agreed' /\ Apart' /\ PassedOK'
    <2>1. ComesToRest(t)
      BY <1>1, TasksMove
    <2>2. QED
      BY <1>1, <1>2, <1>3, <1>4, <2>1, RequestEnds
  <1>6. Rules!Live \subseteq 1 .. rules /\ overtaken[t] \subseteq 1 .. rules
    BY <1>1 DEF TableOK, Rules!Live, Rules!RulesAssumption, PassedOK, RulesInParts
  <1>7. /\ task[t].rows \in Seq(Rules!Cached)
        /\ task[t].op = "add" => task[t].rule \in Rules!Live \cup doomed
        /\ task[t].op = "remove" => task[t].rule \in doomed /\ task[t].rule \notin Rules!Live
    BY <1>1, <1>2, <1>3, FieldsOfTask DEF Hand, RulesInParts
  <1>8. /\ accepted' \subseteq accepted \cup Rules!Live \cup doomed
        /\ dropped' \subseteq doomed \ Rules!Live
    BY <1>1, <1>2, <1>7 DEF RestOK, RulesInParts
  <1>9. RestOK'
    BY <1>1, <1>2, <1>4, <1>6, <1>7, <1>8 DEF RestOK, RulesInParts
  <1>10. Enforced'
    BY <1>1, <1>2, <1>3, <1>4, <1>8, Assigned DEF RulesInParts
  <1>11. QED
    BY <1>4, <1>5, <1>9, <1>10, RulesParts1 DEF RulesInParts

(* The same at start-up, which goes on to the next default or is over. *)
LEMMA SeedRules ==
  ASSUME Rules!RulesAssumption, RulesInv, Rules!Seed
  PROVE  RulesInv'
  <1> DEFINE b == "boot"
  <1>1. Rules!TypeOK /\ RulesInParts
    BY RulesParts DEF RulesInv
  <1>2. /\ task[b].pc = "installing" /\ cache' = task[b].rows
        /\ accepted' = accepted \cup ({task[b].rule} \ {0})
        /\ up' = Rules!SeedingIsOver
        /\ task' = [task EXCEPT ![b] = IF Rules!SeedingIsOver THEN Rules!Idle
                                       ELSE [task[b] EXCEPT !.pc = "writing", !.rows = <<>>]]
        /\ missed' = overtaken[b] /\ Rules!Forgotten(b)
        /\ UNCHANGED <<heap, extent, wanted, rules, dropped, doomed, overlap, ruleFaults>>
    BY DEF Rules!Seed, Rules!At, Rules!NewCache
  <1>3. b \in Rules!Tasks /\ Rules!SeedingIsOver \in BOOLEAN
    BY DEF Rules!Tasks, Rules!SeedingIsOver
  <1>4. b \in Rules!Active /\ Hand(b) /\ Agree(b)
    BY <1>1, <1>2, <1>3 DEF RulesInParts, InHand, Rules!Active, Agreed
  <1>5. TableOK' /\ (Rules!Live)' = Rules!Live
    BY <1>1, <1>2, TableStays DEF RulesInParts
  <1>6. Rules!Live \subseteq 1 .. rules /\ overtaken[b] \subseteq 1 .. rules
    BY <1>1, <1>3 DEF TableOK, Rules!Live, Rules!RulesAssumption, PassedOK, RulesInParts
  <1>7. /\ task[b].rows \in Seq(Rules!Cached) /\ task[b] \in TaskType /\ task[b].op = "seed"
        /\ task[b].rule # 0 => task[b].rule \in Rules!Live \cup doomed
    BY <1>1, <1>2, <1>3, <1>4, FieldsOfTask DEF Hand, TasksOK, RulesInParts
  <1>8. PICK rec \in TaskType :
          /\ TaskBecomes(b, rec)
          /\ rec.rows = <<>>
          /\ Rules!SeedingIsOver => rec.pc = "idle"
          /\ ~Rules!SeedingIsOver => rec.pc = "writing" /\ rec.op = "seed" /\ rec.rule = task[b].rule
    <2>1. <<>> \in Seq(Rules!Cached) /\ {"idle", "writing"} \subseteq Rules!Pcs
      BY DEF Rules!Pcs
    <2>2. 0 \in 0 .. NumSeeds /\ 0 \in 0 .. MaxRules
      BY DEF Rules!RulesAssumption
    <2>3. task \in [Rules!Tasks -> TaskType]
      BY <1>1 DEF TasksOK, RulesInParts
    <2>4. CASE Rules!SeedingIsOver
      <3>1. PICK rec \in TaskType : rec = [pc |-> "idle", op |-> "add", rule |-> 0, rows |-> <<>>,
                                           left |-> 0]
        BY <2>1, <2>2 DEF TaskType
      <3>2. TaskBecomes(b, rec)
        BY <1>2, <2>3, <2>4, <3>1 DEF TaskBecomes, Rules!Idle
      <3>3. QED
        BY <2>4, <3>1, <3>2
    <2>5. CASE ~Rules!SeedingIsOver
      <3>1. PICK rec \in TaskType : rec = [pc |-> "writing", op |-> task[b].op, rule |-> task[b].rule,
                                           rows |-> <<>>, left |-> task[b].left]
        BY <1>7, <2>1 DEF TaskType
      <3>2. TaskBecomes(b, rec)
        <4>1. task' = [task EXCEPT ![b] = [task[b] EXCEPT !.pc = "writing", !.rows = <<>>]]
          BY <1>2, <2>5
        <4>2. task'[b] = rec
          BY <1>3, <1>7, <2>3, <3>1, <4>1 DEF TaskType
        <4>3. /\ \A u \in Rules!Tasks \ {b} : task'[u] = task[u]
              /\ task' = [u \in Rules!Tasks |-> task'[u]]
          BY <2>3, <4>1
        <4>4. QED
          BY <4>2, <4>3 DEF TaskBecomes
      <3>3. QED
        BY <1>7, <2>5, <3>1, <3>2
    <2>6. QED
      BY <2>4, <2>5
  <1>9. TasksOK' /\ task'[b] = rec /\ Others(b)
    BY <1>1, <1>3, <1>8, MovesTyped DEF TasksOK, Others
  <1>10. InHand'
    <2>1. b \notin Writers
      BY DEF Rules!RulesAssumption
    <2>2. task'[b].pc # "idle" => Hand(b)'
      BY <1>5, <1>2, <1>7, <1>8, <1>9, <2>1 DEF Hand
    <2>3. up' <=> task'[b].pc = "idle"
      BY <1>2, <1>8, <1>9
    <2>4. QED
      BY <1>1, <1>2, <1>3, <1>4, <1>5, <1>9, <2>2, <2>3, HandsKept DEF RulesInParts
  <1>11. /\ PassedOK'
         /\ \A u \in Rules!Tasks \ {b} : overtaken'[u] = overtaken[u]
         /\ ~overlap => \A u \in Rules!Tasks : overtaken'[u] = {}
    BY <1>1, <1>2, <1>3, Noted DEF RulesInParts
  <1>12. Agreed'
    <2>1. task'[b].pc # "installing"
      BY <1>8, <1>9
    <2>2. Agree(b)'
      BY <2>1 DEF Agree
    <2>3. QED
      BY <1>1, <1>3, <1>5, <1>9, <1>11, <2>2, AgreementKept DEF RulesInParts
  <1>13. Apart'
    <2>1. ~overlap' => ~overlap /\ missed' = {}
      BY <1>1, <1>2, <1>3 DEF RulesInParts, Apart
    <2>2. QED
      BY <1>1, <1>3, <1>4, <1>9, <1>11, <2>1, ApartKept DEF RulesInParts
  <1>14. accepted' \subseteq accepted \cup Rules!Live \cup doomed /\ dropped' \subseteq doomed \ Rules!Live
    BY <1>1, <1>2, <1>7 DEF RestOK, RulesInParts
  <1>15. RestOK'
    BY <1>1, <1>2, <1>3, <1>5, <1>6, <1>7, <1>14 DEF RestOK, RulesInParts
  <1>16. Enforced'
    BY <1>1, <1>2, <1>3, <1>4, <1>5, <1>14, Assigned DEF RulesInParts
  <1>17. QED
    BY <1>5, <1>9, <1>10, <1>11, <1>12, <1>13, <1>15, <1>16, RulesParts1 DEF RulesInParts

(* The process as it starts, whatever is in the table. *)
Fresh == /\ task = [t \in Rules!Tasks |-> IF t = "boot" THEN Rules!Boot ELSE Rules!Idle] /\ ~up
         /\ overtaken = [t \in Rules!Tasks |-> {}] /\ missed = {}

(* Then start-up is alone at work; and the same after a step. *)
LEMMA FreshTasks ==
  ASSUME Rules!RulesAssumption PROVE Fresh => TasksOK /\ InHand /\ Agreed /\ Apart /\ PassedOK
  <1> SUFFICES ASSUME Fresh PROVE TasksOK /\ InHand /\ Agreed /\ Apart /\ PassedOK
    OBVIOUS
  <1>1. <<>> \in Seq(Rules!Cached) /\ {"idle", "reading"} \subseteq Rules!Pcs
    BY DEF Rules!Pcs
  <1>2. 0 \in 0 .. NumSeeds /\ 0 \in 0 .. MaxRules /\ NumSeeds \in 0 .. NumSeeds
    BY DEF Rules!RulesAssumption
  <1>3. "boot" \in Rules!Tasks /\ "boot" \notin Writers
    BY DEF Rules!Tasks, Rules!RulesAssumption
  <1>4. Rules!Boot \in TaskType /\ Rules!Idle \in TaskType
    BY <1>1, <1>2 DEF TaskType, Rules!Boot, Rules!Idle
  <1>5. TasksOK
    BY <1>4 DEF TasksOK, Rules!Boot, Rules!Idle, Fresh
  <1>6. Rules!Active = {"boot"} /\ task["boot"] = Rules!Boot
    BY <1>3 DEF Rules!Active, Rules!Boot, Rules!Idle, Fresh
  <1>7. Hand("boot")
    BY <1>3, <1>6 DEF Hand, Rules!Boot
  <1>8. InHand
    BY <1>6, <1>7 DEF InHand, Fresh
  <1>9. Agreed
    BY DEF Agreed, Agree, Fresh, Rules!Boot, Rules!Idle
  <1>10. Apart /\ PassedOK
    BY <1>6 DEF Apart, PassedOK, Fresh
  <1>11. QED
    BY <1>5, <1>8, <1>9, <1>10

LEMMA FreshTasksNext ==
  ASSUME Rules!RulesAssumption PROVE Fresh' => TasksOK' /\ InHand' /\ Agreed' /\ Apart' /\ PassedOK'
  BY FreshTasks, PTL

(* The cache is empty, and no rule is missed before start-up is over. *)
LEMMA RestartRules ==
  ASSUME Rules!RulesAssumption, RulesInv, Rules!Restart
  PROVE  RulesInv'
  <1>1. RulesInParts
    BY RulesParts
  <1>2. /\ cache' = <<>> /\ up' = FALSE /\ missed' = {} /\ overlap' = FALSE
        /\ UNCHANGED <<heap, extent, wanted, rules, accepted, dropped, doomed>>
        /\ ruleFaults' = ruleFaults + 1 /\ ruleFaults < RuleFaults
    BY DEF Rules!Restart, Rules!Fault
  <1>3. TasksOK' /\ InHand' /\ Agreed' /\ Apart' /\ PassedOK'
    BY <1>2, FreshTasksNext DEF Rules!Restart, Fresh
  <1>4. TableOK' /\ (Rules!Live)' = Rules!Live
    BY <1>1, <1>2, TableStays DEF RulesInParts
  <1>5. ruleFaults' \in 0 .. RuleFaults
    BY <1>1, <1>2 DEF RestOK, Rules!RulesAssumption, RulesInParts
  <1>6. RestOK'
    <2>1. <<>> \in Seq(Rules!Cached)
      OBVIOUS
    <2>2. cache' \in Seq(Rules!Cached) /\ up' \in BOOLEAN /\ overlap' \in BOOLEAN /\ missed' \subseteq 1 .. rules'
      BY <1>2, <2>1
    <2>3. wanted' \in [Rules!Rules -> Rules!Configs] /\ accepted' \subseteq 1 .. rules'
      BY <1>1, <1>2 DEF RestOK, RulesInParts
    <2>4. doomed' \subseteq 1 .. rules' /\ dropped' \subseteq doomed' \ (Rules!Live)'
      BY <1>1, <1>2, <1>4 DEF RestOK, RulesInParts
    <2>5. QED
      BY <1>5, <2>2, <2>3, <2>4 DEF RestOK
  <1>7. (Rules!Ids(cache))' = {}
    BY <1>2 DEF Rules!Ids
  <1>8. Enforced'
    BY <1>1, <1>2, <1>4, <1>7 DEF Enforced, RulesInParts
  <1>9. QED
    BY <1>3, <1>4, <1>6, <1>8, RulesParts1 DEF RulesInParts

(* Every step keeps the invariant. *)
LEMMA RulesStep ==
  Rules!RulesAssumption /\ RulesInv /\ (Rules!Next \/ UNCHANGED rulesVars) => RulesInv'
  <1>1. ASSUME Rules!RulesAssumption, RulesInv, NEW t \in Rules!Tasks, Rules!Step(t)
        PROVE  RulesInv'
    BY <1>1, BeginRule, InsertRule, FoundRule, DeleteRule, EndRule, ReadRules, InstallRules DEF Rules!Step
  <1>2. Rules!RulesAssumption /\ RulesInv /\ Rules!Next => RulesInv'
    <2> SUFFICES ASSUME Rules!RulesAssumption, RulesInv, Rules!Next PROVE RulesInv'
      OBVIOUS
    <2>1. CASE \E t \in Rules!Tasks : Rules!Step(t)
      BY <1>1, <2>1
    <2>2. CASE Rules!Seed \/ Rules!Restart
      BY <2>2, SeedRules, RestartRules
    <2>3. QED
      BY <2>1, <2>2 DEF Rules!Next
  <1>3. Rules!RulesAssumption /\ RulesInv /\ UNCHANGED rulesVars => RulesInv'
    <2> SUFFICES ASSUME Rules!RulesAssumption, RulesInv, UNCHANGED rulesVars PROVE RulesInv'
      OBVIOUS
    <2>1. RulesInParts
      BY RulesParts
    <2>2. TableOK' /\ (Rules!Live)' = Rules!Live
      BY <2>1, TableStays DEF rulesVars, RulesInParts
    <2>3. RestOK' /\ TasksOK' /\ PassedOK'
      BY <2>1, <2>2 DEF rulesVars, RestOK, TasksOK, PassedOK, RulesInParts
    <2>4. InHand'
      BY <2>1, <2>2 DEF rulesVars, InHand, Hand, Rules!Active, RulesInParts
    <2>5. Enforced' /\ Agreed'
      BY <2>1, <2>2 DEF rulesVars, Enforced, Agreed, Agree, Rules!Ids, RulesInParts
    <2>6. Apart'
      BY <2>1 DEF rulesVars, Apart, Rules!Active, RulesInParts
    <2>7. QED
      BY <2>2, <2>3, <2>4, <2>5, <2>6, RulesParts1 DEF RulesInParts
  <1>4. QED
    BY <1>2, <1>3

(* It holds of an empty table. *)
LEMMA RulesInit == Rules!RulesAssumption /\ Rules!Init => RulesInv
  <1> SUFFICES ASSUME Rules!RulesAssumption, Rules!Init PROVE RulesInv
    OBVIOUS
  <1>1. TableOK
    BY DEF Rules!Init, Rules!RulesAssumption, TableOK
  <1>2. Rules!Live = {} /\ Rules!Ids(cache) = {}
    BY DEF Rules!Init, Rules!Live, Rules!Ids
  <1>3. RestOK
    <2>1. cache \in Seq(Rules!Cached) /\ wanted \in [Rules!Rules -> Rules!Configs]
      BY DEF Rules!Init, Rules!Configs
    <2>2. ruleFaults \in 0 .. RuleFaults
      BY DEF Rules!Init, Rules!RulesAssumption
    <2>3. QED
      BY <2>1, <2>2 DEF Rules!Init, RestOK
  <1>4. TasksOK /\ InHand /\ Agreed /\ Apart /\ PassedOK
    BY FreshTasks DEF Rules!Init, Fresh
  <1>5. Enforced
    BY <1>2 DEF Enforced, Rules!Init
  <1>6. QED
    BY <1>1, <1>3, <1>4, <1>5, RulesParts DEF RulesInParts

-----------------------------------------------------------------------------
(* The client pool of MCP servers.                                            *)

ReqType == [pc : {"idle", "disconnecting", "closing", "connecting", "opening", "discovering",
                  "deleting"},
            op : {"create", "refresh", "delete"}, rec : 0 .. MaxRecords,
            sess : {0} \cup (1 .. MaxOpened)]

PoolConstants == /\ IsFiniteSet(Requests) /\ MaxOpened \in Nat /\ MaxRecords \in Nat
                 /\ PoolFaults \in Nat

RestTyped ==
  /\ record \in 0 .. created /\ created \in 0 .. MaxRecords
  /\ conn \in {0} \cup (1 .. MaxOpened) /\ tools \in {0} \cup (1 .. MaxOpened)
  /\ open \subseteq 1 .. opened /\ opened \in 0 .. MaxOpened
  /\ poolFaults \in 0 .. PoolFaults

ReqTyped ==
  /\ request \in [Requests -> ReqType]
  /\ \A r \in Requests : request[r].sess # 0 <=> request[r].pc \in {"closing", "discovering"}

Owned ==
  /\ conn # 0 => conn \in open
  /\ \A q \in Requests : request[q].sess # 0 => request[q].sess # conn /\ request[q].sess \in open
  /\ \A q, s \in Requests : q # s /\ request[q].sess # 0 => request[q].sess # request[s].sess

PoolInv == RestTyped /\ ReqTyped /\ Owned

(* The invariant of the pool is what its module says, however many are active. *)
LEMMA PoolParts ==
  ASSUME NEW n
  PROVE  PoolInv <=> McpPool(n)!TypeOK /\ McpPool(n)!OneOwner /\ McpPool(n)!HeldAreOpen
  <1>1. McpPool(n)!TypeOK <=> RestTyped /\ ReqTyped
    BY DEF McpPool!TypeOK, RestTyped, ReqTyped, ReqType, McpPool!Pcs, McpPool!Ops,
       McpPool!Sessions
  <1>2. McpPool(n)!OneOwner /\ McpPool(n)!HeldAreOpen <=> Owned
    BY DEF McpPool!OneOwner, McpPool!HeldAreOpen, McpPool!Held, Owned
  <1>3. QED
    BY <1>1, <1>2 DEF PoolInv

(* One request goes on and the others stay as they are.                           *)
ReqBecomes(r, x) == /\ request' = [q \in Requests |-> request'[q]] /\ request'[r] = x
                    /\ \A q \in Requests \ {r} : request'[q] = request[q]

(* What the step of a request does to it.                                         *)
RequestStep(n, r) ==
  \/ McpPool(n)!Create(r) \/ (\E op \in McpPool(n)!Ops : McpPool(n)!Arrive(r, op))
  \/ McpPool(n)!DeleteRow(r) \/ McpPool(n)!Pop(r) \/ McpPool(n)!PopNothing(r)
  \/ McpPool(n)!Close(r) \/ McpPool(n)!CloseFails(r) \/ McpPool(n)!ConnectIsDone(r)
  \/ McpPool(n)!BeginConnect(r) \/ McpPool(n)!OpenTransport(r) \/ McpPool(n)!OpenFails(r)
  \/ McpPool(n)!Discovered(r) \/ McpPool(n)!DiscoveryFails(r)

Becomes(r, pc, sess) == [pc |-> pc, op |-> request[r].op, rec |-> request[r].rec, sess |-> sess]
IdleRequest == [pc |-> "idle", op |-> "create", rec |-> 0, sess |-> 0]

(* A request that goes on keeps its type. *)
LEMMA RequestGoes ==
  ASSUME PoolConstants, ReqTyped, NEW r \in Requests,
         NEW p \in {"idle", "disconnecting", "closing", "connecting", "opening", "discovering",
                    "deleting"}
  PROVE  /\ request' = [request EXCEPT ![r] = IdleRequest] => ReqBecomes(r, IdleRequest) /\ IdleRequest \in ReqType
         /\ request' = [request EXCEPT ![r].pc = p] =>
              /\ ReqBecomes(r, Becomes(r, p, request[r].sess))
              /\ Becomes(r, p, request[r].sess) \in ReqType
         /\ \A s \in {0} \cup (1 .. MaxOpened) :
              request' = [request EXCEPT ![r].pc = p, ![r].sess = s] =>
                ReqBecomes(r, Becomes(r, p, s)) /\ Becomes(r, p, s) \in ReqType
  <1>1. IdleRequest \in ReqType
    <2>1. 0 \in 0 .. MaxRecords
      BY DEF PoolConstants
    <2>2. QED
      BY <2>1 DEF IdleRequest, ReqType
  <1>2. ASSUME NEW s \in {0} \cup (1 .. MaxOpened) PROVE Becomes(r, p, s) \in ReqType
    BY DEF ReqTyped, ReqType, Becomes
  <1>3. request' = [request EXCEPT ![r] = IdleRequest] => ReqBecomes(r, IdleRequest)
    BY DEF ReqTyped, ReqBecomes
  <1>4. ASSUME request' = [request EXCEPT ![r].pc = p]
        PROVE  ReqBecomes(r, Becomes(r, p, request[r].sess))
    <2>1. request'[r] = Becomes(r, p, request[r].sess)
      BY <1>4 DEF ReqTyped, ReqType, Becomes
    <2>2. /\ \A q \in Requests \ {r} : request'[q] = request[q]
          /\ request' = [q \in Requests |-> request'[q]]
      BY <1>4 DEF ReqTyped
    <2>3. QED
      BY <2>1, <2>2 DEF ReqBecomes
  <1>5. ASSUME NEW s, request' = [request EXCEPT ![r].pc = p, ![r].sess = s]
        PROVE  ReqBecomes(r, Becomes(r, p, s))
    <2>1. request'[r] = Becomes(r, p, s)
      BY <1>5 DEF ReqTyped, ReqType, Becomes
    <2>2. /\ \A q \in Requests \ {r} : request'[q] = request[q]
          /\ request' = [q \in Requests |-> request'[q]]
      BY <1>5 DEF ReqTyped
    <2>3. QED
      BY <2>1, <2>2 DEF ReqBecomes
  <1>6. request[r].sess \in {0} \cup (1 .. MaxOpened)
    BY DEF ReqTyped, ReqType
  <1>7. QED
    BY <1>1, <1>2, <1>3, <1>4, <1>5, <1>6

(* What it may do to the sessions: nothing, close the one it holds, take the one   *)
(* in the pool, open one, or put the one it holds into the pool.                   *)
Handles(r, x) ==
  \/ x.sess = 0 /\ UNCHANGED <<conn, open, opened>>
  \/ x.sess = 0 /\ open' = open \ {request[r].sess} /\ UNCHANGED <<conn, opened>>
     /\ request[r].sess # 0
  \/ conn # 0 /\ x.sess = conn /\ conn' = 0 /\ UNCHANGED <<open, opened>>
  \/ x.sess = opened + 1 /\ opened < MaxOpened /\ opened' = opened + 1
     /\ open' = open \cup {opened + 1} /\ conn' = conn
  \/ x.sess = 0 /\ request[r].sess # 0 /\ conn' = request[r].sess /\ UNCHANGED <<open, opened>>

Holds(x) == x.sess # 0 <=> x.pc \in {"closing", "discovering"}

(* Whatever a request does to the sessions, each keeps one owner. *)
LEMMA OwnedStep ==
  ASSUME PoolConstants, PoolInv, NEW r \in Requests, NEW x \in ReqType,
         ReqBecomes(r, x), Handles(r, x), Holds(x), RestTyped'
  PROVE  PoolInv'
  <1>1. ReqTyped'
    BY DEF PoolInv, ReqTyped, ReqBecomes, Holds
  <1> DEFINE now1(q) == request[q].sess
             next1(q) == IF q = r THEN x.sess ELSE now1(q)
  <1>2. /\ conn # 0 => conn \in open
        /\ \A q \in Requests : now1(q) # 0 => now1(q) # conn /\ now1(q) \in open
        /\ \A q, s \in Requests : q # s /\ now1(q) # 0 => now1(q) # now1(s)
    BY DEF PoolInv, Owned
  <1>3. \A q \in Requests : request'[q].sess = next1(q)
    BY DEF ReqBecomes
  <1>4. opened + 1 \notin open /\ opened + 1 # 0 /\ opened + 1 # conn
    BY <1>2 DEF PoolInv, RestTyped, PoolConstants
  <1>5. \A q \in Requests : now1(q) # opened + 1
    BY <1>2, <1>4
  <1> DEFINE New == /\ conn' # 0 => conn' \in open'
                    /\ \A q \in Requests : next1(q) # 0 => next1(q) # conn' /\ next1(q) \in open'
                    /\ \A q, s \in Requests : q # s /\ next1(q) # 0 => next1(q) # next1(s)
  <1> HIDE DEF now1
  <1>6. ASSUME x.sess = 0 /\ UNCHANGED <<conn, open, opened>>
         PROVE  New
    BY <1>2, <1>6
  <1>7. ASSUME x.sess = 0 /\ open' = open \ {request[r].sess} /\ UNCHANGED <<conn, opened>>
             /\ request[r].sess # 0
         PROVE  New
    BY <1>2, <1>7 DEF now1
  <1>8. ASSUME conn # 0 /\ x.sess = conn /\ conn' = 0 /\ UNCHANGED <<open, opened>>
         PROVE  New
    BY <1>2, <1>8
  <1>9. ASSUME x.sess = opened + 1 /\ opened < MaxOpened /\ opened' = opened + 1
             /\ open' = open \cup {opened + 1} /\ conn' = conn
         PROVE  New
    BY <1>2, <1>4, <1>5, <1>9
  <1>10. ASSUME x.sess = 0 /\ request[r].sess # 0 /\ conn' = request[r].sess
              /\ UNCHANGED <<open, opened>>
         PROVE  New
    BY <1>2, <1>10 DEF now1
  <1>11. New
    BY <1>6, <1>7, <1>8, <1>9, <1>10 DEF Handles
  <1>12. Owned'
    BY <1>3, <1>11 DEF Owned
  <1>13. QED
    BY <1>1, <1>12 DEF PoolInv

(* Each step is one of these.                                                      *)
LEMMA PoolMoves ==
  ASSUME PoolConstants, PoolInv, NEW n, NEW r \in Requests, RequestStep(n, r)
  PROVE  RestTyped' /\ \E x \in ReqType : ReqBecomes(r, x) /\ Handles(r, x) /\ Holds(x)
  <1> DEFINE Post == RestTyped' /\ \E x \in ReqType : ReqBecomes(r, x) /\ Handles(r, x) /\ Holds(x)
  <1>1. ReqTyped /\ RestTyped /\ request[r] \in ReqType /\ Holds(request[r])
    BY DEF PoolInv, ReqTyped, Holds
  <1>2. 0 \in 0 .. MaxRecords /\ 0 \in {0} \cup (1 .. MaxOpened)
    BY DEF PoolConstants
  <1>3. ASSUME NEW op \in {"create", "refresh", "delete"}, NEW c \in 0 .. MaxRecords,
               NEW p \in {"connecting", "disconnecting"},
               request' = [request EXCEPT ![r] = [pc |-> p, op |-> op, rec |-> c, sess |-> 0]],
               UNCHANGED <<conn, open, opened>>, RestTyped'
        PROVE  Post
    <2>1. PICK x \in ReqType : x = [pc |-> p, op |-> op, rec |-> c, sess |-> 0]
      BY <1>2 DEF ReqType
    <2>2. ReqBecomes(r, x)
      BY <1>1, <1>3, <2>1 DEF ReqTyped, ReqBecomes
    <2>3. Handles(r, x) /\ Holds(x)
      BY <1>3, <2>1 DEF Handles, Holds
    <2>4. QED
      BY <1>3, <2>2, <2>3
  <1>4. CASE McpPool(n)!Create(r)
    <2>1. created + 1 \in 0 .. MaxRecords /\ RestTyped'
      BY <1>1, <1>4 DEF McpPool!Create, RestTyped, PoolConstants
    <2>2. QED
      BY <1>3, <1>4, <2>1 DEF McpPool!Create
  <1>5. CASE \E op \in McpPool(n)!Ops : McpPool(n)!Arrive(r, op)
    <2>1. PICK op \in {"create", "refresh", "delete"} : McpPool(n)!Arrive(r, op)
      BY <1>5 DEF McpPool!Ops
    <2>2. record \in 0 .. MaxRecords /\ RestTyped'
      BY <1>1, <2>1 DEF McpPool!Arrive, RestTyped, PoolConstants
    <2>3. QED
      BY <1>3, <2>1, <2>2 DEF McpPool!Arrive
  <1>6. ASSUME request' = [request EXCEPT ![r] = IdleRequest], UNCHANGED <<conn, open, opened>>, RestTyped'
        PROVE  Post
    <2>1. ReqBecomes(r, IdleRequest) /\ IdleRequest \in ReqType
      BY <1>1, <1>6, RequestGoes
    <2>2. Handles(r, IdleRequest) /\ Holds(IdleRequest)
      BY <1>6 DEF Handles, Holds, IdleRequest
    <2>3. QED
      BY <1>6, <2>1, <2>2
  <1>7. CASE McpPool(n)!DeleteRow(r)
    <2>1. RestTyped'
      BY <1>1, <1>7 DEF McpPool!DeleteRow, RestTyped, PoolConstants
    <2>2. QED
      BY <1>6, <1>7, <2>1 DEF McpPool!DeleteRow, McpPool!Ends, McpPool!Idle, IdleRequest
  <1>8. CASE McpPool(n)!ConnectIsDone(r) \/ McpPool(n)!OpenFails(r) \/ McpPool(n)!DiscoveryFails(r)
    <2> DEFINE same == UNCHANGED <<record, created, conn, tools, open, opened>>
    <2>1. same /\ poolFaults' \in 0 .. PoolFaults
      BY <1>1, <1>8 DEF McpPool!ConnectIsDone, McpPool!OpenFails, McpPool!DiscoveryFails, RestTyped,
         PoolConstants
    <2>2. RestTyped'
      BY <1>1, <2>1 DEF RestTyped
    <2>3. QED
      BY <1>6, <1>8, <2>2 DEF McpPool!ConnectIsDone, McpPool!OpenFails, McpPool!DiscoveryFails,
         McpPool!Ends, McpPool!Idle, IdleRequest
  <1>9. CASE McpPool(n)!Discovered(r)
    <2>1. request[r].sess # 0
      BY <1>1, <1>9 DEF McpPool!Discovered, McpPool!At, Holds
    <2>2. RestTyped'
      BY <1>1, <1>9 DEF McpPool!Discovered, RestTyped, ReqType
    <2>3. ReqBecomes(r, IdleRequest) /\ IdleRequest \in ReqType
      BY <1>1, <1>9, RequestGoes DEF McpPool!Discovered, McpPool!Ends, McpPool!Idle, IdleRequest
    <2>4. Handles(r, IdleRequest) /\ Holds(IdleRequest)
      BY <1>9, <2>1 DEF McpPool!Discovered, Handles, Holds, IdleRequest
    <2>5. QED
      BY <2>2, <2>3, <2>4
  <1>10. CASE McpPool(n)!Pop(r)
    <2>1. RestTyped' /\ conn \in {0} \cup (1 .. MaxOpened)
      BY <1>1, <1>10 DEF McpPool!Pop, McpPool!ConnAfterPop, RestTyped
    <2>2. ReqBecomes(r, Becomes(r, "closing", conn)) /\ Becomes(r, "closing", conn) \in ReqType
      BY <1>1, <1>10, <2>1, RequestGoes DEF McpPool!Pop
    <2>3. Handles(r, Becomes(r, "closing", conn)) /\ Holds(Becomes(r, "closing", conn))
      BY <1>10 DEF McpPool!Pop, McpPool!ConnAfterPop, Handles, Holds, Becomes
    <2>4. QED
      BY <2>1, <2>2, <2>3
  <1>11. McpPool(n)!AfterDisconnect(r) \in {"connecting", "deleting"}
    BY DEF McpPool!AfterDisconnect
  <1>12. CASE McpPool(n)!PopNothing(r) \/ McpPool(n)!BeginConnect(r)
    <2>1. PICK p \in {"connecting", "deleting", "opening"} : request' = [request EXCEPT ![r].pc = p]
      BY <1>11, <1>12 DEF McpPool!PopNothing, McpPool!BeginConnect, McpPool!Goes
    <2>2. RestTyped' /\ request[r].sess = 0 /\ UNCHANGED <<conn, open, opened>>
      BY <1>1, <1>2, <1>12 DEF McpPool!PopNothing, McpPool!BeginConnect, McpPool!At, Holds, RestTyped
    <2>3. ReqBecomes(r, Becomes(r, p, request[r].sess)) /\ Becomes(r, p, request[r].sess) \in ReqType
      BY <1>1, <2>1, RequestGoes
    <2>4. Handles(r, Becomes(r, p, request[r].sess)) /\ Holds(Becomes(r, p, request[r].sess))
      BY <2>2 DEF Handles, Holds, Becomes
    <2>5. QED
      BY <2>2, <2>3, <2>4
  <1>13. CASE McpPool(n)!Close(r) \/ McpPool(n)!CloseFails(r)
    <2> DEFINE p == McpPool(n)!AfterDisconnect(r)
               x == Becomes(r, p, 0)
    <2>1. RestTyped' /\ request[r].sess # 0
      BY <1>1, <1>2, <1>13 DEF McpPool!Close, McpPool!CloseFails, McpPool!ToolsAfterClose, McpPool!At,
         Holds, RestTyped, PoolConstants
    <2>2. request' = [request EXCEPT ![r].pc = p, ![r].sess = 0]
      BY <1>13 DEF McpPool!Close, McpPool!CloseFails
    <2>3. ReqBecomes(r, x) /\ x \in ReqType
      BY <1>1, <1>2, <1>11, <2>2, RequestGoes
    <2>4. Holds(x)
      BY <1>11 DEF Holds, Becomes
    <2>5. Handles(r, x)
      BY <1>13, <2>1 DEF McpPool!Close, McpPool!CloseFails, Handles, Becomes
    <2>6. QED
      BY <2>1, <2>3, <2>4, <2>5
  <1>14. CASE McpPool(n)!OpenTransport(r)
    <2> DEFINE x == Becomes(r, "discovering", opened + 1)
    <2>1. RestTyped' /\ opened + 1 \in {0} \cup (1 .. MaxOpened) /\ opened + 1 # 0
      BY <1>1, <1>14 DEF McpPool!OpenTransport, RestTyped, PoolConstants
    <2>2. ReqBecomes(r, x) /\ x \in ReqType
      BY <1>1, <1>14, <2>1, RequestGoes DEF McpPool!OpenTransport
    <2>3. Handles(r, x) /\ Holds(x)
      BY <1>14, <2>1 DEF McpPool!OpenTransport, Handles, Holds, Becomes
    <2>4. QED
      BY <2>1, <2>2, <2>3
  <1>15. QED
    BY <1>4, <1>5, <1>7, <1>8, <1>9, <1>10, <1>12, <1>13, <1>14 DEF RequestStep

(* So every step keeps the invariant, however many requests are active. *)
LEMMA PoolStep ==
  ASSUME NEW n
  PROVE  PoolConstants /\ PoolInv /\ (McpPool(n)!Next \/ UNCHANGED poolVars) => PoolInv'
  <1>1. ASSUME PoolConstants, PoolInv, McpPool(n)!Next PROVE PoolInv'
    <2>1. PICK r \in Requests : RequestStep(n, r)
      BY <1>1 DEF McpPool!Next, RequestStep
    <2>2. QED
      BY <1>1, <2>1, PoolMoves, OwnedStep
  <1>2. PoolInv /\ UNCHANGED poolVars => PoolInv'
    BY DEF PoolInv, RestTyped, ReqTyped, Owned, poolVars
  <1>3. QED
    BY <1>1, <1>2

(* It holds of an empty pool. *)
LEMMA PoolInit == ASSUME NEW n PROVE PoolConstants /\ McpPool(n)!Init => PoolInv
  <1> SUFFICES ASSUME PoolConstants, McpPool(n)!Init PROVE PoolInv
    OBVIOUS
  <1>1. RestTyped /\ 0 \in 0 .. MaxRecords
    BY DEF McpPool!Init, RestTyped, PoolConstants
  <1>2. ReqTyped
    BY <1>1 DEF McpPool!Init, McpPool!Idle, ReqTyped, ReqType
  <1>3. Owned
    BY DEF McpPool!Init, McpPool!Idle, Owned
  <1>4. QED
    BY <1>1, <1>2, <1>3 DEF PoolInv

(* Requests that follow one another. *)
PoolHand(x) ==
  /\ record = x.rec /\ record # 0
  /\ x.pc = "disconnecting" => tools = conn /\ x.op # "create"
  /\ x.pc # "disconnecting" => conn = 0
  /\ x.pc \notin {"disconnecting", "closing"} => tools = 0

PoolRests == tools = conn /\ (conn # 0 => record # 0)

PoolSerial ==
  /\ \A q, s \in Requests : request[q].pc # "idle" /\ request[s].pc # "idle" => q = s
  /\ \A q \in Requests : request[q].pc # "idle" => PoolHand(request[q])
  /\ (\A q \in Requests : request[q].pc = "idle") => PoolRests

Lost == {m \in open : m # conn /\ \A q \in Requests : request[q].sess # m}
LostByFaults == Cardinality(Lost) <= poolFaults

(* One at a time: what the module of the pool says. *)
LEMMA PoolSerialParts ==
  PoolInv => (PoolSerial /\ LostByFaults
                <=> McpPool(1)!StepsWhenSerial /\ McpPool(1)!InStepWhenSerial)
  <1> SUFFICES ASSUME PoolInv
               PROVE  PoolSerial /\ LostByFaults
                        <=> McpPool(1)!StepsWhenSerial /\ McpPool(1)!InStepWhenSerial
    OBVIOUS
  <1>1. McpPool(1)!StepsWhenSerial <=>
          /\ \A q, s \in Requests : request[q].pc # "idle" /\ request[s].pc # "idle" => q = s
          /\ \A q \in Requests : request[q].pc # "idle" => PoolHand(request[q])
    BY DEF McpPool!StepsWhenSerial, McpPool!Active, PoolHand
  <1>2. 0 \notin open
    BY DEF PoolInv, RestTyped
  <1>3. McpPool(1)!Leaked = Lost
    BY <1>2 DEF McpPool!Leaked, McpPool!Held, Lost
  <1>4. McpPool(1)!Quiet <=> \A q \in Requests : request[q].pc = "idle"
    BY DEF McpPool!Quiet, McpPool!Active
  <1>5. McpPool(1)!InStepWhenSerial <=>
          /\ (\A q \in Requests : request[q].pc = "idle") => PoolRests
          /\ LostByFaults
    BY <1>3, <1>4, SameCount DEF McpPool!InStepWhenSerial, PoolRests, LostByFaults
  <1>6. QED
    BY <1>1, <1>5 DEF PoolSerial

(* Nobody else is at work when a request takes its step.                           *)
LEMMA OthersAreIdle ==
  ASSUME PoolConstants, PoolInv, PoolSerial, NEW r \in Requests, RequestStep(1, r)
  PROVE  /\ \A q \in Requests \ {r} : request[q].pc = "idle"
         /\ request[r].pc # "idle" => PoolHand(request[r])
         /\ request[r].pc = "idle" => PoolRests
  <1>1. ASSUME r \notin McpPool(1)!Active, McpPool(1)!Cardinality(McpPool(1)!Active) < 1
        PROVE  \A q \in Requests : request[q].pc = "idle"
    <2>1. McpPool(1)!Active \subseteq Requests
      BY DEF McpPool!Active
    <2>2. IsFiniteSet(McpPool(1)!Active)
      BY <2>1, FS_Subset DEF PoolConstants
    <2>3. Cardinality(McpPool(1)!Active) \in Nat /\ Cardinality(McpPool(1)!Active) < 1
      BY <1>1, <2>2, FS_CardinalityType, SameCount
    <2>4. Cardinality(McpPool(1)!Active) = 0
      BY <2>3
    <2>5. McpPool(1)!Active = {}
      BY <2>2, <2>4, FS_EmptySet
    <2>6. QED
      BY <2>5 DEF McpPool!Active
  <1>2. CASE request[r].pc # "idle"
    BY <1>2 DEF PoolSerial
  <1>3. CASE request[r].pc = "idle"
    <2>1. McpPool(1)!Create(r) \/ \E op \in McpPool(1)!Ops : McpPool(1)!Arrive(r, op)
      BY <1>3 DEF RequestStep, McpPool!DeleteRow, McpPool!Pop, McpPool!PopNothing, McpPool!Close,
         McpPool!CloseFails, McpPool!ConnectIsDone, McpPool!BeginConnect, McpPool!OpenTransport,
         McpPool!OpenFails, McpPool!Discovered, McpPool!DiscoveryFails, McpPool!At
    <2>2. r \notin McpPool(1)!Active /\ McpPool(1)!Cardinality(McpPool(1)!Active) < 1
      BY <2>1 DEF McpPool!Create, McpPool!Arrive
    <2>3. \A q \in Requests : request[q].pc = "idle"
      BY <1>1, <2>2
    <2>4. QED
      BY <2>3 DEF PoolSerial
  <1>4. QED
    BY <1>2, <1>3

(* What it has in hand stays in step with the dictionaries and the table.           *)
LEMMA HandStep ==
  ASSUME PoolConstants, PoolInv, PoolSerial, NEW r \in Requests, RequestStep(1, r)
  PROVE  /\ request'[r].pc # "idle" => PoolHand(request[r])'
         /\ request'[r].pc = "idle" => PoolRests'
  <1>1. /\ request[r].pc # "idle" => PoolHand(request[r])
        /\ request[r].pc = "idle" => PoolRests
    BY OthersAreIdle
  <1>2. /\ request[r] \in ReqType /\ request \in [Requests -> ReqType] /\ record \in Nat
        /\ created \in Nat
        /\ request[r].sess # 0 <=> request[r].pc \in {"closing", "discovering"}
    BY DEF PoolInv, ReqTyped, RestTyped, PoolConstants
  <1>3. CASE McpPool(1)!Create(r)
    BY <1>1, <1>2, <1>3 DEF McpPool!Create, McpPool!Active, PoolHand, PoolRests
  <1>4. CASE \E op \in McpPool(1)!Ops : McpPool(1)!Arrive(r, op)
    BY <1>1, <1>2, <1>4 DEF McpPool!Arrive, McpPool!Active, PoolHand, PoolRests
  <1>5. CASE McpPool(1)!DeleteRow(r)
    BY <1>1, <1>2, <1>5 DEF McpPool!DeleteRow, McpPool!At, McpPool!Ends, McpPool!Idle, PoolHand,
       PoolRests
  <1>6. CASE McpPool(1)!Pop(r)
    BY <1>1, <1>2, <1>6 DEF McpPool!Pop, McpPool!ConnAfterPop, McpPool!At, PoolHand, ReqType
  <1>7. CASE McpPool(1)!PopNothing(r)
    BY <1>1, <1>2, <1>7 DEF McpPool!PopNothing, McpPool!At, McpPool!Goes, McpPool!AfterDisconnect,
       PoolHand, ReqType
  <1>8. CASE McpPool(1)!Close(r) \/ McpPool(1)!CloseFails(r)
    BY <1>1, <1>2, <1>8 DEF McpPool!Close, McpPool!CloseFails, McpPool!At, McpPool!ToolsAfterClose,
       McpPool!AfterDisconnect, PoolHand, ReqType
  <1>9. CASE McpPool(1)!ConnectIsDone(r) \/ McpPool(1)!OpenFails(r) \/ McpPool(1)!DiscoveryFails(r)
    BY <1>1, <1>2, <1>9 DEF McpPool!ConnectIsDone, McpPool!OpenFails, McpPool!DiscoveryFails,
       McpPool!At, McpPool!Ends, McpPool!Idle, McpPool!AlreadyConnected, PoolHand, PoolRests
  <1>10. CASE McpPool(1)!BeginConnect(r)
    BY <1>1, <1>2, <1>10 DEF McpPool!BeginConnect, McpPool!At, McpPool!Goes, PoolHand, ReqType
  <1>11. CASE McpPool(1)!OpenTransport(r)
    BY <1>1, <1>2, <1>11 DEF McpPool!OpenTransport, McpPool!At, PoolHand, ReqType
  <1>12. CASE McpPool(1)!Discovered(r)
    BY <1>1, <1>2, <1>12 DEF McpPool!Discovered, McpPool!At, McpPool!Ends, McpPool!Idle, PoolHand,
       PoolRests
  <1>13. QED
    BY <1>3, <1>4, <1>5, <1>6, <1>7, <1>8, <1>9, <1>10, <1>11, <1>12 DEF RequestStep

(* A session is lost only through a fault.                                         *)
LEMMA LostStep ==
  ASSUME PoolConstants, PoolInv, PoolSerial, LostByFaults, NEW r \in Requests, RequestStep(1, r)
  PROVE  LostByFaults'
  <1>1. PICK x \in ReqType : ReqBecomes(r, x) /\ Handles(r, x) /\ Holds(x)
    BY PoolMoves
  <1>2. RestTyped /\ 0 \notin open /\ poolFaults \in Nat
    BY DEF PoolInv, RestTyped
  <1>3. IsFiniteSet(Lost) /\ Cardinality(Lost) \in Nat /\ Cardinality(Lost) <= poolFaults
    <2>1. Lost \subseteq open /\ open \subseteq 1 .. opened
      BY <1>2 DEF RestTyped, Lost
    <2>2. opened \in Int
      BY <1>2 DEF RestTyped, PoolConstants
    <2>3. IsFiniteSet(1 .. opened)
      BY <2>2, FS_Interval
    <2>4. IsFiniteSet(Lost)
      BY <2>1, <2>3, FS_Subset
    <2>5. QED
      BY <2>4, FS_Subset, FS_CardinalityType DEF LostByFaults
  <1>4. /\ poolFaults' = poolFaults \/ poolFaults' = poolFaults + 1
        /\ request[r].sess # 0 /\ request'[r].sess = 0 /\ UNCHANGED <<conn, open>> =>
             poolFaults' = poolFaults + 1
        /\ request[r].sess # 0 => request'[r].sess = 0
    <2>1. /\ request[r].sess # 0 <=> request[r].pc \in {"closing", "discovering"}
          /\ request \in [Requests -> ReqType]
          /\ request[r].sess # 0 => request[r].sess \in open /\ request[r].sess # conn
      BY DEF PoolInv, ReqTyped, Owned
    <2>2. CASE request[r].sess = 0
      BY <2>2 DEF RequestStep, McpPool!Create, McpPool!Arrive, McpPool!DeleteRow, McpPool!Pop,
         McpPool!PopNothing, McpPool!Close, McpPool!CloseFails, McpPool!ConnectIsDone,
         McpPool!BeginConnect, McpPool!OpenTransport, McpPool!OpenFails, McpPool!Discovered,
         McpPool!DiscoveryFails
    <2>3. CASE request[r].sess # 0
      <3>1. \/ McpPool(1)!Close(r) \/ McpPool(1)!CloseFails(r)
            \/ McpPool(1)!Discovered(r) \/ McpPool(1)!DiscoveryFails(r)
        BY <2>1, <2>3 DEF RequestStep, McpPool!Create, McpPool!Arrive, McpPool!DeleteRow, McpPool!Pop,
           McpPool!PopNothing, McpPool!ConnectIsDone, McpPool!BeginConnect, McpPool!OpenTransport,
           McpPool!OpenFails, McpPool!At, McpPool!Active
      <3>2. QED
        BY <2>1, <2>3, <3>1 DEF McpPool!Close, McpPool!CloseFails, McpPool!Discovered,
           McpPool!DiscoveryFails, McpPool!Ends, McpPool!Idle, ReqType
    <2>4. QED
      BY <2>2, <2>3
  <1>5. request[r].sess # 0 /\ conn' = request[r].sess => conn = 0
    <2>1. request[r].sess # 0 => request[r].sess # conn /\ request[r].pc # "disconnecting"
      BY DEF PoolInv, Owned, ReqTyped
    <2>2. request[r].sess # 0 => request[r].pc # "idle" /\ PoolHand(request[r])
      BY OthersAreIdle DEF PoolInv, ReqTyped
    <2>3. QED
      BY <2>1, <2>2 DEF PoolHand
  <1>6. /\ request'[r].sess = x.sess
        /\ \A q \in Requests \ {r} : request'[q].sess = request[q].sess
    BY <1>1 DEF ReqBecomes
  <1>7. Lost' \subseteq Lost \/ (Lost' \subseteq Lost \cup {request[r].sess} /\ poolFaults' = poolFaults + 1)
    <2>1. CASE x.sess = 0 /\ UNCHANGED <<conn, open, opened>>
      <3>1. CASE request[r].sess = 0
        BY <1>2, <1>6, <2>1, <3>1 DEF Lost
      <3>2. CASE request[r].sess # 0
        BY <1>4, <1>6, <2>1, <3>2 DEF Lost
      <3>3. QED
        BY <3>1, <3>2
    <2>2. CASE x.sess = 0 /\ open' = open \ {request[r].sess} /\ UNCHANGED <<conn, opened>>
               /\ request[r].sess # 0
      BY <1>6, <2>2 DEF Lost
    <2>3. CASE conn # 0 /\ x.sess = conn /\ conn' = 0 /\ UNCHANGED <<open, opened>>
      <3>1. request[r].sess = 0 \/ request[r].sess # 0
        OBVIOUS
      <3>2. request[r].sess = 0
        BY <1>1, <2>3, OthersAreIdle DEF PoolInv, ReqTyped, PoolHand
      <3>3. QED
        BY <1>2, <1>6, <2>3, <3>2 DEF Lost
    <2>4. CASE x.sess = opened + 1 /\ opened < MaxOpened /\ opened' = opened + 1
               /\ open' = open \cup {opened + 1} /\ conn' = conn
      <3>1. request[r].sess = 0
        BY <1>2, <1>4, <1>6, <2>4 DEF RestTyped, PoolConstants
      <3>2. QED
        BY <1>2, <1>6, <2>4, <3>1 DEF Lost
    <2>5. CASE x.sess = 0 /\ request[r].sess # 0 /\ conn' = request[r].sess
               /\ UNCHANGED <<open, opened>>
      BY <1>2, <1>5, <1>6, <2>5 DEF Lost
    <2>6. QED
      BY <1>1, <2>1, <2>2, <2>3, <2>4, <2>5 DEF Handles
  <1>8. CASE Lost' \subseteq Lost
    <2>1. IsFiniteSet(Lost') /\ Cardinality(Lost') \in Nat /\ Cardinality(Lost') <= Cardinality(Lost)
      BY <1>3, <1>8, FS_Subset, FS_CardinalityType
    <2>2. QED
      BY <1>2, <1>3, <1>4, <2>1 DEF LostByFaults
  <1>9. CASE Lost' \subseteq Lost \cup {request[r].sess} /\ poolFaults' = poolFaults + 1
    <2> DEFINE more == Lost \cup {request[r].sess}
    <2>1. PICK e : e = request[r].sess
      OBVIOUS
    <2>2. /\ IsFiniteSet(Lost \cup {e})
          /\ Cardinality(Lost \cup {e}) = Cardinality(Lost)
             \/ Cardinality(Lost \cup {e}) = Cardinality(Lost) + 1
      BY <1>3, FS_AddElement
    <2>3. IsFiniteSet(more) /\ Cardinality(more) \in Nat /\ Cardinality(more) <= Cardinality(Lost) + 1
      BY <1>3, <2>1, <2>2
    <2>4. IsFiniteSet(Lost') /\ Cardinality(Lost') \in Nat /\ Cardinality(Lost') <= Cardinality(more)
      BY <1>9, <2>3, FS_Subset, FS_CardinalityType
    <2>5. QED
      BY <1>2, <1>3, <1>9, <2>3, <2>4 DEF LostByFaults
  <1>10. QED
    BY <1>7, <1>8, <1>9

(* A step of one request keeps those that follow one another in step.             *)
LEMMA SerialStep ==
  ASSUME PoolConstants, PoolInv, PoolSerial, LostByFaults,
         McpPool(1)!Next \/ UNCHANGED poolVars
  PROVE  PoolSerial' /\ LostByFaults'
  <1>1. ASSUME NEW r \in Requests, RequestStep(1, r) PROVE PoolSerial' /\ LostByFaults'
    <2>1. PICK x \in ReqType : ReqBecomes(r, x)
      BY <1>1, PoolMoves
    <2>2. /\ \A q \in Requests \ {r} : request'[q].pc = "idle"
          /\ request'[r].pc # "idle" => PoolHand(request[r])'
          /\ request'[r].pc = "idle" => PoolRests'
      BY <1>1, <2>1, OthersAreIdle, HandStep DEF ReqBecomes
    <2>3. PoolSerial'
      <3>1. \A q \in Requests : request'[q].pc # "idle" => q = r
        BY <2>2
      <3>2. QED
        BY <2>2, <3>1 DEF PoolSerial
    <2>4. QED
      BY <1>1, <2>3, LostStep
  <1>2. CASE McpPool(1)!Next
    <2>1. PICK r \in Requests : RequestStep(1, r)
      BY <1>2 DEF McpPool!Next, RequestStep
    <2>2. QED
      BY <1>1, <2>1
  <1>3. CASE UNCHANGED poolVars
    BY <1>3 DEF poolVars, PoolSerial, PoolHand, PoolRests, LostByFaults, Lost
  <1>4. QED
    BY <1>2, <1>3

(* It holds of an empty pool. *)
LEMMA SerialInit == ASSUME PoolConstants, McpPool(2)!Init PROVE PoolSerial /\ LostByFaults
  <1>1. PoolSerial
    BY DEF McpPool!Init, McpPool!Idle, PoolSerial, PoolRests
  <1>2. Lost = {} /\ poolFaults = 0
    BY DEF McpPool!Init, Lost
  <1>3. QED
    BY <1>1, <1>2, FS_EmptySet DEF LostByFaults

-----------------------------------------------------------------------------
(* The browser.                                                               *)

CallPcs == {"idle", "evicting", "closing", "opening", "acting", "failing", "cleaning"}
CallType == [pc : CallPcs, sid : SessionIds, page : {0} \cup (1 .. MaxPages),
             stale : SUBSET SessionIds, gone : SessionIds]

BrowserConstants == /\ IsFiniteSet(Calls) /\ Calls # {} /\ IsFiniteSet(SessionIds)
                    /\ SessionIds # {}
                    /\ MaxAge \in Nat /\ MaxPages \in Nat /\ BrowserTime \in Nat

PagesTyped ==
  /\ clock \in 0 .. BrowserTime
  /\ pages \in [SessionIds -> {0} \cup (1 .. MaxPages)]
  /\ stamp \in [SessionIds -> 0 .. clock] /\ used \in [SessionIds -> 0 .. clock]
  /\ dated \subseteq SessionIds
  /\ shown \subseteq 1 .. pageCount /\ pageCount \in 0 .. MaxPages

IsClosing(x) == x.pc \in {"closing", "cleaning"}
HasPage(x)   == x.pc \in {"closing", "acting", "cleaning"} => x.page # 0

CallsTyped == call \in [Calls -> CallType] /\ \A c \in Calls : HasPage(call[c])

PagesOwned ==
  /\ \A s \in SessionIds : pages[s] # 0 => pages[s] \in shown
  /\ \A s, t \in SessionIds : pages[s] # 0 /\ pages[t] # 0 /\ pages[s] = pages[t] => s = t
  /\ \A c \in Calls : IsClosing(call[c]) =>
       /\ call[c].page \in 1 .. pageCount
       /\ \A s \in SessionIds : pages[s] # 0 => pages[s] # call[c].page

BrowserInv == PagesTyped /\ CallsTyped /\ PagesOwned

(* The invariant of the browser is what its module says, however many are active. *)
LEMMA BrowserParts ==
  ASSUME NEW n, NEW m
  PROVE  BrowserInv <=> /\ Browser(n, m)!TypeOK /\ Browser(n, m)!CachedPagesAreOpen
                        /\ Browser(n, m)!ClosedAreUncached
  <1>1. Browser(n, m)!TypeOK <=> PagesTyped /\ CallsTyped
    BY DEF Browser!TypeOK, PagesTyped, CallsTyped, CallType, CallPcs, Browser!Pcs, Browser!Pages,
       HasPage
  <1>2. Browser(n, m)!CachedPagesAreOpen /\ Browser(n, m)!ClosedAreUncached <=> PagesOwned
    BY DEF Browser!CachedPagesAreOpen, Browser!ClosedAreUncached, Browser!InHand, Browser!Closing,
       Browser!Cached, PagesOwned, IsClosing
  <1>3. QED
    BY <1>1, <1>2 DEF BrowserInv

(* One call goes on and the others stay as they are.                               *)
CallBecomes(c, x) == /\ call' = [d \in Calls |-> call'[d]] /\ call'[c] = x
                     /\ \A d \in Calls \ {c} : call'[d] = call[d]

(* What its step may do to the pages: nothing, take one out of the cache, close the *)
(* one it has taken out, or open one.                                              *)
Turns(c, x) ==
  \/ ~IsClosing(x) /\ UNCHANGED <<pages, shown, pageCount>>
  \/ /\ IsClosing(x) /\ UNCHANGED <<shown, pageCount>>
     /\ \E s \in SessionIds : /\ pages[s] # 0 /\ x.page = pages[s]
                              /\ pages' = [pages EXCEPT ![s] = 0]
  \/ /\ ~IsClosing(x) /\ IsClosing(call[c]) /\ shown' = shown \ {call[c].page}
     /\ UNCHANGED <<pages, pageCount>>
  \/ /\ ~IsClosing(x) /\ pageCount < MaxPages /\ pageCount' = pageCount + 1
     /\ shown' = shown \cup {pageCount + 1}
     /\ \E s \in SessionIds : pages' = [pages EXCEPT ![s] = pageCount + 1]

(* Whatever a call does to the pages, none is in the cache twice or closed. *)
LEMMA TurnsOwned ==
  ASSUME BrowserConstants, BrowserInv, NEW c \in Calls, NEW x \in CallType, HasPage(x),
         CallBecomes(c, x), Turns(c, x), PagesTyped'
  PROVE  BrowserInv'
  <1>1. CallsTyped'
    BY DEF BrowserInv, CallsTyped, CallBecomes
  <1>2. PagesTyped /\ PagesOwned /\ pageCount + 1 \notin shown /\ pageCount \in Nat
        /\ pages \in [SessionIds -> {0} \cup (1 .. MaxPages)]
    BY DEF BrowserInv, PagesTyped, BrowserConstants
  <1>3. call'[c] = x /\ \A d \in Calls : d # c => call'[d] = call[d]
    BY DEF CallBecomes
  <1>4. ASSUME ~IsClosing(x) /\ UNCHANGED <<pages, shown, pageCount>>
        PROVE  PagesOwned'
    BY <1>2, <1>3, <1>4 DEF PagesOwned, IsClosing
  <1>5. ASSUME IsClosing(x) /\ UNCHANGED <<shown, pageCount>>,
               NEW s \in SessionIds, pages[s] # 0, x.page = pages[s],
               pages' = [pages EXCEPT ![s] = 0]
        PROVE  PagesOwned'
    <2>1. pages[s] \in 1 .. pageCount
      BY <1>2, <1>5 DEF PagesOwned, PagesTyped
    <2>2. pages'[s] = 0 /\ \A u \in SessionIds \ {s} : pages'[u] = pages[u]
      BY <1>2, <1>5
    <2>3. \A u \in SessionIds : pages'[u] # 0 => u # s /\ pages'[u] = pages[u]
      BY <2>2
    <2>4. \A d \in Calls : IsClosing(call'[d]) =>
            /\ call'[d].page \in 1 .. pageCount
            /\ \A u \in SessionIds : pages'[u] # 0 => pages'[u] # call'[d].page
      BY <1>2, <1>3, <1>5, <2>1, <2>3 DEF PagesOwned, IsClosing
    <2>5. /\ \A u \in SessionIds : pages'[u] # 0 => pages'[u] \in shown
          /\ \A u, t \in SessionIds : pages'[u] # 0 /\ pages'[t] # 0 /\ pages'[u] = pages'[t] => u = t
      BY <1>2, <2>3 DEF PagesOwned
    <2>6. QED
      BY <1>5, <2>4, <2>5 DEF PagesOwned, IsClosing
  <1>6. ASSUME ~IsClosing(x), IsClosing(call[c]), shown' = shown \ {call[c].page},
               UNCHANGED <<pages, pageCount>>
        PROVE  PagesOwned'
    BY <1>2, <1>3, <1>6 DEF PagesOwned, IsClosing
  <1>7. ASSUME ~IsClosing(x), pageCount < MaxPages, pageCount' = pageCount + 1,
               shown' = shown \cup {pageCount + 1}, NEW s \in SessionIds,
               pages' = [pages EXCEPT ![s] = pageCount + 1]
        PROVE  PagesOwned'
    <2>1. pages'[s] = pageCount + 1 /\ \A u \in SessionIds \ {s} : pages'[u] = pages[u]
      BY <1>2, <1>7
    <2>2. \A u \in SessionIds : pages[u] # pageCount + 1
      BY <1>2 DEF PagesOwned
    <2>3. \A d \in Calls : IsClosing(call'[d]) =>
            d # c /\ call[d].page \in 1 .. pageCount /\ call'[d] = call[d]
      BY <1>2, <1>3, <1>7 DEF PagesOwned, IsClosing
    <2>4. \A d \in Calls : IsClosing(call'[d]) =>
            /\ call'[d].page \in 1 .. pageCount + 1
            /\ \A u \in SessionIds : pages'[u] # 0 => pages'[u] # call'[d].page
      <3>1. SUFFICES ASSUME NEW d \in Calls, IsClosing(call'[d])
                     PROVE  /\ call'[d].page \in 1 .. pageCount + 1
                            /\ \A u \in SessionIds : pages'[u] # 0 => pages'[u] # call'[d].page
        OBVIOUS
      <3>2. call[d].page \in 1 .. pageCount /\ call'[d] = call[d] /\ IsClosing(call[d])
        BY <2>3, <3>1
      <3>3. \A u \in SessionIds : pages[u] # 0 => pages[u] # call[d].page
        BY <1>2, <3>2 DEF PagesOwned
      <3>4. call[d].page # pageCount + 1 /\ call[d].page \in 1 .. pageCount + 1
        BY <1>2, <3>2
      <3>5. QED
        BY <2>1, <3>2, <3>3, <3>4
    <2>5. /\ \A u \in SessionIds : pages'[u] # 0 => pages'[u] \in shown'
          /\ \A u, t \in SessionIds : pages'[u] # 0 /\ pages'[t] # 0 /\ pages'[u] = pages'[t] => u = t
      BY <1>2, <1>7, <2>1, <2>2 DEF PagesOwned
    <2>6. QED
      BY <1>7, <2>4, <2>5 DEF PagesOwned, IsClosing
  <1>8. PagesOwned'
    BY <1>4, <1>5, <1>6, <1>7 DEF Turns
  <1>9. QED
    BY <1>1, <1>8 DEF BrowserInv

(* The record of a call as it goes on.                                             *)
Onward(c, pc, page) ==
  [pc |-> pc, sid |-> call[c].sid, page |-> page, stale |-> call[c].stale, gone |-> call[c].gone]

IdleCall == LET any == CHOOSE s \in SessionIds : TRUE
            IN  [pc |-> "idle", sid |-> any, page |-> 0, stale |-> {}, gone |-> any]

(* A call that is idle closes no page. *)
LEMMA IdleTyped == ASSUME BrowserConstants PROVE IdleCall \in CallType /\ HasPage(IdleCall) /\ ~IsClosing(IdleCall)
  <1>1. (CHOOSE s \in SessionIds : TRUE) \in SessionIds
    BY DEF BrowserConstants
  <1>2. QED
    BY <1>1 DEF IdleCall, CallType, CallPcs, HasPage, IsClosing

(* A call that goes on leaves the others alone. *)
LEMMA CallGoes ==
  ASSUME BrowserConstants, CallsTyped, NEW c \in Calls, NEW p \in CallPcs
  PROVE  /\ call' = [call EXCEPT ![c] = IdleCall] => CallBecomes(c, IdleCall)
         /\ call' = [call EXCEPT ![c].pc = p] => CallBecomes(c, Onward(c, p, call[c].page))
         /\ \A g : call' = [call EXCEPT ![c].pc = p, ![c].page = g] =>
                     CallBecomes(c, Onward(c, p, g))
  <1>1. call \in [Calls -> CallType]
    BY DEF CallsTyped
  <1>2. call' = [call EXCEPT ![c] = IdleCall] => CallBecomes(c, IdleCall)
    BY <1>1 DEF CallBecomes
  <1>3. ASSUME call' = [call EXCEPT ![c].pc = p]
        PROVE  CallBecomes(c, Onward(c, p, call[c].page))
    <2>1. call'[c] = Onward(c, p, call[c].page)
      BY <1>1, <1>3 DEF CallType, Onward
    <2>2. /\ \A d \in Calls \ {c} : call'[d] = call[d]
          /\ call' = [d \in Calls |-> call'[d]]
      BY <1>1, <1>3
    <2>3. QED
      BY <2>1, <2>2 DEF CallBecomes
  <1>4. ASSUME NEW g, call' = [call EXCEPT ![c].pc = p, ![c].page = g]
        PROVE  CallBecomes(c, Onward(c, p, g))
    <2>1. call'[c] = Onward(c, p, g)
      BY <1>1, <1>4 DEF CallType, Onward
    <2>2. /\ \A d \in Calls \ {c} : call'[d] = call[d]
          /\ call' = [d \in Calls |-> call'[d]]
      BY <1>1, <1>4
    <2>3. QED
      BY <2>1, <2>2 DEF CallBecomes
  <1>5. QED
    BY <1>2, <1>3, <1>4

(* It keeps its type. *)
LEMMA OnwardTyped ==
  ASSUME CallsTyped, NEW c \in Calls, NEW p \in CallPcs, NEW g \in {0} \cup (1 .. MaxPages)
  PROVE  /\ Onward(c, p, g) \in CallType
         /\ IsClosing(Onward(c, p, g)) <=> p \in {"closing", "cleaning"}
         /\ HasPage(Onward(c, p, g)) <=> (p \in {"closing", "acting", "cleaning"} => g # 0)
  BY DEF CallsTyped, CallType, Onward, IsClosing, HasPage

(* What all the steps that leave the pages alone have in common.                   *)
LEMMA PagesRest ==
  ASSUME PagesTyped, UNCHANGED <<clock, pages, stamp, dated, shown, pageCount>>,
         used' \in [SessionIds -> 0 .. clock]
  PROVE  PagesTyped'
  BY DEF PagesTyped

CallMoves(c) == \E x \in CallType :
  CallBecomes(c, x) /\ HasPage(x) /\ Turns(c, x) /\ PagesTyped'

(* Opening, using and refusing.                                                    *)
LEMMA QuietCalls ==
  ASSUME BrowserConstants, BrowserInv, NEW n, NEW m, NEW c \in Calls,
         \/ \E s \in SessionIds : Browser(n, m)!Begin(c, s)
         \/ Browser(n, m)!Refuse(c) \/ Browser(n, m)!Reuse(c) \/ Browser(n, m)!BeginOpen(c)
         \/ Browser(n, m)!OpenFails(c) \/ Browser(n, m)!ActionDone(c)
         \/ Browser(n, m)!ActionRaises(c) \/ Browser(n, m)!NothingToClean(c)
  PROVE  CallMoves(c)
  <1>1. PagesTyped /\ CallsTyped /\ call \in [Calls -> CallType]
    BY DEF BrowserInv, CallsTyped
  <1>2. IdleCall = Browser(n, m)!Idle
    BY DEF IdleCall, Browser!Idle
  <1>3. 0 \in {0} \cup (1 .. MaxPages) /\ call[c].page \in {0} \cup (1 .. MaxPages)
    BY <1>1 DEF CallType
  <1>4. ASSUME NEW x \in CallType, HasPage(x), ~IsClosing(x), CallBecomes(c, x),
               UNCHANGED <<clock, pages, stamp, dated, shown, pageCount>>,
               used' \in [SessionIds -> 0 .. clock]
        PROVE  CallMoves(c)
    BY <1>1, <1>4, PagesRest DEF CallMoves, Turns
  <1>5. used \in [SessionIds -> 0 .. clock]
    BY <1>1 DEF PagesTyped
  <1>6. CASE \E s \in SessionIds : Browser(n, m)!Begin(c, s)
    <2>1. PICK s \in SessionIds : Browser(n, m)!Begin(c, s)
      BY <1>6
    <2> DEFINE stale == Browser(n, m)!Stale
    <2>2. stale \in SUBSET SessionIds
      BY <1>1 DEF Browser!Stale, PagesTyped
    <2>3. call' = [call EXCEPT ![c] = [IdleCall EXCEPT !.pc = "evicting", !.sid = s, !.stale = stale]]
      BY <1>2, <2>1 DEF Browser!Begin
    <2> HIDE DEF stale
    <2>4. PICK x \in CallType : x = [pc |-> "evicting", sid |-> s, page |-> 0, stale |-> stale,
                                     gone |-> IdleCall.gone]
      BY <2>2, IdleTyped DEF CallType, CallPcs
    <2>5. CallBecomes(c, x)
      <3>1. call'[c] = x
        BY <1>1, <2>3, <2>4 DEF IdleCall
      <3>2. /\ \A d \in Calls \ {c} : call'[d] = call[d]
            /\ call' = [d \in Calls |-> call'[d]]
        BY <1>1, <2>3
      <3>3. QED
        BY <3>1, <3>2 DEF CallBecomes
    <2>6. HasPage(x) /\ ~IsClosing(x)
      BY <2>4 DEF HasPage, IsClosing
    <2>7. QED
      BY <1>4, <1>5, <2>1, <2>5, <2>6 DEF Browser!Begin
  <1>7. CASE Browser(n, m)!Refuse(c) \/ Browser(n, m)!ActionDone(c) \/ Browser(n, m)!NothingToClean(c)
    <2>1. call' = [call EXCEPT ![c] = IdleCall]
          /\ UNCHANGED <<clock, pages, stamp, dated, shown, pageCount, used>>
      BY <1>2, <1>7 DEF Browser!Refuse, Browser!ActionDone, Browser!NothingToClean
    <2>2. CallBecomes(c, IdleCall)
      BY <1>1, <2>1, CallGoes DEF CallPcs
    <2>3. QED
      BY <1>4, <1>5, <2>1, <2>2, IdleTyped
  <1>8. CASE Browser(n, m)!BeginOpen(c) \/ Browser(n, m)!OpenFails(c)
    <2>1. PICK p \in {"opening", "failing"} : call' = [call EXCEPT ![c].pc = p]
      BY <1>8 DEF Browser!BeginOpen, Browser!OpenFails, Browser!Goes
    <2>2. UNCHANGED <<clock, pages, stamp, dated, shown, pageCount, used>>
      BY <1>8 DEF Browser!BeginOpen, Browser!OpenFails
    <2>3. p \in CallPcs /\ p \notin {"closing", "acting", "cleaning"}
      BY DEF CallPcs
    <2>4. CallBecomes(c, Onward(c, p, call[c].page))
      BY <1>1, <2>1, <2>3, CallGoes
    <2>5. Onward(c, p, call[c].page) \in CallType /\ HasPage(Onward(c, p, call[c].page))
          /\ ~IsClosing(Onward(c, p, call[c].page))
      BY <1>1, <1>3, <2>3, OnwardTyped
    <2>6. QED
      BY <1>4, <1>5, <2>2, <2>4, <2>5
  <1>9. CASE Browser(n, m)!Reuse(c) \/ Browser(n, m)!ActionRaises(c)
    <2>1. /\ call[c].sid \in SessionIds /\ clock \in 0 .. clock
          /\ pages[call[c].sid] \in {0} \cup (1 .. MaxPages)
      BY <1>1 DEF CallType, PagesTyped, BrowserConstants
    <2>2. PICK p \in {"acting", "failing"}, g \in {0} \cup (1 .. MaxPages) :
            call' = [call EXCEPT ![c].pc = p, ![c].page = g] /\ (p = "acting" => g # 0)
      BY <1>3, <1>9, <2>1 DEF Browser!Reuse, Browser!ActionRaises
    <2>3. p \in CallPcs /\ p \notin {"closing", "cleaning"}
      BY DEF CallPcs
    <2>4. CallBecomes(c, Onward(c, p, g))
      BY <1>1, <2>2, <2>3, CallGoes
    <2>5. Onward(c, p, g) \in CallType /\ HasPage(Onward(c, p, g)) /\ ~IsClosing(Onward(c, p, g))
      BY <1>1, <2>2, <2>3, OnwardTyped
    <2>6. /\ UNCHANGED <<clock, pages, stamp, dated, shown, pageCount>>
          /\ used' \in [SessionIds -> 0 .. clock]
      BY <1>5, <1>9, <2>1 DEF Browser!Reuse, Browser!ActionRaises
    <2>7. QED
      BY <1>4, <2>4, <2>5, <2>6
  <1>10. QED
    BY <1>6, <1>7, <1>8, <1>9

(* Taking a page out of the cache and closing it.                                  *)
LEMMA ClosingCalls ==
  ASSUME BrowserConstants, BrowserInv, NEW n, NEW m, NEW c \in Calls,
         \/ \E s \in SessionIds : Browser(n, m)!Evict(c, s)
         \/ Browser(n, m)!CleanUp(c) \/ Browser(n, m)!Closed(c) \/ Browser(n, m)!CleanedUp(c)
  PROVE  CallMoves(c)
  <1>1. PagesTyped /\ CallsTyped /\ call \in [Calls -> CallType]
    BY DEF BrowserInv, CallsTyped
  <1>2. call[c] \in CallType /\ call[c].sid \in SessionIds /\ 0 \in {0} \cup (1 .. MaxPages)
    BY <1>1 DEF CallType
  <1>3. ASSUME NEW s \in SessionIds, pages[s] # 0, pages' = [pages EXCEPT ![s] = 0],
               UNCHANGED <<clock, stamp, dated, shown, pageCount, used>>,
               NEW x \in CallType, IsClosing(x), x.page = pages[s], CallBecomes(c, x)
        PROVE  CallMoves(c)
    <2>1. PagesTyped'
      BY <1>1, <1>3 DEF PagesTyped
    <2>2. Turns(c, x) /\ HasPage(x)
      BY <1>3 DEF Turns, HasPage
    <2>3. QED
      BY <1>3, <2>1, <2>2 DEF CallMoves
  <1>4. CASE \E s \in SessionIds : Browser(n, m)!Evict(c, s)
    <2>1. PICK s \in SessionIds : Browser(n, m)!Evict(c, s)
      BY <1>4
    <2>2. pages[s] \in {0} \cup (1 .. MaxPages) /\ pages[s] # 0
      BY <1>1, <2>1 DEF PagesTyped, Browser!Evict, Browser!Cached
    <2>3. PICK x \in CallType : x = [pc |-> "closing", sid |-> call[c].sid, page |-> pages[s],
                                     stale |-> call[c].stale \ {s}, gone |-> s]
      BY <1>2, <2>2 DEF CallType, CallPcs
    <2>4. call' = [call EXCEPT ![c].pc = "closing", ![c].page = pages[s], ![c].gone = s,
                               ![c].stale = @ \ {s}]
      BY <2>1 DEF Browser!Evict
    <2>5. CallBecomes(c, x)
      <3>1. call'[c] = x
        BY <1>1, <2>3, <2>4 DEF CallType
      <3>2. /\ \A d \in Calls \ {c} : call'[d] = call[d]
            /\ call' = [d \in Calls |-> call'[d]]
        BY <1>1, <2>4
      <3>3. QED
        BY <3>1, <3>2 DEF CallBecomes
    <2>6. IsClosing(x) /\ x.page = pages[s]
      BY <2>3 DEF IsClosing
    <2>7. QED
      BY <1>3, <2>1, <2>2, <2>5, <2>6 DEF Browser!Evict, Browser!WithoutSession
  <1>5. CASE Browser(n, m)!CleanUp(c)
    <2> DEFINE s == call[c].sid
               x == Onward(c, "cleaning", pages[s])
    <2>1. s \in SessionIds /\ pages[s] \in {0} \cup (1 .. MaxPages) /\ pages[s] # 0
      BY <1>1, <1>2, <1>5 DEF PagesTyped, Browser!CleanUp
    <2>2. CallBecomes(c, x)
      BY <1>1, <1>5, <2>1, CallGoes DEF Browser!CleanUp, CallPcs
    <2>3. x \in CallType /\ IsClosing(x)
      BY <1>1, <2>1, OnwardTyped DEF CallPcs
    <2>4. x.page = pages[s]
      BY DEF Onward
    <2> HIDE DEF x
    <2>5. QED
      BY <1>3, <1>5, <2>1, <2>2, <2>3, <2>4 DEF Browser!CleanUp, Browser!WithoutSession
  <1>6. ASSUME IsClosing(call[c]), shown' = shown \ {call[c].page}, dated' \subseteq dated,
               UNCHANGED <<clock, pages, stamp, pageCount, used>>,
               NEW x \in CallType, HasPage(x), ~IsClosing(x), CallBecomes(c, x)
        PROVE  CallMoves(c)
    <2>1. PagesTyped'
      BY <1>1, <1>6 DEF PagesTyped
    <2>2. Turns(c, x)
      BY <1>6 DEF Turns
    <2>3. QED
      BY <1>6, <2>1, <2>2 DEF CallMoves
  <1>7. CASE Browser(n, m)!Closed(c)
    <2>1. CallBecomes(c, Onward(c, "evicting", 0))
      BY <1>1, <1>7, CallGoes DEF Browser!Closed, CallPcs
    <2>2. /\ Onward(c, "evicting", 0) \in CallType
          /\ HasPage(Onward(c, "evicting", 0)) /\ ~IsClosing(Onward(c, "evicting", 0))
      BY <1>1, <1>2, OnwardTyped DEF CallPcs
    <2>3. IsClosing(call[c])
      BY <1>7 DEF Browser!Closed, IsClosing
    <2>4. QED
      BY <1>6, <1>7, <2>1, <2>2, <2>3 DEF Browser!Closed
  <1>8. CASE Browser(n, m)!CleanedUp(c)
    <2>1. call' = [call EXCEPT ![c] = IdleCall]
      BY <1>8 DEF Browser!CleanedUp, Browser!Idle, IdleCall
    <2>2. CallBecomes(c, IdleCall)
      BY <1>1, <2>1, CallGoes DEF CallPcs
    <2>3. IsClosing(call[c])
      BY <1>8 DEF Browser!CleanedUp, IsClosing
    <2>4. QED
      BY <1>6, <1>8, <2>2, <2>3, IdleTyped DEF Browser!CleanedUp, Browser!ClosesPage
  <1>9. QED
    BY <1>4, <1>5, <1>7, <1>8

(* A page is opened and put into the cache. *)
LEMMA OpenedPage ==
  ASSUME BrowserConstants, BrowserInv, NEW n, NEW m, NEW c \in Calls, Browser(n, m)!Opened(c)
  PROVE  CallMoves(c)
  <1> DEFINE x == Onward(c, "acting", pageCount + 1)
  <1>1. PagesTyped /\ CallsTyped /\ call[c].sid \in SessionIds
    BY DEF BrowserInv, CallsTyped, CallType
  <1>2. /\ pageCount \in Nat /\ pageCount + 1 \in 1 .. MaxPages /\ pageCount + 1 # 0
        /\ pageCount < MaxPages /\ clock \in 0 .. clock
    BY <1>1 DEF PagesTyped, BrowserConstants, Browser!Opened
  <1>3. CallBecomes(c, x)
    BY <1>1, CallGoes DEF Browser!Opened, CallPcs
  <1>4. x \in CallType /\ HasPage(x) /\ ~IsClosing(x)
    BY <1>1, <1>2, OnwardTyped DEF CallPcs
  <1> HIDE DEF x
  <1>5. PagesTyped'
    <2>1. /\ pages' \in [SessionIds -> {0} \cup (1 .. MaxPages)]
          /\ stamp' \in [SessionIds -> 0 .. clock] /\ used' \in [SessionIds -> 0 .. clock]
      BY <1>1, <1>2 DEF PagesTyped, Browser!Opened
    <2>2. /\ dated' \subseteq SessionIds /\ clock' = clock /\ pageCount' = pageCount + 1
          /\ pageCount' \in 0 .. MaxPages
      BY <1>1, <1>2 DEF PagesTyped, Browser!Opened
    <2>3. shown' \subseteq 1 .. pageCount'
      BY <1>1, <1>2 DEF PagesTyped, Browser!Opened
    <2>4. QED
      BY <1>1, <2>1, <2>2, <2>3 DEF PagesTyped
  <1>6. Turns(c, x)
    BY <1>1, <1>2, <1>4 DEF Turns, Browser!Opened
  <1>7. QED
    BY <1>3, <1>4, <1>5, <1>6 DEF CallMoves

(* A session is closed at the request of an agent.                                 *)
LEMMA CloseOwned ==
  ASSUME BrowserConstants, BrowserInv, NEW n, NEW m, NEW c \in Calls, NEW s \in SessionIds,
         Browser(n, m)!CloseSession(c, s)
  PROVE  BrowserInv'
  <1>1. PagesTyped /\ CallsTyped /\ PagesOwned /\ pages \in [SessionIds -> {0} \cup (1 .. MaxPages)]
    BY DEF BrowserInv, PagesTyped
  <1>2. /\ pages[s] # 0 /\ pages' = [pages EXCEPT ![s] = 0] /\ dated' = dated \ {s}
        /\ shown' = shown \ {pages[s]} /\ UNCHANGED <<clock, stamp, pageCount, call, used>>
    BY DEF Browser!CloseSession, Browser!WithoutSession
  <1>3. PagesTyped' /\ CallsTyped'
    BY <1>1, <1>2 DEF PagesTyped, CallsTyped
  <1>4. \A u \in SessionIds : pages'[u] # 0 => u # s /\ pages'[u] = pages[u]
    BY <1>1, <1>2
  <1>5. \A u \in SessionIds : pages'[u] # 0 => pages'[u] \in shown'
    BY <1>1, <1>2, <1>4 DEF PagesOwned
  <1>6. PagesOwned'
    BY <1>1, <1>2, <1>4, <1>5 DEF PagesOwned, IsClosing
  <1>7. QED
    BY <1>3, <1>6 DEF BrowserInv

(* So every step keeps the invariant, however many calls are active. *)
LEMMA BrowserStep ==
  ASSUME NEW n, NEW m
  PROVE  BrowserConstants /\ BrowserInv /\ (Browser(n, m)!Next \/ UNCHANGED browserVars)
           => BrowserInv'
  <1>1. ASSUME BrowserConstants, BrowserInv, NEW c \in Calls, CallMoves(c) PROVE BrowserInv'
    BY <1>1, TurnsOwned DEF CallMoves
  <1>2. ASSUME BrowserConstants, BrowserInv, NEW c \in Calls, Browser(n, m)!Step(c)
        PROVE  BrowserInv'
    <2>1. CASE \E s \in SessionIds : Browser(n, m)!CloseSession(c, s)
      BY <1>2, <2>1, CloseOwned
    <2>2. CASE Browser(n, m)!Opened(c)
      BY <1>1, <1>2, <2>2, OpenedPage
    <2>3. CASE \/ \E s \in SessionIds : Browser(n, m)!Evict(c, s)
               \/ Browser(n, m)!CleanUp(c) \/ Browser(n, m)!Closed(c) \/ Browser(n, m)!CleanedUp(c)
      BY <1>1, <1>2, <2>3, ClosingCalls
    <2>4. CASE \/ \E s \in SessionIds : Browser(n, m)!Begin(c, s)
               \/ Browser(n, m)!Refuse(c) \/ Browser(n, m)!Reuse(c) \/ Browser(n, m)!BeginOpen(c)
               \/ Browser(n, m)!OpenFails(c) \/ Browser(n, m)!ActionDone(c)
               \/ Browser(n, m)!ActionRaises(c) \/ Browser(n, m)!NothingToClean(c)
      BY <1>1, <1>2, <2>4, QuietCalls
    <2>5. QED
      BY <1>2, <2>1, <2>2, <2>3, <2>4 DEF Browser!Step
  <1>3. BrowserConstants /\ BrowserInv /\ Browser(n, m)!Tick => BrowserInv'
    <2> SUFFICES ASSUME BrowserConstants, BrowserInv, Browser(n, m)!Tick PROVE BrowserInv'
      OBVIOUS
    <2>1. /\ clock < BrowserTime /\ clock' = clock + 1
          /\ UNCHANGED <<pages, stamp, dated, shown, pageCount, call, used>>
      BY DEF Browser!Tick
    <2>2. clock \in Nat /\ clock' \in 0 .. BrowserTime /\ 0 .. clock \subseteq 0 .. clock'
      BY <2>1 DEF BrowserInv, PagesTyped, BrowserConstants
    <2>3. PagesTyped'
      BY <2>1, <2>2 DEF BrowserInv, PagesTyped
    <2>4. CallsTyped' /\ PagesOwned'
      BY <2>1 DEF BrowserInv, CallsTyped, PagesOwned
    <2>5. QED
      BY <2>3, <2>4 DEF BrowserInv
  <1>4. BrowserInv /\ UNCHANGED browserVars => BrowserInv'
    BY DEF browserVars, BrowserInv, PagesTyped, CallsTyped, PagesOwned
  <1>5. QED
    BY <1>2, <1>3, <1>4 DEF Browser!Next

(* It holds of an empty cache. *)
LEMMA BrowserInit == ASSUME NEW n, NEW m PROVE BrowserConstants /\ Browser(n, m)!Init => BrowserInv
  <1> SUFFICES ASSUME BrowserConstants, Browser(n, m)!Init PROVE BrowserInv
    OBVIOUS
  <1>1. 0 \in 0 .. BrowserTime /\ 0 \in 0 .. 0 /\ 0 \in 0 .. MaxPages
    BY DEF BrowserConstants
  <1>2. PagesTyped
    BY <1>1 DEF Browser!Init, PagesTyped
  <1>3. call = [c \in Calls |-> IdleCall]
    BY DEF Browser!Init, Browser!Idle, IdleCall
  <1>4. CallsTyped
    BY <1>3, IdleTyped DEF CallsTyped
  <1>5. PagesOwned
    BY <1>3, IdleTyped DEF Browser!Init, PagesOwned
  <1>6. QED
    BY <1>2, <1>4, <1>5 DEF BrowserInv

(* Calls that follow one another.  Around(y) is what the cache and the timestamps *)
(* are when y is the call under way.                                               *)
CachedNow  == {s \in SessionIds : pages[s] # 0}
PagesNow   == {pages[s] : s \in CachedNow}
LeaveOf(y) == IF y.pc = "closing" THEN y.gone ELSE y.sid

Around(y) ==
  /\ shown = PagesNow \cup (IF IsClosing(y) THEN {y.page} ELSE {})
  /\ dated = CachedNow \cup (IF IsClosing(y) THEN {LeaveOf(y)} ELSE {})
  /\ IsClosing(y) => LeaveOf(y) \notin CachedNow
  /\ Cardinality(CachedNow) <= 1
  /\ y.pc = "opening" => ~(Cardinality(CachedNow) >= 1) /\ pages[y.sid] = 0

Leads(c) == \A d \in Calls \ {c} : call[d].pc = "idle"

BrowserSerial == \E c \in Calls : Leads(c) /\ Around(call[c])

BrowserSteps == Browser(1, 1)!StepsWhenSerial /\ Browser(1, 1)!TidyWhenSerial

(* At any moment one call leads, and if it is idle all are. *)
LEMMA LeaderFound ==
  ASSUME NEW c \in Calls, \A d, e \in Calls : call[d].pc # "idle" /\ call[e].pc # "idle" => d = e
  PROVE  \E d \in Calls : Leads(d) /\ (call[d].pc = "idle" => \A e \in Calls : call[e].pc = "idle")
  <1>1. CASE \A d \in Calls : call[d].pc = "idle"
    BY <1>1 DEF Leads
  <1>2. CASE \E d \in Calls : call[d].pc # "idle"
    <2>1. PICK d \in Calls : call[d].pc # "idle"
      BY <1>2
    <2>2. QED
      BY <2>1 DEF Leads
  <1>3. QED
    BY <1>1, <1>2

(* Nobody else has a page or a session in hand. *)
LEMMA AroundLeader ==
  ASSUME NEW c \in Calls, Leads(c)
  PROVE  /\ {call[d].page : d \in Browser(1, 1)!Closing} = IF IsClosing(call[c]) THEN {call[c].page} ELSE {}
         /\ Browser(1, 1)!Leaving = IF IsClosing(call[c]) THEN {LeaveOf(call[c])} ELSE {}
  <1>1. Browser(1, 1)!Closing = IF IsClosing(call[c]) THEN {c} ELSE {}
    BY DEF Browser!Closing, Leads, IsClosing
  <1>2. QED
    BY <1>1 DEF Browser!Leaving, LeaveOf

(* One at a time: what the module of the browser says. *)
LEMMA BrowserSerialParts ==
  ASSUME BrowserConstants, BrowserInv
  PROVE  /\ BrowserSerial => BrowserSteps
         /\ \A c \in Calls : Leads(c) /\ BrowserSteps => Around(call[c])
  <1>1. Browser(1, 1)!Cached = CachedNow /\ Browser(1, 1)!Cardinality(CachedNow) = Cardinality(CachedNow)
    BY SameCount DEF Browser!Cached, CachedNow
  <1>2. {pages[s] : s \in Browser(1, 1)!Cached} = PagesNow
    BY <1>1 DEF PagesNow
  <1>3. ASSUME NEW c \in Calls, Leads(c), Around(call[c])
        PROVE  BrowserSteps
    <2>1. \A d, e \in Browser(1, 1)!Active : d = e
      BY <1>3 DEF Leads, Browser!Active
    <2>2. shown = {pages[s] : s \in Browser(1, 1)!Cached} \cup Browser(1, 1)!InHand
      BY <1>2, <1>3, AroundLeader DEF Around, Browser!InHand
    <2>3. /\ dated = Browser(1, 1)!Cached \cup Browser(1, 1)!Leaving
          /\ Browser(1, 1)!Cached \cap Browser(1, 1)!Leaving = {}
      BY <1>1, <1>3, AroundLeader DEF Around
    <2>4. \A d \in Calls : call[d].pc = "opening" =>
            ~Browser(1, 1)!Full /\ pages[call[d].sid] = 0
      BY <1>1, <1>3 DEF Around, Leads, Browser!Full
    <2>5. Browser(1, 1)!StepsWhenSerial
      BY <1>1, <1>3, <2>1, <2>2, <2>3, <2>4 DEF Browser!StepsWhenSerial, Around
    <2>6. ASSUME Browser(1, 1)!Active = {}
          PROVE  /\ shown = {pages[s] : s \in Browser(1, 1)!Cached} /\ dated = Browser(1, 1)!Cached
                 /\ Browser(1, 1)!Cardinality(Browser(1, 1)!Cached) <= 1
      <3>1. call[c].pc = "idle"
        BY <2>6 DEF Browser!Active
      <3>2. QED
        BY <1>1, <1>2, <1>3, <3>1 DEF Around, IsClosing
    <2>7. QED
      BY <2>5, <2>6 DEF BrowserSteps, Browser!TidyWhenSerial
  <1>4. ASSUME NEW c \in Calls, Leads(c), BrowserSteps PROVE Around(call[c])
    <2>1. /\ shown = {pages[s] : s \in Browser(1, 1)!Cached} \cup Browser(1, 1)!InHand
          /\ dated = Browser(1, 1)!Cached \cup Browser(1, 1)!Leaving
          /\ Browser(1, 1)!Cached \cap Browser(1, 1)!Leaving = {}
          /\ Browser(1, 1)!Cardinality(Browser(1, 1)!Cached) <= 1
          /\ call[c].pc = "opening" => ~Browser(1, 1)!Full /\ pages[call[c].sid] = 0
      BY <1>4 DEF BrowserSteps, Browser!StepsWhenSerial
    <2>2. shown = PagesNow \cup (IF IsClosing(call[c]) THEN {call[c].page} ELSE {})
      BY <1>2, <1>4, <2>1, AroundLeader DEF Browser!InHand
    <2>3. /\ dated = CachedNow \cup (IF IsClosing(call[c]) THEN {LeaveOf(call[c])} ELSE {})
          /\ IsClosing(call[c]) => LeaveOf(call[c]) \notin CachedNow
      BY <1>1, <1>4, <2>1, AroundLeader
    <2>4. QED
      BY <1>1, <2>1, <2>2, <2>3 DEF Around, Browser!Full
  <1>5. QED
    BY <1>3, <1>4 DEF BrowserSerial

(* The cache loses or gains a session.                                             *)
LEMMA CacheCount ==
  ASSUME BrowserConstants, NEW s \in SessionIds
  PROVE  /\ IsFiniteSet(CachedNow) /\ Cardinality(CachedNow) \in Nat
         /\ Cardinality(CachedNow \ {s}) \in Nat
         /\ Cardinality(CachedNow \ {s}) <= Cardinality(CachedNow)
         /\ Cardinality(CachedNow \cup {s}) <= Cardinality(CachedNow) + 1
  <1>1. CachedNow \subseteq SessionIds
    BY DEF CachedNow
  <1>2. IsFiniteSet(CachedNow) /\ Cardinality(CachedNow) \in Nat
    BY <1>1, FS_Subset, FS_CardinalityType DEF BrowserConstants
  <1>3. CachedNow \ {s} \in SUBSET CachedNow
    OBVIOUS
  <1>4. Cardinality(CachedNow \ {s}) \in Nat /\ Cardinality(CachedNow \ {s}) <= Cardinality(CachedNow)
    BY <1>2, <1>3, FS_Subset, FS_CardinalityType
  <1>5. \/ Cardinality(CachedNow \cup {s}) = Cardinality(CachedNow)
        \/ Cardinality(CachedNow \cup {s}) = Cardinality(CachedNow) + 1
    BY <1>2, FS_AddElement
  <1>6. QED
    BY <1>2, <1>4, <1>5

(* What the steps make of the cache.                                               *)
LEMMA CacheMoves ==
  ASSUME BrowserInv, NEW s \in SessionIds
  PROVE  /\ pages' = pages => CachedNow' = CachedNow /\ PagesNow' = PagesNow
         /\ pages' = [pages EXCEPT ![s] = 0] /\ pages[s] # 0 =>
              CachedNow' = CachedNow \ {s} /\ PagesNow' = PagesNow \ {pages[s]}
         /\ \A p : p # 0 /\ pages' = [pages EXCEPT ![s] = p] /\ pages[s] = 0 =>
              CachedNow' = CachedNow \cup {s} /\ PagesNow' = PagesNow \cup {p}
  <1>1. /\ pages \in [SessionIds -> {0} \cup (1 .. MaxPages)]
        /\ \A u, t \in SessionIds : pages[u] # 0 /\ pages[t] # 0 /\ pages[u] = pages[t] => u = t
    BY DEF BrowserInv, PagesTyped, PagesOwned
  <1>2. pages' = pages => CachedNow' = CachedNow /\ PagesNow' = PagesNow
    BY DEF CachedNow, PagesNow
  <1>3. ASSUME pages' = [pages EXCEPT ![s] = 0], pages[s] # 0
        PROVE  CachedNow' = CachedNow \ {s} /\ PagesNow' = PagesNow \ {pages[s]}
    <2>1. pages'[s] = 0 /\ \A u \in SessionIds \ {s} : pages'[u] = pages[u]
      BY <1>1, <1>3
    <2>2. CachedNow' = CachedNow \ {s}
      BY <2>1 DEF CachedNow
    <2>3. PagesNow' = {pages'[u] : u \in CachedNow \ {s}}
      BY <2>2 DEF PagesNow
    <2>4. PagesNow' = PagesNow \ {pages[s]}
      BY <1>1, <1>3, <2>1, <2>3 DEF PagesNow, CachedNow
    <2>5. QED
      BY <2>2, <2>4
  <1>4. ASSUME NEW p, p # 0, pages' = [pages EXCEPT ![s] = p], pages[s] = 0
        PROVE  CachedNow' = CachedNow \cup {s} /\ PagesNow' = PagesNow \cup {p}
    <2>1. pages'[s] = p /\ \A u \in SessionIds \ {s} : pages'[u] = pages[u]
      BY <1>1, <1>4
    <2>2. CachedNow' = CachedNow \cup {s} /\ s \notin CachedNow
      BY <1>4, <2>1 DEF CachedNow
    <2>3. PagesNow' = {pages'[u] : u \in CachedNow \cup {s}}
      BY <2>2 DEF PagesNow
    <2>4. \A u \in CachedNow : pages'[u] = pages[u]
      BY <2>1, <2>2 DEF CachedNow
    <2>5. PagesNow' = PagesNow \cup {p}
      BY <2>1, <2>3, <2>4 DEF PagesNow
    <2>6. QED
      BY <2>2, <2>5
  <1>5. QED
    BY <1>2, <1>3, <1>4

(* The steps that leave cache, pages and timestamps alone.                          *)
LEMMA AroundQuiet ==
  ASSUME BrowserConstants, BrowserInv, NEW c \in Calls, Around(call[c]), ~IsClosing(call[c]),
         UNCHANGED <<pages, shown, dated>>, call'[c].pc \notin {"closing", "cleaning"},
         call'[c].pc = "opening" => ~(Cardinality(CachedNow) >= 1) /\ pages[call'[c].sid] = 0
  PROVE  Around(call[c])'
  <1>1. PICK s \in SessionIds : TRUE
    BY DEF BrowserConstants
  <1>2. CachedNow' = CachedNow /\ PagesNow' = PagesNow
    BY CacheMoves
  <1>3. ~IsClosing(call'[c])
    BY DEF IsClosing
  <1>4. shown' = PagesNow' /\ dated' = CachedNow'
    BY <1>2 DEF Around
  <1>5. QED
    BY <1>2, <1>3, <1>4 DEF Around, IsClosing

(* A page leaves the cache, and is closed.                                         *)
LEMMA AroundTaken ==
  ASSUME BrowserConstants, BrowserInv, NEW c \in Calls, Around(call[c]), ~IsClosing(call[c]),
         NEW s \in SessionIds, pages[s] # 0, pages' = [pages EXCEPT ![s] = 0],
         UNCHANGED <<shown, dated>>, IsClosing(call'[c]), call'[c].page = pages[s],
         LeaveOf(call'[c]) = s
  PROVE  Around(call[c])'
  <1>1. CachedNow' = CachedNow \ {s} /\ PagesNow' = PagesNow \ {pages[s]}
    BY CacheMoves
  <1>2. s \in CachedNow /\ pages[s] \in PagesNow
    BY DEF CachedNow, PagesNow
  <1>3. shown' = PagesNow' \cup {pages[s]} /\ dated' = CachedNow' \cup {s}
    BY <1>1, <1>2 DEF Around
  <1>4. Cardinality(CachedNow') <= 1
    <2>1. /\ Cardinality(CachedNow) \in Nat /\ Cardinality(CachedNow \ {s}) \in Nat
          /\ Cardinality(CachedNow \ {s}) <= Cardinality(CachedNow)
      BY CacheCount
    <2>2. Cardinality(CachedNow) <= 1
      BY DEF Around
    <2>3. QED
      BY <1>1, <2>1, <2>2
  <1>5. QED
    BY <1>1, <1>3, <1>4 DEF Around, IsClosing

(* The page is closed and the timestamp dropped. *)
LEMMA AroundClosed ==
  ASSUME BrowserConstants, BrowserInv, NEW c \in Calls, Around(call[c]), IsClosing(call[c]),
         UNCHANGED pages, shown' = shown \ {call[c].page}, dated' = dated \ {LeaveOf(call[c])},
         call'[c].pc \in {"idle", "evicting"}
  PROVE  Around(call[c])'
  <1>1. PICK s \in SessionIds : TRUE
    BY DEF BrowserConstants
  <1>2. CachedNow' = CachedNow /\ PagesNow' = PagesNow
    BY CacheMoves
  <1>3. call[c].page \notin PagesNow
    BY DEF BrowserInv, PagesOwned, PagesNow, CachedNow
  <1>4. shown' = PagesNow' /\ dated' = CachedNow'
    BY <1>2, <1>3 DEF Around
  <1>5. QED
    BY <1>2, <1>4 DEF Around, IsClosing

(* A page is opened, in room. *)
LEMMA AroundOpened ==
  ASSUME BrowserConstants, BrowserInv, NEW c \in Calls, Around(call[c]), Browser(1, 1)!Opened(c)
  PROVE  Around(call[c])'
  <1> DEFINE s == call[c].sid
  <1>1. /\ call[c].pc = "opening" /\ call \in [Calls -> CallType] /\ s \in SessionIds
        /\ pageCount \in Nat
    BY DEF BrowserInv, CallsTyped, CallType, Browser!Opened, PagesTyped, BrowserConstants
  <1>2. ~(Cardinality(CachedNow) >= 1) /\ pages[s] = 0 /\ ~IsClosing(call[c])
    BY <1>1 DEF Around, IsClosing
  <1>3. /\ pages' = [pages EXCEPT ![s] = pageCount + 1] /\ pageCount + 1 # 0
        /\ shown' = shown \cup {pageCount + 1} /\ dated' = dated \cup {s}
    BY <1>1 DEF Browser!Opened
  <1>4. call'[c].pc = "acting"
    BY <1>1 DEF Browser!Opened
  <1> HIDE DEF s
  <1>5. CachedNow' = CachedNow \cup {s} /\ PagesNow' = PagesNow \cup {pageCount + 1}
    BY <1>1, <1>2, <1>3, CacheMoves
  <1>6. Cardinality(CachedNow') <= 1
    <2>1. Cardinality(CachedNow) \in Nat /\ IsFiniteSet(CachedNow)
      BY <1>1, CacheCount
    <2>2. Cardinality(CachedNow) = 0
      BY <1>2, <2>1
    <2>3. CachedNow = {}
      BY <2>1, <2>2, FS_EmptySet
    <2>4. CachedNow' = {s} /\ Cardinality({s}) = 1
      BY <1>5, <2>3, FS_Singleton
    <2>5. QED
      BY <2>4
  <1>7. shown' = PagesNow' /\ dated' = CachedNow'
    BY <1>2, <1>3, <1>5 DEF Around
  <1>8. QED
    BY <1>4, <1>6, <1>7 DEF Around, IsClosing

(* A session is closed from outside, also while a call is under way. *)
LEMMA AroundSession ==
  ASSUME BrowserConstants, BrowserInv, NEW d \in Calls, Around(call[d]), NEW c \in Calls,
         NEW s \in SessionIds, Browser(1, 1)!CloseSession(c, s)
  PROVE  Around(call[d])'
  <1>1. /\ pages[s] # 0 /\ pages' = [pages EXCEPT ![s] = 0] /\ dated' = dated \ {s}
        /\ shown' = shown \ {pages[s]} /\ call' = call
    BY DEF Browser!CloseSession, Browser!WithoutSession
  <1>2. CachedNow' = CachedNow \ {s} /\ PagesNow' = PagesNow \ {pages[s]}
    BY <1>1, CacheMoves
  <1>3. s \in CachedNow
    BY <1>1 DEF CachedNow
  <1>4. IsClosing(call[d]) => call[d].page # pages[s] /\ LeaveOf(call[d]) # s
    BY <1>1, <1>3 DEF BrowserInv, PagesOwned, Around
  <1>5. /\ shown' = PagesNow' \cup (IF IsClosing(call[d]) THEN {call[d].page} ELSE {})
        /\ dated' = CachedNow' \cup (IF IsClosing(call[d]) THEN {LeaveOf(call[d])} ELSE {})
    <2>1. CASE IsClosing(call[d])
      BY <1>1, <1>2, <1>4, <2>1 DEF Around
    <2>2. CASE ~IsClosing(call[d])
      BY <1>1, <1>2, <2>2 DEF Around
    <2>3. QED
      BY <2>1, <2>2
  <1>6. /\ Cardinality(CachedNow') \in Nat /\ Cardinality(CachedNow) \in Nat
        /\ Cardinality(CachedNow') <= Cardinality(CachedNow)
    BY <1>2, CacheCount
  <1>7. call[d].pc = "opening" => ~(Cardinality(CachedNow') >= 1) /\ pages'[call[d].sid] = 0
    <2>1. \A u \in SessionIds : pages[u] = 0 => pages'[u] = 0
      BY <1>1 DEF BrowserInv, PagesTyped
    <2>2. call[d].sid \in SessionIds
      BY DEF BrowserInv, CallsTyped, CallType
    <2>3. QED
      BY <1>6, <2>1, <2>2 DEF Around
  <1>8. IsClosing(call[d]) => LeaveOf(call[d]) \notin CachedNow'
    BY <1>2 DEF Around
  <1>9. Cardinality(CachedNow') <= 1
    BY <1>6 DEF Around
  <1>10. QED
    BY <1>1, <1>5, <1>7, <1>8, <1>9 DEF Around

(* Whoever takes a step leads.                                                     *)
LEMMA WhoStepsLeads ==
  ASSUME BrowserConstants, BrowserInv, BrowserSerial, NEW c \in Calls, Browser(1, 1)!Step(c),
         ~ \E s \in SessionIds : Browser(1, 1)!CloseSession(c, s)
  PROVE  Leads(c) /\ Around(call[c])
  <1>1. BrowserSteps /\ \A e \in Calls : Leads(e) => Around(call[e])
    BY BrowserSerialParts
  <1>2. PICK d \in Calls : Leads(d)
    BY DEF BrowserSerial
  <1>3. CASE call[c].pc # "idle"
    BY <1>1, <1>2, <1>3 DEF Leads
  <1>4. CASE call[c].pc = "idle"
    <2>1. \E s \in SessionIds : Browser(1, 1)!Begin(c, s)
      BY <1>4 DEF Browser!Step, Browser!Evict, Browser!Closed, Browser!Refuse, Browser!Reuse,
         Browser!BeginOpen, Browser!Evicted, Browser!Opened, Browser!OpenFails, Browser!ActionDone,
         Browser!ActionRaises, Browser!CleanUp, Browser!NothingToClean, Browser!CleanedUp
    <2>2. Browser(1, 1)!Cardinality(Browser(1, 1)!Active) < 1
      BY <2>1 DEF Browser!Begin
    <2>3. Browser(1, 1)!Active \in SUBSET Calls
      BY DEF Browser!Active
    <2>4. IsFiniteSet(Browser(1, 1)!Active)
      BY <2>3, FS_Subset DEF BrowserConstants
    <2>5. Cardinality(Browser(1, 1)!Active) \in Nat /\ Cardinality(Browser(1, 1)!Active) < 1
      BY <2>2, <2>4, FS_CardinalityType, SameCount
    <2>6. Browser(1, 1)!Active = {}
      BY <2>4, <2>5, FS_EmptySet
    <2>7. Leads(c)
      BY <2>6 DEF Browser!Active, Leads
    <2>8. QED
      BY <1>1, <2>7
  <1>5. QED
    BY <1>3, <1>4

(* So the call under way keeps cache, pages and timestamps around it. *)
LEMMA AroundStep ==
  ASSUME BrowserConstants, BrowserInv, NEW c \in Calls, Leads(c), Around(call[c]),
         Browser(1, 1)!Step(c), ~ \E s \in SessionIds : Browser(1, 1)!CloseSession(c, s)
  PROVE  Around(call[c])'
  <1>1. call \in [Calls -> CallType] /\ call[c].sid \in SessionIds
    BY DEF BrowserInv, CallsTyped, CallType
  <1>2. CASE \/ \E s \in SessionIds : Browser(1, 1)!Begin(c, s)
             \/ Browser(1, 1)!Refuse(c) \/ Browser(1, 1)!Reuse(c) \/ Browser(1, 1)!OpenFails(c)
             \/ Browser(1, 1)!ActionDone(c) \/ Browser(1, 1)!ActionRaises(c)
             \/ Browser(1, 1)!NothingToClean(c)
    <2>1. UNCHANGED <<pages, shown, dated>>
      BY <1>2 DEF Browser!Begin, Browser!Refuse, Browser!Reuse, Browser!OpenFails,
         Browser!ActionDone, Browser!ActionRaises, Browser!NothingToClean
    <2>2. call[c].pc \notin {"closing", "cleaning"}
      BY <1>2 DEF Browser!Begin, Browser!Refuse, Browser!Reuse, Browser!OpenFails, Browser!Evicted,
         Browser!ActionDone, Browser!ActionRaises, Browser!NothingToClean, Browser!Active
    <2>3. call'[c].pc \in {"evicting", "idle", "acting", "failing"}
      <3>1. CASE \E s \in SessionIds : Browser(1, 1)!Begin(c, s)
        BY <1>1, <3>1 DEF Browser!Begin, Browser!Idle
      <3>2. CASE Browser(1, 1)!Refuse(c) \/ Browser(1, 1)!ActionDone(c) \/ Browser(1, 1)!NothingToClean(c)
        BY <1>1, <3>2 DEF Browser!Refuse, Browser!ActionDone, Browser!NothingToClean, Browser!Idle
      <3>3. CASE Browser(1, 1)!Reuse(c) \/ Browser(1, 1)!OpenFails(c) \/ Browser(1, 1)!ActionRaises(c)
        BY <1>1, <3>3 DEF Browser!Reuse, Browser!OpenFails, Browser!ActionRaises, Browser!Goes, CallType
      <3>4. QED
        BY <1>2, <3>1, <3>2, <3>3
    <2>4. QED
      BY <2>1, <2>2, <2>3, AroundQuiet DEF IsClosing
  <1>3. CASE Browser(1, 1)!BeginOpen(c)
    <2>1. /\ call[c].pc = "evicting" /\ UNCHANGED <<pages, shown, dated>>
          /\ ~Browser(1, 1)!Full /\ pages[call[c].sid] = 0
      BY <1>3 DEF Browser!BeginOpen, Browser!Evicted
    <2>2. call'[c].pc = "opening" /\ call'[c].sid = call[c].sid
      BY <1>1, <1>3 DEF Browser!BeginOpen, Browser!Goes, CallType
    <2>3. ~(Cardinality(CachedNow) >= 1)
      BY <2>1, SameCount DEF Browser!Full, Browser!Cached, CachedNow
    <2>4. QED
      BY <2>1, <2>2, <2>3, AroundQuiet DEF IsClosing
  <1>4. CASE \E s \in SessionIds : Browser(1, 1)!Evict(c, s)
    <2>1. PICK s \in SessionIds : Browser(1, 1)!Evict(c, s)
      BY <1>4
    <2>2. /\ call[c].pc = "evicting" /\ pages[s] # 0 /\ pages' = [pages EXCEPT ![s] = 0]
          /\ UNCHANGED <<shown, dated>>
      BY <2>1 DEF Browser!Evict, Browser!Cached, Browser!WithoutSession
    <2>3. call'[c].pc = "closing" /\ call'[c].page = pages[s] /\ call'[c].gone = s
      BY <1>1, <2>1 DEF Browser!Evict, CallType
    <2>4. QED
      BY <2>2, <2>3, AroundTaken DEF IsClosing, LeaveOf
  <1>5. CASE Browser(1, 1)!CleanUp(c)
    <2> DEFINE s == call[c].sid
    <2>1. /\ call[c].pc = "failing" /\ pages[s] # 0 /\ pages' = [pages EXCEPT ![s] = 0]
          /\ UNCHANGED <<shown, dated>>
      BY <1>5 DEF Browser!CleanUp, Browser!WithoutSession
    <2>2. call'[c].pc = "cleaning" /\ call'[c].page = pages[s] /\ call'[c].sid = s
      BY <1>1, <1>5 DEF Browser!CleanUp, CallType
    <2>3. QED
      BY <1>1, <2>1, <2>2, AroundTaken DEF IsClosing, LeaveOf
  <1>6. CASE Browser(1, 1)!Closed(c)
    <2>1. call[c].pc = "closing" /\ pages' = pages
          /\ shown' = shown \ {call[c].page} /\ dated' = dated \ {call[c].gone}
      BY <1>6 DEF Browser!Closed
    <2>2. call'[c].pc = "evicting"
      BY <1>1, <1>6 DEF Browser!Closed, CallType
    <2>3. QED
      BY <2>1, <2>2, AroundClosed DEF IsClosing, LeaveOf
  <1>7. CASE Browser(1, 1)!CleanedUp(c)
    <2>1. call[c].pc = "cleaning" /\ pages' = pages
          /\ shown' = shown \ {call[c].page} /\ dated' = dated \ {call[c].sid}
      BY <1>7 DEF Browser!CleanedUp, Browser!ClosesPage
    <2>2. call'[c].pc = "idle"
      BY <1>1, <1>7 DEF Browser!CleanedUp, Browser!Idle
    <2>3. QED
      BY <2>1, <2>2, AroundClosed DEF IsClosing, LeaveOf
  <1>8. CASE Browser(1, 1)!Opened(c)
    BY <1>8, AroundOpened
  <1>9. QED
    BY <1>2, <1>3, <1>4, <1>5, <1>6, <1>7, <1>8 DEF Browser!Step

(* Every step of calls that follow one another keeps them in step. *)
LEMMA BrowserSerialStep ==
  ASSUME BrowserConstants, BrowserInv, BrowserSerial,
         Browser(1, 1)!Next \/ UNCHANGED browserVars
  PROVE  BrowserSerial'
  <1>1. ASSUME NEW c \in Calls, Browser(1, 1)!Step(c) PROVE BrowserSerial'
    <2>1. CASE \E s \in SessionIds : Browser(1, 1)!CloseSession(c, s)
      <3>1. PICK d \in Calls : Leads(d) /\ Around(call[d])
        BY DEF BrowserSerial
      <3>2. PICK s \in SessionIds : Browser(1, 1)!CloseSession(c, s)
        BY <2>1
      <3>3. Around(call[d])'
        BY <3>1, <3>2, AroundSession
      <3>4. Leads(d)'
        BY <3>1, <3>2 DEF Leads, Browser!CloseSession
      <3>5. QED
        BY <3>3, <3>4 DEF BrowserSerial
    <2>2. CASE ~ \E s \in SessionIds : Browser(1, 1)!CloseSession(c, s)
      <3>1. Leads(c) /\ Around(call[c])
        BY <1>1, <2>2, WhoStepsLeads
      <3>2. Around(call[c])'
        BY <1>1, <2>2, <3>1, AroundStep
      <3>3. CallMoves(c)
        BY <1>1, <2>2, QuietCalls, ClosingCalls, OpenedPage DEF Browser!Step
      <3>4. Leads(c)'
        BY <3>1, <3>3 DEF Leads, CallMoves, CallBecomes
      <3>5. QED
        BY <3>2, <3>4 DEF BrowserSerial
    <2>3. QED
      BY <2>1, <2>2
  <1>2. CASE UNCHANGED <<pages, dated, shown, call>>
    <2>1. CachedNow' = CachedNow /\ PagesNow' = PagesNow
      BY <1>2 DEF CachedNow, PagesNow
    <2>2. PICK c \in Calls : Leads(c) /\ Around(call[c])
      BY DEF BrowserSerial
    <2>3. Leads(c)' /\ Around(call[c])'
      BY <1>2, <2>1, <2>2 DEF Leads, Around, IsClosing, LeaveOf
    <2>4. QED
      BY <2>3 DEF BrowserSerial
  <1>3. QED
    BY <1>1, <1>2 DEF Browser!Next, Browser!Tick, browserVars

(* It holds of an empty cache. *)
LEMMA BrowserSerialInit == ASSUME BrowserConstants, Browser(2, 2)!Init PROVE BrowserSerial
  <1>1. PICK c \in Calls : TRUE
    BY DEF BrowserConstants
  <1>2. call[c] = IdleCall /\ Leads(c)
    BY DEF Browser!Init, Browser!Idle, IdleCall, Leads
  <1>3. CachedNow = {} /\ PagesNow = {} /\ shown = {} /\ dated = {}
    BY DEF Browser!Init, CachedNow, PagesNow
  <1>4. Around(call[c])
    BY <1>2, <1>3, FS_EmptySet DEF Around, IdleCall, IsClosing
  <1>5. QED
    BY <1>2, <1>4 DEF BrowserSerial

-----------------------------------------------------------------------------
(* All of them, each in its scope.                                            *)

(* The assumptions on the constants, as the proofs cite them. *)
LEMMA Constants == /\ PoolConstants /\ BrowserConstants
                   /\ Rules!RulesAssumption /\ Limiter!LimiterAssumption
  <1>1. McpPool(2)!PoolAssumption => PoolConstants
    BY SameCount DEF McpPool!PoolAssumption, PoolConstants
  <1>2. Browser(2, 2)!BrowserAssumption => BrowserConstants
    BY SameCount DEF Browser!BrowserAssumption, BrowserConstants
  <1>3. QED
    BY <1>1, <1>2, SharedAssumption

\* What each component keeps, in whatever scope; one request at a time keeps more.
SharedInv ==
  /\ IInv /\ PoolInv /\ RulesInv /\ BrowserInv /\ LimiterInv
  /\ scope = "pool alone" => PoolSerial /\ LostByFaults
  /\ scope = "browser alone" => BrowserSerial

sharedVars == <<scope, bucketVars, poolVars, rulesVars, browserVars, limiterVars>>

(* They hold when nothing has happened ... *)
LEMMA SharedStarts == SharedInit => SharedInv
  <1> SUFFICES ASSUME SharedInit PROVE SharedInv
    OBVIOUS
  <1>1. Init /\ McpPool(2)!Init /\ Rules!Init /\ Browser(2, 2)!Init /\ Limiter!Init
    BY DEF SharedInit
  <1>2. IInv
    BY <1>1, InitIInv
  <1>3. PoolInv /\ PoolSerial /\ LostByFaults
    BY <1>1, Constants, PoolInit, SerialInit
  <1>4. RulesInv /\ LimiterInv
    BY <1>1, Constants, RulesInit, LimiterInit
  <1>5. BrowserInv /\ BrowserSerial
    BY <1>1, Constants, BrowserInit, BrowserSerialInit
  <1>6. QED
    BY <1>2, <1>3, <1>4, <1>5 DEF SharedInv

(* A step is one of one component, and the others rest. *)
LEMMA SharedCases ==
  ASSUME [SharedNext]_sharedVars
  PROVE  /\ scope' = scope
         /\ Next \/ UNCHANGED bucketVars
         /\ \/ McpPool(2)!Next /\ scope # "pool alone"
            \/ McpPool(1)!Next
            \/ UNCHANGED poolVars
         /\ Rules!Next \/ UNCHANGED rulesVars
         /\ \/ Browser(2, 2)!Next /\ scope # "browser alone"
            \/ Browser(1, 1)!Next
            \/ UNCHANGED browserVars
         /\ Limiter!Next \/ UNCHANGED limiterVars
  BY DEF SharedNext, sharedVars

(* ... and every step keeps them, ... *)
LEMMA SharedStep == SharedInv /\ [SharedNext]_sharedVars => SharedInv'
  <1> SUFFICES ASSUME SharedInv, [SharedNext]_sharedVars PROVE SharedInv'
    OBVIOUS
  <1>1. IInv'
    <2>1. [Next]_vars
      BY SharedCases DEF vars, bucketVars
    <2>2. QED
      BY <2>1, TypeStep, AccountStep DEF SharedInv, IInv
  <1>2. PoolInv' /\ RulesInv' /\ BrowserInv' /\ LimiterInv'
    BY SharedCases, Constants, PoolStep, RulesStep, BrowserStep, LimiterStep DEF SharedInv
  <1>3. scope' = "pool alone" => PoolSerial' /\ LostByFaults'
    BY SharedCases, Constants, SerialStep DEF SharedInv
  <1>4. scope' = "browser alone" => BrowserSerial'
    BY SharedCases, Constants, BrowserSerialStep DEF SharedInv
  <1>5. QED
    BY <1>1, <1>2, <1>3, <1>4 DEF SharedInv

(* ... so always. *)
LEMMA SharedKept == SharedSpec => []SharedInv
  BY SharedStarts, SharedStep, PTL DEF SharedSpec, sharedVars

(* The account is balanced in every reachable state: whoever waits for the LLM *)
(* sleeps long enough.                                                         *)
THEOREM Account == SharedSpec => []IInv
  <1>1. SharedInv => IInv
    BY DEF SharedInv
  <1>2. QED
    BY <1>1, SharedKept, PTL

(* Over any stretch of time no more calls of the LLM are let through than what *)
(* the bucket holds, one call and twice the rate.                              *)
THEOREM DoubleRate == SharedSpec => []AtMostDoubleRate
  BY Account, BucketKeeps, PTL

(* However many requests overlap, whatever fails or restarts: a rule is in     *)
(* force from the answer to its creation until its removal is asked for, and   *)
(* never after the answer to its removal, unless the reload that wrote the     *)
(* cache had read the table before and was overtaken; and no request is, as    *)
(* long as they do not overlap.                                                *)
THEOREM RulesFollowRequests == SharedSpec => []RulesInForce
  <1>1. SharedInv => RulesInForce
    BY DEF SharedInv, RulesInv, RulesInForce
  <1>2. QED
    BY <1>1, SharedKept, PTL

(* Whatever requests overlap, a session of the client pool and a page of the   *)
(* browser have one owner; requests that follow one another leave pool, table, *)
(* cache and timestamps in step, and lose a session only through a fault.      *)
THEOREM ResourcesHaveOneOwner == SharedSpec => []ResourcesAccounted
  <1>1. SharedInv => ResourcesAccounted
    <2> SUFFICES ASSUME SharedInv PROVE ResourcesAccounted
      OBVIOUS
    <2>1. McpPool(2)!TypeOK /\ McpPool(2)!OneOwner /\ McpPool(2)!HeldAreOpen
      BY PoolParts DEF SharedInv
    <2>2. scope = "pool alone" => McpPool(1)!StepsWhenSerial /\ McpPool(1)!InStepWhenSerial
      BY PoolSerialParts DEF SharedInv
    <2>3. /\ Browser(2, 2)!TypeOK /\ Browser(2, 2)!CachedPagesAreOpen
          /\ Browser(2, 2)!ClosedAreUncached
      BY BrowserParts DEF SharedInv
    <2>4. scope = "browser alone" => Browser(1, 1)!StepsWhenSerial /\ Browser(1, 1)!TidyWhenSerial
      BY Constants, BrowserSerialParts DEF SharedInv, BrowserSteps
    <2>5. QED
      BY <2>1, <2>2, <2>3, <2>4 DEF ResourcesAccounted
  <1>2. QED
    BY <1>1, SharedKept, PTL

(* No counter of the API is reset within its minute, however many requests, lost *)
(* answers and restarts of Redis: each lets through at most its limit a life.    *)
THEOREM CountersAreKept == SharedSpec => []CountersKept
  <1>1. SharedInv => CountersKept
    <2> SUFFICES ASSUME SharedInv PROVE CountersKept
      OBVIOUS
    <2>1. LimiterInv /\ Limiter!WindowIsNotReset /\ Limiter!PassedBounded
      BY Constants, LimiterKeeps DEF SharedInv
    <2>2. QED
      BY <2>1 DEF LimiterInv, CountersKept
  <1>2. QED
    BY <1>1, SharedKept, PTL
=============================================================================
