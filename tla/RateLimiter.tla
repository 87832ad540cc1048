----------------------------- MODULE RateLimiter -----------------------------
(***************************************************************************)
(* The rate limiter of the API (src/api/rate_limit.py) for one client and   *)
(* one path: a counter per minute in Redis, with a time to live that a      *)
(* second command sets, and a counter in memory for when Redis fails.       *)
(* Windows are numbered; a window lasts Minute ticks.                       *)
(***************************************************************************)
EXTENDS Integers, FiniteSets, Functions

CONSTANTS Requests,
          Limit,         \* RATE_LIMITS of the path
          FallbackLimit, \* _FALLBACK_LIMIT
          Minute,        \* 60 seconds, in ticks
          MaxTime,       \* bound: last instant of the clock
          MaxFaults      \* bound: failed commands and restarts of Redis

LimiterAssumption ==
  /\ IsFiniteSet(Requests)
  /\ {Limit, FallbackLimit, Minute} \subseteq Nat \ {0} /\ {MaxTime, MaxFaults} \subseteq Nat

Instants == 0 .. MaxTime
Window(t) == t \div Minute
Windows == {Window(t) : t \in Instants}
Never == -1

VARIABLES
  now,
  count,    \* Redis: the counter of each window, 0 for a key that is not there
  dies,     \* Redis: when each key expires, Never without a time to live
  memory,   \* _fallback_counters
  req,      \* what each request is doing
  incrs,    \* history: INCR commands on each key
  lives,    \* history: how often each key came into being
  passed,   \* history: requests each key let through
  rescued,  \* history: requests the fallback let through in each window
  at,       \* history: requests let through at each instant
  faults

redis == <<count, dies, incrs, lives>>
vars == <<now, redis, memory, req, passed, rescued, at, faults>>

Idle == [pc |-> "new", window |-> 0, current |-> 0]

Init ==
  /\ now = 0
  /\ count = [w \in Windows |-> 0] /\ dies = [w \in Windows |-> Never]
  /\ memory = [w \in Windows |-> 0]
  /\ req = [r \in Requests |-> Idle]
  /\ incrs = [w \in Windows |-> 0] /\ lives = [w \in Windows |-> 0]
  /\ passed = [w \in Windows |-> 0] /\ rescued = [w \in Windows |-> 0]
  /\ at = [t \in Instants |-> 0] /\ faults = 0

-----------------------------------------------------------------------------
(* Redis *)

\* INCR of the key of window w.
Increments(w) ==
  /\ count' = [count EXCEPT ![w] = @ + 1]
  /\ incrs' = [incrs EXCEPT ![w] = @ + 1]
  /\ lives' = [lives EXCEPT ![w] = IF count[w] = 0 THEN @ + 1 ELSE @]
  /\ UNCHANGED dies

\* Mutant: the key lives a tick less than its window.
LivesTooShort == now + Minute - 1

\* EXPIRE key 60
Lifetime == now + Minute

Expired(t) == {w \in Windows : dies[w] # Never /\ dies[w] <= t}

Tick ==
  /\ now < MaxTime
  /\ now' = now + 1
  /\ count' = [w \in Windows |-> IF w \in Expired(now + 1) THEN 0 ELSE count[w]]
  /\ dies' = [w \in Windows |-> IF w \in Expired(now + 1) THEN Never ELSE dies[w]]
  /\ UNCHANGED <<incrs, lives, memory, req, passed, rescued, at, faults>>

\* A restart without its data.
RedisRestarts ==
  /\ faults < MaxFaults /\ faults' = faults + 1
  /\ count' = [w \in Windows |-> 0] /\ dies' = [w \in Windows |-> Never]
  /\ UNCHANGED <<now, incrs, lives, memory, req, passed, rescued, at>>

-----------------------------------------------------------------------------
(* dispatch() *)

\* The key is that of the moment the request arrives.
Arrive(r) ==
  /\ req[r].pc = "new"
  /\ req' = [req EXCEPT ![r] = [pc |-> "counting", window |-> Window(now), current |-> 0]]
  /\ UNCHANGED <<now, redis, memory, passed, rescued, at, faults>>

LetsThrough == at' = [at EXCEPT ![now] = @ + 1]

Exceeds(c) == c > Limit

Decides(r, c) ==
  /\ req' = [req EXCEPT ![r].pc = "done", ![r].current = c]
  /\ IF Exceeds(c) THEN UNCHANGED <<passed, at>>
     ELSE passed' = [passed EXCEPT ![req[r].window] = @ + 1] /\ LetsThrough

First(c) == c = 1

Count(r) ==
  /\ req[r].pc = "counting"
  /\ Increments(req[r].window)
  /\ LET c == count[req[r].window] + 1 IN
       IF First(c)
       THEN /\ req' = [req EXCEPT ![r].pc = "expiring", ![r].current = c]
            /\ UNCHANGED <<passed, at>>
       ELSE Decides(r, c)
  /\ UNCHANGED <<now, memory, rescued, faults>>

\* EXPIRE finds no key if Redis was restarted.
Expire(r) ==
  /\ req[r].pc = "expiring"
  /\ dies' = [dies EXCEPT ![req[r].window] = IF count[req[r].window] = 0 THEN @ ELSE Lifetime]
  /\ Decides(r, req[r].current)
  /\ UNCHANGED <<now, count, incrs, lives, memory, rescued, faults>>

\* _fallback_check drops the counters of windows that are over for a minute.
Kept(w) == [v \in Windows |-> IF v < w - 1 THEN 0 ELSE memory[v]]

\* A command raises, before Redis carried it out or after: the request is counted
\* in memory, in the window of this moment.
FallBack(r) ==
  /\ req[r].pc \in {"counting", "expiring"} /\ faults < MaxFaults
  /\ faults' = faults + 1
  /\ LET w == Window(now)
         kept == Kept(w)
     IN  /\ memory' = [kept EXCEPT ![w] = @ + 1]
         /\ req' = [req EXCEPT ![r].pc = "done"]
         /\ IF kept[w] + 1 <= FallbackLimit
            THEN rescued' = [rescued EXCEPT ![w] = @ + 1] /\ LetsThrough
            ELSE UNCHANGED <<rescued, at>>
  /\ UNCHANGED <<now, passed>>
  /\ \/ UNCHANGED redis
     \/ req[r].pc = "counting" /\ Increments(req[r].window)

Next == \/ Tick \/ RedisRestarts
        \/ \E r \in Requests : Arrive(r) \/ Count(r) \/ Expire(r) \/ FallBack(r)

Spec == Init /\ [][Next]_vars

-----------------------------------------------------------------------------
TypeOK ==
  /\ now \in Instants /\ faults \in 0 .. MaxFaults
  /\ count \in [Windows -> Nat] /\ dies \in [Windows -> {Never} \cup Nat]
  /\ memory \in [Windows -> Nat]
  /\ req \in [Requests -> [pc : {"new", "counting", "expiring", "done"}, window : Windows,
                           current : Nat]]
  /\ {incrs, lives, passed, rescued} \subseteq [Windows -> Nat]
  /\ at \in [Instants -> Nat]
  /\ \A w \in Windows : count[w] = 0 => dies[w] = Never
  /\ \A r \in Requests : req[r].pc = "expiring" => req[r].current = 1

\* No request counts in a window to come, and no key dies in its own window or before.
KeysOutliveWindows ==
  /\ \A r \in Requests : req[r].window <= Window(now)
  /\ \A w \in Windows : dies[w] # Never => Window(dies[w]) > w

\* Nor does a counter of a window to come lose anything while Redis stays up.
CountersUnbroken ==
  faults = 0 => \A w \in Windows : Window(now) <= w => count[w] = incrs[w]

\* Requests that began a counter and are yet to pass.
Expiring(w) == {r \in Requests : req[r].pc = "expiring" /\ req[r].window = w}

\* What a key let through and is about to: its limit for each life that is over, and
\* in this one no more than it has counted.
PassedInLife ==
  \A w \in Windows :
    passed[w] + Cardinality(Expiring(w))
      <= Limit * lives[w] - (IF count[w] < Limit /\ count[w] # 0 THEN Limit - count[w] ELSE 0)

\* Who was let through by the fallback has been counted in memory.
RescuedAreCounted ==
  \A w \in Windows : Window(now) <= w => rescued[w] <= memory[w]

\* While its minute lasts a counter is not reset under the requests it counts: the
\* time to live, set at the first request, outlives the window.  Redis alone can
\* lose it.
WindowIsNotReset ==
  \A w \in Windows : faults = 0 /\ Window(now) = w => count[w] = incrs[w]

\* Requests that Redis counts pass up to the limit, each time the counter came into
\* being anew, and requests counted in memory up to the limit of the fallback,
\* whenever Redis fails, restarts and answers in between.
PassedBounded ==
  \A w \in Windows : passed[w] <= Limit * lives[w] /\ rescued[w] <= FallbackLimit

-----------------------------------------------------------------------------
(* What the repository says and the code does not do. *)

\* rate_limit.py:86, "Max {limit} requests/minute for this endpoint": in no minute
\* do more pass.
MaxPerMinute ==
  \A t \in Instants :
    SumFunctionOnSet(at, {u \in Instants : t <= u /\ u < t + Minute}) <= Limit

\* rate_limit.py:21, "Kill switch, low volume", with a limit of 5: the fallback lets
\* no more pass than the limit of the path.
FallbackKeepsLimit == \A w \in Windows : rescued[w] <= Limit
=============================================================================
