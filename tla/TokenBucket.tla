----------------------------- MODULE TokenBucket -----------------------------
(***************************************************************************)
(* The rate limiter of an LLM adapter, _acquire_rate_limit_token in         *)
(* src/adapters/base.py.                                                    *)
(*                                                                          *)
(* Time and tokens are counted in units, such that one unit of tokens is    *)
(* earned in one unit of time and a call costs Cost units (in the code a    *)
(* token costs 4 seconds at 0.25 tokens a second).  The asyncio.Lock admits *)
(* one caller at a time, also while it sleeps.                              *)
(***************************************************************************)
EXTENDS Integers

CONSTANTS Cost,     \* price of a call, in units
          Capacity, \* most units the bucket holds
          MaxTime   \* bound: last instant of the clock

ASSUME BucketAssumption ==
  /\ Cost \in Nat \ {0} /\ Capacity \in Nat /\ Cost <= Capacity
  /\ MaxTime \in Nat

VARIABLES
  now,    \* time.time()
  tokens, \* _tokens
  last,   \* _last_refill
  caller, \* the lock: "none", or its holder is "sleeping"
  wake,   \* when the sleep is over
  since,  \* history: when the observer began to count
  spent   \* history: price of the calls let through since then

vars == <<now, tokens, last, caller, wake, since, spent>>

Least(a, b) == IF a < b THEN a ELSE b

Init ==
  /\ now = 0 /\ tokens = Capacity /\ last = 0
  /\ caller = "none" /\ wake = 0
  /\ since = 0 /\ spent = 0

Refilled == Least(Capacity, tokens + (now - last))

\* Enough for a call.
Pass ==
  /\ caller = "none" /\ Refilled >= Cost
  /\ tokens' = Refilled - Cost
  /\ last' = now
  /\ spent' = spent + Cost
  /\ UNCHANGED <<now, caller, wake, since>>

\* Not enough: sleep, with the lock held, for as long as the rest takes.
BeginWait ==
  /\ caller = "none" /\ Refilled < Cost
  /\ tokens' = Refilled
  /\ last' = now
  /\ caller' = "sleeping"
  /\ wake' = now + (Cost - Refilled)
  /\ UNCHANGED <<now, since, spent>>

\* Mutant: the caller wakes before its time.
WokenAtOnce == TRUE

SleepIsOver == now >= wake

\* What was earned in the sleep is spent, but last stays: the next call is
\* credited with it again.
EndWait ==
  /\ caller = "sleeping" /\ SleepIsOver
  /\ tokens' = 0
  /\ spent' = spent + Cost
  /\ caller' = "none"
  /\ UNCHANGED <<now, last, wake, since>>

\* The sleeping caller is cancelled; async with releases the lock.
CancelWait ==
  /\ caller = "sleeping"
  /\ caller' = "none"
  /\ UNCHANGED <<now, tokens, last, wake, since, spent>>

\* asyncio.sleep may oversleep: time is not held up by wake.
Tick ==
  /\ now < MaxTime
  /\ now' = now + 1
  /\ UNCHANGED <<tokens, last, caller, wake, since, spent>>

\* An observer starts to count, at any moment.
Observe ==
  /\ since' = now /\ spent' = 0
  /\ UNCHANGED <<now, tokens, last, caller, wake>>

Next == Pass \/ BeginWait \/ EndWait \/ CancelWait \/ Tick \/ Observe

Spec == Init /\ [][Next]_vars

-----------------------------------------------------------------------------
TypeOK ==
  /\ now \in 0 .. MaxTime /\ last \in 0 .. now /\ since \in 0 .. now
  /\ tokens \in 0 .. Capacity
  /\ caller \in {"none", "sleeping"}
  /\ wake \in Nat
  /\ spent \in Nat

\* Over any stretch of time, and whichever callers are cancelled or oversleep,
\* no more is let through than the bucket, one caller and twice the rate allow.
AtMostDoubleRate == spent <= Capacity + Cost + 2 * (now - since)

\* The sleep in progress ends when the bucket holds the price of the call.
SleepsLongEnough == caller = "sleeping" => tokens < Cost /\ wake = last + (Cost - tokens)

\* What has been spent and what may be spent at once, against the allowance.
Allowance ==
  /\ caller = "none" =>
       spent + Refilled <= Capacity + Cost + 2 * (now - since)
  /\ caller = "sleeping" =>
       \/ since <= last /\ spent + tokens <= Capacity + Cost + 2 * (last - since)
       \/ since >= last /\ spent = 0

\* The inductive invariant behind AtMostDoubleRate.
IInv == TypeOK /\ SleepsLongEnough /\ Allowance

-----------------------------------------------------------------------------
(* What the repository says and the code does not do. *)

\* base.py:65, "Tokens per second" and "Max burst": over any stretch of time no
\* more than the bucket and what is earned meanwhile.
RateKept == spent <= Capacity + (now - since)
=============================================================================
