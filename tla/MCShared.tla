------------------------------- MODULE MCShared -------------------------------
(***************************************************************************)
(* State that overlapping requests share, for model checking: the sessions  *)
(* of the MCP client pool, the cache of the rules, the pages of the browser,*)
(* the counters of the API's rate limit, and the token bucket in front of   *)
(* the LLM, whose module this one extends.  Except for the bucket, which    *)
(* its lock protects, each is read before an await and written after it.    *)
(* They share nothing with one another: scope says whose steps these are,   *)
(* the others rest.  The client pool and the browser are met twice, with    *)
(* overlapping requests and with one request at a time ("... alone").       *)
(***************************************************************************)
EXTENDS TokenBucket, Sequences, FiniteSets

LOCAL INSTANCE TLC

CONSTANTS Requests, MaxOpened, MaxRecords, PoolFaults,
          Writers, AtWork, NumSeeds, MaxRules, NumSlots, RuleFaults,
          Calls, SessionIds, MaxAge, MaxPages, BrowserTime,
          Posts, Limit, FallbackLimit, Minute, LimiterTime, LimiterFaults,
          Scopes \* the components this run is about

VARIABLES
  scope,
  record, created, conn, tools, open, opened, request, poolFaults,
  heap, extent, wanted, rules, cache, up, task, accepted, dropped, doomed, overtaken, missed,
  overlap, ruleFaults,
  clock, pages, stamp, dated, shown, pageCount, call, used,
  minuteClock, count, dies, memory, req, incrs, lives, passed, rescued, at, limiterFaults

bucketVars  == <<now, tokens, last, caller, wake, since, spent>>
poolVars    == <<record, created, conn, tools, open, opened, request, poolFaults>>
rulesVars   == <<heap, extent, wanted, rules, cache, up, task, accepted, dropped, doomed,
                 overtaken, missed, overlap, ruleFaults>>
browserVars == <<clock, pages, stamp, dated, shown, pageCount, call, used>>
limiterVars == <<minuteClock, count, dies, memory, req, incrs, lives, passed, rescued, at,
                 limiterFaults>>

McpPool(active) == INSTANCE McpClientPool
  WITH faults <- poolFaults, MaxFaults <- PoolFaults, MaxActive <- active
Rules == INSTANCE RulesEngine
  WITH created <- rules, faults <- ruleFaults, MaxFaults <- RuleFaults, MaxActive <- AtWork
Browser(active, sessions) == INSTANCE BrowserSessions
  WITH now <- clock, cache <- pages, open <- shown, opened <- pageCount,
       Sessions <- SessionIds, MaxTime <- BrowserTime, MaxSessions <- sessions, MaxActive <- active
Limiter == INSTANCE RateLimiter
  WITH now <- minuteClock, faults <- limiterFaults, Requests <- Posts,
       MaxTime <- LimiterTime, MaxFaults <- LimiterFaults

ASSUME SharedAssumption ==
  /\ McpPool(2)!PoolAssumption /\ Rules!RulesAssumption
  /\ Browser(2, 2)!BrowserAssumption /\ Limiter!LimiterAssumption

SharedInit == /\ scope \in Scopes
              /\ Init /\ McpPool(2)!Init /\ Rules!Init /\ Browser(2, 2)!Init /\ Limiter!Init

SharedNext ==
  /\ UNCHANGED scope
  /\ \/ /\ scope = "bucket" /\ Next
        /\ UNCHANGED <<poolVars, rulesVars, browserVars, limiterVars>>
     \/ /\ \/ scope = "pool" /\ McpPool(2)!Next
           \/ scope = "pool alone" /\ McpPool(1)!Next
        /\ UNCHANGED <<bucketVars, rulesVars, browserVars, limiterVars>>
     \/ /\ scope = "rules" /\ Rules!Next
        /\ UNCHANGED <<bucketVars, poolVars, browserVars, limiterVars>>
     \/ /\ \/ scope = "browser" /\ Browser(2, 2)!Next
           \/ scope = "browser alone" /\ Browser(1, 1)!Next
        /\ UNCHANGED <<bucketVars, poolVars, rulesVars, limiterVars>>
     \/ /\ scope = "limiter" /\ Limiter!Next
        /\ UNCHANGED <<bucketVars, poolVars, rulesVars, browserVars>>

SharedSpec ==
  SharedInit /\ [][SharedNext]_<<scope, bucketVars, poolVars, rulesVars, browserVars, limiterVars>>

\* The requests that change the rules are alike, in every step and every property.
Symmetry == Permutations(Writers)

-----------------------------------------------------------------------------
(* The properties of the components, stated and explained part by part in     *)
(* their modules; AtMostDoubleRate and IInv are those of TokenBucket itself.  *)

\* A rule is in force once its creation is answered, and out of force once its removal
\* is, although overlapping changes reload the same cache: unless the reload that wrote
\* the cache had read the table before the change and was overtaken by the others, and
\* requests that do not overlap overtake nobody.
RulesInForce ==
  scope = "rules" => /\ Rules!TypeOK
                     /\ Rules!ChangesInHand
                     /\ Rules!RowsAreRead
                     /\ Rules!AcceptedAreLive
                     /\ Rules!EnforcedOnceAccepted
                     /\ Rules!GoneOnceDropped
                     /\ Rules!NobodyOvertaken

\* A session of the client pool has one owner and no page is in the cache twice or
\* after it was closed, however requests overlap; requests one after the other leave
\* the pool in step with its table, no page behind, and keep the limit of sessions.
ResourcesAccounted ==
  /\ scope \in {"pool", "pool alone"} => McpPool(2)!TypeOK
  /\ scope \in {"pool", "pool alone"} => McpPool(2)!OneOwner /\ McpPool(2)!HeldAreOpen
  /\ scope = "pool alone" => McpPool(1)!StepsWhenSerial /\ McpPool(1)!InStepWhenSerial
  /\ scope \in {"browser", "browser alone"} =>
       Browser(2, 2)!TypeOK /\ Browser(2, 2)!CachedPagesAreOpen /\ Browser(2, 2)!ClosedAreUncached
  /\ scope = "browser alone" => Browser(1, 1)!StepsWhenSerial /\ Browser(1, 1)!TidyWhenSerial

\* A counter is not reset within its minute; each counter keeps its limit, and
\* so does the fallback.
CountersKept ==
  scope = "limiter" => /\ Limiter!TypeOK
                       /\ Limiter!KeysOutliveWindows
                       /\ Limiter!CountersUnbroken
                       /\ Limiter!WindowIsNotReset
                       /\ Limiter!PassedInLife
                       /\ Limiter!RescuedAreCounted
                       /\ Limiter!PassedBounded
=============================================================================
