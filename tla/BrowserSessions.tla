--------------------------- MODULE BrowserSessions ---------------------------
(***************************************************************************)
(* The browser tool: its cache of pages (src/mcp/tools/browser.py) and the  *)
(* browser that opens them (src/browser/engine.py).  Calls run in agents    *)
(* that work side by side; each names a session.                            *)
(*                                                                          *)
(* Pages are numbered as they are opened; 0 is none.                        *)
(***************************************************************************)
EXTENDS Integers, FiniteSets

CONSTANTS Calls,       \* calls under way at once
          Sessions,    \* session ids agents use
          MaxSessions, \* MAX_SESSIONS
          MaxAge,      \* MAX_SESSION_AGE
          MaxPages,    \* bound: pages opened
          MaxTime,     \* bound: last instant of the clock
          MaxActive    \* how many calls overlap

BrowserAssumption ==
  /\ IsFiniteSet(Calls) /\ Calls # {} /\ IsFiniteSet(Sessions) /\ Sessions # {}
  /\ {MaxSessions, MaxAge, MaxPages, MaxTime, MaxActive} \subseteq Nat

Pages == 1 .. MaxPages

VARIABLES
  now,
  cache,  \* _page_cache: the page of each session, 0 for none
  stamp,  \* _page_timestamps, only meaningful where there is one
  dated,  \* sessions with a timestamp
  open,   \* pages open in the browser
  opened, \* pages opened so far
  call,   \* what each call is doing
  used    \* history: when each session was last used

vars == <<now, cache, stamp, dated, open, opened, call, used>>

\* stale: the sessions a call found stale; gone: the one it is closing.
Idle == LET any == CHOOSE s \in Sessions : TRUE
        IN  [pc |-> "idle", sid |-> any, page |-> 0, stale |-> {}, gone |-> any]
Pcs  == {"idle", "evicting", "closing", "opening", "acting", "failing", "cleaning"}

Cached == {s \in Sessions : cache[s] # 0}
Active == {c \in Calls : call[c].pc # "idle"}

Init ==
  /\ now = 0
  /\ cache = [s \in Sessions |-> 0] /\ stamp = [s \in Sessions |-> 0] /\ dated = {}
  /\ open = {} /\ opened = 0
  /\ call = [c \in Calls |-> Idle]
  /\ used = [s \in Sessions |-> 0]

Goes(c, pc) == call' = [call EXCEPT ![c].pc = pc]

-----------------------------------------------------------------------------
\* Age counts from the creation of the session, not from its last use.
Stale == {s \in dated : now - stamp[s] > MaxAge}

\* An action on a session; the stale sessions are listed.
Begin(c, s) ==
  /\ c \notin Active /\ Cardinality(Active) < MaxActive
  /\ call' = [call EXCEPT ![c] = [Idle EXCEPT !.pc = "evicting", !.sid = s, !.stale = Stale]]
  /\ UNCHANGED <<now, cache, stamp, dated, open, opened, used>>

WithoutSession(s) == [cache EXCEPT ![s] = 0]

\* A listed session is taken out of the cache and its page is being closed ...
Evict(c, s) ==
  /\ call[c].pc = "evicting" /\ s \in call[c].stale \cap Cached
  /\ cache' = WithoutSession(s)
  /\ call' = [call EXCEPT ![c].pc = "closing", ![c].page = cache[s], ![c].gone = s,
                          ![c].stale = @ \ {s}]
  /\ UNCHANGED <<now, stamp, dated, open, opened, used>>

\* ... then its timestamp is dropped, or that of the session that has taken
\* its name in the meantime.
Closed(c) ==
  /\ call[c].pc = "closing"
  /\ open' = open \ {call[c].page}
  /\ dated' = dated \ {call[c].gone}
  /\ call' = [call EXCEPT ![c].pc = "evicting", ![c].page = 0]
  /\ UNCHANGED <<now, cache, stamp, opened, used>>

Full == Cardinality(Cached) >= MaxSessions

Evicted(c) == call[c].pc = "evicting" /\ call[c].stale \cap Cached = {}

Refuse(c) ==
  /\ Evicted(c) /\ Full /\ cache[call[c].sid] = 0
  /\ call' = [call EXCEPT ![c] = Idle]
  /\ UNCHANGED <<now, cache, stamp, dated, open, opened, used>>

Reuse(c) ==
  /\ Evicted(c) /\ cache[call[c].sid] # 0
  /\ call' = [call EXCEPT ![c].pc = "acting", ![c].page = cache[call[c].sid]]
  /\ used' = [used EXCEPT ![call[c].sid] = now]
  /\ UNCHANGED <<now, cache, stamp, dated, open, opened>>

BeginOpen(c) ==
  /\ Evicted(c) /\ ~Full /\ cache[call[c].sid] = 0
  /\ Goes(c, "opening")
  /\ UNCHANGED <<now, cache, stamp, dated, open, opened, used>>

Opened(c) ==
  /\ call[c].pc = "opening" /\ opened < MaxPages
  /\ opened' = opened + 1
  /\ open' = open \cup {opened + 1}
  /\ cache' = [cache EXCEPT ![call[c].sid] = opened + 1]
  /\ stamp' = [stamp EXCEPT ![call[c].sid] = now]
  /\ dated' = dated \cup {call[c].sid}
  /\ used' = [used EXCEPT ![call[c].sid] = now]
  /\ call' = [call EXCEPT ![c].pc = "acting", ![c].page = opened + 1]
  /\ UNCHANGED now

\* The browser cannot open a page.
OpenFails(c) ==
  /\ call[c].pc = "opening"
  /\ Goes(c, "failing")
  /\ UNCHANGED <<now, cache, stamp, dated, open, opened, used>>

ActionDone(c) ==
  /\ call[c].pc = "acting" /\ call[c].page \in open
  /\ call' = [call EXCEPT ![c] = Idle]
  /\ UNCHANGED <<now, cache, stamp, dated, open, opened, used>>

\* The action raises, as it must when the page was closed meanwhile.
ActionRaises(c) ==
  /\ call[c].pc = "acting"
  /\ call' = [call EXCEPT ![c].pc = "failing", ![c].page = 0]
  /\ UNCHANGED <<now, cache, stamp, dated, open, opened, used>>

\* Whatever page the session has by now is taken out of the cache and closed.
CleanUp(c) ==
  /\ call[c].pc = "failing" /\ cache[call[c].sid] # 0
  /\ cache' = WithoutSession(call[c].sid)
  /\ call' = [call EXCEPT ![c].pc = "cleaning", ![c].page = cache[call[c].sid]]
  /\ UNCHANGED <<now, stamp, dated, open, opened, used>>

NothingToClean(c) ==
  /\ call[c].pc = "failing" /\ cache[call[c].sid] = 0
  /\ call' = [call EXCEPT ![c] = Idle]
  /\ UNCHANGED <<now, cache, stamp, dated, open, opened, used>>

ClosesPage(c) == open \ {call[c].page}

CleanedUp(c) ==
  /\ call[c].pc = "cleaning"
  /\ open' = ClosesPage(c)
  /\ dated' = dated \ {call[c].sid}
  /\ call' = [call EXCEPT ![c] = Idle]
  /\ UNCHANGED <<now, cache, stamp, opened, used>>

\* action = close_session: cache and timestamp are dropped together; the page is
\* closed before the call returns.
CloseSession(c, s) ==
  /\ c \notin Active /\ cache[s] # 0
  /\ cache' = WithoutSession(s)
  /\ dated' = dated \ {s}
  /\ open' = open \ {cache[s]}
  /\ UNCHANGED <<now, stamp, opened, call, used>>

Tick ==
  /\ now < MaxTime
  /\ now' = now + 1
  /\ UNCHANGED <<cache, stamp, dated, open, opened, call, used>>

Step(c) ==
  \/ \E s \in Sessions : Begin(c, s) \/ Evict(c, s) \/ CloseSession(c, s)
  \/ Closed(c) \/ Refuse(c) \/ Reuse(c) \/ BeginOpen(c) \/ Opened(c) \/ OpenFails(c)
  \/ ActionDone(c) \/ ActionRaises(c) \/ CleanUp(c) \/ NothingToClean(c) \/ CleanedUp(c)

Next == Tick \/ \E c \in Calls : Step(c)

Spec == Init /\ [][Next]_vars

-----------------------------------------------------------------------------
TypeOK ==
  /\ now \in 0 .. MaxTime
  /\ cache \in [Sessions -> {0} \cup Pages]
  /\ stamp \in [Sessions -> 0 .. now] /\ used \in [Sessions -> 0 .. now]
  /\ dated \subseteq Sessions
  /\ open \subseteq 1 .. opened /\ opened \in 0 .. MaxPages
  /\ call \in [Calls -> [pc : Pcs, sid : Sessions, page : {0} \cup Pages,
                      stale : SUBSET Sessions, gone : Sessions]]
  /\ \A c \in Calls : call[c].pc \in {"closing", "acting", "cleaning"} => call[c].page # 0

\* However calls overlap, no page is in the cache twice or after it was closed.
CachedPagesAreOpen ==
  /\ \A s \in Cached : cache[s] \in open
  /\ \A s, t \in Cached : cache[s] = cache[t] => s = t

Closing == {c \in Calls : call[c].pc \in {"closing", "cleaning"}}
InHand  == {call[c].page : c \in Closing}

\* A page that is being closed was opened once and is in the cache no more.
ClosedAreUncached == /\ InHand \subseteq 1 .. opened
                     /\ \A s \in Cached : cache[s] \notin InHand

\* The sessions whose pages these are.
Leaving == {IF call[c].pc = "closing" THEN call[c].gone ELSE call[c].sid : c \in Closing}

\* Calls that follow one another: only the page and the session in hand of the one
\* under way are ahead of cache and timestamps, and it opens a page only in room.
StepsWhenSerial ==
  MaxActive = 1 =>
    /\ \A c, d \in Active : c = d
    /\ open = {cache[s] : s \in Cached} \cup InHand
    /\ dated = Cached \cup Leaving /\ Cached \cap Leaving = {}
    /\ Cardinality(Cached) <= MaxSessions
    /\ \A c \in Calls : call[c].pc = "opening" => ~Full /\ cache[call[c].sid] = 0

\* Calls that follow one another leave no page behind, keep the limit, and keep
\* every session dated so that it can become stale.
TidyWhenSerial ==
  MaxActive = 1 /\ Active = {} =>
    /\ open = {cache[s] : s \in Cached}
    /\ dated = Cached
    /\ Cardinality(Cached) <= MaxSessions

-----------------------------------------------------------------------------
(* What the repository says and the code does not do. *)

\* browser.py:133, "Maximum browser sessions ... reached".
AtMostMaxSessions == Cardinality(Cached) <= MaxSessions

\* browser.py:22, "10 minutes": every session can become stale.
SessionsAreDated == Active = {} => Cached \subseteq dated

\* browser.py:3, "Pages persist across sequential calls": an agent that goes on
\* using its session is not deprived of it by the call of another.
PagesPersist ==
  [][\A s \in Sessions : \A c \in Calls :
       Evict(c, s) /\ cache'[s] # cache[s] => now - used[s] > MaxAge]_vars
=============================================================================
