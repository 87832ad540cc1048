----------------------------- MODULE RulesEngine -----------------------------
(***************************************************************************)
(* The rules engine (src/rules/engine.py): the table of rules, the cache    *)
(* every signal is evaluated against, and the calls that change the table   *)
(* and then reload the cache: the two routes and the seeding at start-up.   *)
(* Requests overlap, and so do their reloads: each reads the table before an *)
(* await and assigns the cache after it, whatever was committed in between.  *)
(*                                                                          *)
(* Rules are numbered as they are created.  Patterns are abstracted: every  *)
(* rule here matches the signal in question, so that the first of the cache *)
(* decides (first match wins).                                              *)
(***************************************************************************)
EXTENDS Integers, Sequences, FiniteSets, SequencesExt, FiniteSetsExt

CONSTANTS Writers,   \* requests that add or remove a rule
          MaxActive, \* how many of them overlap
          NumSeeds,  \* rules of seed_default_rules
          MaxRules,  \* bound: rules created
          NumSlots,  \* bound: places for rows in the table
          MaxFaults  \* bound: failed reloads and crashes

RulesAssumption ==
  /\ IsFiniteSet(Writers) /\ "boot" \notin Writers
  /\ NumSeeds \in Nat \ {0} /\ {MaxActive, MaxFaults} \subseteq Nat
  /\ NumSlots \in Nat /\ MaxRules \in Nat /\ NumSeeds <= MaxRules

Rules   == 1 .. MaxRules
Slots   == 1 .. NumSlots
Tasks   == Writers \cup {"boot"}
Configs == {"default", "chosen"}  \* Rule.config: the agent to force
Cached  == [id : Rules, config : Configs]

VARIABLES
  heap,     \* the table: which rule is in which place, 0 for none
  extent,   \* places the table has
  wanted,   \* history: the config each rule was created with
  created,  \* rules created so far
  cache,    \* _rules_cache
  up,       \* start-up is over and requests are served
  task,     \* what each task is doing
  accepted, \* history: rules whose addition was answered with success
  dropped,  \* history: rules whose removal was answered with success
  doomed,   \* history: rules somebody asked to remove
  overtaken, \* history: rules added or deleted since each reload under way read the table
  missed,   \* history: the same of the reload that assigned the cache, when it did
  overlap,  \* history: requests have overlapped since the last start
  faults

vars == <<heap, extent, wanted, created, cache, up, task, accepted, dropped, doomed,
          overtaken, missed, overlap, faults>>

Idle == [pc |-> "idle", op |-> "add", rule |-> 0, rows |-> <<>>, left |-> 0]
Boot == [pc |-> "reading", op |-> "seed", rule |-> 0, rows |-> <<>>, left |-> NumSeeds]
Pcs  == {"idle", "writing", "deleting", "reading", "installing"}

Live   == {heap[s] : s \in Slots} \ {0}
Active == {t \in Tasks : task[t].pc # "idle"}
Ids(c) == {c[i].id : i \in DOMAIN c}

Init ==
  /\ heap = [s \in Slots |-> 0] /\ extent = 0 /\ wanted = [r \in Rules |-> "default"] /\ created = 0
  /\ cache = <<>> /\ up = FALSE
  /\ task = [t \in Tasks |-> IF t = "boot" THEN Boot ELSE Idle]
  /\ accepted = {} /\ dropped = {} /\ doomed = {} /\ faults = 0
  /\ overtaken = [t \in Tasks |-> {}] /\ missed = {} /\ overlap = FALSE

At(t, pc) == task[t].pc = pc

\* The row of r is committed or deleted, behind the back of the reloads that have read.
Changed(r) == overtaken' = [t \in Tasks |-> IF At(t, "installing") THEN overtaken[t] \cup {r} ELSE overtaken[t]]

Forgotten(t) == overtaken' = [overtaken EXCEPT ![t] = {}]

-----------------------------------------------------------------------------
(* Requests. *)

Free(t) == up /\ t \in Writers \ Active /\ Cardinality(Active) < MaxActive

BeginAdd(t) ==
  /\ Free(t)
  /\ overlap' = (overlap \/ Active # {})
  /\ task' = [task EXCEPT ![t] = [Idle EXCEPT !.pc = "writing"]]
  /\ UNCHANGED <<heap, extent, wanted, created, cache, up, accepted, dropped, doomed, overtaken, missed, faults>>

BeginRemove(t, r) ==
  /\ Free(t) /\ r \in 1 .. created
  /\ overlap' = (overlap \/ Active # {})
  /\ task' = [task EXCEPT ![t] = [Idle EXCEPT !.pc = "writing", !.op = "remove", !.rule = r]]
  /\ doomed' = doomed \cup {r}
  /\ UNCHANGED <<heap, extent, wanted, created, cache, up, accepted, dropped, overtaken, missed, faults>>

OneLess(n) == IF n = 0 THEN 0 ELSE n - 1

\* The row goes into a place that was freed, also before older rows, or behind
\* the last.  Its config is not written: the insert names the other columns.
InsertRow(t, s, config) ==
  /\ At(t, "writing") /\ task[t].op \in {"add", "seed"}
  /\ task[t].op = "seed" => config = "default"
  /\ created < MaxRules
  /\ s <= extent + 1 /\ heap[s] = 0
  /\ created' = created + 1
  /\ extent' = Max({extent, s})
  /\ heap'   = [heap EXCEPT ![s] = created + 1]
  /\ wanted' = [wanted EXCEPT ![created + 1] = config]
  /\ task'   = [task EXCEPT ![t].pc = "reading", ![t].rule = created + 1,
                            ![t].left = OneLess(@)]
  /\ Changed(created + 1)
  /\ UNCHANGED <<cache, up, accepted, dropped, doomed, missed, overlap, faults>>

\* The SELECT of remove_rule finds the row.
FindRow(t) ==
  /\ At(t, "writing") /\ task[t].op = "remove" /\ task[t].rule \in Live
  /\ task' = [task EXCEPT ![t].pc = "deleting"]
  /\ UNCHANGED <<heap, extent, wanted, created, cache, up, accepted, dropped, doomed, overtaken, missed, overlap, faults>>

DeleteRow(t) ==
  /\ At(t, "deleting") /\ task[t].rule \in Live
  /\ heap' = [s \in Slots |-> IF heap[s] = task[t].rule THEN 0 ELSE heap[s]]
  /\ task' = [task EXCEPT ![t].pc = "reading"]
  /\ Changed(task[t].rule)
  /\ UNCHANGED <<extent, wanted, created, cache, up, accepted, dropped, doomed, missed, overlap, faults>>

\* Deleted by another request since it was found: no row matches, a warning is
\* logged, and the request goes on as if it had deleted it.
DeletedMeanwhile(t) ==
  /\ At(t, "deleting") /\ task[t].rule \notin Live
  /\ task' = [task EXCEPT ![t].pc = "reading"]
  /\ UNCHANGED <<heap, extent, wanted, created, cache, up, accepted, dropped, doomed, overtaken, missed, overlap, faults>>

\* Removed by somebody else: 404, nothing is reloaded.
NothingToDelete(t) ==
  /\ At(t, "writing") /\ task[t].op = "remove" /\ task[t].rule \notin Live
  /\ task' = [task EXCEPT ![t] = Idle]
  /\ UNCHANGED <<heap, extent, wanted, created, cache, up, accepted, dropped, doomed, overtaken, missed, overlap, faults>>

-----------------------------------------------------------------------------
(* load_rules *)

\* A row without config becomes a rule with the default one.
RowToRule(r) == [id |-> r, config |-> "default"]

Filled  == {s \in Slots : heap[s] # 0}
Rank(s) == Cardinality({u \in Filled : u <= s})

\* Without ORDER BY: in the order of the places.
Rows == [i \in 1 .. Cardinality(Filled) |->
           RowToRule(heap[CHOOSE s \in Filled : Rank(s) = i])]

Read(t) ==
  /\ At(t, "reading")
  /\ task' = [task EXCEPT ![t].rows = Rows, ![t].pc = "installing"]
  /\ UNCHANGED <<heap, extent, wanted, created, cache, up, accepted, dropped, doomed, overtaken, missed, overlap, faults>>

\* Mutant: the cache is only ever extended.
CacheMerged(t) == task[t].rows \o SelectSeq(cache, LAMBDA c : c.id \notin Ids(task[t].rows))

NewCache(t) == task[t].rows

\* The reloaded cache is assigned and the call returns.
Install(t) ==
  /\ t \in Writers /\ At(t, "installing")
  /\ cache' = NewCache(t)
  /\ accepted' = IF task[t].op = "add" THEN accepted \cup {task[t].rule} ELSE accepted
  /\ dropped'  = IF task[t].op = "remove" THEN dropped \cup {task[t].rule} ELSE dropped
  /\ task' = [task EXCEPT ![t] = Idle]
  /\ missed' = overtaken[t] /\ Forgotten(t)
  /\ UNCHANGED <<heap, extent, wanted, created, up, doomed, overlap, faults>>

-----------------------------------------------------------------------------
(* seed_default_rules, at start-up and before any request. *)

\* The first load found rules, or the last of the defaults is in the cache.
SeedingIsOver ==
  \/ task["boot"].rule = 0 /\ task["boot"].rows # <<>>
  \/ task["boot"].left = 0

Seed ==
  /\ At("boot", "installing")
  /\ cache' = NewCache("boot")
  /\ accepted' = accepted \cup ({task["boot"].rule} \ {0})
  /\ up' = SeedingIsOver
  /\ task' = [task EXCEPT !["boot"] = IF SeedingIsOver THEN Idle ELSE [@ EXCEPT !.pc = "writing", !.rows = <<>>]]
  /\ missed' = overtaken["boot"] /\ Forgotten("boot")
  /\ UNCHANGED <<heap, extent, wanted, created, dropped, doomed, overlap, faults>>

-----------------------------------------------------------------------------
Fault == faults < MaxFaults /\ faults' = faults + 1

\* A statement of a request fails, before or after its commit: 500.
RequestFails(t) ==
  /\ Fault
  /\ t \in Writers \cap Active
  /\ task' = [task EXCEPT ![t] = Idle] /\ Forgotten(t)
  /\ UNCHANGED <<heap, extent, wanted, created, cache, up, accepted, dropped, doomed, missed, overlap>>

\* The process dies and starts again; the table remains.
Restart ==
  /\ Fault
  /\ cache' = <<>> /\ up' = FALSE
  /\ task' = [t \in Tasks |-> IF t = "boot" THEN Boot ELSE Idle]
  /\ overtaken' = [t \in Tasks |-> {}] /\ missed' = {} /\ overlap' = FALSE
  /\ UNCHANGED <<heap, extent, wanted, created, accepted, dropped, doomed>>

Step(t) ==
  \/ BeginAdd(t) \/ (\E r \in Rules : BeginRemove(t, r))
  \/ (\E s \in Slots, c \in Configs : InsertRow(t, s, c))
  \/ FindRow(t) \/ DeleteRow(t) \/ DeletedMeanwhile(t) \/ NothingToDelete(t) \/ Read(t) \/ Install(t) \/ RequestFails(t)

Next == (\E t \in Tasks : Step(t)) \/ Seed \/ Restart

Spec == Init /\ [][Next]_vars

-----------------------------------------------------------------------------
TypeOK ==
  /\ heap \in [Slots -> 0 .. created] /\ created \in 0 .. MaxRules
  /\ extent \in 0 .. NumSlots /\ \A s \in Slots : s > extent => heap[s] = 0
  /\ \A s, u \in Slots : s # u /\ heap[s] # 0 => heap[s] # heap[u]
  /\ wanted \in [Rules -> Configs]
  /\ cache \in Seq(Cached) /\ up \in BOOLEAN
  /\ task \in [Tasks -> [pc : Pcs, op : {"add", "remove", "seed"}, rule : 0 .. MaxRules,
                         rows : Seq(Cached), left : 0 .. NumSeeds]]
  /\ \A t \in Tasks : task[t].pc # "installing" => task[t].rows = <<>>
  /\ accepted \subseteq 1 .. created /\ doomed \subseteq 1 .. created
  /\ dropped \subseteq doomed \ Live
  /\ overtaken \in [Tasks -> SUBSET (1 .. created)] /\ missed \subseteq 1 .. created
  /\ overlap \in BOOLEAN
  /\ faults \in 0 .. MaxFaults

\* What each task has in hand: a rule that is in the table, unless somebody asked to
\* remove it, or is there no longer, as its answer will say; and no request is served
\* before start-up is over.
ChangesInHand ==
  /\ up <=> "boot" \notin Active
  /\ \A t \in Active :
       /\ task[t].op = "seed" <=> t = "boot"
       /\ t \in Writers => up
       /\ task[t].op = "remove" => task[t].rule \in doomed
       /\ task[t].pc = "deleting" => task[t].op = "remove"
       /\ task[t].op = "remove" /\ task[t].pc \in {"reading", "installing"} => task[t].rule \notin Live
       /\ task[t].op = "add" /\ task[t].pc # "writing" => task[t].rule \in Live \cup doomed
       /\ t = "boot" /\ task[t].rule # 0 => task[t].rule \in Live \cup doomed

\* The rows a reload has read are those of the table, but for what changed since.
RowsAreRead ==
  \A t \in Tasks : At(t, "installing") =>
    /\ Live \ overtaken[t] \subseteq Ids(task[t].rows)
    /\ Ids(task[t].rows) \ overtaken[t] \subseteq Live

\* A row is deleted only on request.
AcceptedAreLive == (accepted \ doomed) \subseteq Live

\* A rule is in force from the moment its creation is answered, and through restarts
\* and failed requests, until somebody asks to remove it; unless the reload that wrote
\* the cache had read the table before the rule was added, and was overtaken.
EnforcedOnceAccepted == up => (accepted \ doomed) \ missed \subseteq Ids(cache)

\* A rule is out of force from the moment its removal is answered, unless the reload
\* that wrote the cache had read the table before, and was overtaken.
GoneOnceDropped == (dropped \ missed) \cap Ids(cache) = {}

\* Requests overtake nobody as long as they do not overlap.
NobodyOvertaken ==
  ~overlap => /\ \A t, u \in Active : t = u
              /\ \A t \in Tasks : overtaken[t] = {}
              /\ missed = {}

-----------------------------------------------------------------------------
(* What the repository says and the code does not do. *)

\* engine.py:11, "In-memory cache, refreshed on changes": with nobody at work
\* and nothing having failed the cache holds the rules of the table.
CacheRefreshed == Active = {} /\ faults = 0 => Ids(cache) = Live

\* engine.py:96, "First match wins (priority by order)": of two rules that match
\* the older one is found first.
OldestRuleWins == Active = {} /\ faults = 0 /\ cache # <<>> => cache[1].id = Min(Ids(cache))

\* DOCUMENTATION.md:624, "send directly to specified agent".
ForcesConfiguredAgent == \A i \in DOMAIN cache : cache[i].config = wanted[cache[i].id]
=============================================================================
