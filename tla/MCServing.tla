------------------------------ MODULE MCServing ------------------------------
(***************************************************************************)
(* What serves a running process, for model checking: its start-up and      *)
(* shutdown and the filling of the tool registry, the Telegram webhook with *)
(* the splitting of its replies, delegation between agents and the admin    *)
(* routes of the agents, the requests and notices that leave the process,   *)
(* the search for knowledge and the code review chain.  As in MCWorkers,    *)
(* scope says which of them takes the steps while the others rest.          *)
(***************************************************************************)
EXTENDS Integers, Sequences, FiniteSets
LOCAL INSTANCE TLC

CONSTANTS LifeFaults, Incoming, Pieces, SendFaults, Limit, MaxText,
          Threads, Agents, MaxDepth, Permits, MaxEdits, MaxCalls,
          SystemAgent, AgentNames, Columns, Values, Requests,
          BuiltIns, ToolNames, RefusedNames, MaxFiles,
          Outbound, CallFaults, Users, NoticeFaults, Attempts,
          ChunkIds, K, TopK, Final, MaxPasses, MaxIterations,
          Scopes \* the components this run is about

VARIABLES
  scope,
  off, phase, at, up, task, deaf, lifeFaults,
  about, waiting, run, sendFaults,
  newline, from, parts,
  peers, known, stack, asking, depth, edits, calls,
  table, ids, request, op, seen, status,
  files, loaded, tools, loader, file,
  call, stage, acted, trail, reply, callFaults,
  notice, blocked, notifier, to, got, answer, attempts, noticeFaults,
  stored, gone, search, vector, words, results, passes,
  chain, round, said, reviews, told, approved

lifeVars     == <<off, phase, at, up, task, deaf, lifeFaults>>
updateVars   == <<about, waiting, run, sendFaults>>
splitVars    == <<newline, from, parts>>
nestingVars  == <<peers, known, stack, asking, depth, edits, calls>>
registryVars == <<table, ids, request, op, seen, status>>
catalogVars  == <<files, loaded, tools, loader, file>>
callVars     == <<call, stage, acted, trail, reply, callFaults>>
noticeVars   == <<notice, blocked, notifier, to, got, answer, attempts, noticeFaults>>
searchVars   == <<stored, gone, search, vector, words, results, passes>>
chainVars    == <<chain, round, said, reviews, told, approved>>
vars == <<scope, lifeVars, updateVars, splitVars, nestingVars, registryVars, catalogVars,
          callVars, noticeVars, searchVars, chainVars>>

Life     == INSTANCE Lifespan WITH faults <- lifeFaults, MaxFaults <- LifeFaults
Webhook  == INSTANCE TelegramUpdate WITH kind <- about, faults <- sendFaults, Updates <- Incoming,
                                         Chunks <- Pieces, MaxFaults <- SendFaults
Split    == INSTANCE TextSplit
Nesting  == INSTANCE Delegation WITH Tasks <- Threads
Registry == INSTANCE AgentRegistry WITH pc <- request, answer <- status, System <- SystemAgent,
                                        Names <- AgentNames, Fields <- Columns
Catalog  == INSTANCE ToolCatalog WITH pc <- loader, at <- file, Names <- ToolNames,
                                       Refused <- RefusedNames
Calls    == INSTANCE OutboundCalls WITH kind <- call, pc <- stage, answer <- reply,
                                        faults <- callFaults, Calls <- Outbound, MaxFaults <- CallFaults
Notice   == INSTANCE Notices WITH kind <- notice, pc <- notifier, calls <- attempts,
                                  faults <- noticeFaults, MaxFaults <- NoticeFaults, MaxCalls <- Attempts
Search   == INSTANCE Retriever WITH pc <- search, Chunks <- ChunkIds
Chain    == INSTANCE ReviewChain WITH pc <- chain

ASSUME ServingAssumption ==
  /\ Life!LifespanAssumption /\ Webhook!UpdateAssumption /\ Split!SplitAssumption
  /\ Nesting!DelegationAssumption /\ Registry!RegistryAssumption
  /\ Catalog!CatalogAssumption /\ Calls!CallsAssumption /\ Notice!NoticesAssumption
  /\ Search!RetrieverAssumption /\ Chain!ChainAssumption

\* A resting component has one initial state.
Init ==
  /\ scope \in Scopes
  /\ Life!Init     /\ (scope # "lifespan" => off = {})
  /\ Webhook!Init  /\ (scope # "webhook" => \A u \in Incoming : about[u] = "message")
  /\ Split!Init    /\ (scope # "split" => newline = <<FALSE>>)
  /\ Nesting!Init  /\ (scope # "nesting" => \A a \in Agents : peers[a] = {})
  /\ Registry!Init /\ (scope # "registry" =>
                         \A f \in Columns : table[SystemAgent].data[f] = CHOOSE v \in Values : TRUE)
  /\ Catalog!Init  /\ (scope # "catalog" => files = <<>>)
  /\ Calls!Init    /\ (scope # "calls" => \A c \in Outbound : call[c] = "yaml")
  /\ Notice!Init   /\ (scope # "notices" => notice = "tool" /\ blocked = {})
  /\ Search!Init   /\ (scope # "search" => stored = {})
  /\ Chain!Init

Rests(s, v) == scope # s => UNCHANGED v

Next ==
  /\ UNCHANGED scope
  /\ \/ scope = "lifespan" /\ Life!Next
     \/ scope = "webhook" /\ Webhook!Next
     \/ scope = "split" /\ Split!Next
     \/ scope = "nesting" /\ Nesting!Next
     \/ scope = "registry" /\ Registry!Next
     \/ scope = "catalog" /\ Catalog!Next
     \/ scope = "calls" /\ Calls!Next
     \/ scope = "notices" /\ Notice!Next
     \/ scope = "search" /\ Search!Next
     \/ scope = "chain" /\ Chain!Next
  /\ Rests("lifespan", lifeVars) /\ Rests("webhook", updateVars) /\ Rests("split", splitVars)
  /\ Rests("nesting", nestingVars) /\ Rests("registry", registryVars)
  /\ Rests("catalog", catalogVars) /\ Rests("calls", callVars) /\ Rests("notices", noticeVars)
  /\ Rests("search", searchVars) /\ Rests("chain", chainVars)

Spec == Init /\ [][Next]_vars

\* The fairness of each component, owed by the one that is in scope.
FairSpec == /\ Spec
            /\ WF_lifeVars(scope = "lifespan" /\ Life!Steps)
            /\ WF_updateVars(scope = "webhook" /\ Webhook!Works)
            /\ WF_catalogVars(scope = "catalog" /\ Catalog!Next)
            /\ WF_noticeVars(scope = "notices" /\ Notice!Next)
            /\ WF_chainVars(scope = "chain" /\ Chain!Next)

\* The admin requests are alike, in every step and every property; no fairness and no
\* eventuality is about them.
Symmetry == Permutations(Requests)

-----------------------------------------------------------------------------
(* The properties of the components, stated and explained part by part in     *)
(* their modules; an invariant speaks about the component in scope.           *)

\* Nothing runs before what it uses is up or after it was closed (main.py:260-424),
\* and the registry serves for each name the tool that was registered last.
StartupOrdered ==
  /\ scope = "lifespan" => Life!TypeOK /\ Life!AliveIsServed /\ Life!ClosedAfterUse
  /\ scope = "catalog" => Catalog!TypeOK /\ Catalog!CatalogComplete

\* Telegram forgets an update only when it was dealt with, its sender misses no part
\* of the reply without two refusals, and the split reply has every line.
UsersAnswered ==
  /\ scope = "webhook" => Webhook!TypeOK /\ Webhook!ForgottenWhenDone /\ Webhook!SilenceExplained
  /\ scope = "split" => /\ Split!TypeOK /\ Split!FitsMessage
                        /\ Split!OnlyNewlinesLost /\ Split!CutsLongLinesOnly

\* The depth of delegation is that of the nesting, whatever failed before
\* (delegate.py:71, 104).
DepthIsNesting == scope = "nesting" => Nesting!IInv

\* The system agent stays, and overlapping updates of an agent change what they name
\* and nothing else (agents/registry.py:58-78).
AgentsKept ==
  /\ [](scope = "registry" => Registry!TypeOK /\ Registry!SystemStays)
  /\ Registry!OnlyNamedFields

\* What is answered is so: a service has acted at most once for a call and whenever
\* the answer says so; a notice is called sent when everybody has it; what two searches
\* found stands before what one found and is missing only if it was removed meanwhile;
\* no code is approved against a verdict in JSON.
AnswersFounded ==
  /\ scope = "calls" => Calls!TypeOK /\ Calls!CallsAccounted
  /\ scope = "notices" => Notice!TypeOK /\ Notice!SentMeansAll
  /\ scope = "search" => Search!TypeOK /\ Search!FusionFair /\ Search!MissingOnlyIfGone
  /\ scope = "chain" => Chain!TypeOK /\ Chain!ApprovalHasReview

\* A start-up ends or refuses, a shutdown ends but for a task that swallowed its
\* cancellation, every update is answered, a notice holds nothing up, the chain ends.
ServingProgress ==
  /\ Life!ShutdownEnds
  /\ scope = "webhook" => Webhook!EveryUpdateAnswered
  /\ scope = "catalog" => Catalog!StartsOrRefused
  /\ scope = "notices" => Notice!NeverStuck
  /\ scope = "chain" => Chain!ChainEnds
=============================================================================
