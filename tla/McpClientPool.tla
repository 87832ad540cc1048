---------------------------- MODULE McpClientPool ----------------------------
(***************************************************************************)
(* One external MCP server in the client pool (src/mcp/client.py) and the   *)
(* routes that register, refresh and remove it (src/api/routes.py).         *)
(*                                                                          *)
(* The dictionaries of the pool are keyed by server name and names do not   *)
(* interact, so one name is enough.  Sessions are numbered as their         *)
(* transports open; 0 is none.                                              *)
(***************************************************************************)
EXTENDS Integers, FiniteSets

CONSTANTS Requests,   \* requests the API serves at once
          MaxActive,  \* how many of them are active together
          MaxOpened,  \* bound: sessions opened
          MaxRecords, \* bound: registrations of the name
          MaxFaults   \* bound: failed discoveries and failed closings

PoolAssumption ==
  /\ IsFiniteSet(Requests)
  /\ {MaxActive, MaxOpened, MaxRecords, MaxFaults} \subseteq Nat

Sessions == 1 .. MaxOpened

VARIABLES
  record,  \* the row in mcp_servers: the number of the registration, or 0
  created, \* registrations so far
  conn,    \* _connections[name]
  tools,   \* the session whose tools are in _tools[name]
  open,    \* sessions open at the server
  opened,  \* sessions opened so far
  request, \* what each request is doing
  faults

vars == <<record, created, conn, tools, open, opened, request, faults>>

Ops == {"create", "refresh", "delete"}
Pcs == {"idle", "disconnecting", "closing", "connecting", "opening", "discovering", "deleting"}

Idle == [pc |-> "idle", op |-> "create", rec |-> 0, sess |-> 0]

Active == {r \in Requests : request[r].pc # "idle"}

Init ==
  /\ record = 0 /\ created = 0 /\ conn = 0 /\ tools = 0
  /\ open = {} /\ opened = 0
  /\ request = [r \in Requests |-> Idle]
  /\ faults = 0

At(r, pc) == request[r].pc = pc

Goes(r, pc) == request' = [request EXCEPT ![r].pc = pc]

Ends(r) == request' = [request EXCEPT ![r] = Idle]

-----------------------------------------------------------------------------
(* Requests arrive. *)

\* POST /mcp-servers: the row is committed before the connection is tried.
Create(r) ==
  /\ r \notin Active /\ Cardinality(Active) < MaxActive
  /\ record = 0 /\ created < MaxRecords
  /\ created' = created + 1 /\ record' = created + 1
  /\ request' = [request EXCEPT ![r] =
                   [pc |-> "connecting", op |-> "create", rec |-> created + 1, sess |-> 0]]
  /\ UNCHANGED <<conn, tools, open, opened, faults>>

\* POST /mcp-servers/{name}/refresh and DELETE /mcp-servers/{name}.
Arrive(r, op) ==
  /\ r \notin Active /\ Cardinality(Active) < MaxActive
  /\ op # "create" /\ record # 0
  /\ request' = [request EXCEPT ![r] = [pc |-> "disconnecting", op |-> op, rec |-> record, sess |-> 0]]
  /\ UNCHANGED <<record, created, conn, tools, open, opened, faults>>

AfterDisconnect(r) == IF request[r].op = "refresh" THEN "connecting" ELSE "deleting"

\* DELETE removes the row it read, if it is still there.
DeleteRow(r) ==
  /\ At(r, "deleting")
  /\ record' = IF record = request[r].rec THEN 0 ELSE record
  /\ Ends(r)
  /\ UNCHANGED <<created, conn, tools, open, opened, faults>>

-----------------------------------------------------------------------------
(* disconnect *)

\* Mutant: the entry is read and stays in the dictionary.
ConnRead == conn

ConnAfterPop == 0

Pop(r) ==
  /\ At(r, "disconnecting") /\ conn # 0
  /\ request' = [request EXCEPT ![r].pc = "closing", ![r].sess = conn]
  /\ conn' = ConnAfterPop
  /\ UNCHANGED <<record, created, tools, open, opened, faults>>

\* Nothing to close, hence no await before the tools are dropped.
PopNothing(r) ==
  /\ At(r, "disconnecting") /\ conn = 0
  /\ Goes(r, AfterDisconnect(r))
  /\ tools' = 0
  /\ UNCHANGED <<record, created, conn, open, opened, faults>>

ToolsAfterClose == 0

\* Session and transport are closed; then the tools of the name are dropped.
Close(r) ==
  /\ At(r, "closing")
  /\ open' = open \ {request[r].sess}
  /\ tools' = ToolsAfterClose
  /\ request' = [request EXCEPT ![r].pc = AfterDisconnect(r), ![r].sess = 0]
  /\ UNCHANGED <<record, created, conn, opened, faults>>

\* A failure to close is logged and passed over.
CloseFails(r) ==
  /\ faults < MaxFaults /\ faults' = faults + 1
  /\ At(r, "closing")
  /\ tools' = ToolsAfterClose
  /\ request' = [request EXCEPT ![r].pc = AfterDisconnect(r), ![r].sess = 0]
  /\ UNCHANGED <<record, created, conn, open, opened>>

-----------------------------------------------------------------------------
(* connect *)

AlreadyConnected == conn # 0

ConnectIsDone(r) ==
  /\ At(r, "connecting") /\ AlreadyConnected
  /\ Ends(r)
  /\ UNCHANGED <<record, created, conn, tools, open, opened, faults>>

BeginConnect(r) ==
  /\ At(r, "connecting") /\ ~AlreadyConnected
  /\ Goes(r, "opening")
  /\ UNCHANGED <<record, created, conn, tools, open, opened, faults>>

OpenTransport(r) ==
  /\ At(r, "opening") /\ opened < MaxOpened
  /\ opened' = opened + 1
  /\ open' = open \cup {opened + 1}
  /\ request' = [request EXCEPT ![r].pc = "discovering", ![r].sess = opened + 1]
  /\ UNCHANGED <<record, created, conn, tools, faults>>

\* The server cannot be reached: connect returns False.
OpenFails(r) ==
  /\ At(r, "opening")
  /\ Ends(r)
  /\ UNCHANGED <<record, created, conn, tools, open, opened, faults>>

\* list_tools has answered; both dictionaries are set without an await.
Discovered(r) ==
  /\ At(r, "discovering")
  /\ tools' = request[r].sess /\ conn' = request[r].sess
  /\ Ends(r)
  /\ UNCHANGED <<record, created, open, opened, faults>>

\* initialize or list_tools raises: connect returns False and closes nothing.
DiscoveryFails(r) ==
  /\ faults < MaxFaults /\ faults' = faults + 1
  /\ At(r, "discovering")
  /\ Ends(r)
  /\ UNCHANGED <<record, created, conn, tools, open, opened>>

Next ==
  \E r \in Requests :
    \/ Create(r) \/ (\E op \in Ops : Arrive(r, op)) \/ DeleteRow(r)
    \/ Pop(r) \/ PopNothing(r) \/ Close(r) \/ CloseFails(r)
    \/ ConnectIsDone(r) \/ BeginConnect(r) \/ OpenTransport(r) \/ OpenFails(r)
    \/ Discovered(r) \/ DiscoveryFails(r)

Spec == Init /\ [][Next]_vars

-----------------------------------------------------------------------------
TypeOK ==
  /\ record \in 0 .. created /\ created \in 0 .. MaxRecords
  /\ conn \in {0} \cup Sessions /\ tools \in {0} \cup Sessions
  /\ open \subseteq 1 .. opened /\ opened \in 0 .. MaxOpened
  /\ request \in [Requests -> [pc : Pcs, op : Ops, rec : 0 .. MaxRecords, sess : {0} \cup Sessions]]
  /\ \A r \in Requests : request[r].sess # 0 <=> request[r].pc \in {"closing", "discovering"}
  /\ faults \in 0 .. MaxFaults

Quiet == Active = {}

Held == {request[r].sess : r \in Requests} \ {0}

\* Sessions nobody can reach any more, and so nobody will close.
Leaked == open \ (Held \cup {conn})

\* Whatever requests overlap, a session has one owner: the pool, one request
\* that closes it, or one that is opening it.  So none is closed twice, and a
\* tool call never finds a session in the pool that somebody is closing.
OneOwner ==
  /\ conn \notin Held
  /\ conn # 0 => conn \in open
  /\ \A r, s \in Requests :
       r # s /\ request[r].sess # 0 => request[r].sess # request[s].sess

\* Nor is one closed by anybody else.
HeldAreOpen == Held \subseteq open

\* Requests that follow one another: what each has done so far to the dictionaries.
StepsWhenSerial ==
  MaxActive = 1 =>
    /\ \A r, s \in Active : r = s
    /\ \A r \in Active :
         /\ record = request[r].rec /\ record # 0
         /\ request[r].pc = "disconnecting" => tools = conn /\ request[r].op # "create"
         /\ request[r].pc # "disconnecting" => conn = 0
         /\ request[r].pc \notin {"disconnecting", "closing"} => tools = 0

\* Requests that follow one another leave the dictionaries in step with each
\* other and with the table, and leak a session only through a fault.
InStepWhenSerial ==
  MaxActive = 1 =>
    /\ Quiet => tools = conn /\ (conn # 0 => record # 0)
    /\ Cardinality(Leaked) <= faults

-----------------------------------------------------------------------------
(* What the repository says and the code does not do. *)

\* client.py:189, "closing all sessions": a session is open only as long as
\* somebody can close it.
NoSessionLeaks == faults = 0 => Leaked = {}

\* client.py:22, "Tool definitions are cached after initial discovery."
ConnectedHasTools == Quiet /\ conn # 0 => tools = conn

\* DOCUMENTATION.md:761, "Remove server": no connection outlives its row.
RemovedIsDisconnected == Quiet /\ record = 0 => conn = 0
=============================================================================
