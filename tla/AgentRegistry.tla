--------------------------- MODULE AgentRegistry ---------------------------
(***************************************************************************)
(* The agents table under overlapping admin requests: AgentRegistry of      *)
(* src/agents/registry.py and create_agent, update_agent and delete_agent   *)
(* of src/api/routes.py.  A request reads the row, decides, and commits in  *)
(* a later step.  SQLAlchemy writes the attributes whose new value differs  *)
(* from the one it has loaded, to the row with the id it has loaded; the    *)
(* database keeps names unique.                                             *)
(***************************************************************************)
EXTENDS Naturals

CONSTANTS
  System, Names, \* the agent of config/agents, and those administrators make
  Fields,        \* columns an update may name
  Values,
  Requests       \* admin requests, each used once

RegistryAssumption == System \notin Names /\ Values # {}

VARIABLES
  table, \* name -> its row, or NoRow
  ids,   \* identifiers given out
  pc,    \* of a request: "new", "loaded" or "done"
  op,    \* what it wants
  seen,  \* the row it has loaded
  answer \* its HTTP status

vars == <<table, ids, pc, op, seen, answer>>

All == Names \cup {System}
NoRow == [id |-> 0]
Row(i, s, d) == [id |-> i, is_system |-> s, data |-> d]

\* A request names the fields it sets; a creation sets all of them.
Changes == UNION {[fs -> Values] : fs \in SUBSET Fields \ {{}}}
Ops == [kind : {"update"}, name : All, set : Changes]
         \cup [kind : {"delete"}, name : All]
         \cup [kind : {"create"}, name : All, set : [Fields -> Values]]
NoOp == [kind |-> "none"]

\* After seed_from_yaml() of an empty table.
Init ==
  /\ \E d \in [Fields -> Values] :
       table = [n \in All |-> IF n = System THEN Row(1, TRUE, d) ELSE NoRow]
  /\ ids = 1
  /\ pc = [r \in Requests |-> "new"] /\ op = [r \in Requests |-> NoOp]
  /\ seen = [r \in Requests |-> NoRow] /\ answer = [r \in Requests |-> 0]

Status(r, code) == /\ pc' = [pc EXCEPT ![r] = "done"]
                   /\ answer' = [answer EXCEPT ![r] = code]

\* After the commit the routes write an audit entry.  When that raises, the answer
\* is 500 and the change is in force all the same.
Committed(r, code) == \E c \in {code, 500} : Status(r, c)

\* What the routes answer from the row alone, before they write: 0 is "go on".
Early(o, row) ==
  CASE o.kind = "create" -> IF row # NoRow THEN 409 ELSE 0
    [] o.kind = "update" -> IF row = NoRow THEN 404 ELSE 0
    [] o.kind = "delete" -> IF row = NoRow \/ row.is_system THEN 400 ELSE 0

Load(r, o) ==
  /\ pc[r] = "new"
  /\ op' = [op EXCEPT ![r] = o]
  /\ seen' = [seen EXCEPT ![r] = table[o.name]]
  /\ IF Early(o, table[o.name]) # 0
     THEN Status(r, Early(o, table[o.name]))
     ELSE pc' = [pc EXCEPT ![r] = "loaded"] /\ UNCHANGED answer
  /\ UNCHANGED <<table, ids>>

\* The attributes the UPDATE names.
\* Mutant: the whole row that was loaded is written back.
WholeRow(r) == Fields
Dirty(r) == {f \in DOMAIN op[r].set : op[r].set[f] # seen[r].data[f]}
New(r) == [f \in Fields |-> IF f \in DOMAIN op[r].set THEN op[r].set[f] ELSE seen[r].data[f]]

CommitCreate(r) ==
  /\ op[r].kind = "create"
  /\ IF table[op[r].name] = NoRow
     THEN /\ table' = [table EXCEPT ![op[r].name] = Row(ids + 1, FALSE, op[r].set)]
          /\ ids' = ids + 1 /\ Committed(r, 201)
     ELSE Status(r, 500) /\ UNCHANGED <<table, ids>>

\* No UPDATE without a changed attribute; none for a row that is gone.
CommitUpdate(r) ==
  /\ op[r].kind = "update"
  /\ LET n == op[r].name IN
     IF Dirty(r) # {} /\ table[n].id # seen[r].id
     THEN Status(r, 500) /\ UNCHANGED table
     ELSE /\ Committed(r, 200)
          /\ table' = IF Dirty(r) = {} THEN table
                      ELSE [table EXCEPT ![n].data = [f \in Fields |->
                              IF f \in Dirty(r) THEN New(r)[f] ELSE @[f]]]
  /\ UNCHANGED ids

\* registry.delete() looks the name up once more; its answer is not looked at.
CommitDelete(r) ==
  /\ op[r].kind = "delete"
  /\ LET row == table[op[r].name] IN
     table' = IF row # NoRow /\ ~row.is_system THEN [table EXCEPT ![op[r].name] = NoRow] ELSE table
  /\ Committed(r, 200) /\ UNCHANGED ids

Commit(r) ==
  /\ pc[r] = "loaded"
  /\ CommitCreate(r) \/ CommitUpdate(r) \/ CommitDelete(r)
  /\ UNCHANGED <<op, seen>>

Next == \E r \in Requests : (\E o \in Ops : Load(r, o)) \/ Commit(r)
Spec == Init /\ [][Next]_vars

-----------------------------------------------------------------------------
TypeOK ==
  /\ \A n \in All : \/ table[n] = NoRow
                    \/ table[n] \in [id : 1 .. ids, is_system : BOOLEAN, data : [Fields -> Values]]
  /\ pc \in [Requests -> {"new", "loaded", "done"}]
  /\ answer \in [Requests -> {0, 200, 201, 400, 404, 409, 500}]

\* The agent the security auditor relies on is never lost (registry.py:71-78), and
\* no other ever becomes a system agent that could not be removed.
SystemStays == \A n \in All : (n = System) <=> (table[n] # NoRow /\ table[n].is_system)

\* An update changes what it names and nothing else: it does not bring back what
\* it has loaded of a field another administrator has changed since, nor write
\* into an agent created anew under the name.
OnlyNamedFields ==
  [][\A n \in All, f \in Fields :
       table[n] # NoRow /\ table'[n].id = table[n].id /\ table'[n] # table[n] =>
         \E r \in Requests : /\ pc[r] = "loaded" /\ pc'[r] = "done"
                             /\ op[r].kind = "update" /\ op[r].name = n /\ seen[r].id = table[n].id
                             /\ table'[n].data[f] # table[n].data[f] =>
                                  f \in DOMAIN op[r].set /\ op[r].set[f] = table'[n].data[f]]_vars
=============================================================================
