---------------------------- MODULE ToolCatalog ----------------------------
(***************************************************************************)
(* How the tool registry is filled at start-up: the files of tools/yaml and *)
(* tools/python (src/mcp/legacy/loader.py), their registration              *)
(* (init_registry() of src/mcp/registry.py), then the built-in tools        *)
(* (src/mcp/tools/__init__.py).  A later registration of a name replaces    *)
(* the earlier one.  The loaders skip what they cannot load; registration   *)
(* raises for a name it does not accept and for a tool that lacks an        *)
(* attribute, and is not guarded.  Each tool class of a Python file counts  *)
(* as a file of its own: it is made, and fails, by itself.                  *)
(***************************************************************************)
EXTENDS Naturals, Sequences, FiniteSets

CONSTANTS
  BuiltIns, \* names register_all_tools() registers
  Names,    \* names files may give their tool
  Refused,  \* those among them that register() does not accept
  MaxFiles  \* bound: files in the two directories

CatalogAssumption == MaxFiles \in Nat /\ BuiltIns \cap Refused = {}

VARIABLES
  files,   \* the files in the order they are read: what each of them is
  loaded,  \* tools the loaders have made: name and number of the file
  tools,   \* the registry: name -> file number, or 0 for a built-in tool
  pc,      \* "loading", "registering", "builtin", "serving" or "aborted"
  at       \* the next file, or tool

vars == <<files, loaded, tools, pc, at>>

\* A class that only inherits name, description or parameters has none: BaseTool
\* annotates them without a value (base.py:5-7).
Files == [name : Names, state : {"unusable", "lacking", "whole"}]
With(n, v) == [m \in DOMAIN tools \cup {n} |-> IF m = n THEN v ELSE tools[m]]

Init ==
  /\ files \in UNION {[1 .. k -> Files] : k \in 0 .. MaxFiles}
  /\ loaded = <<>> /\ tools = [n \in {} |-> 0] /\ pc = "loading" /\ at = 1

\* A file that cannot be parsed or imported, a YAML file without a name and a class
\* that cannot be made are logged and skipped.  A class that can be made is in the
\* list before its name is read for the log.
Loads(f) == f.state # "unusable"
Load ==
  /\ pc = "loading" /\ at <= Len(files)
  /\ loaded' = IF Loads(files[at]) THEN Append(loaded, [name |-> files[at].name, file |-> at]) ELSE loaded
  /\ at' = at + 1 /\ UNCHANGED <<files, tools, pc>>

Loaded ==
  /\ pc = "loading" /\ at > Len(files)
  /\ pc' = "registering" /\ at' = 1 /\ UNCHANGED <<files, loaded, tools>>

AfterRegister(n, v) == With(n, v)

\* What Tool(name=bt.name, ...) and register() take.
Accepted(f) == f.state = "whole" /\ f.name \notin Refused

Register ==
  /\ pc = "registering" /\ at <= Len(loaded) /\ Accepted(files[loaded[at].file])
  /\ tools' = AfterRegister(loaded[at].name, loaded[at].file)
  /\ at' = at + 1 /\ UNCHANGED <<files, loaded, pc>>

\* ValueError or AttributeError leaves init_registry() and the lifespan.
RegisterRaises ==
  /\ pc = "registering" /\ at <= Len(loaded) /\ ~Accepted(files[loaded[at].file])
  /\ pc' = "aborted" /\ UNCHANGED <<files, loaded, tools, at>>

Registered ==
  /\ pc = "registering" /\ at > Len(loaded)
  /\ pc' = "builtin" /\ UNCHANGED <<files, loaded, tools, at>>

RegisterBuiltIn(n) ==
  /\ pc = "builtin" /\ (n \in DOMAIN tools => tools[n] # 0)
  /\ tools' = AfterRegister(n, 0)
  /\ UNCHANGED <<files, loaded, pc, at>>

Serve ==
  /\ pc = "builtin" /\ \A n \in BuiltIns : n \in DOMAIN tools /\ tools[n] = 0
  /\ pc' = "serving" /\ UNCHANGED <<files, loaded, tools, at>>

Next == \/ Load \/ Loaded \/ Register \/ RegisterRaises \/ Registered
        \/ \E n \in BuiltIns : RegisterBuiltIn(n)
        \/ Serve
Spec == Init /\ [][Next]_vars /\ WF_vars(Next)

-----------------------------------------------------------------------------
TypeOK ==
  /\ DOMAIN tools \subseteq Names \cup BuiltIns
  /\ \A n \in DOMAIN tools : tools[n] \in 0 .. Len(files)
  /\ pc \in {"loading", "registering", "builtin", "serving", "aborted"} /\ at \in 1 .. Len(files) + 1

\* What is served under a name: the built-in tool where there is one, and else the
\* last loaded file of that name, whatever other files there are (registry.py:39-41).
\* Who serves has accepted every tool that was loaded.
Provider(n) ==
  IF n \in BuiltIns THEN 0
  ELSE LET fs == {i \in DOMAIN files : Loads(files[i]) /\ files[i].name = n}
       IN CHOOSE i \in fs : \A j \in fs : j <= i

CatalogComplete ==
  pc = "serving" =>
    /\ DOMAIN tools = BuiltIns \cup {files[i].name : i \in {j \in DOMAIN files : Loads(files[j])}}
    /\ \A i \in DOMAIN files : Loads(files[i]) => Accepted(files[i])
    /\ \A n \in DOMAIN tools : tools[n] = Provider(n)

\* The start-up ends, and it serves unless a file that was loaded lacks an attribute
\* or has a name that is refused.
StartsOrRefused ==
  <>(\/ pc = "serving"
     \/ pc = "aborted" /\ \E i \in DOMAIN files : Loads(files[i]) /\ ~Accepted(files[i]))

-----------------------------------------------------------------------------
(* What the repository says and the code does not do.                       *)

\* loader.py:40, 50, 95: a bad file, or class, is logged and skipped and the others
\* are loaded.  A bad name or a class without a description keeps the whole process
\* from starting.
BadFileSkipped == pc # "aborted"
=============================================================================
