------------------------------ MODULE CodeSandbox ------------------------------
(***************************************************************************)
(* The tool execute_code (src/mcp/tools/execute_code.py): code runs in a    *)
(* container, or as a process of the host when Docker was not there at the  *)
(* first look, and is waited for no longer than the timeout that the LLM    *)
(* has named among the arguments, which nothing checks.                     *)
(***************************************************************************)
EXTENDS Naturals

CONSTANTS Runs,     \* calls of the tool
          Enabled,  \* CODE_SANDBOX_ENABLED
          MaxFlips  \* bound: starts and stops of the Docker daemon

SandboxAssumption == Enabled \in BOOLEAN /\ MaxFlips \in Nat

VARIABLES
  daemon, \* the Docker daemon is up
  known,  \* _docker_available
  pc,     \* of a run
  place,  \* where its code runs
  alive,  \* its process, or its container, is running
  file,   \* its temporary file exists
  limit,  \* its timeout: a number, None or something else
  answer,
  flips

vars == <<daemon, known, pc, place, alive, file, limit, answer, flips>>

Limits == {"number", "null", "other"}

Init == /\ daemon \in BOOLEAN /\ known = "unknown" /\ flips = 0
        /\ pc = [r \in Runs |-> "new"] /\ place = [r \in Runs |-> "none"]
        /\ alive = [r \in Runs |-> FALSE] /\ file = [r \in Runs |-> FALSE]
        /\ limit = [r \in Runs |-> "number"] /\ answer = [r \in Runs |-> "none"]

-----------------------------------------------------------------------------
Seen == IF daemon THEN "yes" ELSE "no"

\* _check_docker: the first answer is kept.
Check == IF known = "unknown" THEN Seen ELSE known

Place == IF Enabled /\ Check = "yes" THEN "container" ELSE "host"

\* Python code for the host is written to a file.
WritesFile(python) == python /\ Place = "host"

Found(r) == /\ known' = IF Enabled THEN Check ELSE known
            /\ place' = [place EXCEPT ![r] = Place]

Start(r) ==
  /\ pc[r] = "new"
  /\ Found(r)
  /\ pc' = [pc EXCEPT ![r] = "starting"]
  /\ \E python \in BOOLEAN : file' = [file EXCEPT ![r] = WritesFile(python)]
  /\ \E l \in Limits : limit' = [limit EXCEPT ![r] = l]
  /\ UNCHANGED <<daemon, alive, answer, flips>>

\* Writing the code raises (a full disk, code that is no text): the file exists
\* and its name was not noted yet.
WriteFails(r) ==
  /\ pc[r] = "new" /\ WritesFile(TRUE)
  /\ Found(r)
  /\ pc' = [pc EXCEPT ![r] = "done"] /\ answer' = [answer EXCEPT ![r] = "unwritten"]
  /\ file' = [file EXCEPT ![r] = TRUE]
  /\ UNCHANGED <<daemon, alive, limit, flips>>

\* A language that is not supported, or no code at all.
Refuse(r) ==
  /\ pc[r] = "new"
  /\ pc' = [pc EXCEPT ![r] = "done"] /\ answer' = [answer EXCEPT ![r] = "error"]
  /\ UNCHANGED <<daemon, known, place, alive, file, limit, flips>>

Removed(r, a) == [file EXCEPT ![r] = FALSE]

End(r, a) == /\ pc' = [pc EXCEPT ![r] = "done"]
             /\ answer' = [answer EXCEPT ![r] = a]
             /\ file' = Removed(r, a)
             /\ UNCHANGED <<daemon, known, place, limit, flips>>

\* The timeout can be waited for: None is on the host for ever, and nothing to which
\* the container's five seconds can be added.
Usable(r) == limit[r] = "number" \/ (limit[r] = "null" /\ place[r] = "host")

CanSpawn(r) == pc[r] = "starting" /\ (place[r] = "container" => daemon)

Spawn(r) ==
  /\ CanSpawn(r) /\ Usable(r)
  /\ pc' = [pc EXCEPT ![r] = "running"]
  /\ alive' = [alive EXCEPT ![r] = TRUE]
  /\ UNCHANGED <<daemon, known, place, file, limit, answer, flips>>

\* The timeout raises when it is used, which is after the program was started.
SpawnUnwatched(r) ==
  /\ CanSpawn(r) /\ ~Usable(r)
  /\ End(r, "error")
  /\ alive' = [alive EXCEPT ![r] = TRUE]

\* The program cannot be started.
SpawnFails(r) ==
  /\ pc[r] = "starting"
  /\ End(r, "error")
  /\ UNCHANGED alive

\* The docker program answers that it cannot reach the daemon.
NoDaemon(r) ==
  /\ pc[r] = "starting" /\ place[r] = "container" /\ ~daemon
  /\ End(r, "no_daemon")
  /\ UNCHANGED alive

CodeEnds(r) ==
  /\ alive[r]
  /\ alive' = [alive EXCEPT ![r] = FALSE]
  /\ UNCHANGED <<daemon, known, pc, place, file, limit, answer, flips>>

Collect(r) ==
  /\ pc[r] = "running" /\ ~alive[r]
  /\ End(r, "result")
  /\ UNCHANGED alive

MayTimeOut(r) == limit[r] = "number"

\* wait_for gives up; nothing ends the process.
TimesOut(r) ==
  /\ pc[r] = "running" /\ MayTimeOut(r)
  /\ End(r, "timeout")
  /\ UNCHANGED alive

Flip ==
  /\ flips < MaxFlips /\ flips' = flips + 1
  /\ daemon' = ~daemon
  /\ alive' \in {alive, [r \in Runs |-> alive[r] /\ place[r] = "host"]}
  /\ UNCHANGED <<known, pc, place, file, limit, answer>>

Tool(r) == \/ Start(r) \/ WriteFails(r) \/ Refuse(r) \/ Spawn(r) \/ SpawnUnwatched(r)
           \/ SpawnFails(r) \/ NoDaemon(r) \/ Collect(r) \/ TimesOut(r)

Next == Flip \/ \E r \in Runs : Tool(r) \/ CodeEnds(r)

Spec == Init /\ [][Next]_vars

\* The event loop and its timers go on; the code need not come to an end.
FairSpec == Spec /\ \A r \in Runs : WF_vars(Tool(r))

-----------------------------------------------------------------------------
TypeOK ==
  /\ daemon \in BOOLEAN /\ known \in {"unknown", "yes", "no"} /\ flips \in 0 .. MaxFlips
  /\ pc \in [Runs -> {"new", "starting", "running", "done"}]
  /\ place \in [Runs -> {"none", "container", "host"}]
  /\ alive \in [Runs -> BOOLEAN] /\ file \in [Runs -> BOOLEAN]
  /\ limit \in [Runs -> Limits]
  /\ answer \in [Runs -> {"none", "result", "error", "unwritten", "no_daemon", "timeout"}]
  /\ \A r \in Runs : file[r] => place[r] = "host"

\* A file that was written is gone when its run is over, however that ended: only one
\* that could not be written stays.
WrittenIsRemoved ==
  \A r \in Runs :
    file[r] => \/ pc[r] \in {"starting", "running"}
               \/ pc[r] = "done" /\ answer[r] = "unwritten"

\* The place does not change: as long as the program runs, the code of an agent is not
\* run on the host after other code has been run in a container, or the reverse.
OnePlace ==
  \A r, s \in Runs : place[r] # "none" /\ place[s] # "none" => place[r] = place[s]

\* Why: no run finds its place before the first answer about Docker is kept.
PlaceIsKnown ==
  Enabled => \A r \in Runs : \/ place[r] = "none" /\ ~file[r]
                             \/ place[r] = "container" /\ known = "yes"
                             \/ place[r] = "host" /\ known = "no"

\* Code that never ends does not keep its agent, unless the LLM itself has asked for no
\* timeout and got no container.
EveryRunAnswered ==
  \A r \in Runs : pc[r] = "starting"
    ~> \/ pc[r] = "done"
       \/ [](pc[r] = "running" /\ alive[r] /\ limit[r] = "null" /\ place[r] = "host")

-----------------------------------------------------------------------------
(* What the repository says and the code does not do. *)

\* execute_code.py:8, "Automatic cleanup after execution": of the program
NothingRunsAfterAnswer == \A r \in Runs : pc[r] = "done" => ~alive[r]

\* and of the file.
NoFileLeft == \A r \in Runs : pc[r] = "done" => ~file[r]

\* execute_code.py:10, "Falls back to subprocess execution if Docker is unavailable"
FallsBack == \A r \in Runs : answer[r] # "no_daemon"

\* DOCUMENTATION.md:450, "By default, code runs in a disposable Docker container": the
\* host is taken only while Docker is unavailable.
HostOnlyWithoutDocker ==
  [][\A r \in Runs : Enabled /\ place[r] = "none" /\ place'[r] = "host" => ~daemon]_vars
=============================================================================
