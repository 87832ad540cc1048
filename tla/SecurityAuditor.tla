--------------------------- MODULE SecurityAuditor ---------------------------
(***************************************************************************)
(* The passive security auditor: the worker of src/main.py that reads the   *)
(* newest entries of the audit log (src/mcp/tools/audit.py) and has them    *)
(* analysed (src/security/auditor.py).  An audit takes less than a tick.    *)
(***************************************************************************)
EXTENDS Integers, Sequences, FiniteSets

CONSTANTS Agents,
          Interval,  \* security_audit_interval_seconds
          Hour,      \* the stretch of the log that is read
          Limit,     \* entries that are read at most
          FreqT,     \* FREQUENCY_THRESHOLD
          ErrorT,    \* ERROR_THRESHOLD
          MaxLog,    \* bound: entries written
          MaxTime,   \* bound: last instant of the clock
          MaxFaults  \* bound: failed reads and writes

AuditorAssumption ==
  /\ {Interval, Hour, Limit, FreqT, ErrorT} \subseteq Nat \ {0}
  /\ {MaxLog, MaxTime, MaxFaults} \subseteq Nat
  /\ Interval <= Hour /\ FreqT < Limit

Instants == 0 .. MaxTime
Never == MaxTime + 1
Kinds == {"HIGH_FREQUENCY", "REPEATED_FAILURES"}

VARIABLES
  now,
  log,    \* audit_log, oldest first
  next,   \* when the worker wakes
  saved,  \* the alerts saved at each instant
  faults

vars == <<now, log, next, saved, faults>>

Init == /\ now = 0 /\ log = <<>> /\ next = Interval
        /\ saved = [t \in Instants |-> {}] /\ faults = 0

-----------------------------------------------------------------------------
Entry(a, bad) == [at |-> now, agent |-> a, bad |-> bad]

Appended(a, bad) == Append(log, Entry(a, bad))

\* audit.log: the column agent_id is not written; agent says who acted, bad
\* whether the entry counts as an error.
Log(a, bad) ==
  /\ Len(log) < MaxLog
  /\ log' = Appended(a, bad)
  /\ UNCHANGED <<now, next, saved, faults>>

During(from, to) == {i \in DOMAIN log : from <= log[i].at /\ log[i].at < to}
Bad(S) == {i \in S : log[i].bad}

Recent == During(now - Hour, now + 1)

Newest == {i \in DOMAIN log : i > Len(log) - Limit}

\* read_audit_log({"hours": 1, "limit": 200}), as indices of the log.  The log is in
\* the order of time, so the newest of the recent entries are the recent among the newest.
Fetched == Recent \cap Newest

\* analyze_recent_activity: every entry counts for the agent "unknown".
Alerts(S) ==
  {k \in Kinds : \/ k = "HIGH_FREQUENCY" /\ Cardinality(S) > FreqT
                 \/ k = "REPEATED_FAILURES" /\ Cardinality(Bad(S)) > ErrorT}

Audit ==
  /\ now = next
  /\ saved' = [saved EXCEPT ![now] = Alerts(Fetched)]
  /\ next' = now + Interval
  /\ UNCHANGED <<now, log, faults>>

\* The read fails and is answered with no entries.
ReadFails ==
  /\ now = next /\ faults < MaxFaults /\ faults' = faults + 1
  /\ next' = now + Interval
  /\ UNCHANGED <<now, log, saved>>

\* Mutant: the worker ends with the exception.
WorkerDies == Never

\* The except clause sleeps, and so does the next turn of the loop.
RestsTwice == now + 2 * Interval

\* Saving raises.
SaveFails ==
  /\ now = next /\ faults < MaxFaults /\ faults' = faults + 1
  /\ Alerts(Fetched) # {}
  /\ next' = RestsTwice
  /\ UNCHANGED <<now, log, saved>>

Tick ==
  /\ now < MaxTime /\ now # next
  /\ now' = now + 1
  /\ UNCHANGED <<log, next, saved, faults>>

Worker == Audit \/ ReadFails \/ SaveFails

Next == Worker \/ Tick \/ \E a \in Agents, bad \in BOOLEAN : Log(a, bad)

Spec == Init /\ [][Next]_vars

-----------------------------------------------------------------------------
TypeOK ==
  /\ now \in Instants /\ next \in Nat /\ now <= next
  /\ log \in Seq([at : 0 .. now, agent : Agents, bad : BOOLEAN])
  /\ \A i, j \in DOMAIN log : i < j => log[i].at <= log[j].at
  /\ saved \in [Instants -> SUBSET Kinds] /\ faults \in 0 .. MaxFaults

\* An audit that succeeds reports what has happened since the one before: too many
\* actions however many there were, too many errors if they are among the entries
\* it reads.
BurstReported ==
  [][Audit => LET fresh == During(now - Interval, now + 1)
              IN  /\ Cardinality(fresh) > FreqT => "HIGH_FREQUENCY" \in saved'[now]
                  /\ Cardinality(Bad(fresh)) > ErrorT /\ Cardinality(fresh) <= Limit
                       => "REPEATED_FAILURES" \in saved'[now]]_vars

\* What the worker may be late by: every fault so far may have made it rest twice.
Patience == Interval + 2 * (Interval * faults)

WakesInTime == next <= now + Patience

\* A burst is reported, or the audit that is to report it is near enough.
ReportedOrDue ==
  \A t \in 0 .. now :
    Cardinality(During(t, t + 1)) > FreqT /\ Patience <= Hour
    => \/ \E u \in t .. now : u <= t + Hour /\ "HIGH_FREQUENCY" \in saved[u]
       \/ next <= t + Patience

\* Faults of the database only delay the report of a burst: with few enough of them
\* it is there before the hour is over.
ReportedWithinTheHour ==
  \A t \in Instants :
    /\ Cardinality(During(t, t + 1)) > FreqT
    /\ now > t + Hour
    /\ Patience <= Hour
    => \E u \in t .. t + Hour : "HIGH_FREQUENCY" \in saved[u]

\* What is reported has happened within the hour.
ReportsHaveCause ==
  \A t \in Instants : saved[t] # {} =>
    /\ "HIGH_FREQUENCY" \in saved[t] => Cardinality(During(t - Hour, t + 1)) > FreqT
    /\ "REPEATED_FAILURES" \in saved[t] => Cardinality(Bad(During(t - Hour, t + 1))) > ErrorT

-----------------------------------------------------------------------------
(* What the repository says and the code does not do. *)

Of(a, S) == {i \in S : log[i].agent = a}

\* auditor.py:15, "Max actions per agent per audit interval"
CountedPerAgentAndInterval ==
  [][\A k \in saved'[now] : k = "HIGH_FREQUENCY" =>
       \E a \in Agents : Cardinality(Of(a, During(now - Interval, now + 1))) > FreqT]_vars

\* DOCUMENTATION.md:578, "Repeated failures: ... errors per agent per interval"
RepeatedFailuresReported ==
  [][Audit /\ (\E a \in Agents : Cardinality(Of(a, Bad(During(now - Interval, now + 1)))) > ErrorT)
       => "REPEATED_FAILURES" \in saved'[now]]_vars
=============================================================================
