----------------------------- MODULE MCApprovals -----------------------------
(***************************************************************************)
(* Approvals for model checking, in two situations that together cover what *)
(* the constants allow: two administrators who answer one tool call, and    *)
(* one administrator who answers a tool call and a routing decision.        *)
(***************************************************************************)
EXTENDS Approvals

CONSTANT Spare \* the request that only exists where there are two administrators

\* Without it, there is one administrator.
ASSUME SpareAssumption ==
  /\ Spare \in Requests
  /\ \A r, s \in Requests \ {Spare} : r = s

VARIABLE scope

Situations == {"two administrators", "both kinds"}

\* Without the second administrator, or without the routing decision.
Allowed ==
  IF scope = "both kinds"
  THEN request'[Spare] = Idle
  ELSE /\ \A p \in Routings : owner'[p] = "new"
       /\ \A r \in Requests : request'[r].on \notin Routings

MCInit == Init /\ scope \in Situations

MCNext == Next /\ Allowed /\ UNCHANGED scope

\* Approvals!Fairness, of what the situation allows.
MCFairness == /\ \A a \in Approvals : WF_vars(Owner(a) /\ Allowed)
              /\ \A r \in Requests : WF_vars(Request(r) /\ Allowed)
              /\ WF_vars(Tick)

MCSpec == MCInit /\ [][MCNext]_<<vars, scope>> /\ MCFairness

\* A single administrator's approval starts at most one agent; two at most two.
RunsBounded ==
  /\ RunsBoundedByRequests
  /\ RunsCounted(Requests)
  /\ scope = "both kinds" =>
       /\ request[Spare] = Idle
       /\ RunsCounted(Requests \ {Spare})
       /\ \A a \in Approvals : Len(started[a]) <= 1
=============================================================================
