----------------------------- MODULE RunOutcome -----------------------------
(***************************************************************************)
(* What asynchronous submission promises, without queue, processes or      *)
(* faults: a request gets at most one outcome and keeps it, a task belongs *)
(* to one request for ever, and the outcome shown for a task is the one of *)
(* its request.                                                            *)
(***************************************************************************)
CONSTANTS Requests, Tasks, Outcomes, NoRun, NoRequest

VARIABLES owner, outcome, shown

vars == <<owner, outcome, shown>>

Init ==
  /\ owner = [t \in Tasks |-> NoRequest]
  /\ outcome = [r \in Requests |-> NoRun]
  /\ shown = [t \in Tasks |-> NoRun]

Accept(t, r) ==
  /\ owner[t] = NoRequest
  /\ owner' = [owner EXCEPT ![t] = r]
  /\ UNCHANGED <<outcome, shown>>

Finish(r, o) ==
  /\ outcome[r] = NoRun
  /\ outcome' = [outcome EXCEPT ![r] = o]
  /\ UNCHANGED <<owner, shown>>

\* Some tasks of finished requests get their outcome shown.
Show(S) ==
  /\ \A t \in S : owner[t] \in Requests /\ outcome[owner[t]] # NoRun
  /\ shown' = [t \in Tasks |-> IF t \in S THEN outcome[owner[t]] ELSE shown[t]]
  /\ UNCHANGED <<owner, outcome>>

Next ==
  \/ \E t \in Tasks, r \in Requests : Accept(t, r)
  \/ \E r \in Requests, o \in Outcomes : Finish(r, o)
  \/ \E S \in SUBSET Tasks : Show(S)

Spec == Init /\ [][Next]_vars

=============================================================================
