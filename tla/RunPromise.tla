----------------------------- MODULE RunPromise -----------------------------
(***************************************************************************)
(* What an orchestrator promises of a run, whatever the loop looks like: a *)
(* run takes agents one after the other, at most bound of them, ends once  *)
(* with a status and the reason that goes with it, and what is stored is   *)
(* how it ended.  A run may also break off and leave no record.            *)
(***************************************************************************)
EXTENDS Naturals, Sequences

CONSTANTS Agents, Reasons, StatusOf(_), NotStored

VARIABLES bound, status, reason, path, stored

vars == <<bound, status, reason, path, stored>>

Init ==
  /\ bound \in Nat
  /\ status = "pending"
  /\ reason = "none"
  /\ path = <<>>
  /\ stored = NotStored

Begin ==
  /\ status = "pending"
  /\ status' = "running"
  /\ UNCHANGED <<bound, reason, path, stored>>

\* An agent runs; the run may end with it.
TakeAgent ==
  /\ status = "running"
  /\ Len(path) < bound
  /\ \E a \in Agents : path' = Append(path, a)
  /\ \/ UNCHANGED <<status, reason>>
     \/ \E r \in Reasons \ {"max_steps_exceeded"} : reason' = r /\ status' = StatusOf(r)
  /\ UNCHANGED <<bound, stored>>

\* The run ends between two agents.
End ==
  /\ status = "running"
  /\ \E r \in Reasons :
       /\ r = "max_steps_exceeded" => Len(path) = bound
       /\ reason' = r
       /\ status' = StatusOf(r)
  /\ UNCHANGED <<bound, path, stored>>

Store ==
  /\ reason # "none"
  /\ stored = NotStored
  /\ stored' = <<status, reason, path>>
  /\ UNCHANGED <<bound, status, reason, path>>

Next == Begin \/ TakeAgent \/ End \/ Store

Spec == Init /\ [][Next]_vars

=============================================================================
