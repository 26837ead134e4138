----------------------- MODULE MCWorkflowSubmission -----------------------
(* Model-checking instance of WorkflowSubmission: symmetry of the sets of  *)
(* interchangeable processes, requests and task ids.                       *)
EXTENDS WorkflowSubmission, TLC

Symmetry ==
  Permutations(Workers) \cup Permutations(Requests) \cup Permutations(Tasks)

=============================================================================
