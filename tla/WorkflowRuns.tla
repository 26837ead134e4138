---------------------------- MODULE WorkflowRuns ----------------------------
(***************************************************************************)
(* One request run by both orchestrators.  The simple one runs first; the  *)
(* graph then meets the same model answers, plugin results and tool        *)
(* replies, as far as it asks for them, and is compared with it.           *)
(***************************************************************************)
EXTENDS RunState

VARIABLES
  task, answers, replies,
  sst, pc, step, batch, scalls, sstored,
  gst, node, step_index, pending, results, gcalls, nodes, gstored

S == INSTANCE SimpleRunner WITH st <- sst, calls <- scalls, stored <- sstored
G == INSTANCE LangGraphRunner WITH st <- gst, calls <- gcalls, stored <- gstored

simpleVars == <<sst, pc, step, batch, scalls, sstored>>
graphVars == <<gst, node, step_index, pending, results, gcalls, nodes, gstored>>
vars == <<task, answers, replies, simpleVars, graphVars>>

Init == S!Init /\ G!Init

SimpleOver == pc \in {"done", "raised"}
GraphOver == node \in {"done", "raised"}

Next ==
  \/ S!Next /\ UNCHANGED graphVars
  \/ SimpleOver /\ G!Next /\ UNCHANGED simpleVars

Spec == Init /\ [][Next]_vars
FairSpec == Spec /\ WF_vars(Next)

-----------------------------------------------------------------------------
\* Properties

\* The two orchestrators store the same run for the same request and the same
\* answers (runner.py:139 "Mirrors the LangGraph tool_step semantics"), but for
\* current_agent_id of a run that waits for a review.  This holds while the
\* graph's own limits, on agents and on nodes, are not below the request's.
RunnersAgree ==
  (SimpleOver /\ GraphOver /\ task.max_steps <= MaxGraphSteps /\ nodes < RecursionLimit) =>
    IF sstored = NotStored THEN gstored = NotStored
    ELSE /\ gstored # NotStored
         /\ gstored = IF sstored.status = "needs_human_review" THEN [sstored EXCEPT !.current = None]
                      ELSE sstored
         /\ sst.shared = gst.shared

\* What RunPromise says of a stored run.
Outcome(stored) == <<stored.status, stored.reason, stored.path>>
Status(reason) == StatusOf[reason]
\* A run that raises keeps no record, and its state is dropped with it.
SimplePromise ==
  INSTANCE RunPromise WITH Agents <- Registered, StatusOf <- Status,
    bound <- task.max_steps, status <- sst.status, reason <- sst.reason, path <- sst.path, stored <- Outcome(sstored),
    NotStored <- Outcome(NotStored)
GraphBound == IF task.max_steps < MaxGraphSteps THEN task.max_steps ELSE MaxGraphSteps
GraphPromise ==
  INSTANCE RunPromise WITH Agents <- Registered, StatusOf <- Status,
    bound <- GraphBound, status <- gst.status, reason <- gst.reason, path <- gst.path, stored <- Outcome(gstored),
    NotStored <- Outcome(NotStored)
\* A run of either orchestrator is a run of RunPromise: bounded, ended once,
\* with the status of its reason, stored as it ended.
\* The graph's runs are also bounded by its own setting, max_graph_steps.
RunnersKeepPromise == SimplePromise!Spec /\ GraphPromise!Spec

\* A request that asks for a human review does not complete through the system
\* agents without one: every path they take to completion leads through the
\* reviewer, and neither the model nor the draft-only policy overrules the
\* requester (builtin_agents.py:547 "the reviewer must not silently downgrade
\* it to a plain success").
RequesterDecides ==
  \A s \in {sst, gst} :
    task.human /\ ~task.resumed /\ task.requested # None /\ s.status = "completed"
      => Range(s.path) \cap DomainAgents # {}

\* A run resumed after a human decision is never put to a human again by the
\* reviewer (builtin_agents.py:503 "the reviewer must not re-raise another
\* review round").
DecidedOnce ==
  \A s \in {sst, gst} :
    task.resumed /\ s.status = "needs_human_review" => Last(s.path) \in DomainAgents

\* After a tool call that did not succeed nothing else runs: it is the last
\* result of the batch and of its agent, and the run has failed.
FailedToolStops ==
  \A s \in {sst, gst} :
    \A a \in Registered : \A i \in DOMAIN s.shared.results[a] :
      s.shared.results[a][i].status # "success" =>
        /\ i = Len(s.shared.results[a])
        /\ s.reason = "tool_failed"
        /\ a = Last(s.path)
        /\ Last(s.shared.last) = s.shared.results[a][i]

\* Every request is run to an end by both orchestrators, although agents may
\* route back and forth: the step bound ends every cycle.
RunsEnd == <>(SimpleOver /\ GraphOver)

=============================================================================
