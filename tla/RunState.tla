------------------------------ MODULE RunState ------------------------------
(***************************************************************************)
(* OrchestratorState, the record a run works on, and what the base class   *)
(* of both orchestrators does to it.                                       *)
(***************************************************************************)
EXTENDS AgentSteps

CONSTANTS
  Tasks,             \* requests a run may be started with
  MaxGraphSteps,     \* orchestrator.max_graph_steps, the graph's own cap
  RecursionLimit     \* nodes the graph library runs before it raises

ASSUME TasksAssumption == \A t \in Tasks : t.max_steps \in Nat \ {0}
ASSUME LimitsAssumption == MaxGraphSteps \in Nat \ {0} /\ RecursionLimit \in Nat

\* WorkflowTerminalReason, and the WorkflowStatus each one comes with
StatusOf ==
  [natural_completion |-> "completed", needs_human_review |-> "needs_human_review",
   agent_failed |-> "failed", agent_exception |-> "failed", agent_not_registered |-> "failed",
   max_steps_exceeded |-> "failed", tool_failed |-> "failed",
   tool_executor_unavailable |-> "failed"]

Reasons == DOMAIN StatusOf
Terminal == {"completed", "failed", "needs_human_review"}

NewState(task) ==
  [status |-> "pending", reason |-> None, current |-> None, path |-> <<>>, history |-> <<>>,
   shared |-> task.shared, refs |-> task.refs]

NotStored ==
  [status |-> "not stored", reason |-> None, current |-> None, path |-> <<>>, history |-> <<>>, refs |-> <<>>]

Terminate(st, reason) == [st EXCEPT !.status = StatusOf[reason], !.reason = reason]
Stop(st, reason) == [Terminate(st, reason) EXCEPT !.current = None]

\* _apply_result
ApplyResult(st, step, a, result) ==
  [st EXCEPT !.path = Append(@, a),
             !.history = Append(@, [step |-> step, agent |-> a, status |-> result.status]),
             !.shared = record_agent_output(@, a, result.output)]

\* result.requires_human or result.status == NEEDS_HUMAN_REVIEW
WantsHuman(result) == result.human \/ result.status = "needs_human_review"

\* A tool result reached the shared state; done are the results of this batch.
AppendToolResult(st, a, result) == [st EXCEPT !.shared = append_tool_result(@, a, result)]
SetLastResults(st, done) == [st EXCEPT !.shared = set_last_tool_results(@, done)]

\* _sync_knowledge_refs: dict.fromkeys keeps the first occurrence of each
SyncKnowledgeRefs(st) ==
  [st EXCEPT !.refs = Consumed(<<>>, @ \o st.shared.outputs["knowledge_agent"].refs)]

\* What save_runtime_records and save_workflow_run keep of a run.
Record(st) ==
  [status |-> st.status, reason |-> st.reason, current |-> st.current, path |-> st.path,
   history |-> st.history, refs |-> st.refs]

\* ---------------------------------------------------------- the outside world

Queries == {NoQuery, "asked", "thought of"}

\* What the model may answer agent a.
Answers(a) ==
  {Silent} \cup
  CASE a = "planner_agent"  -> {Planned(NoQuery), Planned("thought of")}
    [] a = "router_agent"   -> {Routed(b) : b \in Registered}
    [] a = "executor_agent" -> {Written}
    [] a = "reviewer_agent" -> {Judged(TRUE), Judged(FALSE)}
    [] OTHER                -> {}

\* What an agent meets when it runs: the model's answer, or the plugin's own
\* doing.
Inputs(a) ==
  IF a \in DomainAgents THEN [answer : {Silent}, plugin : DomainResults]
  ELSE [answer : Answers(a), plugin : {Raises}]

\* The n-th input of a run is x.  A run that repeats another one meets the same
\* inputs; where there is none yet, any x may come.
Meets(inputs, n, x) == n <= Len(inputs) => x = inputs[n]
Noted(inputs, n, x) == IF n > Len(inputs) THEN Append(inputs, x) ELSE inputs

=============================================================================
