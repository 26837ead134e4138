-------------------------- MODULE LangGraphRunner --------------------------
(***************************************************************************)
(* LangGraphOrchestrator.run: the same run as a graph of two nodes,        *)
(* agent_step and tool_step, with conditional edges.  The graph state      *)
(* carries step_index and the pending tool calls from node to node.  The   *)
(* graph library runs at most RecursionLimit nodes and then raises.        *)
(*                                                                         *)
(* Left out because no edge leads there: agent_step with nobody to run,    *)
(* tool_step with nothing pending or with an unregistered owner.           *)
(***************************************************************************)
EXTENDS RunState

VARIABLES
  task, st,
  node,       \* node to run next, "tools" inside tool_step, "start", "end", "done", "raised"
  step_index, \* of the graph state
  pending,    \* pending_tool_calls, tool_owner_agent_id, pending_next_agent_id
  results,    \* executed_results of tool_step
  calls,      \* tool calls made
  nodes,      \* nodes run
  stored, answers, replies

inputVars == <<task, answers, replies>>
ownVars == <<st, node, step_index, pending, results, calls, nodes, stored>>
vars == <<inputVars, ownVars>>

NothingPending == [calls |-> <<>>, owner |-> None, next |-> None]

Init ==
  /\ task \in Tasks
  /\ st = NewState(task)
  /\ node = "start"
  /\ step_index = 0
  /\ pending = NothingPending
  /\ results = <<>>
  /\ calls = 0
  /\ nodes = 0
  /\ stored = NotStored
  /\ answers = <<>>
  /\ replies = <<>>

Begin ==
  /\ node = "start"
  /\ st' = [st EXCEPT !.status = "running", !.current = task.initial]
  /\ node' = "agent_step"
  /\ UNCHANGED <<step_index, pending, results, calls, nodes, stored, inputVars>>

\* ------------------------------------------------------- edges of the graph

\* _route_after_agent_step and _route_after_tool_step
RouteAfterAgentStep(s, p) ==
  IF s.status \in Terminal THEN "end" ELSE IF p.calls # <<>> THEN "tool_step" ELSE "agent_step"
RouteAfterToolStep(s) == IF s.status \in Terminal THEN "end" ELSE "agent_step"

LimitReached ==
  /\ node \in {"agent_step", "tool_step"}
  /\ nodes = RecursionLimit
  /\ node' = "raised"
  /\ UNCHANGED <<st, step_index, pending, results, calls, nodes, stored, inputVars>>

\* -------------------------------------------------------- _execute_agent_step

EffectiveMaxSteps_Own == task.max_steps     \* Wrong on purpose: the graph's own cap is ignored

EffectiveMaxSteps == IF task.max_steps < MaxGraphSteps THEN task.max_steps ELSE MaxGraphSteps

\* The node returns; the edge is chosen on what it returned.
Leave(p) ==
  /\ step_index' = step_index + 1
  /\ pending' = p
  /\ nodes' = nodes + 1
  /\ node' = RouteAfterAgentStep(st', p)

AtAgentStep == node = "agent_step" /\ nodes < RecursionLimit

StepsExceeded ==
  /\ AtAgentStep
  /\ step_index + 1 > EffectiveMaxSteps
  /\ st' = Terminate(st, "max_steps_exceeded")
  /\ Leave(NothingPending)
  /\ UNCHANGED <<results, calls, stored, inputVars>>

AgentNotRegistered ==
  /\ AtAgentStep
  /\ step_index + 1 <= EffectiveMaxSteps
  /\ st.current \notin Registered
  /\ st' = Terminate(st, "agent_not_registered")
  /\ Leave(NothingPending)
  /\ UNCHANGED <<results, calls, stored, inputVars>>

Returns(x) ==
  /\ AtAgentStep
  /\ step_index + 1 <= EffectiveMaxSteps
  /\ st.current \in Registered
  /\ Meets(answers, step_index + 1, x)
  /\ answers' = Noted(answers, step_index + 1, x)
  /\ UNCHANGED <<task, replies, results, calls, stored>>

Applied(r) == ApplyResult(st, step_index + 1, st.current, r)

\* The exception's text does not fit into a result: the node raises, and the run.
AgentRaisesOut(x, r) ==
  /\ Returns(x) /\ ~r.ok /\ r.long
  /\ node' = "raised"
  /\ UNCHANGED <<st, step_index, pending, nodes>>

AgentRaises(x, r) ==
  /\ Returns(x) /\ ~r.ok /\ ~r.long
  /\ st' = Stop(Applied(r), "agent_exception")
  /\ Leave(NothingPending)

AgentFails(x, r) ==
  /\ Returns(x) /\ r.ok /\ r.status = "failed"
  /\ st' = Stop(Applied(r), "agent_failed")
  /\ Leave(NothingPending)

AgentWantsHuman(x, r) ==
  /\ Returns(x) /\ r.ok /\ r.status # "failed" /\ WantsHuman(r)
  /\ st' = Stop(Applied(r), "needs_human_review")
  /\ Leave(NothingPending)

GoesOn(x, r) == Returns(x) /\ r.ok /\ r.status # "failed" /\ ~WantsHuman(r)

AgentCallsTools(x, r) ==
  /\ GoesOn(x, r) /\ r.calls # <<>>
  /\ st' = Applied(r)
  /\ Leave([calls |-> r.calls, owner |-> st.current, next |-> r.next])

AgentEnds(x, r) ==
  /\ GoesOn(x, r) /\ r.calls = <<>> /\ r.next = None
  /\ st' = Stop(Applied(r), "natural_completion")
  /\ Leave(NothingPending)

AgentHandsOver(x, r) ==
  /\ GoesOn(x, r) /\ r.calls = <<>> /\ r.next # None
  /\ st' = [Applied(r) EXCEPT !.current = r.next]
  /\ Leave(NothingPending)

\* --------------------------------------------------------- _execute_tool_step

ToolsEnter ==
  /\ node = "tool_step" /\ nodes < RecursionLimit
  /\ task.executor
  /\ node' = "tools"
  /\ UNCHANGED <<st, step_index, pending, results, calls, nodes, stored, inputVars>>

LeaveTools ==
  /\ pending' = NothingPending
  /\ results' = <<>>
  /\ nodes' = nodes + 1
  /\ node' = RouteAfterToolStep(st')
  /\ UNCHANGED <<step_index, stored, task, answers>>

NoExecutor ==
  /\ node = "tool_step" /\ nodes < RecursionLimit
  /\ ~task.executor
  /\ st' = Stop(st, "tool_executor_unavailable")
  /\ LeaveTools
  /\ UNCHANGED <<calls, replies>>

Todo == SubSeq(pending.calls, Len(results) + 1, Len(pending.calls))

Calls(reply) ==
  /\ node = "tools" /\ Todo # <<>>
  /\ Meets(replies, calls + 1, reply)
  /\ replies' = Noted(replies, calls + 1, reply)
  /\ calls' = calls + 1

ToolRaises(reply) ==
  /\ Calls(reply)
  /\ ExecuteRaises(pending.owner, Head(Todo), reply)
  /\ node' = "raised"
  /\ UNCHANGED <<st, step_index, pending, results, nodes, stored, task, answers>>

ToolSucceeds(reply) ==
  LET result == Execute(pending.owner, Head(Todo), reply)
  IN  /\ Calls(reply)
      /\ ~ExecuteRaises(pending.owner, Head(Todo), reply)
      /\ result.status = "success"
      /\ st' = AppendToolResult(st, pending.owner, result)
      /\ results' = Append(results, result)
      /\ UNCHANGED <<node, step_index, pending, nodes, stored, task, answers>>

ToolFails_Continues(reply) ==     \* Wrong on purpose: the failed call does not fail the run
  LET result == Execute(pending.owner, Head(Todo), reply)
  IN  /\ Calls(reply)
      /\ ~ExecuteRaises(pending.owner, Head(Todo), reply)
      /\ result.status # "success"
      /\ st' = AppendToolResult(st, pending.owner, result)
      /\ results' = Append(results, result)
      /\ UNCHANGED <<node, step_index, pending, nodes, stored, task, answers>>

ToolFails(reply) ==
  LET result == Execute(pending.owner, Head(Todo), reply)
  IN  /\ Calls(reply)
      /\ ~ExecuteRaises(pending.owner, Head(Todo), reply)
      /\ result.status # "success"
      /\ st' = Stop(SetLastResults(AppendToolResult(st, pending.owner, result), Append(results, result)),
                    "tool_failed")
      /\ LeaveTools

ToolsDone_Forgets ==              \* Wrong on purpose: the batch's results are not handed to the next agent
  /\ node = "tools" /\ Todo = <<>>
  /\ st' = IF pending.next = None THEN Stop(st, "natural_completion") ELSE [st EXCEPT !.current = pending.next]
  /\ LeaveTools
  /\ UNCHANGED <<calls, replies>>

ToolsDone ==
  LET with == SetLastResults(st, results)
  IN  /\ node = "tools" /\ Todo = <<>>
      /\ st' = IF pending.next = None THEN Stop(with, "natural_completion")
                                      ELSE [with EXCEPT !.current = pending.next]
      /\ LeaveTools
      /\ UNCHANGED <<calls, replies>>

\* ---------------------------------------------------------------- the trailer

Finish ==
  /\ node = "end"
  /\ st' = SyncKnowledgeRefs(st)
  /\ stored' = Record(st')
  /\ node' = "done"
  /\ UNCHANGED <<step_index, pending, results, calls, nodes, inputVars>>

RunStep ==
  \E x \in Inputs(st.current) :
    LET r == AgentRun(st.current, task, st.refs, st.shared, x.answer, x.plugin) IN
      \/ AgentRaisesOut(x, r)
      \/ AgentRaises(x, r)
      \/ AgentFails(x, r)
      \/ AgentWantsHuman(x, r)
      \/ AgentCallsTools(x, r)
      \/ AgentEnds(x, r)
      \/ AgentHandsOver(x, r)

ToolStep == \E reply \in ToolReplies : ToolRaises(reply) \/ ToolSucceeds(reply) \/ ToolFails(reply)

Next ==
  \/ Begin
  \/ LimitReached
  \/ StepsExceeded
  \/ AgentNotRegistered
  \/ RunStep
  \/ ToolsEnter
  \/ NoExecutor
  \/ ToolStep
  \/ ToolsDone
  \/ Finish

Spec == Init /\ [][Next]_vars

=============================================================================
