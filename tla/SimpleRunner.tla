---------------------------- MODULE SimpleRunner ----------------------------
(***************************************************************************)
(* SimpleOrchestrator.run: a loop over at most max_steps agents.  One step *)
(* is one agent run with everything the loop body then decides, one tool   *)
(* call, or the trailer that stores the run.                               *)
(*                                                                         *)
(* Two branches of the code cannot be taken and are left out: the loop     *)
(* body never finds current_agent_id None (it starts with the agent of the *)
(* request and the loop ends when an agent names nobody), and the owner of *)
(* tool calls, who just ran, is registered.                                *)
(***************************************************************************)
EXTENDS RunState

VARIABLES
  task,       \* the request
  st,         \* OrchestratorState
  pc,         \* "start", "agents", "tools", "trailer", "done", "raised"
  step,       \* step_index
  batch,      \* tool calls of the current agent: those to do, results, next agent
  calls,      \* tool calls made
  stored,     \* the record the trailer wrote
  answers,    \* what agents met so far
  replies     \* what tools replied so far

inputVars == <<task, answers, replies>>
ownVars == <<st, pc, step, batch, calls, stored>>
vars == <<inputVars, ownVars>>

NoBatch == [todo |-> <<>>, done |-> <<>>, next |-> None]

Init ==
  /\ task \in Tasks
  /\ st = NewState(task)
  /\ pc = "start"
  /\ step = 1
  /\ batch = NoBatch
  /\ calls = 0
  /\ stored = NotStored
  /\ answers = <<>>
  /\ replies = <<>>

Begin ==
  /\ pc = "start"
  /\ st' = [st EXCEPT !.status = "running", !.current = task.initial]
  /\ pc' = "agents"
  /\ UNCHANGED <<step, batch, calls, stored, inputVars>>

\* ------------------------------------------------------------ the loop body

WithinSteps_OneMore(n) == n <= task.max_steps + 1      \* Wrong on purpose: one agent too many

WithinSteps(n) == n <= task.max_steps
InLoop == pc = "agents" /\ WithinSteps(step)

AgentNotRegistered ==
  /\ InLoop
  /\ st.current \notin Registered
  /\ st' = Terminate(st, "agent_not_registered")
  /\ pc' = "trailer"
  /\ UNCHANGED <<step, batch, calls, stored, inputVars>>

\* The agent runs with input x.
Returns(x) ==
  /\ InLoop
  /\ st.current \in Registered
  /\ Meets(answers, step, x)
  /\ answers' = Noted(answers, step, x)
  /\ UNCHANGED <<task, replies, calls, stored>>

Applied(r) == ApplyResult(st, step, st.current, r)

\* Describing the exception raises again when its text is too long.
AgentRaises(x, r) ==
  /\ Returns(x) /\ ~r.ok
  /\ IF r.long THEN pc' = "raised" /\ st' = Terminate(st, "agent_exception")
               ELSE pc' = "trailer" /\ st' = Stop(Applied(r), "agent_exception")
  /\ UNCHANGED <<step, batch>>

AgentFails(x, r) ==
  /\ Returns(x) /\ r.ok /\ r.status = "failed"
  /\ st' = Stop(Applied(r), "agent_failed")
  /\ pc' = "trailer"
  /\ UNCHANGED <<step, batch>>

\* current_agent_id stays
AgentWantsHuman(x, r) ==
  /\ Returns(x) /\ r.ok /\ r.status # "failed" /\ WantsHuman(r)
  /\ st' = Terminate(Applied(r), "needs_human_review")
  /\ pc' = "trailer"
  /\ UNCHANGED <<step, batch>>

GoesOn(x, r) == Returns(x) /\ r.ok /\ r.status # "failed" /\ ~WantsHuman(r)

AgentCallsTools(x, r) ==
  /\ GoesOn(x, r) /\ r.calls # <<>> /\ task.executor
  /\ st' = Applied(r)
  /\ batch' = [todo |-> r.calls, done |-> <<>>, next |-> r.next]
  /\ pc' = "tools"
  /\ UNCHANGED step

AgentFindsNoExecutor(x, r) ==
  /\ GoesOn(x, r) /\ r.calls # <<>> /\ ~task.executor
  /\ st' = Stop(Applied(r), "tool_executor_unavailable")
  /\ pc' = "trailer"
  /\ UNCHANGED <<step, batch>>

AgentEnds(x, r) ==
  /\ GoesOn(x, r) /\ r.calls = <<>> /\ r.next = None
  /\ st' = Stop(Applied(r), "natural_completion")
  /\ pc' = "trailer"
  /\ UNCHANGED <<step, batch>>

AgentHandsOver(x, r) ==
  /\ GoesOn(x, r) /\ r.calls = <<>> /\ r.next # None
  /\ st' = [Applied(r) EXCEPT !.current = r.next]
  /\ step' = step + 1
  /\ UNCHANGED <<pc, batch>>

LoopExhausted_Gap ==             \* Wrong on purpose: the step after the last is nobody's
  /\ pc = "agents" /\ step > task.max_steps + 1
  /\ st' = Terminate(st, "max_steps_exceeded")
  /\ pc' = "trailer"
  /\ UNCHANGED <<step, batch, calls, stored, inputVars>>

\* The else branch of the for loop.
LoopExhausted ==
  /\ pc = "agents" /\ ~WithinSteps(step)
  /\ st' = Terminate(st, "max_steps_exceeded")
  /\ pc' = "trailer"
  /\ UNCHANGED <<step, batch, calls, stored, inputVars>>

\* ------------------------------------------------------ _execute_pending_tools

Owner == Last(st.path)

Calls(reply) ==
  /\ pc = "tools" /\ batch.todo # <<>>
  /\ Meets(replies, calls + 1, reply)
  /\ replies' = Noted(replies, calls + 1, reply)
  /\ calls' = calls + 1
  /\ UNCHANGED <<task, answers, step, stored>>

ToolRaises(reply) ==
  /\ Calls(reply)
  /\ ExecuteRaises(Owner, Head(batch.todo), reply)
  /\ pc' = "raised"
  /\ UNCHANGED <<st, batch>>

ToolReturns(reply) ==
  LET result == Execute(Owner, Head(batch.todo), reply)
      done == Append(batch.done, result)
      with == AppendToolResult(st, Owner, result)
  IN  /\ Calls(reply)
      /\ ~ExecuteRaises(Owner, Head(batch.todo), reply)
      /\ IF result.status = "success"
         THEN /\ st' = with
              /\ batch' = [batch EXCEPT !.todo = Tail(@), !.done = done]
              /\ UNCHANGED pc
         ELSE /\ st' = Stop(SetLastResults(with, done), "tool_failed")
              /\ batch' = NoBatch
              /\ pc' = "trailer"

ToolsDone ==
  LET with == SetLastResults(st, batch.done)
  IN  /\ pc = "tools" /\ batch.todo = <<>>
      /\ IF batch.next = None
         THEN /\ st' = Stop(with, "natural_completion")
              /\ pc' = "trailer"
              /\ UNCHANGED step
         ELSE /\ st' = [with EXCEPT !.current = batch.next]
              /\ pc' = "agents"
              /\ step' = step + 1
      /\ batch' = NoBatch
      /\ UNCHANGED <<calls, stored, inputVars>>

\* ---------------------------------------------------------------- the trailer

Finish ==
  /\ pc = "trailer"
  /\ st' = SyncKnowledgeRefs(st)
  /\ stored' = Record(st')
  /\ pc' = "done"
  /\ UNCHANGED <<step, batch, calls, inputVars>>

RunStep ==
  \E x \in Inputs(st.current) :
    LET r == AgentRun(st.current, task, st.refs, st.shared, x.answer, x.plugin) IN
      \/ AgentRaises(x, r)
      \/ AgentFails(x, r)
      \/ AgentWantsHuman(x, r)
      \/ AgentCallsTools(x, r)
      \/ AgentFindsNoExecutor(x, r)
      \/ AgentEnds(x, r)
      \/ AgentHandsOver(x, r)

ToolStep == \E reply \in ToolReplies : ToolRaises(reply) \/ ToolReturns(reply)

Next ==
  \/ Begin
  \/ AgentNotRegistered
  \/ RunStep
  \/ LoopExhausted
  \/ ToolStep
  \/ ToolsDone
  \/ Finish

Spec == Init /\ [][Next]_vars

=============================================================================
