------------------------- MODULE WorkflowRuns_proofs -------------------------
(***************************************************************************)
(* Proof that both orchestrators implement RunPromise, for all requests,   *)
(* plugins, answers and limits: the loop over agents and the graph of two  *)
(* nodes take at most as many agents as they may, end once, with the       *)
(* status that goes with the reason, and store the run as it ended.        *)
(* Then who may put a run to a human and who may complete it, that a tool  *)
(* call that did not succeed is the last thing a run does, and that both   *)
(* store the same run.                                                     *)
(***************************************************************************)
EXTENDS WorkflowRuns, TLAPS

Fields == {"status", "reason", "current", "path", "history", "shared", "refs"}
Shaped(s) == s = [f \in Fields |-> s[f]]

\* What RunPromise sees of a state.
Ended(s, r) == s.reason = r /\ s.status = StatusOf[r]
Underway(s) == s.status = "running" /\ s.reason = None
Same(s, t) == s.status = t.status /\ s.reason = t.reason /\ s.path = t.path

LEMMA ReasonFacts ==
  /\ Reasons = {"natural_completion", "needs_human_review", "agent_failed", "agent_exception",
                "agent_not_registered", "max_steps_exceeded", "tool_failed", "tool_executor_unavailable"}
  /\ \A r \in Reasons : StatusOf[r] \in Terminal
  /\ None \notin Reasons
BY DEF Reasons, StatusOf, Terminal, None

\* Both runners speak of the same reasons, agents and requests.
LEMMA SharedNames ==
  /\ S!StatusOf = StatusOf /\ S!None = None /\ S!Registered = Registered /\ S!NotStored = NotStored
  /\ G!StatusOf = StatusOf /\ G!None = None /\ G!Registered = Registered /\ G!NotStored = NotStored
  /\ G!Terminal = Terminal
BY DEF S!StatusOf, StatusOf, S!None, None, S!Registered, Registered, S!SystemAgents, SystemAgents,
       S!NotStored, NotStored, G!StatusOf, G!None, G!Registered, G!SystemAgents, G!NotStored,
       G!Terminal, Terminal

-----------------------------------------------------------------------------
(* What the operations on OrchestratorState do to what is promised.        *)

LEMMA SimpleEndState ==
  ASSUME NEW s, Shaped(s), NEW r
  PROVE  /\ Shaped(S!Terminate(s, r)) /\ Ended(S!Terminate(s, r), r) /\ S!Terminate(s, r).path = s.path
         /\ Shaped(S!Stop(s, r)) /\ Ended(S!Stop(s, r), r) /\ S!Stop(s, r).path = s.path
BY SharedNames DEF Shaped, Fields, Ended, S!Terminate, S!Stop

LEMMA SimpleApplies ==
  ASSUME NEW s, Shaped(s), NEW n, NEW a, NEW x
  PROVE  /\ Shaped(S!ApplyResult(s, n, a, x))
         /\ S!ApplyResult(s, n, a, x).status = s.status /\ S!ApplyResult(s, n, a, x).reason = s.reason
         /\ S!ApplyResult(s, n, a, x).path = Append(s.path, a)
BY DEF Shaped, Fields, S!ApplyResult

LEMMA SimpleAppends ==
  ASSUME NEW s, Shaped(s), NEW a, NEW x
  PROVE  Shaped(S!AppendToolResult(s, a, x)) /\ Same(S!AppendToolResult(s, a, x), s)
BY DEF Shaped, Fields, Same, S!AppendToolResult

LEMMA SimpleSets ==
  ASSUME NEW s, Shaped(s), NEW x
  PROVE  Shaped(S!SetLastResults(s, x)) /\ Same(S!SetLastResults(s, x), s)
BY DEF Shaped, Fields, Same, S!SetLastResults

LEMMA SimpleSyncs ==
  ASSUME NEW s, Shaped(s)
  PROVE  Shaped(S!SyncKnowledgeRefs(s)) /\ Same(S!SyncKnowledgeRefs(s), s)
BY DEF Shaped, Fields, Same, S!SyncKnowledgeRefs

\* The next agent is named; the run begins with one.
Hand(s, a) == [s EXCEPT !.current = a]
Start(s, a) == [s EXCEPT !.status = "running", !.current = a]

LEMMA HandState ==
  ASSUME NEW s, Shaped(s), NEW a
  PROVE  /\ Shaped(Hand(s, a)) /\ Same(Hand(s, a), s)
         /\ Shaped(Start(s, a)) /\ Start(s, a).status = "running" /\ Start(s, a).reason = s.reason
         /\ Start(s, a).path = s.path
BY DEF Shaped, Fields, Same, Hand, Start

LEMMA GraphEndState ==
  ASSUME NEW s, Shaped(s), NEW r
  PROVE  /\ Shaped(G!Terminate(s, r)) /\ Ended(G!Terminate(s, r), r) /\ G!Terminate(s, r).path = s.path
         /\ Shaped(G!Stop(s, r)) /\ Ended(G!Stop(s, r), r) /\ G!Stop(s, r).path = s.path
BY SharedNames DEF Shaped, Fields, Ended, G!Terminate, G!Stop

LEMMA GraphApplies ==
  ASSUME NEW s, Shaped(s), NEW n, NEW a, NEW x
  PROVE  /\ Shaped(G!ApplyResult(s, n, a, x))
         /\ G!ApplyResult(s, n, a, x).status = s.status /\ G!ApplyResult(s, n, a, x).reason = s.reason
         /\ G!ApplyResult(s, n, a, x).path = Append(s.path, a)
BY DEF Shaped, Fields, G!ApplyResult

LEMMA GraphAppends ==
  ASSUME NEW s, Shaped(s), NEW a, NEW x
  PROVE  Shaped(G!AppendToolResult(s, a, x)) /\ Same(G!AppendToolResult(s, a, x), s)
BY DEF Shaped, Fields, Same, G!AppendToolResult

LEMMA GraphSets ==
  ASSUME NEW s, Shaped(s), NEW x
  PROVE  Shaped(G!SetLastResults(s, x)) /\ Same(G!SetLastResults(s, x), s)
BY DEF Shaped, Fields, Same, G!SetLastResults

LEMMA GraphSyncs ==
  ASSUME NEW s, Shaped(s)
  PROVE  Shaped(G!SyncKnowledgeRefs(s)) /\ Same(G!SyncKnowledgeRefs(s), s)
BY DEF Shaped, Fields, Same, G!SyncKnowledgeRefs

-----------------------------------------------------------------------------
(* The loop: where it stands says how many agents were taken.              *)

Requested == task \in Tasks /\ task.max_steps \in Nat \ {0}

SimpleInv ==
  /\ Requested /\ Shaped(sst) /\ sst.path \in Seq(Registered) /\ step \in Nat
  /\ pc # "done" => sstored = NotStored
  /\ \/ pc = "start" /\ sst.status = "pending" /\ sst.reason = None /\ sst.path = <<>> /\ step = 1
     \/ pc = "agents" /\ Underway(sst) /\ Len(sst.path) + 1 = step /\ step <= task.max_steps + 1
     \/ pc = "tools" /\ Underway(sst) /\ Len(sst.path) = step /\ step <= task.max_steps
     \/ pc = "trailer" /\ \E r \in Reasons : Ended(sst, r)
     \/ pc \in {"done", "raised"}

\* A step of the promise, in the terms of the loop.
SimpleBegins == SimplePromise!Begin
SimpleKeeps == Same(sst', sst) /\ sstored' = sstored
SimpleTakes ==
  /\ Underway(sst) /\ Len(sst.path) < task.max_steps
  /\ \E a \in Registered : sst'.path = Append(sst.path, a)
  /\ sstored' = sstored
  /\ \/ Underway(sst')
     \/ \E r \in Reasons \ {"max_steps_exceeded"} : Ended(sst', r)
SimpleEnds ==
  /\ Underway(sst) /\ sst'.path = sst.path /\ sstored' = sstored
  /\ \E r \in Reasons : Ended(sst', r) /\ (r = "max_steps_exceeded" => Len(sst.path) = task.max_steps)

SimpleProgress == SimpleBegins \/ SimpleKeeps \/ SimpleTakes \/ SimpleEnds \/ SimplePromise!Store

LEMMA SimpleInit == Init => SimpleInv /\ SimplePromise!Init
<1>1. ASSUME Init PROVE SimpleInv /\ SimplePromise!Init
  <2>1. /\ task \in Tasks /\ sst = S!NewState(task) /\ pc = "start" /\ step = 1 /\ sstored = NotStored
    BY <1>1, SharedNames DEF Init, S!Init
  <2>2. /\ Shaped(sst) /\ sst.status = "pending" /\ sst.reason = None /\ sst.path = <<>>
    BY <2>1, SharedNames DEF S!NewState, Shaped, Fields
  <2>3. Requested
    BY <2>1, TasksAssumption DEF Requested
  <2>q. QED
    BY <2>1, <2>2, <2>3 DEF SimpleInv, SimplePromise!Init, Requested, None
<1>q. QED  BY <1>1

\* An agent of the loop is taken, whatever the loop then decides.
LEMMA SimpleTaken ==
  ASSUME SimpleInv, NEW x, NEW r, S!Returns(x)
  PROVE  /\ pc = "agents" /\ Underway(sst) /\ Len(sst.path) + 1 = step /\ step <= task.max_steps
         /\ sst.current \in Registered /\ task' = task /\ sstored' = sstored /\ sstored = NotStored
         /\ Shaped(S!Applied(r)) /\ Underway(S!Applied(r))
         /\ S!Applied(r).path = Append(sst.path, sst.current)
         /\ Append(sst.path, sst.current) \in Seq(Registered)
         /\ Len(Append(sst.path, sst.current)) = step
<1>1. /\ pc = "agents" /\ Underway(sst) /\ Len(sst.path) + 1 = step /\ step <= task.max_steps
      /\ sst.current \in Registered /\ task' = task /\ sstored' = sstored /\ sstored = NotStored
  BY SharedNames DEF SimpleInv, Requested, S!Returns, S!InLoop, S!WithinSteps
<1>2. /\ Shaped(S!Applied(r)) /\ Underway(S!Applied(r)) /\ S!Applied(r).path = Append(sst.path, sst.current)
  BY <1>1, SimpleApplies DEF S!Applied, SimpleInv, Underway
<1>3. Append(sst.path, sst.current) \in Seq(Registered) /\ Len(Append(sst.path, sst.current)) = step
  BY <1>1 DEF SimpleInv
<1>q. QED  BY <1>1, <1>2, <1>3

\* The agent is the last one: the run ends with r.
LEMMA SimpleTakesLast ==
  ASSUME SimpleInv, NEW x, NEW res, S!Returns(x), NEW r \in Reasons \ {"max_steps_exceeded"},
         pc' = "trailer", step' = step, Shaped(sst'), Ended(sst', r), sst'.path = S!Applied(res).path
  PROVE  SimpleInv' /\ SimpleTakes
<1>1. /\ pc = "agents" /\ Underway(sst) /\ Len(sst.path) + 1 = step /\ step <= task.max_steps
      /\ sst.current \in Registered /\ task' = task /\ sstored' = sstored /\ sstored = NotStored
      /\ sst'.path = Append(sst.path, sst.current)
      /\ Append(sst.path, sst.current) \in Seq(Registered)
  BY SimpleTaken
<1>2. SimpleTakes
  BY <1>1 DEF SimpleTakes, SimpleInv, Requested
<1>3. SimpleInv'
  BY <1>1 DEF SimpleInv, Requested
<1>q. QED  BY <1>2, <1>3

\* The agent is not the last one, or its tools come first.
LEMMA SimpleGoesOn ==
  ASSUME SimpleInv, NEW x, NEW res, S!Returns(x), Shaped(sst'), Same(sst', S!Applied(res)),
         \/ pc' = "tools" /\ step' = step
         \/ pc' = pc /\ step' = step + 1
  PROVE  SimpleInv' /\ SimpleTakes
<1>1. /\ pc = "agents" /\ Underway(sst) /\ Len(sst.path) + 1 = step /\ step <= task.max_steps
      /\ sst.current \in Registered /\ task' = task /\ sstored' = sstored /\ sstored = NotStored
      /\ sst'.path = Append(sst.path, sst.current) /\ Underway(sst')
      /\ Append(sst.path, sst.current) \in Seq(Registered)
      /\ Len(Append(sst.path, sst.current)) = step
  BY SimpleTaken DEF Same, Underway
<1>2. SimpleTakes
  BY <1>1 DEF SimpleTakes, SimpleInv, Requested
<1>3. SimpleInv'
  BY <1>1 DEF SimpleInv, Requested
<1>q. QED  BY <1>2, <1>3

LEMMA SimpleRunStep ==
  ASSUME SimpleInv, S!RunStep
  PROVE  SimpleInv' /\ SimpleProgress
<1>1. PICK x, r :
        \/ S!AgentRaises(x, r) \/ S!AgentFails(x, r) \/ S!AgentWantsHuman(x, r) \/ S!AgentCallsTools(x, r)
        \/ S!AgentFindsNoExecutor(x, r) \/ S!AgentEnds(x, r) \/ S!AgentHandsOver(x, r)
  BY DEF S!RunStep
<1> USE ReasonFacts
<1>2. CASE S!AgentRaises(x, r)
  <2>1. S!Returns(x) /\ step' = step
    BY <1>2 DEF S!AgentRaises
  <2>2. CASE r.long
    <3>1. pc' = "raised" /\ sst' = S!Terminate(sst, "agent_exception")
      BY <1>2, <2>2 DEF S!AgentRaises
    <3>2. SimpleEnds
      BY <2>1, <3>1, SimpleTaken, SimpleEndState DEF SimpleEnds, SimpleInv
    <3>3. SimpleInv'
      BY <2>1, <3>1, SimpleTaken, SimpleEndState DEF SimpleInv, Requested
    <3>q. QED  BY <3>2, <3>3 DEF SimpleProgress
  <2>3. CASE ~r.long
    <3>1. pc' = "trailer" /\ sst' = S!Stop(S!Applied(r), "agent_exception")
      BY <1>2, <2>3 DEF S!AgentRaises
    <3>q. QED  BY <2>1, <3>1, SimpleTaken, SimpleEndState, SimpleTakesLast DEF SimpleProgress
  <2>q. QED  BY <2>2, <2>3
<1>3. CASE S!AgentFails(x, r)
  <2>1. S!Returns(x) /\ step' = step /\ pc' = "trailer" /\ sst' = S!Stop(S!Applied(r), "agent_failed")
    BY <1>3 DEF S!AgentFails
  <2>q. QED  BY <2>1, SimpleTaken, SimpleEndState, SimpleTakesLast DEF SimpleProgress
<1>4. CASE S!AgentWantsHuman(x, r)
  <2>1. /\ S!Returns(x) /\ step' = step /\ pc' = "trailer"
        /\ sst' = S!Terminate(S!Applied(r), "needs_human_review")
    BY <1>4 DEF S!AgentWantsHuman
  <2>q. QED  BY <2>1, SimpleTaken, SimpleEndState, SimpleTakesLast DEF SimpleProgress
<1>5. CASE S!AgentCallsTools(x, r)
  <2>1. S!Returns(x) /\ step' = step /\ pc' = "tools" /\ sst' = S!Applied(r)
    BY <1>5 DEF S!AgentCallsTools, S!GoesOn
  <2>q. QED  BY <2>1, SimpleTaken, SimpleGoesOn DEF SimpleProgress, Same
<1>6. CASE S!AgentFindsNoExecutor(x, r)
  <2>1. /\ S!Returns(x) /\ step' = step /\ pc' = "trailer"
        /\ sst' = S!Stop(S!Applied(r), "tool_executor_unavailable")
    BY <1>6 DEF S!AgentFindsNoExecutor, S!GoesOn
  <2>q. QED  BY <2>1, SimpleTaken, SimpleEndState, SimpleTakesLast DEF SimpleProgress
<1>7. CASE S!AgentEnds(x, r)
  <2>1. /\ S!Returns(x) /\ step' = step /\ pc' = "trailer"
        /\ sst' = S!Stop(S!Applied(r), "natural_completion")
    BY <1>7 DEF S!AgentEnds, S!GoesOn
  <2>q. QED  BY <2>1, SimpleTaken, SimpleEndState, SimpleTakesLast DEF SimpleProgress
<1>8. CASE S!AgentHandsOver(x, r)
  <2>1. /\ S!Returns(x) /\ step' = step + 1 /\ pc' = pc
        /\ sst' = Hand(S!Applied(r), r.next)
    BY <1>8, Zenon DEF S!AgentHandsOver, S!GoesOn, Hand
  <2>2. Shaped(sst') /\ Same(sst', S!Applied(r))
    BY <2>1, SimpleTaken, HandState
  <2>q. QED  BY <2>1, <2>2, SimpleGoesOn DEF SimpleProgress
<1>q. QED  BY <1>1, <1>2, <1>3, <1>4, <1>5, <1>6, <1>7, <1>8

\* The steps that run no agent.
LEMMA SimpleOtherSteps ==
  ASSUME SimpleInv, S!Next, ~S!RunStep
  PROVE  SimpleInv' /\ SimpleProgress
<1> USE ReasonFacts
<1>1. CASE S!Begin
  <2>1. /\ pc = "start" /\ pc' = "agents" /\ sst' = Start(sst, task.initial)
        /\ step' = step /\ task' = task /\ sstored' = sstored
    BY <1>1, Zenon DEF S!Begin, S!inputVars, Start
  <2>2. /\ Shaped(sst') /\ sst'.status = "running" /\ sst'.reason = sst.reason /\ sst'.path = sst.path
    BY <2>1, HandState DEF SimpleInv
  <2>3. SimpleInv'
    BY <2>1, <2>2 DEF SimpleInv, Requested, Underway
  <2>4. SimpleBegins
    BY <2>1, <2>2 DEF SimpleInv, SimpleBegins, SimplePromise!Begin
  <2>q. QED  BY <2>3, <2>4 DEF SimpleProgress
<1>2. ASSUME NEW r \in Reasons, sst' = S!Terminate(sst, r), pc' = "trailer", pc = "agents", step' = step,
             task' = task, sstored' = sstored, r = "max_steps_exceeded" => step > task.max_steps
      PROVE  SimpleInv' /\ SimpleProgress
  <2>1. Shaped(sst') /\ Ended(sst', r) /\ sst'.path = sst.path
    BY <1>2, SimpleEndState DEF SimpleInv
  <2>2. SimpleEnds
    BY <1>2, <2>1 DEF SimpleEnds, SimpleInv, Requested
  <2>3. SimpleInv'
    BY <1>2, <2>1 DEF SimpleInv, Requested
  <2>q. QED  BY <2>2, <2>3 DEF SimpleProgress
<1>3. CASE S!AgentNotRegistered
  <2>1. /\ sst' = S!Terminate(sst, "agent_not_registered") /\ pc' = "trailer" /\ pc = "agents"
        /\ step' = step /\ task' = task /\ sstored' = sstored
    BY <1>3 DEF S!AgentNotRegistered, S!InLoop, S!inputVars
  <2>q. QED  BY <1>2, <2>1
<1>4. CASE S!LoopExhausted
  <2>1. /\ sst' = S!Terminate(sst, "max_steps_exceeded") /\ pc' = "trailer" /\ pc = "agents"
        /\ step' = step /\ task' = task /\ sstored' = sstored /\ step > task.max_steps
    BY <1>4 DEF S!LoopExhausted, S!WithinSteps, S!inputVars, SimpleInv, Requested
  <2>q. QED  BY <1>2, <2>1
<1>5. ASSUME NEW r \in Reasons \ {"max_steps_exceeded"}, Shaped(sst'), Ended(sst', r), sst'.path = sst.path,
             pc' = "trailer", pc = "tools", step' = step, task' = task, sstored' = sstored
      PROVE  SimpleInv' /\ SimpleProgress
  <2>1. SimpleEnds
    BY <1>5 DEF SimpleEnds, SimpleInv
  <2>2. SimpleInv'
    BY <1>5 DEF SimpleInv, Requested
  <2>q. QED  BY <2>1, <2>2 DEF SimpleProgress
<1>6. ASSUME Shaped(sst'), Same(sst', sst), pc = "tools", task' = task, sstored' = sstored,
             \/ pc' = "tools" /\ step' = step
             \/ pc' = "agents" /\ step' = step + 1
             \/ pc' = "raised" /\ step' = step
      PROVE  SimpleInv' /\ SimpleProgress
  <2>1. SimpleInv'
    BY <1>6 DEF SimpleInv, Requested, Same, Underway
  <2>2. SimpleKeeps
    BY <1>6 DEF SimpleKeeps
  <2>q. QED  BY <2>1, <2>2 DEF SimpleProgress
<1>7. ASSUME NEW reply \in S!ToolReplies, S!ToolRaises(reply)
      PROVE  SimpleInv' /\ SimpleProgress
  <2>1. pc = "tools" /\ pc' = "raised" /\ sst' = sst /\ task' = task /\ step' = step /\ sstored' = sstored
    BY <1>7 DEF S!ToolRaises, S!Calls
  <2>q. QED  BY <1>6, <2>1 DEF SimpleInv, Same
<1>8. ASSUME NEW reply \in S!ToolReplies, S!ToolReturns(reply)
      PROVE  SimpleInv' /\ SimpleProgress
  <2> DEFINE result == S!Execute(S!Owner, Head(batch.todo), reply)
             done == Append(batch.done, result)
             with == S!AppendToolResult(sst, S!Owner, result)
  <2>1. /\ pc = "tools" /\ task' = task /\ step' = step /\ sstored' = sstored
        /\ \/ sst' = with /\ pc' = pc
           \/ sst' = S!Stop(S!SetLastResults(with, done), "tool_failed") /\ pc' = "trailer"
    BY <1>8 DEF S!ToolReturns, S!Calls
  <2>2. Shaped(with) /\ Same(with, sst)
    BY SimpleAppends DEF SimpleInv
  <2> HIDE DEF result, done, with
  <2>3. CASE sst' = with /\ pc' = pc
    BY <1>6, <2>1, <2>2, <2>3
  <2>4. CASE sst' = S!Stop(S!SetLastResults(with, done), "tool_failed") /\ pc' = "trailer"
    <3>1. Shaped(S!SetLastResults(with, done)) /\ Same(S!SetLastResults(with, done), with)
      BY <2>2, SimpleSets
    <3>2. Shaped(sst') /\ Ended(sst', "tool_failed") /\ sst'.path = sst.path
      BY <2>2, <2>4, <3>1, SimpleEndState DEF Same
    <3>q. QED  BY <1>5, <2>1, <2>4, <3>2
  <2>q. QED  BY <2>1, <2>3, <2>4
<1>9. CASE S!ToolsDone
  <2> DEFINE with == S!SetLastResults(sst, batch.done)
  <2>1. /\ pc = "tools" /\ task' = task /\ sstored' = sstored
        /\ \/ sst' = S!Stop(with, "natural_completion") /\ pc' = "trailer" /\ step' = step
           \/ sst' = Hand(with, batch.next) /\ pc' = "agents" /\ step' = step + 1
    BY <1>9, Zenon DEF S!ToolsDone, S!inputVars, Hand
  <2>2. Shaped(with) /\ Same(with, sst)
    BY SimpleSets DEF SimpleInv
  <2> HIDE DEF with
  <2>3. CASE sst' = S!Stop(with, "natural_completion") /\ pc' = "trailer" /\ step' = step
    <3>1. Shaped(sst') /\ Ended(sst', "natural_completion") /\ sst'.path = sst.path
      BY <2>2, <2>3, SimpleEndState DEF Same
    <3>q. QED  BY <1>5, <2>1, <2>3, <3>1
  <2>4. CASE sst' = Hand(with, batch.next) /\ pc' = "agents" /\ step' = step + 1
    <3>1. Shaped(sst') /\ Same(sst', sst)
      BY <2>2, <2>4, HandState DEF Same
    <3>q. QED  BY <1>6, <2>1, <2>4, <3>1
  <2>q. QED  BY <2>1, <2>3, <2>4
<1>10. CASE S!Finish
  <2>1. /\ pc = "trailer" /\ pc' = "done" /\ sst' = S!SyncKnowledgeRefs(sst) /\ sstored' = S!Record(sst')
        /\ step' = step /\ task' = task
    BY <1>10 DEF S!Finish, S!inputVars
  <2>2. Shaped(sst') /\ Same(sst', sst)
    BY <2>1, SimpleSyncs DEF SimpleInv
  <2>3. SimpleInv'
    BY <2>1, <2>2 DEF SimpleInv, Requested, Same
  <2>4. Outcome(sstored') = <<sst'.status, sst'.reason, sst'.path>>
    BY <2>1 DEF Outcome, S!Record
  <2>5. sstored = NotStored /\ \E r \in Reasons : sst.reason = r
    BY <2>1 DEF SimpleInv, Ended
  <2>6. SimplePromise!Store
    BY <2>1, <2>2, <2>4, <2>5 DEF SimplePromise!Store, Same, None
  <2>q. QED  BY <2>3, <2>6 DEF SimpleProgress
<1>q. QED  BY <1>1, <1>3, <1>4, <1>7, <1>8, <1>9, <1>10 DEF S!Next, S!ToolStep

-----------------------------------------------------------------------------
(* The graph: step_index says how many agents were taken.                  *)

GraphInv ==
  /\ Requested /\ Shaped(gst) /\ gst.path \in Seq(Registered) /\ step_index \in Nat
  /\ node # "done" => gstored = NotStored
  /\ \/ node = "start" /\ gst.status = "pending" /\ gst.reason = None /\ gst.path = <<>> /\ step_index = 0
     \/ /\ node \in {"agent_step", "tool_step", "tools"}
        /\ Underway(gst) /\ Len(gst.path) = step_index /\ step_index <= GraphBound
     \/ node = "end" /\ \E r \in Reasons : Ended(gst, r)
     \/ node \in {"done", "raised"}

GraphKeeps == Same(gst', gst) /\ gstored' = gstored
GraphTakes ==
  /\ Underway(gst) /\ Len(gst.path) < GraphBound
  /\ \E a \in Registered : gst'.path = Append(gst.path, a)
  /\ gstored' = gstored
  /\ \/ Underway(gst')
     \/ \E r \in Reasons \ {"max_steps_exceeded"} : Ended(gst', r)
GraphEnds ==
  /\ Underway(gst) /\ gst'.path = gst.path /\ gstored' = gstored
  /\ \E r \in Reasons : Ended(gst', r) /\ (r = "max_steps_exceeded" => Len(gst.path) = GraphBound)

GraphProgress == GraphPromise!Begin \/ GraphKeeps \/ GraphTakes \/ GraphEnds \/ GraphPromise!Store

LEMMA BoundType == Requested => GraphBound \in Nat /\ GraphBound = G!EffectiveMaxSteps
BY LimitsAssumption DEF Requested, GraphBound, G!EffectiveMaxSteps

LEMMA GraphInit == Init => GraphInv /\ GraphPromise!Init
<1>1. ASSUME Init PROVE GraphInv /\ GraphPromise!Init
  <2>1. /\ task \in Tasks /\ gst = G!NewState(task) /\ node = "start" /\ step_index = 0 /\ gstored = NotStored
    BY <1>1, SharedNames DEF Init, S!Init, G!Init
  <2>2. /\ Shaped(gst) /\ gst.status = "pending" /\ gst.reason = None /\ gst.path = <<>>
    BY <2>1, SharedNames DEF G!NewState, Shaped, Fields
  <2>3. Requested
    BY <2>1, TasksAssumption DEF Requested
  <2>q. QED
    BY <2>1, <2>2, <2>3, BoundType DEF GraphInv, GraphPromise!Init, None
<1>q. QED  BY <1>1

\* The edges: a run that ended leaves the graph, one that goes on stays.
LEMMA Edges ==
  ASSUME NEW s, NEW p
  PROVE  /\ \A r \in Reasons : Ended(s, r) =>
              G!RouteAfterAgentStep(s, p) = "end" /\ G!RouteAfterToolStep(s) = "end"
         /\ Underway(s) => /\ G!RouteAfterAgentStep(s, p) = IF p.calls # <<>> THEN "tool_step" ELSE "agent_step"
                           /\ G!RouteAfterToolStep(s) = "agent_step"
BY ReasonFacts, SharedNames DEF Ended, Underway, Terminal, G!RouteAfterAgentStep, G!RouteAfterToolStep

LEMMA GraphTaken ==
  ASSUME GraphInv, NEW x, NEW r, G!Returns(x)
  PROVE  /\ node = "agent_step" /\ Underway(gst) /\ Len(gst.path) = step_index /\ step_index + 1 <= GraphBound
         /\ gst.current \in Registered /\ task' = task /\ gstored' = gstored /\ gstored = NotStored
         /\ GraphBound' = GraphBound
         /\ Shaped(G!Applied(r)) /\ Underway(G!Applied(r))
         /\ G!Applied(r).path = Append(gst.path, gst.current)
         /\ Append(gst.path, gst.current) \in Seq(Registered)
         /\ Len(Append(gst.path, gst.current)) = step_index + 1
<1>1. /\ node = "agent_step" /\ Underway(gst) /\ Len(gst.path) = step_index /\ step_index + 1 <= GraphBound
      /\ gst.current \in Registered /\ task' = task /\ gstored' = gstored /\ gstored = NotStored
  BY SharedNames, BoundType DEF GraphInv, G!Returns, G!AtAgentStep
<1>2. GraphBound' = GraphBound
  BY <1>1 DEF GraphBound
<1>3. /\ Shaped(G!Applied(r)) /\ Underway(G!Applied(r)) /\ G!Applied(r).path = Append(gst.path, gst.current)
  BY <1>1, GraphApplies DEF G!Applied, GraphInv, Underway
<1>4. Append(gst.path, gst.current) \in Seq(Registered) /\ Len(Append(gst.path, gst.current)) = step_index + 1
  BY <1>1 DEF GraphInv
<1>q. QED  BY <1>1, <1>2, <1>3, <1>4

LEMMA GraphTakesLast ==
  ASSUME GraphInv, NEW x, NEW res, NEW p, G!Returns(x), NEW r \in Reasons \ {"max_steps_exceeded"},
         G!Leave(p), Shaped(gst'), Ended(gst', r), gst'.path = G!Applied(res).path
  PROVE  GraphInv' /\ GraphTakes
<1>1. /\ node = "agent_step" /\ Underway(gst) /\ Len(gst.path) = step_index /\ step_index + 1 <= GraphBound
      /\ gst.current \in Registered /\ task' = task /\ gstored' = gstored /\ gstored = NotStored
      /\ gst'.path = Append(gst.path, gst.current)
      /\ Append(gst.path, gst.current) \in Seq(Registered)
  BY GraphTaken
<1>2. step_index' = step_index + 1 /\ node' = "end"
  BY Edges DEF G!Leave
<1>3. GraphTakes
  BY <1>1, BoundType DEF GraphTakes, GraphInv
<1>4. GraphInv'
  BY <1>1, <1>2 DEF GraphInv, Requested
<1>q. QED  BY <1>3, <1>4

LEMMA GraphGoesOn ==
  ASSUME GraphInv, NEW x, NEW res, NEW p, G!Returns(x), G!Leave(p), Shaped(gst'), Same(gst', G!Applied(res))
  PROVE  GraphInv' /\ GraphTakes
<1>1. /\ node = "agent_step" /\ Underway(gst) /\ Len(gst.path) = step_index /\ step_index + 1 <= GraphBound
      /\ gst.current \in Registered /\ task' = task /\ gstored' = gstored /\ gstored = NotStored
      /\ gst'.path = Append(gst.path, gst.current) /\ Underway(gst') /\ GraphBound' = GraphBound
      /\ Append(gst.path, gst.current) \in Seq(Registered)
      /\ Len(Append(gst.path, gst.current)) = step_index + 1
  BY GraphTaken DEF Same, Underway
<1>2. step_index' = step_index + 1 /\ node' \in {"agent_step", "tool_step"}
  BY <1>1, Edges DEF G!Leave
<1>3. GraphTakes
  BY <1>1, BoundType DEF GraphTakes, GraphInv
<1>4. GraphInv'
  BY <1>1, <1>2 DEF GraphInv, Requested
<1>q. QED  BY <1>3, <1>4

LEMMA GraphRunStep ==
  ASSUME GraphInv, G!RunStep
  PROVE  GraphInv' /\ GraphProgress
<1>1. PICK x, r :
        \/ G!AgentRaisesOut(x, r) \/ G!AgentRaises(x, r) \/ G!AgentFails(x, r) \/ G!AgentWantsHuman(x, r)
        \/ G!AgentCallsTools(x, r) \/ G!AgentEnds(x, r) \/ G!AgentHandsOver(x, r)
  BY DEF G!RunStep
<1> USE ReasonFacts
<1>2. CASE G!AgentRaisesOut(x, r)
  <2>1. G!Returns(x) /\ node' = "raised" /\ gst' = gst /\ step_index' = step_index
    BY <1>2 DEF G!AgentRaisesOut
  <2>2. task' = task /\ gstored' = gstored /\ gstored = NotStored
    BY <2>1, GraphTaken
  <2>3. GraphInv'
    BY <2>1, <2>2 DEF GraphInv, Requested
  <2>q. QED  BY <2>1, <2>2, <2>3 DEF GraphProgress, GraphKeeps, Same
<1>3. CASE G!AgentRaises(x, r)
  <2>1. /\ G!Returns(x) /\ G!Leave(G!NothingPending) /\ gst' = G!Stop(G!Applied(r), "agent_exception")
    BY <1>3 DEF G!AgentRaises
  <2>q. QED  BY <2>1, GraphTaken, GraphEndState, GraphTakesLast DEF GraphProgress
<1>4. CASE G!AgentFails(x, r)
  <2>1. /\ G!Returns(x) /\ G!Leave(G!NothingPending) /\ gst' = G!Stop(G!Applied(r), "agent_failed")
    BY <1>4 DEF G!AgentFails
  <2>q. QED  BY <2>1, GraphTaken, GraphEndState, GraphTakesLast DEF GraphProgress
<1>5. CASE G!AgentWantsHuman(x, r)
  <2>1. /\ G!Returns(x) /\ G!Leave(G!NothingPending) /\ gst' = G!Stop(G!Applied(r), "needs_human_review")
    BY <1>5 DEF G!AgentWantsHuman
  <2>q. QED  BY <2>1, GraphTaken, GraphEndState, GraphTakesLast DEF GraphProgress
<1>6. CASE G!AgentCallsTools(x, r)
  <2>1. /\ G!Returns(x) /\ G!Leave([calls |-> r.calls, owner |-> gst.current, next |-> r.next])
        /\ gst' = G!Applied(r)
    BY <1>6 DEF G!AgentCallsTools, G!GoesOn
  <2>q. QED  BY <2>1, GraphTaken, GraphGoesOn DEF GraphProgress, Same
<1>7. CASE G!AgentEnds(x, r)
  <2>1. /\ G!Returns(x) /\ G!Leave(G!NothingPending) /\ gst' = G!Stop(G!Applied(r), "natural_completion")
    BY <1>7 DEF G!AgentEnds, G!GoesOn
  <2>q. QED  BY <2>1, GraphTaken, GraphEndState, GraphTakesLast DEF GraphProgress
<1>8. CASE G!AgentHandsOver(x, r)
  <2>1. /\ G!Returns(x) /\ G!Leave(G!NothingPending) /\ gst' = Hand(G!Applied(r), r.next)
    BY <1>8, Zenon DEF G!AgentHandsOver, G!GoesOn, Hand
  <2>2. Shaped(gst') /\ Same(gst', G!Applied(r))
    BY <2>1, GraphTaken, HandState
  <2>q. QED  BY <2>1, <2>2, GraphGoesOn DEF GraphProgress
<1>q. QED  BY <1>1, <1>2, <1>3, <1>4, <1>5, <1>6, <1>7, <1>8

LEMMA GraphOtherSteps ==
  ASSUME GraphInv, G!Next, ~G!RunStep
  PROVE  GraphInv' /\ GraphProgress
<1> USE ReasonFacts
<1>1. CASE G!Begin
  <2>1. /\ node = "start" /\ node' = "agent_step" /\ gst' = Start(gst, task.initial)
        /\ step_index' = step_index /\ task' = task /\ gstored' = gstored
    BY <1>1, Zenon DEF G!Begin, G!inputVars, Start
  <2>2. /\ Shaped(gst') /\ gst'.status = "running" /\ gst'.reason = gst.reason /\ gst'.path = gst.path
    BY <2>1, HandState DEF GraphInv
  <2>3. GraphBound' = GraphBound /\ GraphBound \in Nat
    BY <2>1, BoundType DEF GraphBound, GraphInv
  <2>4. GraphInv'
    BY <2>1, <2>2, <2>3 DEF GraphInv, Requested, Underway
  <2>5. GraphPromise!Begin
    BY <2>1, <2>2, <2>3 DEF GraphInv, GraphPromise!Begin
  <2>q. QED  BY <2>4, <2>5 DEF GraphProgress
\* The run ends at a node that runs no agent.
<1>2. ASSUME NEW r \in Reasons, Shaped(gst'), Ended(gst', r), gst'.path = gst.path, step_index' \in Nat,
             node' = "end", node \in {"agent_step", "tool_step", "tools"}, task' = task, gstored' = gstored,
             r = "max_steps_exceeded" => step_index + 1 > GraphBound
      PROVE  GraphInv' /\ GraphProgress
  <2>1. GraphEnds
    BY <1>2, BoundType DEF GraphEnds, GraphInv
  <2>2. GraphInv'
    BY <1>2 DEF GraphInv, Requested
  <2>q. QED  BY <2>1, <2>2 DEF GraphProgress
\* The run goes on as it was.
<1>3. ASSUME Shaped(gst'), Same(gst', gst), step_index' = step_index, node' \in {"agent_step", "tools", "raised"},
             node \in {"agent_step", "tool_step", "tools"}, task' = task, gstored' = gstored
      PROVE  GraphInv' /\ GraphProgress
  <2>1. GraphBound' = GraphBound
    BY <1>3 DEF GraphBound
  <2>2. GraphInv'
    BY <1>3, <2>1 DEF GraphInv, Requested, Same, Underway
  <2>q. QED  BY <1>3, <2>2 DEF GraphProgress, GraphKeeps
<1>4. CASE G!LimitReached
  <2>1. /\ node \in {"agent_step", "tool_step"} /\ node' = "raised" /\ gst' = gst
        /\ step_index' = step_index /\ task' = task /\ gstored' = gstored
    BY <1>4 DEF G!LimitReached, G!inputVars
  <2>q. QED  BY <1>3, <2>1 DEF GraphInv, Same
<1>5. ASSUME NEW r \in Reasons, node = "agent_step", gst' = G!Terminate(gst, r), G!Leave(G!NothingPending),
             task' = task, gstored' = gstored, r = "max_steps_exceeded" => step_index + 1 > GraphBound
      PROVE  GraphInv' /\ GraphProgress
  <2>1. Shaped(gst') /\ Ended(gst', r) /\ gst'.path = gst.path
    BY <1>5, GraphEndState DEF GraphInv
  <2>2. step_index' \in Nat /\ node' = "end"
    BY <1>5, <2>1, Edges DEF G!Leave, GraphInv
  <2>q. QED  BY <1>2, <1>5, <2>1, <2>2
<1>6. CASE G!StepsExceeded
  <2>1. /\ node = "agent_step" /\ gst' = G!Terminate(gst, "max_steps_exceeded") /\ G!Leave(G!NothingPending)
        /\ task' = task /\ gstored' = gstored /\ step_index + 1 > GraphBound
    BY <1>6, BoundType DEF G!StepsExceeded, G!AtAgentStep, G!inputVars, GraphInv
  <2>q. QED  BY <1>5, <2>1
<1>7. CASE G!AgentNotRegistered
  <2>1. /\ node = "agent_step" /\ gst' = G!Terminate(gst, "agent_not_registered") /\ G!Leave(G!NothingPending)
        /\ task' = task /\ gstored' = gstored
    BY <1>7 DEF G!AgentNotRegistered, G!AtAgentStep, G!inputVars
  <2>q. QED  BY <1>5, <2>1
<1>8. CASE G!ToolsEnter
  <2>1. /\ node = "tool_step" /\ node' = "tools" /\ gst' = gst
        /\ step_index' = step_index /\ task' = task /\ gstored' = gstored
    BY <1>8 DEF G!ToolsEnter, G!inputVars
  <2>q. QED  BY <1>3, <2>1 DEF GraphInv, Same
\* tool_step returns: with the reason r, or to the next agent.
<1>9. ASSUME NEW r \in Reasons \ {"max_steps_exceeded"}, node \in {"tool_step", "tools"}, G!LeaveTools,
             NEW s, Shaped(s), Same(s, gst), gst' = G!Stop(s, r)
      PROVE  GraphInv' /\ GraphProgress
  <2>1. Shaped(gst') /\ Ended(gst', r) /\ gst'.path = gst.path
    BY <1>9, GraphEndState DEF Same
  <2>2. step_index' \in Nat /\ node' = "end" /\ task' = task /\ gstored' = gstored
    BY <1>9, <2>1, Edges DEF G!LeaveTools, GraphInv
  <2>q. QED  BY <1>2, <1>9, <2>1, <2>2
<1>10. CASE G!NoExecutor
  <2>1. node = "tool_step" /\ G!LeaveTools /\ gst' = G!Stop(gst, "tool_executor_unavailable")
    BY <1>10 DEF G!NoExecutor
  <2>2. Shaped(gst) /\ Same(gst, gst)
    BY DEF GraphInv, Same
  <2>q. QED  BY <1>9, <2>1, <2>2
<1>11. ASSUME NEW reply \in G!ToolReplies, G!ToolRaises(reply)
       PROVE  GraphInv' /\ GraphProgress
  <2>1. /\ node = "tools" /\ node' = "raised" /\ gst' = gst
        /\ step_index' = step_index /\ task' = task /\ gstored' = gstored
    BY <1>11 DEF G!ToolRaises, G!Calls
  <2>q. QED  BY <1>3, <2>1 DEF GraphInv, Same
<1>12. ASSUME NEW reply \in G!ToolReplies, G!ToolSucceeds(reply)
       PROVE  GraphInv' /\ GraphProgress
  <2> DEFINE result == G!Execute(pending.owner, Head(G!Todo), reply)
             with == G!AppendToolResult(gst, pending.owner, result)
  <2>1. /\ node = "tools" /\ node' = node /\ gst' = with
        /\ step_index' = step_index /\ task' = task /\ gstored' = gstored
    BY <1>12 DEF G!ToolSucceeds, G!Calls
  <2>2. Shaped(with) /\ Same(with, gst)
    BY GraphAppends DEF GraphInv
  <2> HIDE DEF result, with
  <2>q. QED  BY <1>3, <2>1, <2>2
<1>13. ASSUME NEW reply \in G!ToolReplies, G!ToolFails(reply)
       PROVE  GraphInv' /\ GraphProgress
  <2> DEFINE result == G!Execute(pending.owner, Head(G!Todo), reply)
             done == Append(results, result)
             with == G!AppendToolResult(gst, pending.owner, result)
             last == G!SetLastResults(with, done)
  <2>1. node = "tools" /\ G!LeaveTools /\ gst' = G!Stop(last, "tool_failed")
    BY <1>13 DEF G!ToolFails, G!Calls
  <2>2. Shaped(with) /\ Same(with, gst)
    BY GraphAppends DEF GraphInv
  <2> HIDE DEF result, done, with
  <2>3. Shaped(last) /\ Same(last, gst)
    BY <2>2, GraphSets DEF Same
  <2> HIDE DEF last
  <2>q. QED  BY <1>9, <2>1, <2>3
<1>14. CASE G!ToolsDone
  <2> DEFINE with == G!SetLastResults(gst, results)
  <2>1. /\ node = "tools" /\ G!LeaveTools
        /\ gst' = G!Stop(with, "natural_completion") \/ gst' = Hand(with, pending.next)
    BY <1>14, Zenon DEF G!ToolsDone, Hand
  <2>2. Shaped(with) /\ Same(with, gst)
    BY GraphSets DEF GraphInv
  <2> HIDE DEF with
  <2>3. CASE gst' = G!Stop(with, "natural_completion")
    BY <1>9, <2>1, <2>2, <2>3
  <2>4. CASE gst' = Hand(with, pending.next)
    <3>1. Shaped(gst') /\ Same(gst', gst)
      BY <2>2, <2>4, HandState DEF Same
    <3>2. Underway(gst')
      BY <2>1, <3>1 DEF GraphInv, Same, Underway
    <3>3. node' = "agent_step" /\ step_index' = step_index /\ task' = task /\ gstored' = gstored
      BY <2>1, <3>2, Edges DEF G!LeaveTools
    <3>q. QED  BY <1>3, <2>1, <3>1, <3>3
  <2>q. QED  BY <2>1, <2>3, <2>4
<1>15. CASE G!Finish
  <2>1. /\ node = "end" /\ node' = "done" /\ gst' = G!SyncKnowledgeRefs(gst) /\ gstored' = G!Record(gst')
        /\ step_index' = step_index /\ task' = task
    BY <1>15 DEF G!Finish, G!inputVars
  <2>2. Shaped(gst') /\ Same(gst', gst) /\ GraphBound' = GraphBound
    BY <2>1, GraphSyncs DEF GraphInv, GraphBound
  <2>3. GraphInv'
    BY <2>1, <2>2 DEF GraphInv, Requested, Same
  <2>4. Outcome(gstored') = <<gst'.status, gst'.reason, gst'.path>>
    BY <2>1 DEF Outcome, G!Record
  <2>5. gstored = NotStored /\ \E r \in Reasons : gst.reason = r
    BY <2>1 DEF GraphInv, Ended
  <2>6. GraphPromise!Store
    BY <2>1, <2>2, <2>4, <2>5 DEF GraphPromise!Store, Same, None
  <2>q. QED  BY <2>3, <2>6 DEF GraphProgress
<1>16. CASE G!ToolStep
  BY <1>11, <1>12, <1>13, <1>16 DEF G!ToolStep
<1>q. QED  BY <1>1, <1>4, <1>6, <1>7, <1>8, <1>10, <1>14, <1>15, <1>16 DEF G!Next

-----------------------------------------------------------------------------
(* The two together.                                                       *)

\* Each runner leaves the request alone.
LEMMA RequestKept == S!Next \/ G!Next => task' = task
<1>1. CASE S!Next
  <2>1. S!Next => task' = task
    BY DEF S!Next, S!RunStep, S!ToolStep, S!Begin, S!AgentNotRegistered, S!AgentRaises, S!AgentFails,
           S!AgentWantsHuman, S!AgentCallsTools, S!AgentFindsNoExecutor, S!AgentEnds, S!AgentHandsOver, S!GoesOn,
           S!Returns, S!LoopExhausted, S!ToolRaises, S!ToolReturns, S!Calls, S!ToolsDone, S!Finish, S!inputVars
  <2>q. QED  BY <1>1, <2>1, Zenon
<1>2. CASE G!Next
  <2>1. G!RunStep => task' = task
    BY DEF G!RunStep, G!AgentRaisesOut, G!AgentRaises, G!AgentFails, G!AgentWantsHuman, G!AgentCallsTools,
           G!AgentEnds, G!AgentHandsOver, G!GoesOn, G!Returns
  <2>2. G!ToolStep \/ G!ToolsDone => task' = task
    BY DEF G!ToolStep, G!ToolRaises, G!ToolSucceeds, G!ToolFails, G!Calls, G!ToolsDone, G!LeaveTools
  <2>3. ~(G!RunStep \/ G!ToolStep \/ G!ToolsDone) => task' = task
    BY <1>2 DEF G!Next, G!Begin, G!LimitReached, G!StepsExceeded, G!AgentNotRegistered, G!ToolsEnter,
           G!NoExecutor, G!LeaveTools, G!Finish, G!inputVars
  <2>q. QED  BY <2>1, <2>2, <2>3, Zenon
<1>q. QED  BY <1>1, <1>2, Zenon

LEMMA SimplePromises ==
  ASSUME SimpleProgress, task' = task
  PROVE  [SimplePromise!Next]_(SimplePromise!vars)
<1> USE ReasonFacts DEF Ended, Underway, None, Status
<1>0. task.max_steps' = task.max_steps
  BY DEF Same
<1>1. CASE SimplePromise!Begin \/ SimplePromise!Store
  BY <1>1 DEF SimplePromise!Next
<1>2. CASE SimpleKeeps
  BY <1>0, <1>2 DEF SimpleKeeps, SimplePromise!vars, Same
<1>3. CASE SimpleTakes
  <2>1. SimplePromise!TakeAgent
    BY <1>0, <1>3 DEF SimpleTakes, SimplePromise!TakeAgent
  <2>q. QED  BY <2>1 DEF SimplePromise!Next
<1>4. CASE SimpleEnds
  <2>1. SimplePromise!End
    BY <1>0, <1>4 DEF SimpleEnds, SimplePromise!End
  <2>q. QED  BY <2>1 DEF SimplePromise!Next
<1>q. QED  BY <1>1, <1>2, <1>3, <1>4 DEF SimpleProgress, SimpleBegins

LEMMA GraphPromises ==
  ASSUME GraphProgress, task' = task
  PROVE  [GraphPromise!Next]_(GraphPromise!vars)
<1> USE ReasonFacts DEF Ended, Underway, None, Status
<1>0. GraphBound' = GraphBound
  BY DEF GraphBound
<1>1. CASE GraphPromise!Begin \/ GraphPromise!Store
  BY <1>1 DEF GraphPromise!Next
<1>2. CASE GraphKeeps
  BY <1>0, <1>2 DEF GraphKeeps, GraphPromise!vars, Same
<1>3. CASE GraphTakes
  <2>1. GraphPromise!TakeAgent
    BY <1>0, <1>3 DEF GraphTakes, GraphPromise!TakeAgent
  <2>q. QED  BY <2>1 DEF GraphPromise!Next
<1>4. CASE GraphEnds
  <2>1. GraphPromise!End
    BY <1>0, <1>4 DEF GraphEnds, GraphPromise!End
  <2>q. QED  BY <2>1 DEF GraphPromise!Next
<1>q. QED  BY <1>1, <1>2, <1>3, <1>4 DEF GraphProgress

\* What the other runner does is nothing to this one.
LEMMA SimpleUnmoved ==
  ASSUME UNCHANGED <<task, simpleVars>>
  PROVE  (SimpleInv => SimpleInv') /\ UNCHANGED SimplePromise!vars
BY DEF simpleVars, SimpleInv, Requested, SimplePromise!vars

LEMMA GraphUnmoved ==
  ASSUME UNCHANGED <<task, graphVars>>
  PROVE  (GraphInv => GraphInv') /\ UNCHANGED GraphPromise!vars
BY DEF graphVars, GraphInv, Requested, GraphBound, GraphPromise!vars

LEMMA Step ==
  ASSUME SimpleInv, GraphInv, [Next]_vars
  PROVE  /\ SimpleInv' /\ [SimplePromise!Next]_(SimplePromise!vars)
         /\ GraphInv' /\ [GraphPromise!Next]_(GraphPromise!vars)
<1>1. CASE S!Next /\ UNCHANGED graphVars
  <2>1. SimpleInv' /\ SimpleProgress
    BY <1>1, SimpleRunStep, SimpleOtherSteps
  <2>2. task' = task
    BY <1>1, RequestKept
  <2>q. QED  BY <1>1, <2>1, <2>2, SimplePromises, GraphUnmoved
<1>2. CASE G!Next /\ UNCHANGED simpleVars
  <2>1. GraphInv' /\ GraphProgress
    BY <1>2, GraphRunStep, GraphOtherSteps
  <2>2. task' = task
    BY <1>2, RequestKept
  <2>q. QED  BY <1>2, <2>1, <2>2, GraphPromises, SimpleUnmoved
<1>3. CASE UNCHANGED vars
  BY <1>3, SimpleUnmoved, GraphUnmoved DEF vars
<1>q. QED  BY <1>1, <1>2, <1>3 DEF Next

(* Whatever agents, tools and the model do, and whatever the limits are, a *)
(* run of SimpleOrchestrator and a run of LangGraphOrchestrator take at    *)
(* most as many agents as they may, end once, with the status of their     *)
(* reason, and are stored once and as they ended.                          *)
THEOREM KeepPromise == Spec => RunnersKeepPromise
<1>1. Init => SimpleInv /\ GraphInv /\ SimplePromise!Init /\ GraphPromise!Init
  BY SimpleInit, GraphInit
<1>2. SimpleInv /\ GraphInv /\ [Next]_vars
        => /\ SimpleInv' /\ [SimplePromise!Next]_(SimplePromise!vars)
           /\ GraphInv' /\ [GraphPromise!Next]_(GraphPromise!vars)
  BY Step
<1>q. QED
  BY <1>1, <1>2, PTL DEF Spec, RunnersKeepPromise, SimplePromise!Spec, GraphPromise!Spec

-----------------------------------------------------------------------------
(* Who may put a run to a human, and who may complete it.                  *)

\* The request wants a human, who has not decided yet, and names an agent.
AskedFor == task.human /\ ~task.resumed /\ task.requested # None
ByPlugin(path) == Range(path) \cap DomainAgents # {}
Exempt(path) == AskedFor => ByPlugin(path)

Decides(s) == task.resumed /\ s.status = "needs_human_review" => Last(s.path) \in DomainAgents
Asks(s) == s.status = "completed" => Exempt(s.path)

\* A system agent never puts a resumed run to a human, and it never ends a run
\* that a human is asked for: it names a next agent.
LEMMA SimpleAgents ==
  ASSUME NEW a \in S!SystemAgents, NEW t, NEW refs, NEW shared, NEW answer, NEW plugin, NEW r,
         r = S!AgentRun(a, t, refs, shared, answer, plugin)
  PROVE  /\ t.resumed /\ r.ok => ~S!WantsHuman(r)
         /\ t.human /\ ~t.resumed /\ t.requested # None /\ r.ok /\ ~S!WantsHuman(r) => r.next # None
<1> USE DEF S!Result, S!Raises, S!Output, S!NoOutput, S!None, None, S!WantsHuman
<1>1. CASE a = "planner_agent"
  <2>1. r = S!Planner(t, answer)
    BY <1>1 DEF S!AgentRun
  <2>2. r.ok => r.next = "router_agent" /\ r.human = FALSE /\ r.status = "success"
    BY <2>1 DEF S!Planner
  <2>q. QED  BY <2>2
<1>2. CASE a = "router_agent"
  <2>1. r = S!Router(t, shared, answer)
    BY <1>2 DEF S!AgentRun
  <2>2. r.ok => r.human = FALSE /\ r.status = "success"
    BY <2>1 DEF S!Router
  <2>3. None \notin S!Routable
    BY AgentsAssumption DEF S!Routable
  <2>4. t.requested # None /\ r.ok => r.next # None
    BY <2>1, <2>3 DEF S!Router
  <2>q. QED  BY <2>2, <2>4
<1>3. CASE a = "knowledge_agent"
  <2>1. r = S!Knowledge(refs, shared)
    BY <1>3 DEF S!AgentRun
  <2>2. r.next = "executor_agent" /\ r.human = FALSE /\ r.status = "success"
    BY <2>1 DEF S!Knowledge
  <2>q. QED  BY <2>2
<1>4. CASE a = "executor_agent"
  <2>1. r = S!Executor(shared, answer)
    BY <1>4 DEF S!AgentRun
  <2>2. r.next = "reviewer_agent" /\ r.human = FALSE /\ r.status = "success"
    BY <2>1 DEF S!Executor
  <2>q. QED  BY <2>2
<1>5. CASE a = "reviewer_agent"
  <2>1. r = S!Reviewer(t, shared, answer)
    BY <1>5 DEF S!AgentRun
  <2>2. t.resumed => r.human = FALSE /\ r.status = "success"
    BY <2>1 DEF S!Reviewer
  <2>3. t.human /\ ~t.resumed => r.status = "needs_human_review"
    BY <2>1 DEF S!Reviewer
  <2>q. QED  BY <2>2, <2>3
<1>q. QED  BY <1>1, <1>2, <1>3, <1>4, <1>5 DEF S!SystemAgents

LEMMA GraphAgents ==
  ASSUME NEW a \in G!SystemAgents, NEW t, NEW refs, NEW shared, NEW answer, NEW plugin, NEW r,
         r = G!AgentRun(a, t, refs, shared, answer, plugin)
  PROVE  /\ t.resumed /\ r.ok => ~G!WantsHuman(r)
         /\ t.human /\ ~t.resumed /\ t.requested # None /\ r.ok /\ ~G!WantsHuman(r) => r.next # None
<1> USE DEF G!Result, G!Raises, G!Output, G!NoOutput, G!None, None, G!WantsHuman
<1>1. CASE a = "planner_agent"
  <2>1. r = G!Planner(t, answer)
    BY <1>1 DEF G!AgentRun
  <2>2. r.ok => r.next = "router_agent" /\ r.human = FALSE /\ r.status = "success"
    BY <2>1 DEF G!Planner
  <2>q. QED  BY <2>2
<1>2. CASE a = "router_agent"
  <2>1. r = G!Router(t, shared, answer)
    BY <1>2 DEF G!AgentRun
  <2>2. r.ok => r.human = FALSE /\ r.status = "success"
    BY <2>1 DEF G!Router
  <2>3. None \notin G!Routable
    BY AgentsAssumption DEF G!Routable
  <2>4. t.requested # None /\ r.ok => r.next # None
    BY <2>1, <2>3 DEF G!Router
  <2>q. QED  BY <2>2, <2>4
<1>3. CASE a = "knowledge_agent"
  <2>1. r = G!Knowledge(refs, shared)
    BY <1>3 DEF G!AgentRun
  <2>2. r.next = "executor_agent" /\ r.human = FALSE /\ r.status = "success"
    BY <2>1 DEF G!Knowledge
  <2>q. QED  BY <2>2
<1>4. CASE a = "executor_agent"
  <2>1. r = G!Executor(shared, answer)
    BY <1>4 DEF G!AgentRun
  <2>2. r.next = "reviewer_agent" /\ r.human = FALSE /\ r.status = "success"
    BY <2>1 DEF G!Executor
  <2>q. QED  BY <2>2
<1>5. CASE a = "reviewer_agent"
  <2>1. r = G!Reviewer(t, shared, answer)
    BY <1>5 DEF G!AgentRun
  <2>2. t.resumed => r.human = FALSE /\ r.status = "success"
    BY <2>1 DEF G!Reviewer
  <2>3. t.human /\ ~t.resumed => r.status = "needs_human_review"
    BY <2>1 DEF G!Reviewer
  <2>q. QED  BY <2>2, <2>3
<1>q. QED  BY <1>1, <1>2, <1>3, <1>4, <1>5 DEF G!SystemAgents

LEMMA PathGrows ==
  ASSUME NEW p \in Seq(Registered), NEW a \in Registered
  PROVE  /\ Last(Append(p, a)) = a
         /\ a \in DomainAgents \/ ByPlugin(p) => ByPlugin(Append(p, a))
         /\ Append(p, a) # <<>>
<1>1. /\ Append(p, a) \in Seq(Registered) /\ Len(Append(p, a)) = Len(p) + 1
      /\ DOMAIN Append(p, a) = 1..(Len(p) + 1) /\ DOMAIN p = 1..Len(p) /\ Len(p) \in Nat
      /\ Append(p, a)[Len(p) + 1] = a /\ \A i \in 1..Len(p) : Append(p, a)[i] = p[i]
  OBVIOUS
<1>2. Last(Append(p, a)) = a
  BY <1>1 DEF Last
<1>3. a \in Range(Append(p, a)) /\ Range(p) \subseteq Range(Append(p, a))
  BY <1>1 DEF Range
<1>4. Append(p, a) # <<>>
  BY <1>1
<1>q. QED  BY <1>2, <1>3, <1>4 DEF ByPlugin

LEMMA EndStatus ==
  ASSUME NEW s
  PROVE  /\ \A r \in Reasons \ {"natural_completion", "needs_human_review"} : Ended(s, r) => s.status = "failed"
         /\ Ended(s, "natural_completion") => s.status = "completed"
         /\ Ended(s, "needs_human_review") => s.status = "needs_human_review"
BY ReasonFacts DEF Ended, StatusOf

\* A run that goes on or failed breaks no rule.
LEMMA RulesIdle ==
  ASSUME NEW s, s.status \in {"pending", "running", "failed"}
  PROVE  Decides(s) /\ Asks(s)
BY DEF Decides, Asks

LEMMA RulesSame ==
  ASSUME NEW s, NEW t, s.status = t.status, s.path = t.path, Decides(s), Asks(s)
  PROVE  Decides(t) /\ Asks(t)
BY DEF Decides, Asks

\* The same for the request of the next state.
LEMMA RulesNext ==
  ASSUME task' = task
  PROVE  /\ \A p : Exempt(p)' <=> Exempt(p)
         /\ \A s : (Decides(s)' <=> Decides(s)) /\ (Asks(s)' <=> Asks(s))
BY DEF Exempt, AskedFor, Decides, Asks, ByPlugin

BatchFields == {"todo", "done", "next"}
SimpleRules ==
  /\ Decides(sst) /\ Asks(sst)
  /\ pc = "tools" => batch = [f \in BatchFields |-> batch[f]] /\ (batch.next = None => Exempt(sst.path))

\* An agent that names nobody exempts the run, if it did not fail and wants no
\* human; one that wants a human in a resumed run is a plugin's.
LEMMA SimpleAgentRules ==
  ASSUME SimpleInv, NEW x, NEW r, S!Returns(x), r.ok,
         r = S!AgentRun(sst.current, task, sst.refs, sst.shared, x.answer, x.plugin)
  PROVE  LET path == Append(sst.path, sst.current) IN
         /\ task.resumed /\ S!WantsHuman(r) => Last(path) \in DomainAgents
         /\ ~S!WantsHuman(r) /\ r.next = None => Exempt(path)
<1>1. sst.current \in Registered /\ sst.path \in Seq(Registered)
  BY SimpleTaken DEF SimpleInv
<1>2. CASE sst.current \in DomainAgents
  BY <1>1, <1>2, PathGrows DEF Exempt
<1>3. CASE sst.current \notin DomainAgents
  <2>1. sst.current \in S!SystemAgents
    BY <1>1, <1>3 DEF Registered, SystemAgents, S!SystemAgents
  <2>q. QED  BY <2>1, SimpleAgents DEF Exempt, AskedFor
<1>q. QED  BY <1>2, <1>3

LEMMA SimpleRunKeepsRules ==
  ASSUME SimpleInv, SimpleRules, S!RunStep
  PROVE  SimpleRules'
<1>1. PICK x, r :
        /\ r = S!AgentRun(sst.current, task, sst.refs, sst.shared, x.answer, x.plugin)
        /\ \/ S!AgentRaises(x, r) \/ S!AgentFails(x, r) \/ S!AgentWantsHuman(x, r) \/ S!AgentCallsTools(x, r)
           \/ S!AgentFindsNoExecutor(x, r) \/ S!AgentEnds(x, r) \/ S!AgentHandsOver(x, r)
  BY DEF S!RunStep
<1>2. S!Returns(x)
  BY <1>1 DEF S!AgentRaises, S!AgentFails, S!AgentWantsHuman, S!AgentCallsTools, S!AgentFindsNoExecutor,
              S!AgentEnds, S!AgentHandsOver, S!GoesOn
<1>3. /\ pc = "agents" /\ Shaped(sst) /\ Shaped(S!Applied(r)) /\ Underway(S!Applied(r)) /\ task' = task
      /\ S!Applied(r).path = Append(sst.path, sst.current)
  BY <1>2, SimpleTaken DEF SimpleInv
<1>4. \A p : Exempt(p)' <=> Exempt(p)
  BY <1>3, RulesNext
<1>5. ASSUME Decides(sst'), Asks(sst'), pc' # "tools" PROVE SimpleRules'
  BY <1>3, <1>5, RulesNext DEF SimpleRules, Decides, Asks
<1> USE ReasonFacts
<1>6. CASE S!AgentRaises(x, r)
  <2>1. Ended(sst', "agent_exception") /\ pc' # "tools"
    BY <1>3, <1>6, SimpleEndState DEF S!AgentRaises
  <2>q. QED  BY <1>5, <2>1, EndStatus, RulesIdle
<1>7. CASE S!AgentFails(x, r) \/ S!AgentFindsNoExecutor(x, r)
  <2>1. (Ended(sst', "agent_failed") \/ Ended(sst', "tool_executor_unavailable")) /\ pc' # "tools"
    BY <1>3, <1>7, SimpleEndState DEF S!AgentFails, S!AgentFindsNoExecutor
  <2>q. QED  BY <1>5, <2>1, EndStatus, RulesIdle
<1>8. CASE S!AgentWantsHuman(x, r)
  <2>1. /\ Ended(sst', "needs_human_review") /\ pc' # "tools" /\ sst'.path = Append(sst.path, sst.current)
        /\ r.ok /\ S!WantsHuman(r)
    BY <1>3, <1>8, SimpleEndState DEF S!AgentWantsHuman
  <2>2. sst'.status = "needs_human_review"
    BY <2>1, EndStatus
  <2>3. Decides(sst') /\ Asks(sst')
    BY <1>1, <1>2, <2>1, <2>2, SimpleAgentRules DEF Decides, Asks
  <2>q. QED  BY <1>5, <2>1, <2>3
<1>9. CASE S!AgentCallsTools(x, r)
  <2>1. /\ sst' = S!Applied(r) /\ r.ok /\ ~S!WantsHuman(r)
        /\ batch' = [todo |-> r.calls, done |-> <<>>, next |-> r.next]
    BY <1>9 DEF S!AgentCallsTools, S!GoesOn
  <2>2. Decides(sst') /\ Asks(sst')
    BY <1>3, <2>1, RulesIdle DEF Underway
  <2>3. r.next = None => Exempt(sst'.path)
    BY <1>1, <1>2, <1>3, <2>1, SimpleAgentRules
  <2>4. batch' = [f \in BatchFields |-> batch'[f]] /\ batch'.next = r.next
    BY <2>1 DEF BatchFields
  <2>5. batch'.next = None => Exempt(sst.path)'
    <3>1. AskedFor' <=> AskedFor
      BY <1>3 DEF AskedFor
    <3>q. QED  BY <2>3, <2>4, <3>1 DEF Exempt, ByPlugin
  <2>q. QED  BY <1>3, <2>2, <2>4, <2>5, RulesNext DEF SimpleRules, Decides, Asks
<1>10. CASE S!AgentEnds(x, r)
  <2>1. /\ Ended(sst', "natural_completion") /\ pc' # "tools" /\ sst'.path = Append(sst.path, sst.current)
        /\ r.ok /\ ~S!WantsHuman(r) /\ r.next = None
    BY <1>3, <1>10, SimpleEndState DEF S!AgentEnds, S!GoesOn, S!None, None
  <2>2. sst'.status = "completed"
    BY <2>1, EndStatus
  <2>3. Decides(sst') /\ Asks(sst')
    BY <1>1, <1>2, <2>1, <2>2, SimpleAgentRules DEF Decides, Asks
  <2>q. QED  BY <1>5, <2>1, <2>3
<1>11. CASE S!AgentHandsOver(x, r)
  <2>1. sst' = Hand(S!Applied(r), r.next) /\ pc' = pc
    BY <1>11, Zenon DEF S!AgentHandsOver, S!GoesOn, Hand
  <2>2. sst'.status = "running"
    BY <1>3, <2>1, HandState DEF Same, Underway
  <2>q. QED  BY <1>3, <1>5, <2>1, <2>2, RulesIdle
<1>q. QED  BY <1>1, <1>6, <1>7, <1>8, <1>9, <1>10, <1>11

LEMMA SimpleOthersKeepRules ==
  ASSUME SimpleInv, SimpleRules, S!Next, ~S!RunStep
  PROVE  SimpleRules'
<1>1. task' = task
  BY RequestKept
<1>2. ASSUME Decides(sst'), Asks(sst'), pc' # "tools" PROVE SimpleRules'
  BY <1>1, <1>2, RulesNext DEF SimpleRules, Decides, Asks
<1>3. ASSUME sst'.status \in {"running", "failed"}, pc' # "tools" PROVE SimpleRules'
  BY <1>2, <1>3, RulesIdle
<1>4. ASSUME sst'.status = sst.status, sst'.path = sst.path, pc' # "tools" PROVE SimpleRules'
  BY <1>2, <1>4, RulesSame DEF SimpleRules
<1> USE ReasonFacts
<1>5. CASE S!Begin
  <2>1. sst' = Start(sst, task.initial) /\ pc' = "agents"
    BY <1>5, Zenon DEF S!Begin, Start
  <2>q. QED  BY <1>3, <2>1, HandState DEF SimpleInv
<1>6. CASE S!AgentNotRegistered \/ S!LoopExhausted
  <2>1. (Ended(sst', "agent_not_registered") \/ Ended(sst', "max_steps_exceeded")) /\ pc' = "trailer"
    BY <1>6, SimpleEndState DEF S!AgentNotRegistered, S!LoopExhausted, SimpleInv
  <2>q. QED  BY <1>3, <2>1, EndStatus
<1>7. ASSUME NEW reply, S!ToolRaises(reply) PROVE SimpleRules'
  <2>1. sst' = sst /\ pc' = "raised"
    BY <1>7 DEF S!ToolRaises
  <2>q. QED  BY <1>4, <2>1
<1>8. ASSUME NEW reply, S!ToolReturns(reply) PROVE SimpleRules'
  <2> DEFINE result == S!Execute(S!Owner, Head(batch.todo), reply)
             done == Append(batch.done, result)
             with == S!AppendToolResult(sst, S!Owner, result)
  <2>1. /\ pc = "tools"
        /\ \/ /\ sst' = with /\ batch' = [batch EXCEPT !.todo = Tail(@), !.done = done]
           \/ sst' = S!Stop(S!SetLastResults(with, done), "tool_failed") /\ pc' = "trailer"
    BY <1>8 DEF S!ToolReturns, S!Calls
  <2>2. Shaped(with) /\ Same(with, sst)
    BY SimpleAppends DEF SimpleInv
  <2> HIDE DEF result, done, with
  <2>3. CASE sst' = with /\ batch' = [batch EXCEPT !.todo = Tail(@), !.done = done]
    <3>1. /\ batch = [f \in BatchFields |-> batch[f]] /\ (batch.next = None => Exempt(sst.path))
      BY <2>1 DEF SimpleRules
    <3>2. batch' = [f \in BatchFields |-> batch'[f]] /\ batch'.next = batch.next
      BY <2>3, <3>1 DEF BatchFields
    <3>3. sst'.path = sst.path /\ sst'.status = sst.status
      BY <2>2, <2>3 DEF Same
    <3>4. batch'.next = None => Exempt(sst.path)'
      <4>1. AskedFor' <=> AskedFor
        BY <1>1 DEF AskedFor
      <4>q. QED  BY <3>1, <3>2, <3>3, <4>1 DEF Exempt, ByPlugin
    <3>5. Decides(sst') /\ Asks(sst')
      BY <3>3, RulesSame DEF SimpleRules
    <3>q. QED  BY <1>1, <3>2, <3>4, <3>5, RulesNext DEF SimpleRules, Decides, Asks
  <2>4. CASE sst' = S!Stop(S!SetLastResults(with, done), "tool_failed") /\ pc' = "trailer"
    <3>1. Ended(sst', "tool_failed")
      BY <2>2, <2>4, SimpleSets, SimpleEndState
    <3>q. QED  BY <1>3, <2>4, <3>1, EndStatus
  <2>q. QED  BY <2>1, <2>3, <2>4
<1>9. CASE S!ToolsDone
  <2> DEFINE with == S!SetLastResults(sst, batch.done)
  <2>1. /\ pc = "tools"
        /\ \/ batch.next = None /\ sst' = S!Stop(with, "natural_completion") /\ pc' = "trailer"
           \/ sst' = Hand(with, batch.next) /\ pc' = "agents"
    BY <1>9, Zenon DEF S!ToolsDone, S!None, None, Hand
  <2>2. Shaped(with) /\ Same(with, sst)
    BY SimpleSets DEF SimpleInv
  <2> HIDE DEF with
  <2>3. CASE batch.next = None /\ sst' = S!Stop(with, "natural_completion") /\ pc' = "trailer"
    <3>1. Ended(sst', "natural_completion") /\ sst'.path = sst.path
      BY <2>2, <2>3, SimpleEndState DEF Same
    <3>2. Exempt(sst.path)
      BY <2>1, <2>3 DEF SimpleRules
    <3>3. Decides(sst') /\ Asks(sst')
      BY <3>1, <3>2, EndStatus DEF Decides, Asks
    <3>q. QED  BY <1>2, <2>3, <3>3
  <2>4. CASE sst' = Hand(with, batch.next) /\ pc' = "agents"
    <3>1. sst'.status = sst.status /\ sst'.path = sst.path
      BY <2>2, <2>4, HandState DEF Same
    <3>q. QED  BY <1>4, <2>4, <3>1
  <2>q. QED  BY <2>1, <2>3, <2>4
<1>10. CASE S!Finish
  <2>1. sst' = S!SyncKnowledgeRefs(sst) /\ pc' = "done"
    BY <1>10 DEF S!Finish
  <2>q. QED  BY <1>4, <2>1, SimpleSyncs DEF SimpleInv, Same
<1>q. QED  BY <1>5, <1>6, <1>7, <1>8, <1>9, <1>10 DEF S!Next, S!ToolStep

-----------------------------------------------------------------------------
(* The same of the graph. *)

PendingFields == {"calls", "owner", "next"}
GraphRules ==
  /\ Decides(gst) /\ Asks(gst)
  /\ node \in {"tool_step", "tools"} => (pending.next = None => Exempt(gst.path))

LEMMA GraphAgentRules ==
  ASSUME GraphInv, NEW x, NEW r, G!Returns(x), r.ok,
         r = G!AgentRun(gst.current, task, gst.refs, gst.shared, x.answer, x.plugin)
  PROVE  LET path == Append(gst.path, gst.current) IN
         /\ task.resumed /\ G!WantsHuman(r) => Last(path) \in DomainAgents
         /\ ~G!WantsHuman(r) /\ r.next = None => Exempt(path)
<1>1. gst.current \in Registered /\ gst.path \in Seq(Registered)
  BY GraphTaken DEF GraphInv
<1>2. CASE gst.current \in DomainAgents
  BY <1>1, <1>2, PathGrows DEF Exempt
<1>3. CASE gst.current \notin DomainAgents
  <2>1. gst.current \in G!SystemAgents
    BY <1>1, <1>3 DEF Registered, SystemAgents, G!SystemAgents
  <2>q. QED  BY <2>1, GraphAgents DEF Exempt, AskedFor
<1>q. QED  BY <1>2, <1>3

\* A node that leaves nothing pending is not followed by tool_step.
LEMMA GraphLeaves ==
  ASSUME task' = task, G!Leave(G!NothingPending), Decides(gst'), Asks(gst')
  PROVE  GraphRules'
<1>1. node' \notin {"tool_step", "tools"}
  BY DEF G!Leave, G!NothingPending, G!RouteAfterAgentStep
<1>q. QED  BY <1>1, RulesNext DEF GraphRules, Decides, Asks

LEMMA GraphRunKeepsRules ==
  ASSUME GraphInv, GraphRules, G!RunStep
  PROVE  GraphRules'
<1>1. PICK x, r :
        /\ r = G!AgentRun(gst.current, task, gst.refs, gst.shared, x.answer, x.plugin)
        /\ \/ G!AgentRaisesOut(x, r) \/ G!AgentRaises(x, r) \/ G!AgentFails(x, r) \/ G!AgentWantsHuman(x, r)
           \/ G!AgentCallsTools(x, r) \/ G!AgentEnds(x, r) \/ G!AgentHandsOver(x, r)
  BY DEF G!RunStep
<1>2. G!Returns(x)
  BY <1>1 DEF G!AgentRaisesOut, G!AgentRaises, G!AgentFails, G!AgentWantsHuman, G!AgentCallsTools,
              G!AgentEnds, G!AgentHandsOver, G!GoesOn
<1>3. /\ node = "agent_step" /\ Shaped(gst) /\ Shaped(G!Applied(r)) /\ Underway(G!Applied(r)) /\ task' = task
      /\ G!Applied(r).path = Append(gst.path, gst.current)
  BY <1>2, GraphTaken DEF GraphInv
<1> USE ReasonFacts
<1>4. CASE G!AgentRaisesOut(x, r)
  <2>1. gst' = gst /\ node' = "raised"
    BY <1>4 DEF G!AgentRaisesOut
  <2>q. QED  BY <1>3, <2>1, RulesNext DEF GraphRules, Decides, Asks
<1>5. CASE G!AgentRaises(x, r) \/ G!AgentFails(x, r)
  <2>1. (Ended(gst', "agent_exception") \/ Ended(gst', "agent_failed")) /\ G!Leave(G!NothingPending)
    BY <1>3, <1>5, GraphEndState DEF G!AgentRaises, G!AgentFails
  <2>q. QED  BY <1>3, <2>1, EndStatus, RulesIdle, GraphLeaves
<1>6. CASE G!AgentWantsHuman(x, r)
  <2>1. /\ Ended(gst', "needs_human_review") /\ G!Leave(G!NothingPending)
        /\ gst'.path = Append(gst.path, gst.current) /\ r.ok /\ G!WantsHuman(r)
    BY <1>3, <1>6, GraphEndState DEF G!AgentWantsHuman
  <2>2. gst'.status = "needs_human_review"
    BY <2>1, EndStatus
  <2>3. Decides(gst') /\ Asks(gst')
    BY <1>1, <1>2, <2>1, <2>2, GraphAgentRules DEF Decides, Asks
  <2>q. QED  BY <1>3, <2>1, <2>3, GraphLeaves
<1>7. CASE G!AgentCallsTools(x, r)
  <2>1. /\ gst' = G!Applied(r) /\ r.ok /\ ~G!WantsHuman(r)
        /\ pending' = [calls |-> r.calls, owner |-> gst.current, next |-> r.next]
    BY <1>7 DEF G!AgentCallsTools, G!GoesOn, G!Leave
  <2>2. Decides(gst') /\ Asks(gst')
    BY <1>3, <2>1, RulesIdle DEF Underway
  <2>3. r.next = None => Exempt(gst'.path)
    BY <1>1, <1>2, <1>3, <2>1, GraphAgentRules
  <2>4. pending'.next = r.next
    BY <2>1
  <2>5. pending'.next = None => Exempt(gst.path)'
    <3>1. AskedFor' <=> AskedFor
      BY <1>3 DEF AskedFor
    <3>q. QED  BY <2>3, <2>4, <3>1 DEF Exempt, ByPlugin
  <2>q. QED  BY <1>3, <2>2, <2>5, RulesNext DEF GraphRules, Decides, Asks
<1>8. CASE G!AgentEnds(x, r)
  <2>1. /\ Ended(gst', "natural_completion") /\ G!Leave(G!NothingPending)
        /\ gst'.path = Append(gst.path, gst.current) /\ r.ok /\ ~G!WantsHuman(r) /\ r.next = None
    BY <1>3, <1>8, GraphEndState DEF G!AgentEnds, G!GoesOn, G!None, None
  <2>2. gst'.status = "completed"
    BY <2>1, EndStatus
  <2>3. Decides(gst') /\ Asks(gst')
    BY <1>1, <1>2, <2>1, <2>2, GraphAgentRules DEF Decides, Asks
  <2>q. QED  BY <1>3, <2>1, <2>3, GraphLeaves
<1>9. CASE G!AgentHandsOver(x, r)
  <2>1. gst' = Hand(G!Applied(r), r.next) /\ G!Leave(G!NothingPending)
    BY <1>9, Zenon DEF G!AgentHandsOver, G!GoesOn, Hand
  <2>2. gst'.status = "running"
    BY <1>3, <2>1, HandState DEF Same, Underway
  <2>q. QED  BY <1>3, <2>1, <2>2, RulesIdle, GraphLeaves
<1>q. QED  BY <1>1, <1>4, <1>5, <1>6, <1>7, <1>8, <1>9

LEMMA GraphOthersKeepRules ==
  ASSUME GraphInv, GraphRules, G!Next, ~G!RunStep
  PROVE  GraphRules'
<1>1. task' = task
  BY RequestKept
<1>2. ASSUME Decides(gst'), Asks(gst'), node' \notin {"tool_step", "tools"} PROVE GraphRules'
  BY <1>1, <1>2, RulesNext DEF GraphRules, Decides, Asks
<1>3. ASSUME gst'.status \in {"running", "failed"}, node' \notin {"tool_step", "tools"} PROVE GraphRules'
  BY <1>2, <1>3, RulesIdle
<1>4. ASSUME gst'.status = gst.status, gst'.path = gst.path, node' \notin {"tool_step", "tools"}
      PROVE  GraphRules'
  BY <1>2, <1>4, RulesSame DEF GraphRules
\* Inside tool_step, with the same calls pending.
<1>5. ASSUME gst'.status = gst.status, gst'.path = gst.path, pending' = pending,
             node \in {"tool_step", "tools"}
      PROVE  GraphRules'
  <2>1. pending'.next = None => Exempt(gst.path)'
    <3>1. AskedFor' <=> AskedFor
      BY <1>1 DEF AskedFor
    <3>q. QED  BY <1>5, <3>1 DEF GraphRules, Exempt, ByPlugin
  <2>2. Decides(gst') /\ Asks(gst')
    BY <1>5, RulesSame DEF GraphRules
  <2>q. QED  BY <1>1, <2>1, <2>2, RulesNext DEF GraphRules, Decides, Asks
<1> USE ReasonFacts
<1>6. CASE G!Begin
  <2>1. gst' = Start(gst, task.initial) /\ node' = "agent_step"
    BY <1>6, Zenon DEF G!Begin, Start
  <2>q. QED  BY <1>3, <2>1, HandState DEF GraphInv
<1>7. CASE G!LimitReached
  BY <1>4, <1>7 DEF G!LimitReached
<1>8. CASE G!StepsExceeded \/ G!AgentNotRegistered
  <2>1. /\ Ended(gst', "agent_not_registered") \/ Ended(gst', "max_steps_exceeded")
        /\ G!Leave(G!NothingPending)
    BY <1>8, GraphEndState DEF G!AgentNotRegistered, G!StepsExceeded, GraphInv
  <2>q. QED  BY <1>1, <2>1, EndStatus, RulesIdle, GraphLeaves
<1>9. CASE G!ToolsEnter
  BY <1>5, <1>9 DEF G!ToolsEnter
<1>10. ASSUME G!LeaveTools PROVE node' \notin {"tool_step", "tools"}
  BY <1>10 DEF G!LeaveTools, G!RouteAfterToolStep
<1>11. CASE G!NoExecutor
  <2>1. Ended(gst', "tool_executor_unavailable") /\ G!LeaveTools
    BY <1>11, GraphEndState DEF G!NoExecutor, GraphInv
  <2>q. QED  BY <1>3, <1>10, <2>1, EndStatus
<1>12. ASSUME NEW reply, G!ToolRaises(reply) PROVE GraphRules'
  <2>1. gst' = gst /\ node' = "raised"
    BY <1>12 DEF G!ToolRaises
  <2>q. QED  BY <1>4, <2>1
<1>13. ASSUME NEW reply, G!ToolSucceeds(reply) PROVE GraphRules'
  <2>1. \E x : gst' = G!AppendToolResult(gst, pending.owner, x)
    BY <1>13 DEF G!ToolSucceeds
  <2>2. Same(gst', gst)
    BY <2>1, GraphAppends DEF GraphInv
  <2>3. pending' = pending /\ node = "tools"
    BY <1>13 DEF G!ToolSucceeds, G!Calls
  <2>q. QED  BY <1>5, <2>2, <2>3 DEF Same
<1>14. ASSUME NEW reply, G!ToolFails(reply) PROVE GraphRules'
  <2>1. /\ G!LeaveTools
        /\ \E x, y : gst' = G!Stop(G!SetLastResults(G!AppendToolResult(gst, pending.owner, x), y), "tool_failed")
    BY <1>14 DEF G!ToolFails
  <2>2. Ended(gst', "tool_failed")
    BY <2>1, GraphAppends, GraphSets, GraphEndState DEF GraphInv
  <2>q. QED  BY <1>3, <1>10, <2>1, <2>2, EndStatus
<1>15. CASE G!ToolsDone
  <2> DEFINE with == G!SetLastResults(gst, results)
  <2>1. /\ node = "tools" /\ G!LeaveTools
        /\ \/ pending.next = None /\ gst' = G!Stop(with, "natural_completion")
           \/ gst' = Hand(with, pending.next)
    BY <1>15, Zenon DEF G!ToolsDone, G!None, None, Hand
  <2>2. Shaped(with) /\ Same(with, gst)
    BY GraphSets DEF GraphInv
  <2> HIDE DEF with
  <2>3. CASE pending.next = None /\ gst' = G!Stop(with, "natural_completion")
    <3>1. Ended(gst', "natural_completion") /\ gst'.path = gst.path
      BY <2>2, <2>3, GraphEndState DEF Same
    <3>2. Exempt(gst.path)
      BY <2>1, <2>3 DEF GraphRules
    <3>3. Decides(gst') /\ Asks(gst')
      BY <3>1, <3>2, EndStatus DEF Decides, Asks
    <3>q. QED  BY <1>2, <1>10, <2>1, <3>3
  <2>4. CASE gst' = Hand(with, pending.next)
    <3>1. gst'.status = gst.status /\ gst'.path = gst.path
      BY <2>2, <2>4, HandState DEF Same
    <3>q. QED  BY <1>4, <1>10, <2>1, <3>1
  <2>q. QED  BY <2>1, <2>3, <2>4
<1>16. CASE G!Finish
  <2>1. gst' = G!SyncKnowledgeRefs(gst) /\ node' = "done"
    BY <1>16 DEF G!Finish
  <2>q. QED  BY <1>4, <2>1, GraphSyncs DEF GraphInv, Same
<1>q. QED
  BY <1>6, <1>7, <1>8, <1>9, <1>11, <1>12, <1>13, <1>14, <1>15, <1>16 DEF G!Next, G!ToolStep

-----------------------------------------------------------------------------
\* The invariant of both runs.
RulesInv == SimpleInv /\ GraphInv /\ SimpleRules /\ GraphRules

LEMMA RulesInit == Init => RulesInv
<1>1. ASSUME Init PROVE RulesInv
  <2>1. /\ pc = "start" /\ sst.status = "pending" /\ node = "start" /\ gst.status = "pending"
    BY <1>1, SharedNames DEF Init, S!Init, S!NewState, G!Init, G!NewState
  <2>q. QED  BY <1>1, <2>1, SimpleInit, GraphInit, RulesIdle DEF RulesInv, SimpleRules, GraphRules
<1>q. QED  BY <1>1

LEMMA RulesStep == RulesInv /\ [Next]_vars => RulesInv'
<1>1. ASSUME RulesInv, [Next]_vars PROVE RulesInv'
  <2> USE DEF RulesInv
  <2>1. SimpleInv' /\ GraphInv'
    BY <1>1, Step
  <2>2. ASSUME UNCHANGED <<task, simpleVars>> PROVE SimpleRules'
    BY <1>1, <2>2 DEF simpleVars, SimpleRules, Decides, Asks, Exempt, AskedFor, ByPlugin
  <2>3. ASSUME UNCHANGED <<task, graphVars>> PROVE GraphRules'
    BY <1>1, <2>3 DEF graphVars, GraphRules, Decides, Asks, Exempt, AskedFor, ByPlugin
  <2>4. CASE S!Next /\ UNCHANGED graphVars
    <3>1. SimpleRules'
      BY <1>1, <2>4, SimpleRunKeepsRules, SimpleOthersKeepRules
    <3>q. QED  BY <2>1, <2>3, <2>4, <3>1, RequestKept
  <2>5. CASE G!Next /\ UNCHANGED simpleVars
    <3>1. GraphRules'
      BY <1>1, <2>5, GraphRunKeepsRules, GraphOthersKeepRules
    <3>q. QED  BY <2>1, <2>2, <2>5, <3>1, RequestKept
  <2>6. CASE UNCHANGED vars
    BY <2>1, <2>2, <2>3, <2>6 DEF vars
  <2>q. QED  BY <1>1, <2>4, <2>5, <2>6 DEF Next
<1>q. QED  BY <1>1

THEOREM RulesInvariance == Spec => []RulesInv
BY RulesInit, RulesStep, PTL DEF Spec

(* Whatever the agents of the plugins do and the model answers, a run of   *)
(* either orchestrator that was asked for a human review and named an      *)
(* agent completes only through an agent of a plugin: the system agents    *)
(* lead it to the reviewer, which does not overrule the requester.         *)
THEOREM RequesterAsked == Spec => []RequesterDecides
<1>1. RulesInv => RequesterDecides
  BY DEF RulesInv, SimpleRules, GraphRules, Asks, Exempt, AskedFor, ByPlugin, RequesterDecides
<1>q. QED  BY <1>1, RulesInvariance, PTL

(* A run resumed after a human decided is put to a human again by nobody   *)
(* but an agent of a plugin, in either orchestrator.                       *)
THEOREM DecidedByHuman == Spec => []DecidedOnce
<1>1. RulesInv => DecidedOnce
  BY DEF RulesInv, SimpleRules, GraphRules, Decides, DecidedOnce
<1>q. QED  BY <1>1, RulesInvariance, PTL

-----------------------------------------------------------------------------
(* A tool call that did not succeed is the last thing a run does.          *)

Listed(x) == \E X : x \in Seq(X)
SharedFields == {"outputs", "results", "last"}
SharedShape(shared) ==
  /\ shared = [f \in SharedFields |-> shared[f]]
  /\ shared.results = [a \in Registered |-> shared.results[a]]
  /\ \A a \in Registered : Listed(shared.results[a])

AllSucceed(found) ==
  \A a \in Registered : \A i \in DOMAIN found[a] : found[a][i].status = "success"

\* The shared state the request comes with holds no result of a failed call.
\* It is empty in a first run, and a resumed one goes on from a run that waited
\* for a human and that no failed call had ended.
CleanRequest == SharedShape(task.shared) /\ AllSucceed(task.shared.results)

\* What FailedToolStops says of one of the two states.
Stops(s) ==
  \A a \in Registered : \A i \in DOMAIN s.shared.results[a] :
    s.shared.results[a][i].status # "success" =>
      /\ i = Len(s.shared.results[a])
      /\ s.reason = "tool_failed"
      /\ a = Last(s.path)
      /\ Last(s.shared.last) = s.shared.results[a][i]

\* t has the tool results of s, or one more, of agent a.
Quiet(t, s) == SharedShape(t.shared) /\ t.shared.results = s.shared.results
Called(t, s, a, result) ==
  SharedShape(t.shared) /\ t.shared.results = [s.shared.results EXCEPT ![a] = Append(@, result)]

LEMMA ListedAppend ==
  ASSUME NEW x, Listed(x), NEW e
  PROVE  /\ Listed(Append(x, e)) /\ Len(x) \in Nat /\ DOMAIN x = 1..Len(x)
         /\ Len(Append(x, e)) = Len(x) + 1 /\ DOMAIN Append(x, e) = 1..(Len(x) + 1)
         /\ \A i \in 1..Len(x) : Append(x, e)[i] = x[i]
         /\ Append(x, e)[Len(x) + 1] = e /\ Last(Append(x, e)) = e
<1>1. PICK X : x \in Seq(X)
  BY DEF Listed
<1>2. x \in Seq(X \cup {e}) /\ e \in X \cup {e}
  BY <1>1
<1>3. /\ Append(x, e) \in Seq(X \cup {e}) /\ Len(x) \in Nat /\ DOMAIN x = 1..Len(x)
      /\ Len(Append(x, e)) = Len(x) + 1 /\ DOMAIN Append(x, e) = 1..(Len(x) + 1)
      /\ \A i \in 1..Len(x) : Append(x, e)[i] = x[i]
      /\ Append(x, e)[Len(x) + 1] = e
  BY <1>2
<1>q. QED  BY <1>3 DEF Listed, Last

\* What a result does to the claim.
LEMMA OneMoreResult ==
  ASSUME NEW s, NEW t, SharedShape(s.shared), AllSucceed(s.shared.results), NEW a \in Registered, NEW e,
         Called(t, s, a, e)
  PROVE  /\ e.status = "success" => AllSucceed(t.shared.results)
         /\ t.reason = "tool_failed" /\ a = Last(t.path) /\ Last(t.shared.last) = e => Stops(t)
<1>1. /\ \A b \in Registered : b # a => t.shared.results[b] = s.shared.results[b]
      /\ t.shared.results[a] = Append(s.shared.results[a], e)
  BY DEF Called, SharedShape
<1>2. /\ \A i \in DOMAIN t.shared.results[a] :
           \/ t.shared.results[a][i].status = "success"
           \/ i = Len(t.shared.results[a]) /\ t.shared.results[a][i] = e
  <2> DEFINE x == s.shared.results[a]
  <2>1. Listed(x) /\ \A i \in DOMAIN x : x[i].status = "success"
    BY DEF SharedShape, AllSucceed
  <2>2. t.shared.results[a] = Append(x, e)
    BY <1>1
  <2> HIDE DEF x
  <2>3. \A i \in DOMAIN Append(x, e) :
          Append(x, e)[i].status = "success" \/ (i = Len(Append(x, e)) /\ Append(x, e)[i] = e)
    BY <2>1, ListedAppend
  <2>q. QED  BY <2>2, <2>3
<1>3. \A b \in Registered : b # a => \A i \in DOMAIN t.shared.results[b] : t.shared.results[b][i].status = "success"
  BY <1>1 DEF AllSucceed
<1>q. QED  BY <1>2, <1>3 DEF AllSucceed, Stops

LEMMA AllStops ==
  ASSUME NEW s, AllSucceed(s.shared.results)
  PROVE  Stops(s)
BY DEF AllSucceed, Stops

LEMMA QuietStep ==
  ASSUME NEW s, NEW t, Quiet(t, s), AllSucceed(s.shared.results)
  PROVE  AllSucceed(t.shared.results) /\ Stops(t)
BY AllStops DEF Quiet

\* What the operations of both runners do to the results.
LEMMA SameShared ==
  ASSUME NEW s, Shaped(s), NEW x
  PROVE  /\ S!Terminate(s, x).shared = s.shared /\ S!Stop(s, x).shared = s.shared
         /\ G!Terminate(s, x).shared = s.shared /\ G!Stop(s, x).shared = s.shared
         /\ Hand(s, x).shared = s.shared /\ Start(s, x).shared = s.shared
BY DEF Shaped, Fields, S!Terminate, S!Stop, G!Terminate, G!Stop, Hand, Start

LEMMA SyncedShared ==
  ASSUME NEW s, Shaped(s)
  PROVE  S!SyncKnowledgeRefs(s).shared = s.shared /\ G!SyncKnowledgeRefs(s).shared = s.shared
BY DEF Shaped, Fields, S!SyncKnowledgeRefs, G!SyncKnowledgeRefs

LEMMA AppliedShared ==
  ASSUME NEW s, Shaped(s), SharedShape(s.shared), NEW n, NEW a, NEW x
  PROVE  Quiet(S!ApplyResult(s, n, a, x), s) /\ Quiet(G!ApplyResult(s, n, a, x), s)
BY DEF Shaped, Fields, SharedShape, SharedFields, Quiet, S!ApplyResult, S!record_agent_output, G!ApplyResult,
       G!record_agent_output

LEMMA SetShared ==
  ASSUME NEW s, Shaped(s), SharedShape(s.shared), NEW x
  PROVE  /\ Quiet(S!SetLastResults(s, x), s) /\ S!SetLastResults(s, x).shared.last = x
         /\ Quiet(G!SetLastResults(s, x), s) /\ G!SetLastResults(s, x).shared.last = x
BY DEF Shaped, Fields, SharedShape, SharedFields, Quiet, S!SetLastResults, S!set_last_tool_results,
       G!SetLastResults, G!set_last_tool_results

LEMMA CalledShared ==
  ASSUME NEW s, Shaped(s), SharedShape(s.shared), NEW a \in Registered, NEW x
  PROVE  Called(S!AppendToolResult(s, a, x), s, a, x) /\ Called(G!AppendToolResult(s, a, x), s, a, x)
<1> DEFINE t == S!AppendToolResult(s, a, x)
<1>1. t.shared = [s.shared EXCEPT !.results[a] = Append(@, x)] /\ G!AppendToolResult(s, a, x) = t
  BY DEF S!AppendToolResult, S!append_tool_result, G!AppendToolResult, G!append_tool_result, Shaped, Fields
<1>2. /\ t.shared = [f \in SharedFields |-> t.shared[f]]
      /\ t.shared.results = [s.shared.results EXCEPT ![a] = Append(@, x)]
  BY <1>1 DEF SharedShape, SharedFields
<1>3. /\ t.shared.results = [b \in Registered |-> t.shared.results[b]]
      /\ t.shared.results[a] = Append(s.shared.results[a], x)
      /\ \A b \in Registered : b # a => t.shared.results[b] = s.shared.results[b]
  BY <1>2 DEF SharedShape
<1> HIDE DEF t
<1>4. ASSUME NEW b \in Registered PROVE Listed(t.shared.results[b])
  <2>1. Listed(s.shared.results[b])
    BY DEF SharedShape
  <2>2. Listed(Append(s.shared.results[b], x))
    BY <2>1, ListedAppend
  <2>q. QED  BY <1>3, <2>1, <2>2, Zenon
<1>5. SharedShape(t.shared)
  BY <1>2, <1>3, <1>4, Zenon DEF SharedShape
<1>6. Called(t, s, a, x)
  BY <1>2, <1>5, Zenon DEF Called
<1>q. QED  BY <1>1, <1>6 DEF t

\* The same shared state, or that of a quiet step.
LEMMA QuietTwice ==
  ASSUME NEW s, NEW t, NEW u, Quiet(t, s), u.shared = t.shared \/ Quiet(u, t)
  PROVE  Quiet(u, s)
BY DEF Quiet

LEMMA QuietSame ==
  ASSUME NEW s, NEW t, SharedShape(s.shared), t.shared = s.shared
  PROVE  Quiet(t, s)
BY DEF Quiet

-----------------------------------------------------------------------------
\* In the loop, no call has failed until the run ends.
SimpleTools ==
  CleanRequest =>
    /\ SharedShape(sst.shared) /\ Stops(sst)
    /\ pc \in {"start", "agents", "tools"} => AllSucceed(sst.shared.results)
    /\ pc = "tools" => sst.path # <<>> /\ Listed(batch.done)

LEMMA SimpleCalm ==
  ASSUME SimpleTools, task' = task, pc \in {"start", "agents", "tools"},
         CleanRequest => Quiet(sst', sst),
         pc' = "tools" => sst'.path # <<>> /\ Listed(batch'.done)
  PROVE  SimpleTools'
<1>1. ASSUME CleanRequest PROVE SharedShape(sst'.shared) /\ AllSucceed(sst'.shared.results) /\ Stops(sst')
  BY <1>1, QuietStep DEF SimpleTools, Quiet
<1>q. QED  BY <1>1 DEF SimpleTools, CleanRequest

LEMMA SimpleRunKeepsTools ==
  ASSUME SimpleInv, SimpleTools, S!RunStep
  PROVE  SimpleTools'
<1>1. PICK x, r :
        \/ S!AgentRaises(x, r) \/ S!AgentFails(x, r) \/ S!AgentWantsHuman(x, r) \/ S!AgentCallsTools(x, r)
        \/ S!AgentFindsNoExecutor(x, r) \/ S!AgentEnds(x, r) \/ S!AgentHandsOver(x, r)
  BY DEF S!RunStep
<1>2. S!Returns(x)
  BY <1>1 DEF S!AgentRaises, S!AgentFails, S!AgentWantsHuman, S!AgentCallsTools, S!AgentFindsNoExecutor,
              S!AgentEnds, S!AgentHandsOver, S!GoesOn
<1>3. /\ pc = "agents" /\ Shaped(sst) /\ Shaped(S!Applied(r)) /\ task' = task
      /\ sst.path \in Seq(Registered) /\ sst.current \in Registered
      /\ S!Applied(r).path = Append(sst.path, sst.current)
  BY <1>2, SimpleTaken DEF SimpleInv
<1>4. ASSUME CleanRequest PROVE SharedShape(sst.shared) /\ Quiet(S!Applied(r), sst)
  BY <1>3, <1>4, AppliedShared DEF SimpleTools, S!Applied
<1>5. ASSUME \E reason : sst' = S!Stop(S!Applied(r), reason) \/ sst' = S!Terminate(S!Applied(r), reason),
             pc' # "tools"
      PROVE  SimpleTools'
  <2>1. ASSUME CleanRequest PROVE Quiet(sst', sst)
    BY <1>3, <1>4, <1>5, <2>1, SameShared, QuietTwice
  <2>q. QED  BY <1>3, <1>5, <2>1, SimpleCalm
<1>6. CASE S!AgentRaises(x, r)
  <2>1. CASE sst' = S!Terminate(sst, "agent_exception") /\ pc' = "raised"
    <3>1. ASSUME CleanRequest PROVE Quiet(sst', sst)
      BY <1>3, <1>4, <2>1, <3>1, SameShared, QuietSame
    <3>q. QED  BY <1>3, <2>1, <3>1, SimpleCalm
  <2>2. CASE sst' = S!Stop(S!Applied(r), "agent_exception") /\ pc' = "trailer"
    BY <1>5, <2>2
  <2>q. QED  BY <1>6, <2>1, <2>2 DEF S!AgentRaises
<1>7. CASE S!AgentFails(x, r) \/ S!AgentWantsHuman(x, r) \/ S!AgentFindsNoExecutor(x, r) \/ S!AgentEnds(x, r)
  <2>1. /\ \E reason : sst' = S!Stop(S!Applied(r), reason) \/ sst' = S!Terminate(S!Applied(r), reason)
        /\ pc' = "trailer"
    BY <1>7 DEF S!AgentFails, S!AgentWantsHuman, S!AgentFindsNoExecutor, S!AgentEnds
  <2>q. QED  BY <1>5, <2>1
<1>8. CASE S!AgentCallsTools(x, r)
  <2>1. sst' = S!Applied(r) /\ batch'.done = <<>>
    BY <1>8 DEF S!AgentCallsTools
  <2>2. Listed(batch'.done) /\ sst'.path # <<>>
    BY <1>3, <2>1, PathGrows DEF Listed
  <2>q. QED  BY <1>3, <1>4, <2>1, <2>2, SimpleCalm
<1>9. CASE S!AgentHandsOver(x, r)
  <2>1. sst' = Hand(S!Applied(r), r.next) /\ pc' = pc
    BY <1>9, Zenon DEF S!AgentHandsOver, Hand
  <2>2. ASSUME CleanRequest PROVE Quiet(sst', sst)
    BY <1>3, <1>4, <2>1, <2>2, SameShared, QuietTwice
  <2>q. QED  BY <1>3, <2>1, <2>2, SimpleCalm
<1>q. QED  BY <1>1, <1>6, <1>7, <1>8, <1>9

LEMMA SimpleOthersKeepTools ==
  ASSUME SimpleInv, SimpleRules, SimpleTools, S!Next, ~S!RunStep
  PROVE  SimpleTools'
<1>1. task' = task /\ Shaped(sst)
  BY RequestKept DEF SimpleInv
<1>2. ASSUME CleanRequest PROVE SharedShape(sst.shared)
  BY <1>2 DEF SimpleTools
<1>3. CASE S!Begin
  <2>1. pc = "start" /\ sst' = Start(sst, task.initial) /\ pc' = "agents"
    BY <1>3, Zenon DEF S!Begin, Start
  <2>2. ASSUME CleanRequest PROVE Quiet(sst', sst)
    BY <1>1, <1>2, <2>1, <2>2, SameShared, QuietSame
  <2>q. QED  BY <1>1, <2>1, <2>2, SimpleCalm
<1>4. CASE S!AgentNotRegistered \/ S!LoopExhausted
  <2>1. pc = "agents" /\ pc' = "trailer" /\ \E reason : sst' = S!Terminate(sst, reason)
    BY <1>4 DEF S!AgentNotRegistered, S!LoopExhausted, S!InLoop
  <2>2. ASSUME CleanRequest PROVE Quiet(sst', sst)
    BY <1>1, <1>2, <2>1, <2>2, SameShared, QuietSame
  <2>q. QED  BY <1>1, <2>1, <2>2, SimpleCalm
<1>5. ASSUME NEW reply, S!ToolRaises(reply) PROVE SimpleTools'
  <2>1. pc = "tools" /\ sst' = sst /\ pc' = "raised"
    BY <1>5 DEF S!ToolRaises, S!Calls
  <2>2. ASSUME CleanRequest PROVE Quiet(sst', sst)
    BY <1>2, <2>1, <2>2, QuietSame
  <2>q. QED  BY <1>1, <2>1, <2>2, SimpleCalm
<1>6. ASSUME NEW reply, S!ToolReturns(reply) PROVE SimpleTools'
  <2> DEFINE owner == S!Owner
             result == S!Execute(owner, Head(batch.todo), reply)
             done == Append(batch.done, result)
             with == S!AppendToolResult(sst, owner, result)
             last == S!SetLastResults(with, done)
  <2>1. /\ pc = "tools"
        /\ \/ /\ result.status = "success" /\ sst' = with /\ pc' = pc
              /\ batch' = [batch EXCEPT !.todo = Tail(@), !.done = done]
           \/ /\ sst' = S!Stop(last, "tool_failed") /\ pc' = "trailer"
    BY <1>6 DEF S!ToolReturns, S!Calls
  <2>2. owner = Last(sst.path)
    BY DEF S!Owner, S!Last, Last
  <2> HIDE DEF owner, result
  <2>3. SUFFICES ASSUME CleanRequest PROVE SimpleTools'
    BY <1>1 DEF SimpleTools, CleanRequest
  <2>4. /\ SharedShape(sst.shared) /\ AllSucceed(sst.shared.results) /\ sst.path # <<>> /\ Listed(batch.done)
        /\ batch = [f \in BatchFields |-> batch[f]]
    BY <2>1, <2>3 DEF SimpleTools, SimpleRules
  <2>5. owner \in Registered
    BY <2>2, <2>4 DEF SimpleInv, Last
  <2>6. /\ Called(with, sst, owner, result) /\ Shaped(with) /\ Same(with, sst)
        /\ Listed(done) /\ Last(done) = result
    BY <1>1, <2>4, <2>5, CalledShared, SimpleAppends, ListedAppend
  <2> HIDE DEF done, with, last
  <2>7. CASE result.status = "success" /\ sst' = with /\ pc' = pc
             /\ batch' = [batch EXCEPT !.todo = Tail(@), !.done = done]
    <3>1. AllSucceed(sst'.shared.results) /\ Stops(sst') /\ SharedShape(sst'.shared)
      <4>1. Called(sst', sst, owner, result) /\ result.status = "success"
        BY <2>6, <2>7
      <4>2. AllSucceed(sst'.shared.results)
        BY <2>4, <2>5, <4>1, OneMoreResult
      <4>q. QED  BY <4>1, <4>2, AllStops DEF Called
    <3>2. batch'.done = done /\ sst'.path = sst.path
      BY <2>4, <2>6, <2>7 DEF BatchFields, Same
    <3>q. QED  BY <1>1, <2>4, <2>6, <3>1, <3>2 DEF SimpleTools, CleanRequest
  <2>8. CASE sst' = S!Stop(last, "tool_failed") /\ pc' = "trailer"
    <3>1. /\ SharedShape(last.shared) /\ last.shared.results = with.shared.results
          /\ last.shared.last = done /\ Shaped(last) /\ last.path = sst.path
      BY <2>6, SetShared, SimpleSets DEF Quiet, Called, Same, last
    <3>2. sst'.shared = last.shared /\ sst'.reason = "tool_failed" /\ sst'.path = sst.path
      BY <2>8, <3>1, SameShared, SimpleEndState DEF Ended
    <3>3. Called(sst', sst, owner, result) /\ Last(sst'.shared.last) = result
      BY <2>6, <3>1, <3>2 DEF Called
    <3>4. Stops(sst') /\ SharedShape(sst'.shared)
      BY <2>2, <2>4, <2>5, <3>1, <3>2, <3>3, OneMoreResult
    <3>q. QED  BY <1>1, <2>8, <3>4 DEF SimpleTools, CleanRequest
  <2>q. QED  BY <2>1, <2>7, <2>8
<1>7. CASE S!ToolsDone
  <2> DEFINE with == S!SetLastResults(sst, batch.done)
  <2>1. /\ pc = "tools" /\ pc' # "tools"
        /\ sst' = S!Stop(with, "natural_completion") \/ sst' = Hand(with, batch.next)
    BY <1>7, Zenon DEF S!ToolsDone, Hand
  <2>2. ASSUME CleanRequest PROVE Quiet(sst', sst)
    <3>1. Shaped(with) /\ Quiet(with, sst)
      BY <1>1, <1>2, <2>2, SetShared, SimpleSets
    <3> HIDE DEF with
    <3>q. QED  BY <2>1, <3>1, SameShared, QuietTwice
  <2>q. QED  BY <1>1, <2>1, <2>2, SimpleCalm
<1>8. CASE S!Finish
  <2>1. sst' = S!SyncKnowledgeRefs(sst) /\ pc' = "done"
    BY <1>8 DEF S!Finish
  <2>2. ASSUME CleanRequest PROVE sst'.shared = sst.shared /\ sst'.reason = sst.reason /\ sst'.path = sst.path
    BY <1>1, <1>2, <2>1, <2>2, SyncedShared, SimpleSyncs DEF Same
  <2>3. ASSUME CleanRequest PROVE Stops(sst') /\ SharedShape(sst'.shared)
    BY <1>2, <2>2, <2>3 DEF SimpleTools, Stops
  <2>q. QED  BY <1>1, <2>1, <2>3 DEF SimpleTools, CleanRequest
<1>q. QED  BY <1>3, <1>4, <1>5, <1>6, <1>7, <1>8 DEF S!Next, S!ToolStep

-----------------------------------------------------------------------------
\* In the graph, tool_step runs for the agent that ran last.
GraphTools ==
  CleanRequest =>
    /\ SharedShape(gst.shared) /\ Stops(gst) /\ Listed(results)
    /\ node \in {"start", "agent_step", "tool_step", "tools"} => AllSucceed(gst.shared.results)
    /\ node \in {"tool_step", "tools"} => gst.path # <<>> /\ pending.owner = Last(gst.path)

LEMMA GraphCalm ==
  ASSUME GraphTools, task' = task, node \in {"start", "agent_step", "tool_step", "tools"},
         CleanRequest => Quiet(gst', gst),
         CleanRequest /\ Listed(results) => Listed(results'),
         node' \in {"tool_step", "tools"} => gst'.path # <<>> /\ pending'.owner = Last(gst'.path)
  PROVE  GraphTools'
<1>1. ASSUME CleanRequest
      PROVE  /\ SharedShape(gst'.shared) /\ AllSucceed(gst'.shared.results) /\ Stops(gst')
             /\ Listed(results')
  BY <1>1, QuietStep DEF GraphTools, Quiet
<1>q. QED  BY <1>1 DEF GraphTools, CleanRequest

LEMMA GraphRunKeepsTools ==
  ASSUME GraphInv, GraphTools, G!RunStep
  PROVE  GraphTools'
<1>1. PICK x, r :
        \/ G!AgentRaisesOut(x, r) \/ G!AgentRaises(x, r) \/ G!AgentFails(x, r) \/ G!AgentWantsHuman(x, r)
        \/ G!AgentCallsTools(x, r) \/ G!AgentEnds(x, r) \/ G!AgentHandsOver(x, r)
  BY DEF G!RunStep
<1>2. G!Returns(x)
  BY <1>1 DEF G!AgentRaisesOut, G!AgentRaises, G!AgentFails, G!AgentWantsHuman, G!AgentCallsTools,
              G!AgentEnds, G!AgentHandsOver, G!GoesOn
<1>3. /\ node = "agent_step" /\ Shaped(gst) /\ Shaped(G!Applied(r)) /\ task' = task
      /\ gst.path \in Seq(Registered) /\ gst.current \in Registered
      /\ G!Applied(r).path = Append(gst.path, gst.current)
  BY <1>2, GraphTaken DEF GraphInv
<1>4. ASSUME CleanRequest PROVE SharedShape(gst.shared) /\ Quiet(G!Applied(r), gst)
  BY <1>3, <1>4, AppliedShared DEF GraphTools, G!Applied
<1>5. results' = results
  BY <1>2 DEF G!Returns
<1>6. ASSUME G!Leave(G!NothingPending), NEW reason,
             gst' = G!Stop(G!Applied(r), reason) \/ gst' = Hand(G!Applied(r), reason)
      PROVE  GraphTools'
  <2>1. node' \notin {"tool_step", "tools"}
    BY <1>6 DEF G!Leave, G!NothingPending, G!RouteAfterAgentStep
  <2>2. ASSUME CleanRequest PROVE Quiet(gst', gst)
    BY <1>3, <1>4, <1>6, <2>2, SameShared, QuietTwice
  <2>q. QED  BY <1>3, <1>5, <2>1, <2>2, GraphCalm
<1>7. CASE G!AgentRaisesOut(x, r)
  <2>1. gst' = gst /\ node' = "raised"
    BY <1>7 DEF G!AgentRaisesOut
  <2>2. ASSUME CleanRequest PROVE Quiet(gst', gst)
    BY <1>4, <2>1, <2>2, QuietSame
  <2>q. QED  BY <1>3, <1>5, <2>1, <2>2, GraphCalm
<1>8. CASE G!AgentRaises(x, r) \/ G!AgentFails(x, r) \/ G!AgentWantsHuman(x, r) \/ G!AgentEnds(x, r)
  <2>1. G!Leave(G!NothingPending) /\ \E reason : gst' = G!Stop(G!Applied(r), reason)
    BY <1>8 DEF G!AgentRaises, G!AgentFails, G!AgentWantsHuman, G!AgentEnds
  <2>q. QED  BY <1>6, <2>1
<1>9. CASE G!AgentCallsTools(x, r)
  <2>1. gst' = G!Applied(r) /\ pending'.owner = gst.current
    BY <1>9 DEF G!AgentCallsTools, G!Leave
  <2>2. gst'.path # <<>> /\ pending'.owner = Last(gst'.path)
    BY <1>3, <2>1, PathGrows
  <2>q. QED  BY <1>3, <1>4, <1>5, <2>1, <2>2, GraphCalm
<1>10. CASE G!AgentHandsOver(x, r)
  <2>1. gst' = Hand(G!Applied(r), r.next) /\ G!Leave(G!NothingPending)
    BY <1>10, Zenon DEF G!AgentHandsOver, Hand
  <2>q. QED  BY <1>6, <2>1
<1>q. QED  BY <1>1, <1>7, <1>8, <1>9, <1>10

LEMMA GraphOthersKeepTools ==
  ASSUME GraphInv, GraphTools, G!Next, ~G!RunStep
  PROVE  GraphTools'
<1>1. task' = task /\ Shaped(gst)
  BY RequestKept DEF GraphInv
<1>2. ASSUME CleanRequest PROVE SharedShape(gst.shared)
  BY <1>2 DEF GraphTools
\* The state is left alone.
<1>3. ASSUME gst' = gst, pending' = pending, results' = results,
             node \in {"start", "agent_step", "tool_step", "tools"},
             \/ node' \notin {"tool_step", "tools"}
             \/ node \in {"tool_step", "tools"}
      PROVE  GraphTools'
  <2>1. ASSUME CleanRequest PROVE Quiet(gst', gst)
    BY <1>2, <1>3, <2>1, QuietSame
  <2>2. ASSUME CleanRequest, node' \in {"tool_step", "tools"}
        PROVE  gst'.path # <<>> /\ pending'.owner = Last(gst'.path)
    BY <1>3, <2>2 DEF GraphTools
  <2>3. CASE CleanRequest
    BY <1>1, <1>3, <2>1, <2>2, <2>3, GraphCalm
  <2>4. CASE ~CleanRequest
    BY <1>1, <2>4 DEF GraphTools, CleanRequest
  <2>q. QED  BY <2>3, <2>4
\* The state ends, without another result.
<1>4. ASSUME NEW s, CleanRequest => Quiet(s, gst),
             gst'.shared = s.shared, node' \notin {"tool_step", "tools"},
             results' = results \/ results' = <<>>,
             node \in {"start", "agent_step", "tool_step", "tools"}
      PROVE  GraphTools'
  <2>1. ASSUME CleanRequest PROVE Quiet(gst', gst)
    BY <1>4, <2>1, QuietTwice
  <2>2. Listed(<<>>)
    BY DEF Listed
  <2>q. QED  BY <1>1, <1>4, <2>1, <2>2, GraphCalm
<1>5. ASSUME G!LeaveTools PROVE node' \notin {"tool_step", "tools"} /\ results' = <<>>
  BY <1>5 DEF G!LeaveTools, G!RouteAfterToolStep
<1>6. CleanRequest => Quiet(gst, gst)
  BY <1>2, QuietSame
<1>7. CASE G!Begin
  <2>1. node = "start" /\ gst' = Start(gst, task.initial) /\ node' = "agent_step" /\ results' = results
    BY <1>7, Zenon DEF G!Begin, Start
  <2>q. QED  BY <1>1, <1>4, <1>6, <2>1, SameShared
<1>8. CASE G!LimitReached
  BY <1>3, <1>8 DEF G!LimitReached
<1>9. CASE G!StepsExceeded \/ G!AgentNotRegistered
  <2>1. /\ node = "agent_step" /\ G!Leave(G!NothingPending) /\ results' = results
        /\ \E reason : gst' = G!Terminate(gst, reason)
    BY <1>9 DEF G!AgentNotRegistered, G!StepsExceeded, G!AtAgentStep
  <2>2. node' \notin {"tool_step", "tools"}
    BY <2>1 DEF G!Leave, G!NothingPending, G!RouteAfterAgentStep
  <2>q. QED  BY <1>1, <1>4, <1>6, <2>1, <2>2, SameShared
<1>10. CASE G!ToolsEnter
  BY <1>3, <1>10 DEF G!ToolsEnter
<1>11. CASE G!NoExecutor
  <2>1. node = "tool_step" /\ G!LeaveTools /\ gst' = G!Stop(gst, "tool_executor_unavailable")
    BY <1>11 DEF G!NoExecutor
  <2>q. QED  BY <1>1, <1>4, <1>5, <1>6, <2>1, SameShared
<1>12. ASSUME NEW reply, G!ToolRaises(reply) PROVE GraphTools'
  BY <1>3, <1>12 DEF G!ToolRaises, G!Calls
<1>13. ASSUME NEW reply, G!ToolSucceeds(reply) \/ G!ToolFails(reply) PROVE GraphTools'
  <2> DEFINE result == G!Execute(pending.owner, Head(G!Todo), reply)
             more == Append(results, result)
             with == G!AppendToolResult(gst, pending.owner, result)
             last == G!SetLastResults(with, more)
  <2>1. /\ node = "tools"
        /\ \/ /\ result.status = "success" /\ gst' = with /\ results' = more
              /\ pending' = pending /\ node' = node
           \/ G!LeaveTools /\ gst' = G!Stop(last, "tool_failed")
    BY <1>13 DEF G!ToolSucceeds, G!ToolFails, G!Calls
  <2> HIDE DEF result
  <2>2. SUFFICES ASSUME CleanRequest PROVE GraphTools'
    BY <1>1 DEF GraphTools, CleanRequest
  <2>3. /\ SharedShape(gst.shared) /\ AllSucceed(gst.shared.results) /\ gst.path # <<>> /\ Listed(results)
        /\ pending.owner = Last(gst.path)
    BY <2>1, <2>2 DEF GraphTools
  <2>4. pending.owner \in Registered
    BY <2>3 DEF GraphInv, Last
  <2>5. /\ Called(with, gst, pending.owner, result) /\ Shaped(with) /\ Same(with, gst)
        /\ Listed(more) /\ Last(more) = result
    BY <1>1, <2>3, <2>4, CalledShared, GraphAppends, ListedAppend
  <2> HIDE DEF more, with, last
  <2>6. CASE result.status = "success" /\ gst' = with /\ results' = more /\ pending' = pending /\ node' = node
    <3>1. Called(gst', gst, pending.owner, result) /\ result.status = "success"
      BY <2>5, <2>6
    <3>2. AllSucceed(gst'.shared.results)
      BY <2>3, <2>4, <3>1, OneMoreResult
    <3>3. Stops(gst') /\ SharedShape(gst'.shared) /\ Listed(results')
      BY <2>5, <2>6, <3>1, <3>2, AllStops DEF Called
    <3>4. gst'.path = gst.path
      BY <2>5, <2>6 DEF Same
    <3>q. QED  BY <1>1, <2>3, <2>6, <3>2, <3>3, <3>4 DEF GraphTools, CleanRequest
  <2>7. CASE G!LeaveTools /\ gst' = G!Stop(last, "tool_failed")
    <3>1. /\ SharedShape(last.shared) /\ last.shared.results = with.shared.results
          /\ last.shared.last = more /\ Shaped(last) /\ last.path = gst.path
      BY <2>5, SetShared, GraphSets DEF Quiet, Called, Same, last
    <3>2. /\ gst'.shared = last.shared /\ gst'.reason = "tool_failed" /\ gst'.path = gst.path
          /\ Ended(gst', "tool_failed")
      BY <2>7, <3>1, SameShared, GraphEndState DEF Ended
    <3>3. Called(gst', gst, pending.owner, result) /\ Last(gst'.shared.last) = result
      BY <2>5, <3>1, <3>2 DEF Called
    <3>4. Stops(gst') /\ SharedShape(gst'.shared)
      BY <2>3, <2>4, <3>1, <3>2, <3>3, OneMoreResult
    <3>5. node' = "end" /\ Listed(results')
      <4>1. gst'.status = "failed"
        BY <3>2, ReasonFacts, EndStatus
      <4>q. QED  BY <2>7, <4>1 DEF G!LeaveTools, G!RouteAfterToolStep, G!Terminal, Listed
    <3>q. QED  BY <1>1, <3>4, <3>5 DEF GraphTools, CleanRequest
  <2>q. QED  BY <2>1, <2>6, <2>7
<1>14. CASE G!ToolsDone
  <2> DEFINE with == G!SetLastResults(gst, results)
  <2>1. /\ node = "tools" /\ G!LeaveTools
        /\ gst' = G!Stop(with, "natural_completion") \/ gst' = Hand(with, pending.next)
    BY <1>14, Zenon DEF G!ToolsDone, Hand
  <2>2. Shaped(with) /\ (CleanRequest => Quiet(with, gst))
    BY <1>1, <1>2, SetShared, GraphSets
  <2> HIDE DEF with
  <2>3. gst'.shared = with.shared
    BY <2>1, <2>2, SameShared
  <2>q. QED  BY <1>4, <1>5, <2>1, <2>2, <2>3
<1>15. CASE G!Finish
  <2>1. gst' = G!SyncKnowledgeRefs(gst) /\ node' = "done" /\ results' = results
    BY <1>15 DEF G!Finish
  <2>2. gst'.shared = gst.shared /\ gst'.reason = gst.reason /\ gst'.path = gst.path
    BY <1>1, <2>1, SyncedShared, GraphSyncs DEF Same
  <2>3. ASSUME CleanRequest PROVE Stops(gst') /\ SharedShape(gst'.shared) /\ Listed(results')
    BY <1>2, <2>1, <2>2, <2>3 DEF GraphTools, Stops
  <2>q. QED  BY <1>1, <2>1, <2>3 DEF GraphTools, CleanRequest
<1>q. QED
  BY <1>7, <1>8, <1>9, <1>10, <1>11, <1>12, <1>13, <1>14, <1>15 DEF G!Next, G!ToolStep

-----------------------------------------------------------------------------
ToolsInv == RulesInv /\ SimpleTools /\ GraphTools

LEMMA ToolsInit == Init => ToolsInv
<1>1. ASSUME Init PROVE ToolsInv
  <2>1. /\ pc = "start" /\ sst.shared = task.shared
        /\ node = "start" /\ gst.shared = task.shared /\ results = <<>>
    BY <1>1 DEF Init, S!Init, S!NewState, G!Init, G!NewState
  <2>2. Listed(results)
    BY <2>1 DEF Listed
  <2>q. QED  BY <1>1, <2>1, <2>2, RulesInit, AllStops DEF ToolsInv, SimpleTools, GraphTools, CleanRequest
<1>q. QED  BY <1>1

LEMMA ToolsStep == ToolsInv /\ [Next]_vars => ToolsInv'
<1>1. ASSUME ToolsInv, [Next]_vars PROVE ToolsInv'
  <2> USE DEF ToolsInv
  <2>1. RulesInv'
    BY <1>1, RulesStep
  <2>2. ASSUME UNCHANGED <<task, simpleVars>> PROVE SimpleTools'
    BY <1>1, <2>2 DEF simpleVars, SimpleTools, CleanRequest
  <2>3. ASSUME UNCHANGED <<task, graphVars>> PROVE GraphTools'
    BY <1>1, <2>3 DEF graphVars, GraphTools, CleanRequest
  <2>4. CASE S!Next /\ UNCHANGED graphVars
    <3>1. SimpleTools'
      BY <1>1, <2>4, SimpleRunKeepsTools, SimpleOthersKeepTools DEF RulesInv
    <3>q. QED  BY <2>1, <2>3, <2>4, <3>1, RequestKept
  <2>5. CASE G!Next /\ UNCHANGED simpleVars
    <3>1. GraphTools'
      BY <1>1, <2>5, GraphRunKeepsTools, GraphOthersKeepTools DEF RulesInv
    <3>q. QED  BY <2>1, <2>2, <2>5, <3>1, RequestKept
  <2>6. CASE UNCHANGED vars
    BY <2>1, <2>2, <2>3, <2>6 DEF vars
  <2>q. QED  BY <1>1, <2>4, <2>5, <2>6 DEF Next
<1>q. QED  BY <1>1

(* A tool call that did not succeed is the last one of its agent and of    *)
(* the batch handed on, and it has failed the run, whatever the tools      *)
(* reply and in which order; for every request that brings no result of a  *)
(* failed call with it.                                                    *)
THEOREM FailedCallStops == Spec => [](CleanRequest => FailedToolStops)
<1>1. ToolsInv => (CleanRequest => FailedToolStops)
  BY DEF ToolsInv, SimpleTools, GraphTools, Stops, FailedToolStops
<1>2. Spec => []ToolsInv
  BY ToolsInit, ToolsStep, PTL DEF Spec
<1>q. QED  BY <1>1, <1>2, PTL

-----------------------------------------------------------------------------
(* Both runners are built from the same operations.                        *)

LEMMA SimpleAlike ==
  /\ \A s, r : S!Terminate(s, r) = Terminate(s, r) /\ S!Stop(s, r) = Stop(s, r)
  /\ \A s, n, a, r : S!ApplyResult(s, n, a, r) = ApplyResult(s, n, a, r)
  /\ \A s, a, r : S!AppendToolResult(s, a, r) = AppendToolResult(s, a, r)
  /\ \A s, done : S!SetLastResults(s, done) = SetLastResults(s, done)
  /\ \A s : S!SyncKnowledgeRefs(s) = SyncKnowledgeRefs(s) /\ S!Record(s) = Record(s)
  /\ \A r : S!WantsHuman(r) = WantsHuman(r)
  /\ S!NewState(task) = NewState(task) /\ S!NotStored = NotStored
  /\ S!NoBatch = [todo |-> <<>>, done |-> <<>>, next |-> None]
  /\ S!Registered = Registered /\ S!None = None
BY DEF S!Terminate, Terminate, S!Stop, Stop, S!StatusOf, StatusOf, S!None, None, S!ApplyResult, ApplyResult,
       S!record_agent_output, record_agent_output, S!AppendToolResult, AppendToolResult, S!append_tool_result,
       append_tool_result, S!SetLastResults, SetLastResults, S!set_last_tool_results, set_last_tool_results,
       S!SyncKnowledgeRefs, SyncKnowledgeRefs, S!Consumed, Consumed, S!Contains, Contains, S!Record, Record,
       S!WantsHuman, WantsHuman, S!NewState, NewState, S!NotStored, NotStored, S!NoBatch, S!Registered, Registered,
       S!SystemAgents, SystemAgents

LEMMA GraphAlike ==
  /\ \A s, r : G!Terminate(s, r) = Terminate(s, r) /\ G!Stop(s, r) = Stop(s, r)
  /\ \A s, n, a, r : G!ApplyResult(s, n, a, r) = ApplyResult(s, n, a, r)
  /\ \A s, a, r : G!AppendToolResult(s, a, r) = AppendToolResult(s, a, r)
  /\ \A s, done : G!SetLastResults(s, done) = SetLastResults(s, done)
  /\ \A s : G!SyncKnowledgeRefs(s) = SyncKnowledgeRefs(s) /\ G!Record(s) = Record(s)
  /\ \A r : G!WantsHuman(r) = WantsHuman(r)
  /\ G!NewState(task) = NewState(task) /\ G!NotStored = NotStored
  /\ G!Registered = Registered /\ G!None = None
BY DEF G!Terminate, Terminate, G!Stop, Stop, G!StatusOf, StatusOf, G!None, None, G!ApplyResult, ApplyResult,
       G!record_agent_output, record_agent_output, G!AppendToolResult, AppendToolResult, G!append_tool_result,
       append_tool_result, G!SetLastResults, SetLastResults, G!set_last_tool_results, set_last_tool_results,
       G!SyncKnowledgeRefs, SyncKnowledgeRefs, G!Consumed, Consumed, G!Contains, Contains, G!Record, Record,
       G!WantsHuman, WantsHuman, G!NewState, NewState, G!NotStored, NotStored, G!Registered, Registered,
       G!SystemAgents, SystemAgents

\* An agent and a tool do the same in both.
LEMMA SameRules ==
  ASSUME NEW refs, NEW shared, NEW answer
  PROVE  /\ S!Planner(task, answer) = Planner(task, answer) /\ G!Planner(task, answer) = Planner(task, answer)
         /\ S!Router(task, shared, answer) = Router(task, shared, answer)
         /\ G!Router(task, shared, answer) = Router(task, shared, answer)
         /\ S!Knowledge(refs, shared) = Knowledge(refs, shared)
         /\ G!Knowledge(refs, shared) = Knowledge(refs, shared)
         /\ S!Executor(shared, answer) = Executor(shared, answer)
         /\ G!Executor(shared, answer) = Executor(shared, answer)
         /\ S!Reviewer(task, shared, answer) = Reviewer(task, shared, answer)
         /\ G!Reviewer(task, shared, answer) = Reviewer(task, shared, answer)
<1>1. /\ S!None = None /\ S!NoQuery = NoQuery /\ S!NoOutput = NoOutput /\ S!Malformed = Malformed
      /\ G!None = None /\ G!NoQuery = NoQuery /\ G!NoOutput = NoOutput /\ G!Malformed = Malformed
      /\ S!Routable = Routable /\ G!Routable = Routable
  BY DEF S!None, None, S!NoQuery, NoQuery, S!NoOutput, NoOutput, S!Malformed, Malformed, G!None, G!NoQuery,
         G!NoOutput, G!Malformed, S!Routable, Routable, G!Routable
<1>2. /\ \A x : S!Output(x) = Output(x) /\ G!Output(x) = Output(x) /\ S!Search(x) = Search(x) /\ G!Search(x) = Search(x)
      /\ \A x, y : S!Result(x, y) = Result(x, y) /\ G!Result(x, y) = Result(x, y)
  BY <1>1 DEF S!Output, Output, G!Output, S!Search, Search, G!Search, S!Result, Result, G!Result
<1>3. S!Raises = Raises /\ G!Raises = Raises
  BY <1>1, <1>2 DEF S!Raises, Raises, G!Raises
<1>4. S!Searches(shared) = Searches(shared) /\ G!Searches(shared) = Searches(shared)
  BY DEF S!Searches, Searches, G!Searches
<1>5. S!KnowledgeFound(shared) <=> KnowledgeFound(shared)
  BY <1>4 DEF S!KnowledgeFound, KnowledgeFound
<1>6. G!KnowledgeFound(shared) <=> KnowledgeFound(shared)
  BY <1>4 DEF G!KnowledgeFound, KnowledgeFound
<1>7. \A x, y : S!Consumed(x, y) = Consumed(x, y) /\ G!Consumed(x, y) = Consumed(x, y)
  BY DEF S!Consumed, Consumed, S!Contains, Contains, G!Consumed, G!Contains
<1>8. /\ S!Planner(task, answer) = Planner(task, answer) /\ G!Planner(task, answer) = Planner(task, answer)
  BY <1>1, <1>2, <1>3 DEF S!Planner, Planner, G!Planner
<1>9. /\ S!Router(task, shared, answer) = Router(task, shared, answer)
      /\ G!Router(task, shared, answer) = Router(task, shared, answer)
  BY <1>1, <1>2, <1>3, <1>5, <1>6 DEF S!Router, Router, G!Router
<1>10. /\ S!Knowledge(refs, shared) = Knowledge(refs, shared)
       /\ G!Knowledge(refs, shared) = Knowledge(refs, shared)
  BY <1>2, <1>4, <1>7 DEF S!Knowledge, Knowledge, G!Knowledge
<1>11. /\ S!Executor(shared, answer) = Executor(shared, answer)
       /\ G!Executor(shared, answer) = Executor(shared, answer)
  BY <1>2 DEF S!Executor, Executor, G!Executor
<1>12. /\ S!DraftOnly(shared) <=> DraftOnly(shared)
       /\ G!DraftOnly(shared) <=> DraftOnly(shared)
  BY DEF S!DraftOnly, DraftOnly, G!DraftOnly
<1>13. /\ S!Reviewer(task, shared, answer) = Reviewer(task, shared, answer)
       /\ G!Reviewer(task, shared, answer) = Reviewer(task, shared, answer)
  BY <1>1, <1>2, <1>12 DEF S!Reviewer, Reviewer, G!Reviewer
<1>q. QED  BY <1>8, <1>9, <1>10, <1>11, <1>13

LEMMA AgentsAlike ==
  ASSUME NEW a, NEW refs, NEW shared, NEW answer, NEW plugin
  PROVE  /\ S!AgentRun(a, task, refs, shared, answer, plugin) = AgentRun(a, task, refs, shared, answer, plugin)
         /\ G!AgentRun(a, task, refs, shared, answer, plugin) = AgentRun(a, task, refs, shared, answer, plugin)
BY SameRules DEF S!AgentRun, AgentRun, G!AgentRun

LEMMA ToolsAlike ==
  ASSUME NEW a, NEW c, NEW reply
  PROVE  /\ S!Execute(a, c, reply) = Execute(a, c, reply) /\ G!Execute(a, c, reply) = Execute(a, c, reply)
         /\ S!ExecuteRaises(a, c, reply) <=> ExecuteRaises(a, c, reply)
         /\ G!ExecuteRaises(a, c, reply) <=> ExecuteRaises(a, c, reply)
<1>1. /\ S!AllowedTools(a) = AllowedTools(a) /\ G!AllowedTools(a) = AllowedTools(a)
      /\ S!RegisteredTools = RegisteredTools /\ G!RegisteredTools = RegisteredTools
  BY DEF S!AllowedTools, AllowedTools, G!AllowedTools, S!RegisteredTools, RegisteredTools, G!RegisteredTools
<1>2. \A s, again : /\ S!ToolResult(c, s, again) = ToolResult(c, s, again)
                    /\ G!ToolResult(c, s, again) = ToolResult(c, s, again)
  BY DEF S!ToolResult, ToolResult, G!ToolResult
<1>3. /\ S!KnowledgeSearch(c, reply) = KnowledgeSearch(c, reply)
      /\ G!KnowledgeSearch(c, reply) = KnowledgeSearch(c, reply)
      /\ S!HttpRequest(c, reply) = HttpRequest(c, reply)
      /\ G!HttpRequest(c, reply) = HttpRequest(c, reply)
  BY <1>2 DEF S!KnowledgeSearch, KnowledgeSearch, G!KnowledgeSearch, S!HttpRequest, HttpRequest, G!HttpRequest
<1>4. S!Execute(a, c, reply) = Execute(a, c, reply) /\ G!Execute(a, c, reply) = Execute(a, c, reply)
  BY <1>1, <1>2, <1>3 DEF S!Execute, Execute, G!Execute
<1>q. QED  BY <1>1, <1>4 DEF S!ExecuteRaises, ExecuteRaises, G!ExecuteRaises

-----------------------------------------------------------------------------
(* Where a run stands, as both runners can be read, and how it goes on,    *)
(* given all the inputs it will meet.                                      *)

Place(s, at, n, b, c) == [st |-> s, pc |-> at, step |-> n, batch |-> b, calls |-> c]
NoBatch == [todo |-> <<>>, done |-> <<>>, next |-> None]

\* The run ends in state s, for the trailer to store.
EndsIn(a, b, s) == b = Place(s, "trailer", a.step, a.batch, a.calls)

\* The agent of a has returned r.
AgentMoves(t, a, r, b) ==
  LET s == ApplyResult(a.st, a.step, a.st.current, r)
      on == r.ok /\ r.status # "failed" /\ ~WantsHuman(r)
  IN  \/ ~r.ok /\ r.long /\ b.pc = "raised"
      \/ ~r.ok /\ ~r.long /\ EndsIn(a, b, Stop(s, "agent_exception"))
      \/ r.ok /\ r.status = "failed" /\ EndsIn(a, b, Stop(s, "agent_failed"))
      \/ r.ok /\ r.status # "failed" /\ WantsHuman(r) /\ EndsIn(a, b, Terminate(s, "needs_human_review"))
      \/ on /\ r.calls # <<>> /\ t.executor
         /\ b = Place(s, "tools", a.step, [todo |-> r.calls, done |-> <<>>, next |-> r.next], a.calls)
      \/ on /\ r.calls # <<>> /\ ~t.executor /\ EndsIn(a, b, Stop(s, "tool_executor_unavailable"))
      \/ on /\ r.calls = <<>> /\ r.next = None /\ EndsIn(a, b, Stop(s, "natural_completion"))
      \/ on /\ r.calls = <<>> /\ r.next # None
         /\ b = Place(Hand(s, r.next), "agents", a.step + 1, a.batch, a.calls)

\* The next tool of the batch has replied.
ToolMoves(a, reply, b) ==
  LET owner == Last(a.st.path)
      result == Execute(owner, Head(a.batch.todo), reply)
      done == Append(a.batch.done, result)
      with == AppendToolResult(a.st, owner, result)
      raises == ExecuteRaises(owner, Head(a.batch.todo), reply)
  IN  \/ raises /\ b.pc = "raised"
      \/ ~raises /\ result.status = "success"
         /\ b = Place(with, "tools", a.step,
                      [todo |-> Tail(a.batch.todo), done |-> done, next |-> a.batch.next], a.calls + 1)
      \/ ~raises /\ result.status # "success"
         /\ b = Place(Stop(SetLastResults(with, done), "tool_failed"), "trailer", a.step, NoBatch, a.calls + 1)

\* No tool of the batch is left.
BatchDone(a, b) ==
  LET with == SetLastResults(a.st, a.batch.done)
  IN  \/ a.batch.next = None
         /\ b = Place(Stop(with, "natural_completion"), "trailer", a.step, NoBatch, a.calls)
      \/ a.batch.next # None
         /\ b = Place(Hand(with, a.batch.next), "agents", a.step + 1, NoBatch, a.calls)

AgentReply(t, s, x) == AgentRun(s.current, t, s.refs, s.shared, x.answer, x.plugin)

Follows(t, ans, rep, a, b) ==
  \/ a.pc = "start" /\ b = Place(Start(a.st, t.initial), "agents", a.step, a.batch, a.calls)
  \/ a.pc = "agents" /\ a.step > t.max_steps /\ EndsIn(a, b, Terminate(a.st, "max_steps_exceeded"))
  \/ a.pc = "agents" /\ a.step <= t.max_steps /\ a.st.current \notin Registered
     /\ EndsIn(a, b, Terminate(a.st, "agent_not_registered"))
  \/ a.pc = "agents" /\ a.step <= t.max_steps /\ a.st.current \in Registered /\ a.step \in DOMAIN ans
     /\ AgentMoves(t, a, AgentReply(t, a.st, ans[a.step]), b)
  \/ a.pc = "tools" /\ a.batch.todo # <<>> /\ (a.calls + 1) \in DOMAIN rep
     /\ ToolMoves(a, rep[a.calls + 1], b)
  \/ a.pc = "tools" /\ a.batch.todo = <<>> /\ BatchDone(a, b)
  \/ a.pc = "trailer" /\ b = Place(SyncKnowledgeRefs(a.st), "done", a.step, a.batch, a.calls)

\* b is where the run stands some steps after a.
Trail(t, ans, rep, a, b, n, way) ==
  n \in Nat /\ way[0] = a /\ way[n] = b /\ \A i \in 0..(n - 1) : Follows(t, ans, rep, way[i], way[i + 1])
Leads(t, ans, rep, a, b) == \E n, way : Trail(t, ans, rep, a, b, n, way)

\* More is known of the inputs.
Prolongs(x, y) == \A i \in DOMAIN x : i \in DOMAIN y /\ y[i] = x[i]

LEMMA LeadsSelf == ASSUME NEW t, NEW ans, NEW rep, NEW a PROVE Leads(t, ans, rep, a, a)
<1>1. Trail(t, ans, rep, a, a, 0, [i \in {0} |-> a])
  BY DEF Trail
<1>q. QED  BY <1>1 DEF Leads

LEMMA LeadsOn ==
  ASSUME NEW t, NEW ans, NEW rep, NEW a, NEW b, NEW c, Leads(t, ans, rep, a, b), Follows(t, ans, rep, b, c)
  PROVE  Leads(t, ans, rep, a, c)
<1>1. PICK n, way : Trail(t, ans, rep, a, b, n, way)
  BY DEF Leads
<1> DEFINE more == [i \in 0..(n + 1) |-> IF i <= n THEN way[i] ELSE c]
<1>2. n \in Nat /\ n + 1 \in Nat /\ more[0] = a /\ more[n + 1] = c
  BY <1>1 DEF Trail
<1>3. ASSUME NEW i \in 0..((n + 1) - 1) PROVE Follows(t, ans, rep, more[i], more[i + 1])
  <2>1. CASE i = n
    <3>1. more[i] = b /\ more[i + 1] = c
      BY <1>1, <2>1 DEF Trail
    <3>q. QED  BY <3>1
  <2>2. CASE i # n
    <3>1. i \in 0..(n - 1) /\ more[i] = way[i] /\ more[i + 1] = way[i + 1]
      BY <1>1, <1>3, <2>2 DEF Trail
    <3> HIDE DEF more
    <3>q. QED  BY <1>1, <3>1 DEF Trail
  <2>q. QED  BY <2>1, <2>2
<1> HIDE DEF more
<1>4. Trail(t, ans, rep, a, c, n + 1, more)
  BY <1>2, <1>3 DEF Trail
<1>q. QED  BY <1>4 DEF Leads

LEMMA LeadsFrom ==
  ASSUME NEW t, NEW ans, NEW rep, NEW a, NEW b, Leads(t, ans, rep, a, b), a # b
  PROVE  \E c : Follows(t, ans, rep, a, c) /\ Leads(t, ans, rep, c, b)
<1>1. PICK n, way : Trail(t, ans, rep, a, b, n, way)
  BY DEF Leads
<1>2. n \in Nat /\ n # 0 /\ way[0] = a /\ way[n] = b
  BY <1>1 DEF Trail
<1> DEFINE rest == [i \in 0..(n - 1) |-> way[i + 1]]
<1>3. n - 1 \in Nat /\ rest[0] = way[1] /\ rest[n - 1] = b
  BY <1>2
<1>4. Follows(t, ans, rep, a, way[1])
  <2>1. 0 \in 0..(n - 1) /\ 0 + 1 = 1
    BY <1>2
  <2>q. QED  BY <1>1, <2>1 DEF Trail
<1>5. ASSUME NEW i \in 0..((n - 1) - 1) PROVE Follows(t, ans, rep, rest[i], rest[i + 1])
  <2>1. rest[i] = way[i + 1] /\ rest[i + 1] = way[(i + 1) + 1] /\ i + 1 \in 0..(n - 1)
    BY <1>2, <1>5
  <2> HIDE DEF rest
  <2>q. QED  BY <1>1, <2>1 DEF Trail
<1> HIDE DEF rest
<1>6. Trail(t, ans, rep, way[1], b, n - 1, rest)
  BY <1>3, <1>5 DEF Trail
<1>q. QED  BY <1>4, <1>6 DEF Leads

LEMMA LeadsStill ==
  ASSUME NEW t, NEW ans, NEW rep, NEW a, NEW b, Leads(t, ans, rep, a, b),
         NEW more, Prolongs(ans, more), NEW others, Prolongs(rep, others)
  PROVE  Leads(t, more, others, a, b)
<1>1. ASSUME NEW c, NEW d, Follows(t, ans, rep, c, d) PROVE Follows(t, more, others, c, d)
  BY <1>1 DEF Follows, Prolongs
<1>2. PICK n, way : Trail(t, ans, rep, a, b, n, way)
  BY DEF Leads
<1>3. Trail(t, more, others, a, b, n, way)
  BY <1>1, <1>2 DEF Trail
<1>q. QED  BY <1>3 DEF Leads

-----------------------------------------------------------------------------
(* The loop takes one step of this after another, and what it has met so   *)
(* far are the inputs of the steps it took.                                *)

Snap == Place(sst, pc, step, batch, scalls)

InputsInv ==
  /\ Listed(answers) /\ Listed(replies) /\ nodes \in Nat
  /\ pc \in {"start", "agents"} => Len(answers) = step - 1
  /\ pc = "tools" => Len(answers) = step
  /\ pc \in {"start", "agents", "tools"} => Len(replies) = scalls
  /\ pc = "done" => sstored = Record(sst)

\* An input that comes next is noted as the last one.
LEMMA NotedNext ==
  ASSUME NEW x, Listed(x), NEW n, n = Len(x) + 1, NEW e
  PROVE  /\ S!Noted(x, n, e) = Append(x, e) /\ Listed(Append(x, e)) /\ Len(Append(x, e)) = n
         /\ n \in DOMAIN Append(x, e) /\ Append(x, e)[n] = e /\ Prolongs(x, Append(x, e))
BY ListedAppend DEF S!Noted, Prolongs

LEMMA ProlongsSelf == ASSUME NEW x PROVE Prolongs(x, x)
BY DEF Prolongs

\* What a step of the loop shows: it follows, and more or the same is known.
SimpleShows ==
  /\ Follows(task, answers', replies', Snap, Snap')
  /\ Prolongs(answers, answers') /\ Prolongs(replies, replies')

LEMMA SimpleRunFollows ==
  ASSUME SimpleInv, InputsInv, S!RunStep
  PROVE  SimpleShows /\ task' = task /\ (UNCHANGED graphVars => InputsInv')
<1>1. PICK x, r :
        /\ r = S!AgentRun(sst.current, task, sst.refs, sst.shared, x.answer, x.plugin)
        /\ \/ S!AgentRaises(x, r) \/ S!AgentFails(x, r) \/ S!AgentWantsHuman(x, r) \/ S!AgentCallsTools(x, r)
           \/ S!AgentFindsNoExecutor(x, r) \/ S!AgentEnds(x, r) \/ S!AgentHandsOver(x, r)
  BY DEF S!RunStep
<1>2. S!Returns(x)
  BY <1>1 DEF S!AgentRaises, S!AgentFails, S!AgentWantsHuman, S!AgentCallsTools, S!AgentFindsNoExecutor,
              S!AgentEnds, S!AgentHandsOver, S!GoesOn
<1>3. /\ pc = "agents" /\ step \in Nat /\ task.max_steps \in Nat /\ step <= task.max_steps
      /\ sst.current \in Registered /\ Len(answers) = step - 1
      /\ task' = task /\ replies' = replies /\ scalls' = scalls /\ sstored' = sstored
      /\ answers' = S!Noted(answers, step, x) /\ Len(replies) = scalls
  BY <1>2, SimpleTaken DEF SimpleInv, Requested, InputsInv, S!Returns
<1>4. /\ answers' = Append(answers, x) /\ Listed(answers') /\ Len(answers') = step
      /\ step \in DOMAIN answers' /\ answers'[step] = x /\ Prolongs(answers, answers')
  <2>1. Listed(answers) /\ step = Len(answers) + 1
    BY <1>3, ListedAppend DEF InputsInv
  <2>2. /\ S!Noted(answers, step, x) = Append(answers, x) /\ Listed(Append(answers, x))
        /\ Len(Append(answers, x)) = step /\ step \in DOMAIN Append(answers, x)
        /\ Append(answers, x)[step] = x /\ Prolongs(answers, Append(answers, x))
    BY <2>1, NotedNext
  <2>3. answers' = Append(answers, x)
    BY <1>3, <2>2
  <2>q. QED  BY <2>2, <2>3, Zenon
<1>5. r = AgentReply(task, sst, answers'[step])
  BY <1>1, <1>4, AgentsAlike DEF AgentReply
<1>6. S!Applied(r) = ApplyResult(sst, step, sst.current, r)
  BY SimpleAlike DEF S!Applied
<1>7. S!None = None /\ (S!WantsHuman(r) <=> WantsHuman(r))
  BY SimpleAlike
<1>8. AgentMoves(task, Snap, r, Snap') /\ pc' \in {"agents", "tools", "trailer", "raised"}
      /\ (pc' = "agents" => step' = step + 1) /\ (pc' = "tools" => step' = step)
  <2> DEFINE s == ApplyResult(sst, step, sst.current, r)
  <2>1. /\ Snap.st = sst /\ Snap.pc = "agents" /\ Snap.step = step /\ Snap.batch = batch /\ Snap.calls = scalls
        /\ Snap' = Place(sst', pc', step', batch', scalls')
    BY <1>3 DEF Snap, Place
  <2>2. Snap'.pc = pc'
    BY <2>1 DEF Place
  <2> HIDE DEF s
  <2>3. CASE S!AgentRaises(x, r)
    <3>1. CASE r.long
      <4>1. ~r.ok /\ pc' = "raised"
        BY <2>3, <3>1 DEF S!AgentRaises
      <4>q. QED  BY <2>2, <3>1, <4>1 DEF AgentMoves
    <3>2. CASE ~r.long
      <4>1. ~r.ok /\ pc' = "trailer" /\ sst' = Stop(s, "agent_exception") /\ step' = step /\ batch' = batch
        BY <1>6, <2>3, <3>2, SimpleAlike DEF S!AgentRaises, s
      <4>q. QED  BY <1>3, <2>1, <3>2, <4>1 DEF AgentMoves, EndsIn, s
    <3>q. QED  BY <3>1, <3>2
  <2>4. CASE S!AgentFails(x, r)
    <3>1. /\ r.ok /\ r.status = "failed" /\ pc' = "trailer" /\ sst' = Stop(s, "agent_failed")
          /\ step' = step /\ batch' = batch
      BY <1>6, <2>4, SimpleAlike DEF S!AgentFails, s
    <3>q. QED  BY <1>3, <2>1, <3>1 DEF AgentMoves, EndsIn, s
  <2>5. CASE S!AgentWantsHuman(x, r)
    <3>1. /\ r.ok /\ r.status # "failed" /\ WantsHuman(r) /\ pc' = "trailer"
          /\ sst' = Terminate(s, "needs_human_review") /\ step' = step /\ batch' = batch
      BY <1>6, <1>7, <2>5, SimpleAlike DEF S!AgentWantsHuman, s
    <3>q. QED  BY <1>3, <2>1, <3>1 DEF AgentMoves, EndsIn, s
  <2>6. CASE S!AgentCallsTools(x, r)
    <3>1. /\ r.ok /\ r.status # "failed" /\ ~WantsHuman(r) /\ r.calls # <<>> /\ task.executor /\ pc' = "tools"
          /\ sst' = s /\ step' = step /\ batch' = [todo |-> r.calls, done |-> <<>>, next |-> r.next]
      BY <1>6, <1>7, <2>6 DEF S!AgentCallsTools, S!GoesOn, s
    <3>q. QED  BY <1>3, <2>1, <3>1 DEF AgentMoves, s
  <2>7. CASE S!AgentFindsNoExecutor(x, r)
    <3>1. /\ r.ok /\ r.status # "failed" /\ ~WantsHuman(r) /\ r.calls # <<>> /\ ~task.executor /\ pc' = "trailer"
          /\ sst' = Stop(s, "tool_executor_unavailable") /\ step' = step /\ batch' = batch
      BY <1>6, <1>7, <2>7, SimpleAlike DEF S!AgentFindsNoExecutor, S!GoesOn, s
    <3>q. QED  BY <1>3, <2>1, <3>1 DEF AgentMoves, EndsIn, s
  <2>8. CASE S!AgentEnds(x, r)
    <3>1. /\ r.ok /\ r.status # "failed" /\ ~WantsHuman(r) /\ r.calls = <<>> /\ r.next = None /\ pc' = "trailer"
          /\ sst' = Stop(s, "natural_completion") /\ step' = step /\ batch' = batch
      BY <1>6, <1>7, <2>8, SimpleAlike DEF S!AgentEnds, S!GoesOn, s
    <3>q. QED  BY <1>3, <2>1, <3>1 DEF AgentMoves, EndsIn, s
  <2>9. CASE S!AgentHandsOver(x, r)
    <3>1. /\ r.ok /\ r.status # "failed" /\ ~WantsHuman(r) /\ r.calls = <<>> /\ r.next # None /\ pc' = pc
          /\ step' = step + 1 /\ batch' = batch
      BY <1>7, <2>9 DEF S!AgentHandsOver, S!GoesOn
    <3>2. sst' = Hand(s, r.next)
      BY <1>6, <2>9, Zenon DEF S!AgentHandsOver, Hand, s
    <3>q. QED  BY <1>3, <2>1, <3>1, <3>2 DEF AgentMoves, s
  <2>q. QED  BY <1>1, <2>3, <2>4, <2>5, <2>6, <2>7, <2>8, <2>9
<1>9. Follows(task, answers', replies', Snap, Snap')
  <2>1. Snap.st = sst /\ Snap.pc = "agents" /\ Snap.step = step
    BY <1>3 DEF Snap, Place
  <2>q. QED  BY <1>3, <1>4, <1>5, <1>8, <2>1 DEF Follows
<1>10. ASSUME UNCHANGED graphVars PROVE InputsInv'
  <2>1. nodes' = nodes
    BY <1>10 DEF graphVars
  <2>q. QED  BY <1>3, <1>4, <1>8, <2>1 DEF InputsInv
<1>q. QED  BY <1>3, <1>4, <1>9, <1>10, ProlongsSelf DEF SimpleShows

LEMMA SimpleOthersFollow ==
  ASSUME SimpleInv, SimpleRules, InputsInv, S!Next, ~S!RunStep
  PROVE  SimpleShows /\ task' = task /\ (UNCHANGED graphVars => InputsInv')
<1>1. /\ Snap.st = sst /\ Snap.pc = pc /\ Snap.step = step /\ Snap.batch = batch /\ Snap.calls = scalls
      /\ Snap' = Place(sst', pc', step', batch', scalls')
  BY DEF Snap, Place
<1>2. task' = task
  BY RequestKept
\* A step that meets nothing.
<1>3. ASSUME UNCHANGED <<answers, replies>>, Follows(task, answers, replies, Snap, Snap')
      PROVE  SimpleShows
  BY <1>3, ProlongsSelf DEF SimpleShows
<1>4. /\ Listed(answers) /\ Listed(replies) /\ nodes \in Nat
      /\ UNCHANGED graphVars => nodes' = nodes
  BY DEF InputsInv, graphVars
<1>5. CASE S!Begin
  <2>1. /\ pc = "start" /\ pc' = "agents" /\ UNCHANGED <<step, batch, scalls, answers, replies>>
    BY <1>5 DEF S!Begin, S!inputVars
  <2>2. sst' = Start(sst, task.initial)
    BY <1>5, Zenon DEF S!Begin, Start
  <2>3. Follows(task, answers, replies, Snap, Snap')
    BY <1>1, <2>1, <2>2 DEF Follows
  <2>4. UNCHANGED graphVars => InputsInv'
    BY <1>4, <2>1 DEF InputsInv
  <2>q. QED  BY <1>2, <1>3, <2>1, <2>3, <2>4
<1>6. CASE S!AgentNotRegistered \/ S!LoopExhausted
  <2>1. /\ pc = "agents" /\ pc' = "trailer" /\ UNCHANGED <<step, batch, scalls, answers, replies>>
        /\ \/ step <= task.max_steps /\ sst.current \notin Registered
              /\ sst' = Terminate(sst, "agent_not_registered")
           \/ step > task.max_steps /\ sst' = Terminate(sst, "max_steps_exceeded")
    BY <1>6, SimpleAlike DEF S!AgentNotRegistered, S!LoopExhausted, S!InLoop, S!WithinSteps, S!inputVars,
                             SimpleInv, Requested
  <2>2. Follows(task, answers, replies, Snap, Snap')
    BY <1>1, <2>1 DEF Follows, EndsIn
  <2>3. UNCHANGED graphVars => InputsInv'
    BY <1>4, <2>1 DEF InputsInv
  <2>q. QED  BY <1>2, <1>3, <2>1, <2>2, <2>3
\* A tool replies.
<1>7. ASSUME NEW reply, S!Calls(reply)
      PROVE  /\ pc = "tools" /\ batch.todo # <<>> /\ scalls' = scalls + 1 /\ step' = step /\ answers' = answers
             /\ sstored' = sstored
             /\ Listed(replies') /\ Len(replies') = scalls' /\ scalls + 1 \in DOMAIN replies'
             /\ replies'[scalls + 1] = reply /\ Prolongs(replies, replies')
             /\ Len(answers) = step
  <2>1. /\ pc = "tools" /\ batch.todo # <<>> /\ scalls' = scalls + 1 /\ step' = step /\ answers' = answers
        /\ sstored' = sstored /\ replies' = S!Noted(replies, scalls + 1, reply)
    BY <1>7 DEF S!Calls
  <2>2. Listed(replies) /\ scalls + 1 = Len(replies) + 1 /\ Len(answers) = step
    BY <2>1 DEF InputsInv
  <2>3. /\ S!Noted(replies, scalls + 1, reply) = Append(replies, reply) /\ Listed(Append(replies, reply))
        /\ Len(Append(replies, reply)) = scalls + 1 /\ scalls + 1 \in DOMAIN Append(replies, reply)
        /\ Append(replies, reply)[scalls + 1] = reply /\ Prolongs(replies, Append(replies, reply))
    BY <2>2, NotedNext
  <2>4. replies' = Append(replies, reply)
    BY <2>1, <2>3
  <2>q. QED  BY <2>1, <2>2, <2>3, <2>4, Zenon
<1>8. ASSUME NEW reply, S!Calls(reply), ToolMoves(Snap, reply, Snap'), pc' \in {"tools", "trailer", "raised"}
      PROVE  SimpleShows /\ (UNCHANGED graphVars => InputsInv')
  <2>1. Follows(task, answers', replies', Snap, Snap')
    BY <1>1, <1>7, <1>8 DEF Follows
  <2>2. UNCHANGED graphVars => InputsInv'
    BY <1>4, <1>7, <1>8 DEF InputsInv
  <2>q. QED  BY <1>7, <1>8, <2>1, <2>2, ProlongsSelf DEF SimpleShows
<1>9. ASSUME NEW reply, S!ToolRaises(reply) PROVE SimpleShows /\ (UNCHANGED graphVars => InputsInv')
  <2>1. S!Calls(reply) /\ ExecuteRaises(Last(sst.path), Head(batch.todo), reply) /\ pc' = "raised"
    BY <1>9, ToolsAlike DEF S!ToolRaises, S!Owner, S!Last, Last
  <2>2. ToolMoves(Snap, reply, Snap')
    BY <1>1, <2>1 DEF ToolMoves, Place
  <2>q. QED  BY <1>8, <2>1, <2>2
<1>10. ASSUME NEW reply, S!ToolReturns(reply) PROVE SimpleShows /\ (UNCHANGED graphVars => InputsInv')
  <2> DEFINE owner == Last(sst.path)
             result == Execute(owner, Head(batch.todo), reply)
             done == Append(batch.done, result)
             with == AppendToolResult(sst, owner, result)
  <2>1. S!Owner = owner /\ S!Execute(S!Owner, Head(batch.todo), reply) = result
        /\ S!AppendToolResult(sst, S!Owner, result) = with
    BY SimpleAlike, ToolsAlike DEF S!Owner, S!Last, Last
  <2>2. S!Calls(reply) /\ ~ExecuteRaises(owner, Head(batch.todo), reply)
    BY <1>10, <2>1, ToolsAlike DEF S!ToolReturns
  <2>3. \/ /\ result.status = "success" /\ sst' = with /\ pc' = pc
           /\ batch' = [batch EXCEPT !.todo = Tail(@), !.done = done]
        \/ /\ result.status # "success" /\ sst' = S!Stop(S!SetLastResults(with, done), "tool_failed")
           /\ batch' = S!NoBatch /\ pc' = "trailer"
    BY <1>10, <2>1, Zenon DEF S!ToolReturns
  <2> HIDE DEF owner, result, done, with
  <2>4. /\ pc = "tools" /\ step' = step /\ scalls' = scalls + 1
    BY <1>7, <2>2
  <2>5. batch = [f \in BatchFields |-> batch[f]]
    BY <2>4 DEF SimpleRules
  <2>6. CASE /\ result.status = "success" /\ sst' = with /\ pc' = pc
             /\ batch' = [batch EXCEPT !.todo = Tail(@), !.done = done]
    <3>1. batch' = [todo |-> Tail(batch.todo), done |-> done, next |-> batch.next]
      BY <2>5, <2>6 DEF BatchFields
    <3>2. ToolMoves(Snap, reply, Snap')
      BY <1>1, <2>2, <2>4, <2>6, <3>1 DEF ToolMoves, owner, result, done, with
    <3>q. QED  BY <1>8, <2>2, <2>4, <2>6, <3>2
  <2>7. CASE /\ result.status # "success" /\ sst' = S!Stop(S!SetLastResults(with, done), "tool_failed")
             /\ batch' = S!NoBatch /\ pc' = "trailer"
    <3>1. sst' = Stop(SetLastResults(with, done), "tool_failed") /\ batch' = NoBatch
      BY <2>7, SimpleAlike DEF NoBatch
    <3>2. ToolMoves(Snap, reply, Snap')
      BY <1>1, <2>2, <2>4, <2>7, <3>1 DEF ToolMoves, owner, result, done, with
    <3>q. QED  BY <1>8, <2>2, <2>7, <3>2
  <2>q. QED  BY <2>3, <2>6, <2>7
<1>11. CASE S!ToolsDone
  <2> DEFINE with == SetLastResults(sst, batch.done)
  <2>1. /\ pc = "tools" /\ batch.todo = <<>> /\ batch' = NoBatch
        /\ UNCHANGED <<scalls, sstored, answers, replies>>
        /\ \/ batch.next = None /\ sst' = Stop(with, "natural_completion") /\ pc' = "trailer" /\ step' = step
           \/ batch.next # None /\ sst' = [with EXCEPT !.current = batch.next] /\ pc' = "agents" /\ step' = step + 1
    BY <1>11, SimpleAlike DEF S!ToolsDone, S!inputVars, NoBatch
  <2>2. BatchDone(Snap, Snap')
    BY <1>1, <2>1 DEF BatchDone, Hand
  <2>3. Follows(task, answers, replies, Snap, Snap')
    BY <1>1, <2>1, <2>2 DEF Follows
  <2>4. UNCHANGED graphVars => InputsInv'
    <3>1. Len(answers) = step /\ Len(replies) = scalls
      BY <2>1 DEF InputsInv
    <3>q. QED  BY <1>4, <2>1, <3>1 DEF InputsInv, SimpleInv
  <2>q. QED  BY <1>2, <1>3, <2>1, <2>3, <2>4
<1>12. CASE S!Finish
  <2>1. /\ pc = "trailer" /\ pc' = "done" /\ UNCHANGED <<step, batch, scalls, answers, replies>>
        /\ sst' = SyncKnowledgeRefs(sst) /\ sstored' = Record(sst')
    BY <1>12, SimpleAlike DEF S!Finish, S!inputVars
  <2>2. Follows(task, answers, replies, Snap, Snap')
    BY <1>1, <2>1 DEF Follows
  <2>3. UNCHANGED graphVars => InputsInv'
    BY <1>4, <2>1 DEF InputsInv, Record
  <2>q. QED  BY <1>2, <1>3, <2>1, <2>2, <2>3
<1>q. QED  BY <1>2, <1>5, <1>6, <1>9, <1>10, <1>11, <1>12 DEF S!Next, S!ToolStep

-----------------------------------------------------------------------------
(* The graph stands where the loop stood at some step of its way.          *)

\* The graph forgets the agent of a run that waits for a human.
Alike(g, s) == Shaped(s) /\ g = IF s.status = "needs_human_review" THEN Hand(s, None) ELSE s

Mirrors(z) ==
  \/ /\ \/ node = "start" /\ z.pc = "start"
        \/ node = "agent_step" /\ z.pc = "agents"
     /\ z.st = gst /\ z.step = step_index + 1 /\ z.calls = gcalls /\ results = <<>>
  \/ /\ node \in {"tool_step", "tools"} /\ task.executor /\ z.pc = "tools"
     /\ z.st = gst /\ z.step = step_index /\ z.calls = gcalls
     /\ z.batch = [todo |-> G!Todo, done |-> results, next |-> pending.next]
     /\ pending.owner = Last(gst.path) /\ Listed(pending.calls) /\ Listed(results)
  \/ node = "tool_step" /\ ~task.executor /\ z.pc = "trailer" /\ z.st = Stop(gst, "tool_executor_unavailable")
  \/ node = "end" /\ z.pc = "trailer" /\ Alike(gst, z.st)
  \/ node = "done" /\ z.pc = "done" /\ Alike(gst, z.st) /\ gstored = Record(gst)
  \/ node = "raised" /\ z.pc = "raised"

LEMMA AlikeEnds ==
  ASSUME NEW s, Shaped(s)
  PROVE  /\ \A r \in Reasons \ {"needs_human_review"} :
              Alike(Stop(s, r), Stop(s, r)) /\ Alike(Terminate(s, r), Terminate(s, r))
         /\ Alike(Stop(s, "needs_human_review"), Terminate(s, "needs_human_review"))
<1>1. /\ Shaped(Stop(s, "needs_human_review")) /\ Shaped(Terminate(s, "needs_human_review"))
      /\ Terminate(s, "needs_human_review").status = "needs_human_review"
      /\ Stop(s, "needs_human_review") = Hand(Terminate(s, "needs_human_review"), None)
  BY DEF Shaped, Fields, Stop, Terminate, Hand, StatusOf
<1>2. ASSUME NEW r \in Reasons \ {"needs_human_review"}
      PROVE  Alike(Stop(s, r), Stop(s, r)) /\ Alike(Terminate(s, r), Terminate(s, r))
  <2>1. StatusOf[r] # "needs_human_review"
    BY ReasonFacts DEF StatusOf
  <2>2. /\ Shaped(Stop(s, r)) /\ Shaped(Terminate(s, r))
        /\ Stop(s, r).status = StatusOf[r] /\ Terminate(s, r).status = StatusOf[r]
    BY DEF Shaped, Fields, Stop, Terminate
  <2>q. QED  BY <2>1, <2>2 DEF Alike
<1>q. QED  BY <1>1, <1>2 DEF Alike

LEMMA AlikeSynced ==
  ASSUME NEW g, NEW s, Alike(g, s)
  PROVE  Alike(SyncKnowledgeRefs(g), SyncKnowledgeRefs(s))
<1>1. Shaped(s) /\ g = IF s.status = "needs_human_review" THEN Hand(s, None) ELSE s
  BY DEF Alike
<1>2. Shaped(SyncKnowledgeRefs(s)) /\ SyncKnowledgeRefs(s).status = s.status
  BY <1>1 DEF Shaped, Fields, SyncKnowledgeRefs
<1>3. SyncKnowledgeRefs(Hand(s, None)) = Hand(SyncKnowledgeRefs(s), None)
  <2> DEFINE h == Hand(s, None)
  <2>1. h.refs = s.refs /\ h.shared = s.shared
    BY <1>1 DEF Hand, Shaped, Fields
  <2> DEFINE refs == Consumed(<<>>, s.refs \o s.shared.outputs["knowledge_agent"].refs)
  <2>2. SyncKnowledgeRefs(h) = [h EXCEPT !.refs = refs] /\ SyncKnowledgeRefs(s) = [s EXCEPT !.refs = refs]
    BY <2>1 DEF SyncKnowledgeRefs
  <2> HIDE DEF refs
  <2>q. QED  BY <1>1, <2>2 DEF Hand, Shaped, Fields
<1>q. QED  BY <1>1, <1>2, <1>3 DEF Alike

LEMMA AlikeStored ==
  ASSUME NEW g, NEW s, Alike(g, s)
  PROVE  /\ Record(g) = IF s.status = "needs_human_review" THEN [Record(s) EXCEPT !.current = None] ELSE Record(s)
         /\ g.shared = s.shared
BY DEF Alike, Shaped, Fields, Hand, Record

LEMMA EmptyListed == Listed(<<>>)
<1>1. <<>> \in Seq({})
  OBVIOUS
<1>q. QED  BY <1>1 DEF Listed

\* An agent asks for a list of tool calls.
LEMMA CallsListed ==
  ASSUME NEW a \in Registered, NEW x \in G!Inputs(a), NEW refs, NEW shared
  PROVE  Listed(AgentRun(a, task, refs, shared, x.answer, x.plugin).calls)
<1>1. \A q : Listed(<<Search(q)>>)
  <2>1. \A q : <<Search(q)>> \in Seq({Search(q)})
    OBVIOUS
  <2>q. QED  BY <2>1 DEF Listed
<1>2. CASE a \in SystemAgents
  <2> DEFINE r == AgentRun(a, task, refs, shared, x.answer, x.plugin)
  <2>1. \A n, o : Result(n, o).calls = <<>>
    BY DEF Result
  <2>2. Raises.calls = <<>>
    BY DEF Raises, Result
  <2>3. Planner(task, x.answer).calls = <<>> \/ \E q : Planner(task, x.answer).calls = <<Search(q)>>
    BY <2>2 DEF Planner, Result
  <2>4. Router(task, shared, x.answer).calls = <<>>
    BY <2>1, <2>2 DEF Router
  <2>5. Knowledge(refs, shared).calls = <<>> /\ Executor(shared, x.answer).calls = <<>>
    BY <2>1 DEF Knowledge, Executor
  <2>6. Reviewer(task, shared, x.answer).calls = <<>>
    BY DEF Reviewer, Result
  <2>7. r \in {Planner(task, x.answer), Router(task, shared, x.answer), Knowledge(refs, shared),
               Executor(shared, x.answer), Reviewer(task, shared, x.answer)}
    BY <1>2 DEF SystemAgents, AgentRun
  <2> HIDE DEF r
  <2>8. r.calls = <<>> \/ \E q : r.calls = <<Search(q)>>
    BY <2>3, <2>4, <2>5, <2>6, <2>7
  <2>q. QED  BY <1>1, <2>8, EmptyListed DEF r
<1>3. CASE a \notin SystemAgents
  <2>1. a \in DomainAgents
    BY <1>3 DEF Registered
  <2>2. x.plugin \in DomainResults
    BY <2>1 DEF G!Inputs
  <2>3. AgentRun(a, task, refs, shared, x.answer, x.plugin) = x.plugin
    BY <1>3 DEF AgentRun, SystemAgents
  <2>q. QED  BY <2>2, <2>3, ResultsAssumption DEF Listed
<1>q. QED  BY <1>2, <1>3

\* What is left of the calls when one more has a result.
LEMMA TodoShrinks ==
  ASSUME NEW c, Listed(c), NEW n \in Nat
  PROVE  /\ SubSeq(c, 1, Len(c)) = c
         /\ SubSeq(c, n + 1, Len(c)) # <<>> => Tail(SubSeq(c, n + 1, Len(c))) = SubSeq(c, n + 2, Len(c))
<1>1. PICK X : c \in Seq(X)
  BY DEF Listed
<1>2. Len(c) \in Nat
  BY <1>1
<1>3. SubSeq(c, 1, Len(c)) = c
  BY <1>1
<1>4. ASSUME SubSeq(c, n + 1, Len(c)) # <<>> PROVE Tail(SubSeq(c, n + 1, Len(c))) = SubSeq(c, n + 2, Len(c))
  <2>1. n + 1 <= Len(c)
    BY <1>1, <1>2, <1>4
  <2>q. QED  BY <1>1, <1>2, <2>1
<1>q. QED  BY <1>3, <1>4

\* The limits let the graph go as far as the request.
Limited == task.max_steps <= MaxGraphSteps /\ nodes < RecursionLimit

\* One step of the graph is the step that follows.
GraphShows(y) == Mirrors(y)' /\ UNCHANGED <<task, answers, replies>>

LEMMA GraphBounds ==
  ASSUME GraphInv, task.max_steps <= MaxGraphSteps
  PROVE  G!EffectiveMaxSteps = task.max_steps /\ task.max_steps \in Nat
BY LimitsAssumption DEF GraphInv, Requested, G!EffectiveMaxSteps

\* The agent of the node has returned.
LEMMA GraphRunFollows ==
  ASSUME GraphInv, Listed(answers), task.max_steps <= MaxGraphSteps, G!RunStep,
         NEW z, NEW y, Mirrors(z), Follows(task, answers, replies, z, y)
  PROVE  GraphShows(y)
<1>1. PICK x \in G!Inputs(gst.current) :
        LET r == G!AgentRun(gst.current, task, gst.refs, gst.shared, x.answer, x.plugin) IN
        \/ G!AgentRaisesOut(x, r) \/ G!AgentRaises(x, r) \/ G!AgentFails(x, r) \/ G!AgentWantsHuman(x, r)
        \/ G!AgentCallsTools(x, r) \/ G!AgentEnds(x, r) \/ G!AgentHandsOver(x, r)
  BY DEF G!RunStep
<1> DEFINE r == G!AgentRun(gst.current, task, gst.refs, gst.shared, x.answer, x.plugin)
           s == ApplyResult(gst, step_index + 1, gst.current, r)
<1>r. r = AgentRun(gst.current, task, gst.refs, gst.shared, x.answer, x.plugin)
  BY AgentsAlike
<1>0. \/ G!AgentRaisesOut(x, r) \/ G!AgentRaises(x, r) \/ G!AgentFails(x, r) \/ G!AgentWantsHuman(x, r)
      \/ G!AgentCallsTools(x, r) \/ G!AgentEnds(x, r) \/ G!AgentHandsOver(x, r)
  BY <1>1
<1> HIDE DEF r
<1>2. G!Returns(x)
  BY <1>0 DEF G!AgentRaisesOut, G!AgentRaises, G!AgentFails, G!AgentWantsHuman, G!AgentCallsTools,
              G!AgentEnds, G!AgentHandsOver, G!GoesOn
<1>3. /\ node = "agent_step" /\ gst.current \in Registered /\ step_index \in Nat /\ Shaped(gst)
      /\ gst.path \in Seq(Registered)
      /\ task' = task /\ replies' = replies /\ results' = results /\ gcalls' = gcalls /\ gstored' = gstored
      /\ G!Meets(answers, step_index + 1, x) /\ answers' = G!Noted(answers, step_index + 1, x)
  BY <1>2, GraphTaken DEF GraphInv, G!Returns
<1>4. step_index + 1 <= task.max_steps /\ step_index + 1 \in Nat /\ task.max_steps \in Nat
  BY <1>2, <1>3, GraphBounds DEF G!Returns
<1>5. z.pc = "agents" /\ z.st = gst /\ z.step = step_index + 1 /\ z.calls = gcalls /\ results = <<>>
  BY <1>3 DEF Mirrors
<1>6. z.step \in DOMAIN answers /\ AgentMoves(task, z, AgentReply(task, z.st, answers[z.step]), y)
  BY <1>3, <1>4, <1>5 DEF Follows
<1>7. answers' = answers /\ x = answers[step_index + 1]
  <2>1. Len(answers) \in Nat /\ DOMAIN answers = 1..Len(answers)
    BY ListedAppend
  <2>2. step_index + 1 <= Len(answers)
    BY <1>4, <1>5, <1>6, <2>1
  <2>3. ~(step_index + 1 > Len(answers))
    BY <1>4, <2>1, <2>2
  <2>q. QED  BY <1>3, <2>2, <2>3, Zenon DEF G!Meets, G!Noted
<1>8. AgentMoves(task, z, r, y)
  BY <1>5, <1>6, <1>7, <1>r DEF AgentReply
<1>9. Listed(r.calls)
  BY <1>1, <1>3, <1>r, CallsListed
<1>10. G!Applied(r) = s /\ Shaped(s) /\ Underway(s) /\ s.path = Append(gst.path, gst.current)
  <2>1. G!Applied(r) = s
    BY GraphAlike DEF G!Applied
  <2>q. QED  BY <1>2, <2>1, GraphTaken
<1>11. /\ ApplyResult(z.st, z.step, z.st.current, r) = s
       /\ G!None = None /\ (G!WantsHuman(r) <=> WantsHuman(r))
  BY <1>5, GraphAlike
<1> HIDE DEF s
<1> USE ReasonFacts
\* The run ends with the reason c.
<1>12. ASSUME NEW c \in Reasons, Ended(gst', c), G!Leave(G!NothingPending), y.pc = "trailer", Alike(gst', y.st)
       PROVE  GraphShows(y)
  <2>1. node' = "end"
    BY <1>12, Edges DEF G!Leave
  <2>q. QED  BY <1>3, <1>7, <1>12, <2>1 DEF GraphShows, Mirrors
<1>13. ASSUME NEW c \in Reasons PROVE Ended(Stop(s, c), c)
  BY <1>10, <1>13, GraphEndState, GraphAlike
<1>14. CASE G!AgentRaisesOut(x, r)
  <2>1. ~r.ok /\ r.long /\ node' = "raised"
    BY <1>14 DEF G!AgentRaisesOut
  <2>2. y.pc = "raised"
    BY <1>8, <2>1 DEF AgentMoves
  <2>q. QED  BY <1>3, <1>7, <2>1, <2>2 DEF GraphShows, Mirrors
<1>15. CASE G!AgentRaises(x, r)
  <2>1. ~r.ok /\ ~r.long /\ gst' = Stop(s, "agent_exception") /\ G!Leave(G!NothingPending)
    BY <1>10, <1>15, GraphAlike DEF G!AgentRaises
  <2>2. y.pc = "trailer" /\ y.st = Stop(s, "agent_exception")
    BY <1>8, <1>11, <2>1 DEF AgentMoves, EndsIn, Place
  <2>q. QED  BY <1>10, <1>12, <1>13, <2>1, <2>2, AlikeEnds
<1>16. CASE G!AgentFails(x, r)
  <2>1. r.ok /\ r.status = "failed" /\ gst' = Stop(s, "agent_failed") /\ G!Leave(G!NothingPending)
    BY <1>10, <1>16, GraphAlike DEF G!AgentFails
  <2>2. y.pc = "trailer" /\ y.st = Stop(s, "agent_failed")
    BY <1>8, <1>11, <2>1 DEF AgentMoves, EndsIn, Place
  <2>q. QED  BY <1>10, <1>12, <1>13, <2>1, <2>2, AlikeEnds
<1>17. CASE G!AgentWantsHuman(x, r)
  <2>1. /\ r.ok /\ r.status # "failed" /\ WantsHuman(r) /\ gst' = Stop(s, "needs_human_review")
        /\ G!Leave(G!NothingPending)
    BY <1>10, <1>11, <1>17, GraphAlike DEF G!AgentWantsHuman
  <2>2. y.pc = "trailer" /\ y.st = Terminate(s, "needs_human_review")
    BY <1>8, <1>11, <2>1 DEF AgentMoves, EndsIn, Place
  <2>q. QED  BY <1>10, <1>12, <1>13, <2>1, <2>2, AlikeEnds
<1>18. CASE G!AgentCallsTools(x, r)
  <2> DEFINE p == [calls |-> r.calls, owner |-> gst.current, next |-> r.next]
  <2>1. /\ r.ok /\ r.status # "failed" /\ ~WantsHuman(r) /\ r.calls # <<>> /\ gst' = s
        /\ G!Leave(p)
    BY <1>10, <1>11, <1>18 DEF G!AgentCallsTools, G!GoesOn
  <2>2. /\ node' = "tool_step" /\ pending' = p /\ step_index' = step_index + 1
    BY <1>10, <2>1, Edges DEF G!Leave
  <2>3. CASE task.executor
    <3>1. y = Place(s, "tools", z.step, [todo |-> r.calls, done |-> <<>>, next |-> r.next], z.calls)
      BY <1>8, <1>11, <2>1, <2>3 DEF AgentMoves
    <3>2. G!Todo' = r.calls /\ results' = <<>>
      <4>1. G!Todo' = SubSeq(r.calls, 1, Len(r.calls)) /\ results' = <<>>
        BY <1>3, <1>5, <2>2 DEF G!Todo
      <4>q. QED  BY <1>9, <4>1, TodoShrinks
    <3>3. pending'.owner = Last(gst'.path) /\ Listed(pending'.calls) /\ Listed(results') /\ pending'.next = r.next
      <4>1. Listed(gst.path)
        BY <1>3 DEF Listed
      <4>2. Last(gst'.path) = gst.current
        <5>1. Last(Append(gst.path, gst.current)) = gst.current
          BY <4>1, ListedAppend
        <5>2. gst'.path = Append(gst.path, gst.current)
          BY <1>10, <2>1
        <5>q. QED  BY <5>1, <5>2, Zenon
      <4>q. QED  BY <1>9, <2>2, <3>2, <4>2, EmptyListed
    <3>4. /\ y.pc = "tools" /\ y.st = gst' /\ y.step = step_index' /\ y.calls = gcalls'
          /\ y.batch = [todo |-> G!Todo', done |-> results', next |-> pending'.next]
      BY <1>3, <1>5, <2>1, <2>2, <3>1, <3>2, <3>3 DEF Place
    <3>q. QED  BY <1>3, <1>7, <2>2, <2>3, <3>3, <3>4 DEF GraphShows, Mirrors
  <2>4. CASE ~task.executor
    <3>1. y.pc = "trailer" /\ y.st = Stop(s, "tool_executor_unavailable")
      BY <1>8, <1>11, <2>1, <2>4 DEF AgentMoves, EndsIn, Place
    <3>q. QED  BY <1>3, <1>7, <2>1, <2>2, <2>4, <3>1 DEF GraphShows, Mirrors
  <2>q. QED  BY <2>3, <2>4
<1>19. CASE G!AgentEnds(x, r)
  <2>1. /\ r.ok /\ r.status # "failed" /\ ~WantsHuman(r) /\ r.calls = <<>> /\ r.next = None
        /\ gst' = Stop(s, "natural_completion") /\ G!Leave(G!NothingPending)
    BY <1>10, <1>11, <1>19, GraphAlike DEF G!AgentEnds, G!GoesOn
  <2>2. y.pc = "trailer" /\ y.st = Stop(s, "natural_completion")
    BY <1>8, <1>11, <2>1 DEF AgentMoves, EndsIn, Place
  <2>q. QED  BY <1>10, <1>12, <1>13, <2>1, <2>2, AlikeEnds
<1>20. CASE G!AgentHandsOver(x, r)
  <2>1. /\ r.ok /\ r.status # "failed" /\ ~WantsHuman(r) /\ r.calls = <<>> /\ r.next # None
        /\ G!Leave(G!NothingPending)
    BY <1>11, <1>20 DEF G!AgentHandsOver, G!GoesOn
  <2>2. gst' = Hand(s, r.next)
    BY <1>10, <1>20, Zenon DEF G!AgentHandsOver, Hand
  <2>3. y = Place(Hand(s, r.next), "agents", z.step + 1, z.batch, z.calls)
    BY <1>8, <1>11, <2>1 DEF AgentMoves
  <2>4. Underway(gst')
    BY <1>10, <2>2, HandState DEF Same, Underway
  <2>5. node' = "agent_step" /\ step_index' = step_index + 1
    BY <2>1, <2>4, Edges DEF G!Leave, G!NothingPending
  <2>6. y.pc = "agents" /\ y.st = gst' /\ y.step = step_index' + 1 /\ y.calls = gcalls'
    BY <1>3, <1>5, <2>2, <2>3, <2>5 DEF Place
  <2>q. QED  BY <1>3, <1>5, <1>7, <2>5, <2>6 DEF GraphShows, Mirrors
<1>q. QED  BY <1>0, <1>14, <1>15, <1>16, <1>17, <1>18, <1>19, <1>20

\* Entering tool_step, and leaving it without an executor, is no step of the run.
LEMMA GraphWaits ==
  ASSUME GraphInv, G!ToolsEnter \/ G!NoExecutor, NEW z, Mirrors(z)
  PROVE  GraphShows(z)
<1>1. CASE G!ToolsEnter
  <2>1. /\ node = "tool_step" /\ node' = "tools" /\ task.executor
        /\ UNCHANGED <<gst, step_index, pending, results, gcalls, nodes, gstored, task, answers, replies>>
    BY <1>1 DEF G!ToolsEnter, G!inputVars
  <2>2. G!Todo' = G!Todo
    BY <2>1 DEF G!Todo
  <2>q. QED  BY <2>1, <2>2 DEF Mirrors, GraphShows
<1>2. CASE G!NoExecutor
  <2>1. /\ node = "tool_step" /\ ~task.executor /\ gst' = Stop(gst, "tool_executor_unavailable")
        /\ G!LeaveTools /\ UNCHANGED <<task, answers, replies>>
    BY <1>2, GraphAlike DEF G!NoExecutor, G!LeaveTools
  <2>2. Shaped(gst) /\ Ended(gst', "tool_executor_unavailable")
    BY <2>1, GraphEndState, GraphAlike DEF GraphInv
  <2>3. node' = "end"
    BY <2>1, <2>2, Edges, ReasonFacts DEF G!LeaveTools
  <2>4. z.pc = "trailer" /\ z.st = gst'
    BY <2>1 DEF Mirrors
  <2>5. Alike(gst', z.st)
    BY <2>1, <2>2, <2>4, AlikeEnds, ReasonFacts
  <2>q. QED  BY <2>1, <2>3, <2>4, <2>5 DEF Mirrors, GraphShows
<1>q. QED  BY <1>1, <1>2

\* A tool has replied, or no call is left.
LEMMA GraphToolsFollow ==
  ASSUME GraphInv, Listed(replies), G!ToolStep \/ G!ToolsDone,
         NEW z, NEW y, Mirrors(z), Follows(task, answers, replies, z, y)
  PROVE  GraphShows(y)
<1>1. node = "tools"
  BY DEF G!ToolStep, G!ToolRaises, G!ToolSucceeds, G!ToolFails, G!Calls, G!ToolsDone
<1>2. /\ task.executor /\ z.pc = "tools" /\ z.st = gst /\ z.step = step_index /\ z.calls = gcalls
      /\ z.batch = [todo |-> G!Todo, done |-> results, next |-> pending.next]
      /\ pending.owner = Last(gst.path) /\ Listed(pending.calls) /\ Listed(results)
  BY <1>1 DEF Mirrors
<1>3. z.batch.todo = G!Todo /\ z.batch.done = results /\ z.batch.next = pending.next /\ Shaped(gst)
  BY <1>2 DEF GraphInv
<1> USE ReasonFacts
\* The run ends with the reason c.
<1>4. ASSUME NEW c \in {"tool_failed", "natural_completion"}, NEW s, Shaped(s), gst' = Stop(s, c), y.st = Stop(s, c),
             y.pc = "trailer", G!LeaveTools, replies' = replies
      PROVE  GraphShows(y)
  <2>1. Ended(gst', c) /\ c \in Reasons \ {"needs_human_review"}
    BY <1>4, GraphEndState, GraphAlike
  <2>2. node' = "end" /\ UNCHANGED <<task, answers>>
    BY <1>4, <2>1, Edges DEF G!LeaveTools
  <2>3. Alike(gst', y.st)
    BY <1>4, <2>1, AlikeEnds
  <2>q. QED  BY <1>4, <2>2, <2>3 DEF Mirrors, GraphShows
<1>5. ASSUME NEW reply, G!Calls(reply)
      PROVE  ToolMoves(z, reply, y) /\ replies' = replies /\ gcalls' = gcalls + 1
  <2>1. /\ G!Todo # <<>> /\ G!Meets(replies, gcalls + 1, reply) /\ replies' = G!Noted(replies, gcalls + 1, reply)
        /\ gcalls' = gcalls + 1
    BY <1>5 DEF G!Calls
  <2>2. gcalls + 1 \in DOMAIN replies /\ ToolMoves(z, replies[gcalls + 1], y)
    BY <1>2, <1>3, <2>1 DEF Follows
  <2>3. gcalls + 1 <= Len(replies) /\ ~(gcalls + 1 > Len(replies))
    <3>1. Len(replies) \in Nat /\ gcalls + 1 \in 1..Len(replies)
      BY <2>2, ListedAppend
    <3>q. QED  BY <3>1
  <2>4. reply = replies[gcalls + 1] /\ replies' = replies
    BY <2>1, <2>3, Zenon DEF G!Meets, G!Noted
  <2>q. QED  BY <2>1, <2>2, <2>4
<1>6. ASSUME NEW reply, G!ToolRaises(reply) PROVE GraphShows(y)
  <2>1. /\ G!Calls(reply) /\ ExecuteRaises(Last(gst.path), Head(G!Todo), reply) /\ node' = "raised"
        /\ UNCHANGED <<task, answers>>
    BY <1>2, <1>6, ToolsAlike DEF G!ToolRaises
  <2>2. y.pc = "raised"
    BY <1>2, <1>3, <1>5, <2>1 DEF ToolMoves
  <2>q. QED  BY <1>5, <2>1, <2>2 DEF Mirrors, GraphShows
<1> DEFINE owner == Last(gst.path)
           result(reply) == Execute(owner, Head(G!Todo), reply)
           done(reply) == Append(results, result(reply))
           with(reply) == AppendToolResult(gst, owner, result(reply))
<1>7. ASSUME NEW reply PROVE /\ G!Execute(pending.owner, Head(G!Todo), reply) = result(reply)
                             /\ G!AppendToolResult(gst, pending.owner, result(reply)) = with(reply)
                             /\ Shaped(with(reply)) /\ with(reply).path = gst.path
                             /\ Same(with(reply), gst)
  <2>1. /\ G!Execute(pending.owner, Head(G!Todo), reply) = result(reply)
        /\ G!AppendToolResult(gst, pending.owner, result(reply)) = with(reply)
    BY <1>2, ToolsAlike, GraphAlike
  <2>2. Shaped(with(reply)) /\ Same(with(reply), gst)
    BY <1>3, <2>1, GraphAppends
  <2>q. QED  BY <2>1, <2>2 DEF Same
<1>8. ASSUME NEW reply, G!ToolSucceeds(reply) PROVE GraphShows(y)
  <2>1. /\ G!Calls(reply) /\ ~ExecuteRaises(owner, Head(G!Todo), reply) /\ result(reply).status = "success"
        /\ gst' = with(reply) /\ results' = done(reply)
        /\ UNCHANGED <<node, step_index, pending, nodes, gstored, task, answers>>
    BY <1>2, <1>7, <1>8, ToolsAlike DEF G!ToolSucceeds
  <2>2. ToolMoves(z, reply, y)
    BY <1>5, <2>1
  <2>3. y = Place(with(reply), "tools", z.step,
                  [todo |-> Tail(G!Todo), done |-> done(reply), next |-> pending.next], z.calls + 1)
    BY <1>2, <1>3, <2>1, <2>2 DEF ToolMoves
  <2>4. Len(results) \in Nat /\ Len(results') = Len(results) + 1 /\ Listed(results')
    BY <1>2, <2>1, ListedAppend
  <2>5. G!Todo' = Tail(G!Todo)
    <3>1. SubSeq(pending.calls, Len(results) + 1, Len(pending.calls)) # <<>>
      BY <2>1 DEF G!Calls, G!Todo
    <3>2. Tail(SubSeq(pending.calls, Len(results) + 1, Len(pending.calls)))
            = SubSeq(pending.calls, Len(results) + 2, Len(pending.calls))
      BY <1>2, <2>4, <3>1, TodoShrinks
    <3>3. Len(results') + 1 = Len(results) + 2
      BY <2>4
    <3>q. QED  BY <2>1, <3>2, <3>3 DEF G!Todo
  <2>6. gst'.path = gst.path
    BY <1>7, <2>1
  <2> HIDE DEF with, done, result, owner
  <2>7. /\ y.pc = "tools" /\ y.st = gst' /\ y.step = step_index' /\ y.calls = gcalls'
        /\ y.batch = [todo |-> G!Todo', done |-> results', next |-> pending'.next]
    BY <1>2, <1>5, <2>1, <2>3, <2>5 DEF Place
  <2>q. QED  BY <1>1, <1>2, <1>5, <2>1, <2>4, <2>6, <2>7 DEF Mirrors, GraphShows
<1>9. ASSUME NEW reply, G!ToolFails(reply) PROVE GraphShows(y)
  <2>1. /\ G!Calls(reply) /\ ~ExecuteRaises(owner, Head(G!Todo), reply) /\ result(reply).status # "success"
        /\ gst' = Stop(SetLastResults(with(reply), done(reply)), "tool_failed") /\ G!LeaveTools
    BY <1>2, <1>7, <1>9, ToolsAlike, GraphAlike DEF G!ToolFails
  <2>2. ToolMoves(z, reply, y) /\ replies' = replies
    BY <1>5, <2>1
  <2>3. y.pc = "trailer" /\ y.st = Stop(SetLastResults(with(reply), done(reply)), "tool_failed")
    BY <1>2, <1>3, <2>1, <2>2 DEF ToolMoves, Place
  <2>4. Shaped(SetLastResults(with(reply), done(reply)))
    BY <1>7, GraphSets, GraphAlike
  <2> HIDE DEF with, done, result, owner
  <2>q. QED  BY <1>4, <2>1, <2>2, <2>3, <2>4
<1>10. CASE G!ToolsDone
  <2> DEFINE last == SetLastResults(gst, results)
  <2>1. /\ G!Todo = <<>> /\ G!LeaveTools /\ UNCHANGED <<gcalls, replies>>
        /\ \/ pending.next = None /\ gst' = Stop(last, "natural_completion")
           \/ pending.next # None /\ gst' = [last EXCEPT !.current = pending.next]
    BY <1>10, GraphAlike DEF G!ToolsDone
  <2>2. BatchDone(z, y)
    BY <1>2, <1>3, <2>1 DEF Follows
  <2>3. Shaped(last) /\ Same(last, gst)
    BY <1>3, GraphSets, GraphAlike
  <2>4. \/ pending.next = None /\ y = Place(Stop(last, "natural_completion"), "trailer", z.step, NoBatch, z.calls)
        \/ pending.next # None /\ y = Place(Hand(last, pending.next), "agents", z.step + 1, NoBatch, z.calls)
    BY <1>2, <1>3, <2>2 DEF BatchDone
  <2> HIDE DEF last
  <2>5. CASE pending.next = None
    <3>1. y.pc = "trailer" /\ y.st = Stop(last, "natural_completion")
      BY <2>4, <2>5 DEF Place
    <3>q. QED  BY <1>4, <2>1, <2>3, <2>5, <3>1
  <2>6. CASE pending.next # None
    <3>1. gst' = Hand(last, pending.next)
      BY <2>1, <2>6, Zenon DEF Hand
    <3>2. /\ y.pc = "agents" /\ y.st = gst' /\ y.step = step_index + 1 /\ y.calls = gcalls
      BY <1>2, <2>4, <2>6, <3>1 DEF Place
    <3>3. Underway(gst')
      BY <1>1, <2>3, <3>1, HandState DEF GraphInv, Same, Underway
    <3>4. node' = "agent_step" /\ results' = <<>> /\ UNCHANGED <<step_index, task, answers>>
      BY <2>1, <3>3, Edges DEF G!LeaveTools
    <3>q. QED  BY <2>1, <3>2, <3>4 DEF Mirrors, GraphShows
  <2>q. QED  BY <2>5, <2>6
<1>q. QED  BY <1>6, <1>8, <1>9, <1>10 DEF G!ToolStep

\* The beginning, the end, and the agents that cannot run.
LEMMA GraphRestFollows ==
  ASSUME GraphInv, task.max_steps <= MaxGraphSteps,
         G!Begin \/ G!StepsExceeded \/ G!AgentNotRegistered \/ G!Finish,
         NEW z, NEW y, Mirrors(z), Follows(task, answers, replies, z, y)
  PROVE  GraphShows(y)
<1> USE ReasonFacts
<1>1. CASE G!Begin
  <2>1. /\ node = "start" /\ node' = "agent_step"
        /\ UNCHANGED <<step_index, results, gcalls, task, answers, replies>>
    BY <1>1 DEF G!Begin, G!inputVars
  <2>2. gst' = Start(gst, task.initial)
    BY <1>1, Zenon DEF G!Begin, Start
  <2>3. z.pc = "start" /\ z.st = gst /\ z.step = step_index + 1 /\ z.calls = gcalls /\ results = <<>>
    BY <2>1 DEF Mirrors
  <2>4. y = Place(Start(gst, task.initial), "agents", z.step, z.batch, z.calls)
    BY <2>3 DEF Follows
  <2>5. y.pc = "agents" /\ y.st = gst' /\ y.step = step_index' + 1 /\ y.calls = gcalls'
    BY <2>1, <2>2, <2>3, <2>4 DEF Place
  <2>q. QED  BY <2>1, <2>3, <2>5 DEF Mirrors, GraphShows
<1>2. CASE G!StepsExceeded \/ G!AgentNotRegistered
  <2>1. /\ node = "agent_step" /\ G!Leave(G!NothingPending) /\ UNCHANGED <<task, answers, replies>>
        /\ \/ step_index + 1 > task.max_steps /\ gst' = Terminate(gst, "max_steps_exceeded")
           \/ step_index + 1 <= task.max_steps /\ gst.current \notin Registered
              /\ gst' = Terminate(gst, "agent_not_registered")
    BY <1>2, GraphAlike, GraphBounds DEF G!StepsExceeded, G!AgentNotRegistered, G!AtAgentStep, G!inputVars
  <2>2. z.pc = "agents" /\ z.st = gst /\ z.step = step_index + 1
    BY <2>1 DEF Mirrors
  <2>3. step_index \in Nat /\ task.max_steps \in Nat /\ Shaped(gst)
    BY GraphBounds DEF GraphInv
  <2>4. y.pc = "trailer" /\ y.st = gst'
    BY <2>1, <2>2, <2>3 DEF Follows, EndsIn, Place
  <2>5. \E c \in Reasons \ {"needs_human_review"} : gst' = Terminate(gst, c)
    BY <2>1
  <2>6. Alike(gst', y.st) /\ \E c \in Reasons : Ended(gst', c)
    <3>1. PICK c \in Reasons \ {"needs_human_review"} : gst' = Terminate(gst, c)
      BY <2>5
    <3>2. Alike(gst', gst')
      BY <2>3, <3>1, AlikeEnds
    <3>3. Ended(gst', c)
      <4>1. gst' = G!Terminate(gst, c)
        BY <3>1, GraphAlike
      <4>q. QED  BY <2>3, <4>1, GraphEndState
    <3>q. QED  BY <2>4, <3>1, <3>2, <3>3
  <2>7. node' = "end"
    BY <2>1, <2>6, Edges DEF G!Leave
  <2>q. QED  BY <2>1, <2>4, <2>6, <2>7 DEF Mirrors, GraphShows
<1>3. CASE G!Finish
  <2>1. /\ node = "end" /\ node' = "done" /\ gst' = SyncKnowledgeRefs(gst) /\ gstored' = Record(gst')
        /\ UNCHANGED <<task, answers, replies>>
    BY <1>3, GraphAlike DEF G!Finish, G!inputVars
  <2>2. z.pc = "trailer" /\ Alike(gst, z.st)
    BY <2>1 DEF Mirrors
  <2>3. y.pc = "done" /\ y.st = SyncKnowledgeRefs(z.st)
    BY <2>2 DEF Follows, Place
  <2>4. Alike(gst', y.st)
    BY <2>1, <2>2, <2>3, AlikeSynced
  <2>5. Record(gst)' = Record(gst')
    BY DEF Record
  <2>q. QED  BY <2>1, <2>3, <2>4, <2>5 DEF Mirrors, GraphShows
<1>q. QED  BY <1>1, <1>2, <1>3

-----------------------------------------------------------------------------
\* The graph is somewhere on the way of the loop.
Mirrored == \E z : Mirrors(z) /\ Leads(task, answers, replies, z, Snap)
AgreeInv == RulesInv /\ InputsInv /\ (Limited => Mirrored)

LEMMA AgreeInit == Init => AgreeInv
<1>1. ASSUME Init PROVE AgreeInv
  <2>1. /\ sst = NewState(task) /\ pc = "start" /\ step = 1 /\ scalls = 0 /\ answers = <<>> /\ replies = <<>>
        /\ gst = NewState(task) /\ node = "start" /\ step_index = 0 /\ results = <<>> /\ gcalls = 0 /\ nodes = 0
    BY <1>1, SimpleAlike, GraphAlike DEF Init, S!Init, G!Init
  <2>2. InputsInv
    BY <2>1, EmptyListed DEF InputsInv
  <2>3. Mirrors(Snap)
    BY <2>1 DEF Mirrors, Snap, Place
  <2>4. Leads(task, answers, replies, Snap, Snap)
    BY LeadsSelf
  <2>q. QED  BY <1>1, <2>2, <2>3, <2>4, RulesInit DEF AgreeInv, Mirrored
<1>q. QED  BY <1>1

\* What a step of the graph does to the inputs and to the count of its nodes.
LEMMA GraphCounts ==
  ASSUME InputsInv, G!Next, SimpleOver, UNCHANGED simpleVars
  PROVE  InputsInv' /\ nodes' \in {nodes, nodes + 1} /\ (G!LimitReached => nodes' = RecursionLimit)
<1>1. Listed(answers) /\ Listed(replies) /\ nodes \in Nat
  BY DEF InputsInv
<1>2. ASSUME NEW x, Listed(x), NEW n, NEW e PROVE Listed(G!Noted(x, n, e))
  BY <1>2, ListedAppend DEF G!Noted
<1>3. /\ answers' = answers \/ \E n, e : answers' = G!Noted(answers, n, e)
      /\ replies' = replies \/ \E n, e : replies' = G!Noted(replies, n, e)
      /\ nodes' \in {nodes, nodes + 1}
  <2>1. CASE G!RunStep
    <3>1. PICK x, r :
            \/ G!AgentRaisesOut(x, r) \/ G!AgentRaises(x, r) \/ G!AgentFails(x, r) \/ G!AgentWantsHuman(x, r)
            \/ G!AgentCallsTools(x, r) \/ G!AgentEnds(x, r) \/ G!AgentHandsOver(x, r)
      BY <2>1 DEF G!RunStep
    <3>2. G!Returns(x) /\ nodes' \in {nodes, nodes + 1}
      BY <3>1 DEF G!AgentRaisesOut, G!AgentRaises, G!AgentFails, G!AgentWantsHuman, G!AgentCallsTools,
                  G!AgentEnds, G!AgentHandsOver, G!GoesOn, G!Leave
    <3>q. QED  BY <3>2, Zenon DEF G!Returns
  <2>2. CASE G!ToolStep
    <3>1. PICK reply : G!ToolRaises(reply) \/ G!ToolSucceeds(reply) \/ G!ToolFails(reply)
      BY <2>2 DEF G!ToolStep
    <3>2. G!Calls(reply) /\ answers' = answers /\ nodes' \in {nodes, nodes + 1}
      BY <3>1 DEF G!ToolRaises, G!ToolSucceeds, G!ToolFails, G!LeaveTools
    <3>q. QED  BY <3>2, Zenon DEF G!Calls
  <2>3. CASE G!Begin \/ G!LimitReached \/ G!ToolsEnter \/ G!Finish
    BY <2>3 DEF G!Begin, G!LimitReached, G!ToolsEnter, G!Finish, G!inputVars
  <2>4. CASE G!StepsExceeded \/ G!AgentNotRegistered
    BY <2>4 DEF G!StepsExceeded, G!AgentNotRegistered, G!Leave, G!inputVars
  <2>5. CASE G!NoExecutor \/ G!ToolsDone
    BY <2>5 DEF G!NoExecutor, G!ToolsDone, G!LeaveTools
  <2>q. QED  BY <2>1, <2>2, <2>3, <2>4, <2>5 DEF G!Next
<1>4. Listed(answers') /\ Listed(replies')
  BY <1>1, <1>2, <1>3
<1>5. InputsInv'
  <2>1. UNCHANGED <<sst, pc, sstored>> /\ pc \in {"done", "raised"}
    BY DEF simpleVars, SimpleOver
  <2>q. QED  BY <1>1, <1>3, <1>4, <2>1 DEF InputsInv, Record
<1>q. QED  BY <1>3, <1>5 DEF G!LimitReached

\* The loop goes on, from where it led before.
LEMMA SimpleStaysMirrored ==
  ASSUME RulesInv, InputsInv, S!Next, UNCHANGED graphVars, Mirrored
  PROVE  Mirrored'
<1>1. SimpleShows /\ task' = task
  BY SimpleRunFollows, SimpleOthersFollow DEF RulesInv
<1>2. PICK z : Mirrors(z) /\ Leads(task, answers, replies, z, Snap)
  BY DEF Mirrored
<1>3. Mirrors(z)'
  BY <1>1, <1>2 DEF graphVars, Mirrors, G!Todo
<1>4. Leads(task, answers', replies', z, Snap)
  BY <1>1, <1>2, LeadsStill DEF SimpleShows
<1>5. Leads(task, answers', replies', z, Snap')
  BY <1>1, <1>4, LeadsOn DEF SimpleShows
<1>q. QED  BY <1>1, <1>3, <1>5 DEF Mirrored

\* The graph takes the step of the loop that is next on its way.
LEMMA GraphStaysMirrored ==
  ASSUME RulesInv, InputsInv, G!Next, SimpleOver, UNCHANGED simpleVars, Limited, ~G!LimitReached, Mirrored
  PROVE  Mirrored'
<1>1. PICK z : Mirrors(z) /\ Leads(task, answers, replies, z, Snap)
  BY DEF Mirrored
<1>2. Snap' = Snap
  BY DEF Snap, simpleVars, Place
<1>3. GraphInv /\ Listed(answers) /\ Listed(replies) /\ task.max_steps <= MaxGraphSteps
  BY DEF RulesInv, InputsInv, Limited
<1>4. ASSUME NEW y, GraphShows(y), Leads(task, answers, replies, y, Snap) PROVE Mirrored'
  BY <1>2, <1>4 DEF GraphShows, Mirrored
<1>5. CASE G!ToolsEnter \/ G!NoExecutor
  BY <1>1, <1>3, <1>4, <1>5, GraphWaits
<1>6. CASE ~(G!ToolsEnter \/ G!NoExecutor)
  <2>1. node \notin {"done", "raised"}
    <3>1. CASE G!RunStep
      <4>1. G!AtAgentStep
        BY <3>1, Zenon DEF G!RunStep, G!AgentRaisesOut, G!AgentRaises, G!AgentFails, G!AgentWantsHuman,
                    G!AgentCallsTools, G!AgentEnds, G!AgentHandsOver, G!GoesOn, G!Returns
      <4>q. QED  BY <4>1 DEF G!AtAgentStep
    <3>2. CASE G!ToolStep \/ G!ToolsDone
      BY <3>2 DEF G!ToolStep, G!ToolRaises, G!ToolSucceeds, G!ToolFails, G!Calls, G!ToolsDone
    <3>3. CASE G!Begin \/ G!StepsExceeded \/ G!AgentNotRegistered \/ G!Finish
      BY <3>3 DEF G!Begin, G!StepsExceeded, G!AtAgentStep, G!AgentNotRegistered, G!Finish
    <3>q. QED  BY <1>6, <3>1, <3>2, <3>3, Zenon DEF G!Next
  <2>2. z.pc \notin {"done", "raised"}
    BY <1>1, <2>1 DEF Mirrors
  <2>3. Snap.pc \in {"done", "raised"}
    BY DEF Snap, Place, SimpleOver
  <2>4. z # Snap
    BY <2>2, <2>3
  <2>5. PICK y : Follows(task, answers, replies, z, y) /\ Leads(task, answers, replies, y, Snap)
    BY <1>1, <2>4, LeadsFrom
  <2>6. GraphShows(y)
    <3>1. CASE G!RunStep
      BY <1>1, <1>3, <2>5, <3>1, GraphRunFollows
    <3>2. CASE G!ToolStep \/ G!ToolsDone
      BY <1>1, <1>3, <2>5, <3>2, GraphToolsFollow
    <3>3. CASE G!Begin \/ G!StepsExceeded \/ G!AgentNotRegistered \/ G!Finish
      BY <1>1, <1>3, <2>5, <3>3, GraphRestFollows
    <3>q. QED  BY <1>6, <3>1, <3>2, <3>3 DEF G!Next
  <2>q. QED  BY <1>4, <2>5, <2>6
<1>q. QED  BY <1>5, <1>6

LEMMA AgreeStep == AgreeInv /\ [Next]_vars => AgreeInv'
<1>1. ASSUME AgreeInv, [Next]_vars PROVE AgreeInv'
  <2>1. RulesInv /\ InputsInv /\ (Limited => Mirrored) /\ RulesInv'
    BY <1>1, RulesStep DEF AgreeInv
  <2>2. CASE S!Next /\ UNCHANGED graphVars
    <3>1. InputsInv' /\ task' = task
      BY <2>1, <2>2, SimpleRunFollows, SimpleOthersFollow DEF RulesInv
    <3>2. Limited' => Limited
      BY <2>2, <3>1 DEF Limited, graphVars
    <3>q. QED  BY <2>1, <2>2, <3>1, <3>2, SimpleStaysMirrored DEF AgreeInv
  <2>3. CASE SimpleOver /\ G!Next /\ UNCHANGED simpleVars
    <3>1. InputsInv' /\ nodes' \in {nodes, nodes + 1} /\ (G!LimitReached => nodes' = RecursionLimit)
      BY <2>1, <2>3, GraphCounts
    <3>2. task' = task
      BY <2>3, RequestKept
    <3>3. Limited' => Limited /\ ~G!LimitReached
      BY <2>1, <3>1, <3>2, LimitsAssumption DEF Limited, InputsInv
    <3>q. QED  BY <2>1, <2>3, <3>1, <3>3, GraphStaysMirrored DEF AgreeInv
  <2>4. CASE UNCHANGED vars
    <3>1. Mirrored' <=> Mirrored
      BY <2>4 DEF vars, simpleVars, graphVars, Mirrored, Mirrors, Snap, G!Todo
    <3>2. InputsInv'
      BY <2>1, <2>4 DEF vars, simpleVars, graphVars, InputsInv
    <3>3. Limited' <=> Limited
      BY <2>4 DEF vars, simpleVars, graphVars, Limited
    <3>q. QED  BY <2>1, <3>1, <3>2, <3>3 DEF AgreeInv
  <2>q. QED  BY <1>1, <2>2, <2>3, <2>4 DEF Next
<1>q. QED  BY <1>1

LEMMA AgreeInTheEnd == AgreeInv => RunnersAgree
<1>1. ASSUME AgreeInv, SimpleOver, GraphOver, Limited
      PROVE  IF sstored = NotStored THEN gstored = NotStored
             ELSE /\ gstored # NotStored
                  /\ gstored = IF sstored.status = "needs_human_review" THEN [sstored EXCEPT !.current = None]
                               ELSE sstored
                  /\ sst.shared = gst.shared
  <2>1. PICK z : Mirrors(z) /\ Leads(task, answers, replies, z, Snap)
    BY <1>1 DEF AgreeInv, Mirrored
  <2>2. z.pc \in {"done", "raised"} /\ z.pc = node
    BY <1>1, <2>1 DEF Mirrors, GraphOver
  <2>3. z = Snap
    BY <2>1, <2>2, LeadsFrom DEF Follows
  <2>4. z.pc = pc /\ z.st = sst
    BY <2>3 DEF Snap, Place
  <2>5. CASE pc = "raised"
    <3>1. node = "raised"
      BY <2>2, <2>4, <2>5
    <3>q. QED  BY <1>1, <2>5, <3>1 DEF AgreeInv, RulesInv, SimpleInv, GraphInv
  <2>6. CASE pc = "done"
    <3>1. node = "done"
      BY <2>2, <2>4, <2>6
    <3>2. Alike(gst, sst) /\ gstored = Record(gst)
      BY <2>1, <2>4, <3>1 DEF Mirrors
    <3>3. sstored = Record(sst)
      BY <1>1, <2>6 DEF AgreeInv, InputsInv
    <3>4. /\ Record(gst) = IF sst.status = "needs_human_review" THEN [Record(sst) EXCEPT !.current = None]
                           ELSE Record(sst)
          /\ gst.shared = sst.shared
      BY <3>2, AlikeStored
    <3>5. Record(sst).status = sst.status
      BY DEF Record
    <3>6. NotStored.status = "not stored"
      BY DEF NotStored
    <3>7. sst.status = "needs_human_review" => gstored.status = "needs_human_review"
      BY <3>2, <3>4 DEF Record
    <3>q. QED  BY <3>2, <3>3, <3>4, <3>5, <3>6, <3>7
  <2>q. QED  BY <1>1, <2>5, <2>6 DEF SimpleOver
<1>q. QED  BY <1>1 DEF RunnersAgree, Limited

(* Whatever the agents of the plugins return, the model answers and the    *)
(* tools reply, both orchestrators store the same run of a request and     *)
(* leave the same shared state, but for current_agent_id of a run that     *)
(* waits for a review, as long as the graph's own limits do not stop it.   *)
THEOREM RunnersStoreTheSame == Spec => []RunnersAgree
BY AgreeInit, AgreeStep, AgreeInTheEnd, PTL DEF Spec

=============================================================================
