----------------------------- MODULE AgentSteps -----------------------------
(***************************************************************************)
(* What one agent and one tool call do: the five system agents with their  *)
(* model path and their rule path, the tool executor with its permission   *)
(* and registry checks, and the shared state both write.  The two runners  *)
(* (SimpleRunner, LangGraphRunner) are built from these definitions.       *)
(*                                                                         *)
(* What a model or a tool replies, and what an agent of a business plugin  *)
(* returns, comes from outside: it is a parameter here.                    *)
(***************************************************************************)
EXTENDS Naturals, Sequences, FiniteSets, SequencesExt

CONSTANTS
  DomainAgents,      \* agents the business plugins registered
  DomainTools,       \* the tools they are allowed to use
  DomainResults      \* what they may return or raise

None == "none"     \* no agent, which is nobody's name
NoQuery == ""

ASSUME AgentsAssumption == None \notin DomainAgents

\* AgentResult.tool_calls is a list of requested calls.
PendingToolCall == [tool : STRING, query : STRING]
ASSUME ResultsAssumption == \A r \in DomainResults : r.calls \in Seq(PendingToolCall)

\* --------------------------------------------------------------- registry

SystemAgents == {"planner_agent", "router_agent", "knowledge_agent", "executor_agent", "reviewer_agent"}

\* AgentRegistry.exists
Registered == SystemAgents \cup DomainAgents

\* What a request may name as an agent: somebody registered, nobody, an
\* agent that does not exist, or a name the result schema refuses.
Unknown == "unknown_agent"
Malformed == "Not an id"

\* Routing candidates: sync_domain_routes copies the DOMAIN agents once.
Routable == {"executor_agent", "knowledge_agent", "reviewer_agent"} \cup DomainAgents

RegisteredTools == {"knowledge_search", "pgvector_search", "milvus_search", "http_request", "document_parser"}

\* metadata.allowed_tools
AllowedTools(a) ==
  CASE a = "planner_agent"   -> {"knowledge_search"}
    [] a = "knowledge_agent" -> {"pgvector_search", "milvus_search"}
    [] a = "executor_agent"  -> {"http_request", "document_parser"}
    [] a \in DomainAgents    -> DomainTools
    [] OTHER                 -> {}

\* ----------------------------------------------------------- shared state

NoOutput == [source |-> "none", refs |-> <<>>, draft |-> FALSE]
Output(source) == [NoOutput EXCEPT !.source = source]

\* normalize_shared_state on an empty request state
EmptyShared ==
  [outputs |-> [a \in Registered |-> NoOutput],
   results |-> [a \in Registered |-> <<>>],
   last    |-> <<>>]

record_agent_output(shared, a, output) == [shared EXCEPT !.outputs[a] = output]
append_tool_result(shared, a, result) == [shared EXCEPT !.results[a] = Append(@, result)]
set_last_tool_results(shared, results) == [shared EXCEPT !.last = results]

\* What the planner's searches left behind, and whether they found anything.
Searches(shared) == SelectSeq(shared.results["planner_agent"], LAMBDA r : r.tool = "knowledge_search")
KnowledgeFound(shared) == \E i \in DOMAIN Searches(shared) : Searches(shared)[i].hits > 0

\* refs, and of the list more what is not among them yet, each once, in order.
Consumed(refs, more) ==
  LET upTo[n \in 0..Len(more)] ==
        IF n = 0 THEN refs
        ELSE IF Contains(upTo[n - 1], more[n]) THEN upTo[n - 1]
        ELSE Append(upTo[n - 1], more[n])
  IN  upTo[Len(more)]

\* ------------------------------------------------------------------ agents

\* An AgentResult.  ok is FALSE for an exception; long says that the text of
\* the exception does not fit into a summary.
Result(next, output) ==
  [ok |-> TRUE, long |-> FALSE, status |-> "success", human |-> FALSE,
   next |-> next, calls |-> <<>>, output |-> output]
Raises == [Result(None, NoOutput) EXCEPT !.ok = FALSE, !.status = "failed"]
RaisesLong == [Raises EXCEPT !.long = TRUE]

Search(query) == [tool |-> "knowledge_search", query |-> query]

\* What a model answers.  "none" stands for no model, a call that failed, and
\* an answer that does not parse: the agent then applies its rules.
Silent == [kind |-> "none", query |-> NoQuery, agent |-> None, human |-> FALSE]
Planned(q) == [Silent EXCEPT !.kind = "plan", !.query = q]
Routed(a) == [Silent EXCEPT !.kind = "route", !.agent = a]
Written == [Silent EXCEPT !.kind = "text"]
Judged(h) == [Silent EXCEPT !.kind = "verdict", !.human = h]

Planner(task, answer) ==
  LET query == IF answer.kind = "plan" THEN answer.query ELSE task.query
      source == IF answer.kind = "plan" THEN "llm" ELSE "rule"
  IN  IF answer.kind # "plan" /\ task.long
      THEN Raises                \* the summary quotes the task and is limited
      ELSE [Result("router_agent", Output(source)) EXCEPT
              !.calls = IF query = NoQuery THEN <<>> ELSE <<Search(query)>>]

Router(task, shared, answer) ==
  LET ruled == IF KnowledgeFound(shared) THEN "knowledge_agent" ELSE task.requested
  IN  IF answer.kind = "route" /\ answer.agent \in Routable
      THEN Result(answer.agent, Output("llm"))
      ELSE IF ruled = Malformed THEN Raises ELSE Result(ruled, Output("rule"))

Knowledge(refs, shared) ==
  LET found == Searches(shared)
      queries == [i \in DOMAIN found |-> found[i].query]
  IN  Result("executor_agent", [Output("rule") EXCEPT !.refs = Consumed(refs, queries)])

Executor(shared, answer) ==
  Result("reviewer_agent",
         [source |-> IF answer.kind = "text" THEN "llm" ELSE "rule",
          refs |-> shared.outputs["knowledge_agent"].refs, draft |-> FALSE])

\* submit_publish is False in the output of the content agent
DraftOnly(shared) ==
  "content_ops_agent" \in DomainAgents /\ shared.outputs["content_ops_agent"].draft

Reviewer_Downgrades(task, shared, answer) ==    \* Wrong on purpose: the model may overrule the requester
  LET human == IF answer.kind = "verdict" THEN answer.human ELSE task.human
  IN  IF task.resumed THEN Result(None, Output("human_decision"))
      ELSE [Result(None, Output("rule")) EXCEPT !.human = human,
              !.status = IF human THEN "needs_human_review" ELSE "success"]

Reviewer_Again(task, shared, answer) ==         \* Wrong on purpose: a resumed run is reviewed again
  LET human == task.human \/ (answer.kind = "verdict" /\ answer.human)
  IN  [Result(None, Output("rule")) EXCEPT !.human = human,
         !.status = IF human THEN "needs_human_review" ELSE "success"]

Reviewer(task, shared, answer) ==
  LET human == task.human \/ (answer.kind = "verdict" /\ answer.human)
      source == IF answer.kind = "verdict" THEN "llm" ELSE "rule"
  IN  IF task.resumed THEN Result(None, Output("human_decision"))
      ELSE IF DraftOnly(shared) /\ ~task.human THEN Result(None, Output("policy_draft_only"))
      ELSE [Result(None, Output(source)) EXCEPT !.human = human,
              !.status = IF human THEN "needs_human_review" ELSE "success"]

\* BaseAgent.run: one step of agent a on a task, given what the model answers
\* and, for an agent of a plugin, what that agent does.
AgentRun(a, task, refs, shared, answer, plugin) ==
  CASE a = "planner_agent"   -> Planner(task, answer)
    [] a = "router_agent"    -> Router(task, shared, answer)
    [] a = "knowledge_agent" -> Knowledge(refs, shared)
    [] a = "executor_agent"  -> Executor(shared, answer)
    [] a = "reviewer_agent"  -> Reviewer(task, shared, answer)
    [] OTHER                 -> plugin

\* ------------------------------------------------------------------- tools

\* A tool's reply: hits found, a timeout, an exception whose text fits or not.
ToolReplies == {"nothing", "hits", "timeout", "exception", "exception_long"}

ToolResult(call, status, retryable) ==
  [tool |-> call.tool, query |-> call.query, status |-> status, retryable |-> retryable, hits |-> 0]

KnowledgeSearch(call, reply) ==
  [ToolResult(call, "success", FALSE) EXCEPT !.hits = IF reply = "hits" THEN 1 ELSE 0]

\* The checks of the HTTP tool in their order; only then is a request made.
\* query stands for the arguments: no url, a refused method or host, or a url.
HttpRequest(call, reply) ==
  CASE call.query \in {"missing_url", "method_not_allowed", "host_blocked"} -> ToolResult(call, "failed", FALSE)
    [] reply = "nothing" -> ToolResult(call, "failed", TRUE)     \* httpx.HTTPError
    [] OTHER -> ToolResult(call, "success", FALSE)

\* ToolExecutor.execute: permission, registry, execution, exception to result.
Execute(a, call, reply) ==
  CASE call.tool \notin AllowedTools(a)    -> ToolResult(call, "denied", FALSE)
    [] call.tool \notin RegisteredTools    -> ToolResult(call, "failed", FALSE)
    [] reply = "timeout"                   -> ToolResult(call, "timeout", TRUE)
    [] reply = "exception"                 -> ToolResult(call, "failed", FALSE)
    [] call.tool = "http_request"          -> HttpRequest(call, reply)
    [] OTHER                               -> KnowledgeSearch(call, reply)

\* The result of an exception quotes its text, which is limited: then building
\* the result raises, out of the executor and out of the run.
ExecuteRaises(a, call, reply) ==
  reply = "exception_long" /\ call.tool \in AllowedTools(a) \cap RegisteredTools

=============================================================================
