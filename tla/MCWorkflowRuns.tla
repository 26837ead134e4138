--------------------------- MODULE MCWorkflowRuns ---------------------------
\* The requests and plugin results of the model-checked instances.
EXTENDS WorkflowRuns

Article(draft) == [Output("plugin") EXCEPT !.draft = draft]

MCDomainResults ==
  {Raises, RaisesLong,
   Result("reviewer_agent", Article(TRUE)),
   [Result(None, Article(FALSE)) EXCEPT !.status = "needs_human_review"],
   [Result("reviewer_agent", Article(FALSE)) EXCEPT !.status = "failed"],
   [Result(None, Article(FALSE)) EXCEPT !.status = "partial"],
   [Result("executor_agent", Article(FALSE)) EXCEPT
      !.calls = <<[tool |-> "http_request", query |-> "url"], [tool |-> "unknown_tool", query |-> "url"]>>],
   [Result(None, Article(FALSE)) EXCEPT !.calls = <<[tool |-> "http_request", query |-> "url"]>>],
   [Result(None, Article(FALSE)) EXCEPT !.calls = <<[tool |-> "http_request", query |-> "host_blocked"]>>],
   [Result(None, Article(FALSE)) EXCEPT !.calls = <<[tool |-> "milvus_search", query |-> "asked"]>>]}

Request ==
  [initial |-> "planner_agent", requested |-> "executor_agent", query |-> "asked", human |-> FALSE,
   resumed |-> FALSE, long |-> FALSE, executor |-> TRUE, max_steps |-> 5, refs |-> <<"given", "given">>,
   shared |-> EmptyShared]

\* A resumed run starts with what the first one left.
Resumed(h) ==
  [Request EXCEPT !.resumed = TRUE, !.human = h, !.initial = "router_agent",
     !.shared.results["planner_agent"] = <<[tool |-> "knowledge_search", query |-> "asked",
                                           status |-> "success", retryable |-> FALSE, hits |-> 1]>>]

MCTasks ==
  {[Request EXCEPT !.human = h, !.max_steps = n] : h \in BOOLEAN, n \in {5, 6}}
  \cup {[Request EXCEPT !.requested = a, !.query = q] :
          a \in {"planner_agent", "unknown_agent", "Not an id", "none"}, q \in {"", "asked"}}
  \cup {[Request EXCEPT !.initial = a, !.human = h] :
          a \in {"unknown_agent", "content_ops_agent", "knowledge_agent"}, h \in BOOLEAN}
  \cup {[Request EXCEPT !.long = TRUE], [Request EXCEPT !.executor = FALSE], [Request EXCEPT !.max_steps = 1],
        [Request EXCEPT !.requested = "planner_agent", !.query = "", !.max_steps = 6]}
  \cup {Resumed(h) : h \in BOOLEAN}

=============================================================================
