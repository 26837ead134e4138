------------------------- MODULE WorkflowSubmission -------------------------
(***************************************************************************)
(* Asynchronous workflow submission and execution.                         *)
(*                                                                         *)
(* The API accepts a request, puts a Celery message on the Redis queue and *)
(* writes a row of the submission ledger; a worker takes the message, runs *)
(* the orchestrator, persists the transcript, the review, the audit rows   *)
(* and the workflow run in separate commits, updates the ledger, and       *)
(* returns to Celery, which stores the result and acknowledges late.  The  *)
(* status endpoints copy Celery's result state back into the ledger.       *)
(*                                                                         *)
(* One step is one database transaction, one Redis command or one read     *)
(* whose value is used later.  A process may crash between any two steps   *)
(* and the broker delivers again.  Everything an agent computes is reduced *)
(* to the terminal status of the run; the step loop is not modelled here. *)
(***************************************************************************)
EXTENDS Naturals, FiniteSets

CONSTANTS
  Requests,          \* request_id values clients use
  Tasks,             \* Celery task ids (uuid4, each used for one message)
  Workers,           \* worker processes, each with one runtime stack
  Apis,              \* API processes, each with one event loop
  NoTask, NoRequest,
  Crashable,         \* processes that may crash
  MaxCrashes,        \* bound: crashes of all processes
  MaxExpiries,       \* bound: visibility timeouts hit by a running task
  MaxSyncRuns,       \* bound: calls of POST /workflows/run
  MalformedReplies,  \* whether the memory curator's reply may be malformed
  ResultsExpire      \* whether Celery results reach their time to live

Executors == Workers \cup Apis

ASSUME SubmissionAssumption ==
  /\ NoTask \notin Tasks
  /\ NoRequest \notin Requests
  /\ Workers \cap Apis = {}
  /\ Crashable \subseteq Executors
  /\ MaxCrashes \in Nat /\ MaxExpiries \in Nat /\ MaxSyncRuns \in Nat
  /\ MalformedReplies \in BOOLEAN /\ ResultsExpire \in BOOLEAN

\* Terminal values of WorkflowStatus, and the absence of a run.
Outcomes == {"completed", "failed", "needs_human_review"}
NoRun == "none"

\* A ledger row: the submission status and the status in its result payload.
LedgerStatus == {"pending", "started", "success", "failure"}
Row == [status : LedgerStatus, payload : Outcomes \cup {NoRun}]
NoRow == [status |-> "absent", payload |-> NoRun]

\* What the Celery result backend holds for a task.  A returned payload is
\* represented by the workflow status it carries.
Results == {"pending", "started", "failure"} \cup Outcomes
celeryStatus(res) == IF res \in Outcomes THEN "success" ELSE res

VARIABLES
  \* API processes
  apiPc, apiReq, apiTask, snap, seen,
  \* Redis: request of a message, its place in the queue, the Celery result
  reqOf, msg, result,
  \* processes that run workflows
  pc, holds, runReq, out, sawTurn, broken,
  \* the database
  ledger, taskRuns, workflowRuns, reviews, userTurns, assistantTurns,
  \* bounded counters of the environment
  crashes, expiries, syncRuns

apiVars == <<apiPc, apiReq, apiTask, snap, seen>>
queueVars == <<reqOf, msg, result>>
execVars == <<pc, holds, runReq, out, sawTurn, broken>>
auditVars == <<taskRuns, workflowRuns>>
turnVars == <<userTurns, assistantTurns>>
dbVars == <<ledger, auditVars, reviews, turnVars>>
envVars == <<crashes, expiries, syncRuns>>
vars == <<apiVars, queueVars, execVars, dbVars, envVars>>

ApiPcs == {"free", "checked", "sent", "loaded", "read"}
ExecPcs == {"idle", "taken", "skip", "begin", "agents", "turns", "append",
            "extract", "review", "task_run", "workflow_run", "ledger",
            "raised", "result", "failed_result", "ack"}

NoRows == [t \in Tasks |-> NoRow]

Init ==
  /\ apiPc = [a \in Apis |-> "free"]
  /\ apiReq = [a \in Apis |-> NoRequest]
  /\ apiTask = [a \in Apis |-> NoTask]
  /\ snap = [a \in Apis |-> NoRows]
  /\ seen = [a \in Apis |-> [t \in Tasks |-> "pending"]]
  /\ reqOf = [t \in Tasks |-> NoRequest]
  /\ msg = [t \in Tasks |-> "none"]
  /\ result = [t \in Tasks |-> "pending"]
  /\ pc = [p \in Executors |-> "idle"]
  /\ holds = [p \in Executors |-> NoTask]
  /\ runReq = [p \in Executors |-> NoRequest]
  /\ out = [p \in Executors |-> NoRun]
  /\ sawTurn = [p \in Executors |-> FALSE]
  /\ broken = [p \in Executors |-> {}]
  /\ ledger = NoRows
  /\ taskRuns = [r \in Requests |-> NoRun]
  /\ workflowRuns = [r \in Requests |-> NoRun]
  /\ reviews = [r \in Requests |-> FALSE]
  /\ userTurns = [r \in Requests |-> 0]
  /\ assistantTurns = [r \in Requests |-> 0]
  /\ crashes = 0
  /\ expiries = 0
  /\ syncRuns = 0

-----------------------------------------------------------------------------
(* Submitting: run_workflow_async and the chat hand-off.  The handler has   *)
(* no await between its first statement and its return, so it occupies the *)
(* event loop of its process; other processes run in between.              *)

\* Wrong on purpose: the 409 check sees only submissions that wait.
get_by_request_id_Waiting(r) ==
  \E u \in Tasks : ledger[u].status = "pending" /\ reqOf[u] = r

get_by_request_id(r) == \E u \in Tasks : ledger[u] # NoRow /\ reqOf[u] = r

\* A row for the request means 409.  The task id the handler will generate is
\* fixed here; a uuid4 is used by no other handler.
CheckRequestId(a, t, r) ==
  /\ apiPc[a] = "free"
  /\ ~get_by_request_id(r)
  /\ reqOf[t] = NoRequest
  /\ \A b \in Apis : apiTask[b] # t
  /\ apiPc' = [apiPc EXCEPT ![a] = "checked"]
  /\ apiReq' = [apiReq EXCEPT ![a] = r]
  /\ apiTask' = [apiTask EXCEPT ![a] = t]
  /\ UNCHANGED <<snap, seen, queueVars, execVars, dbVars, envVars>>

\* celery_app.send_task, before the ledger row exists.
SendTask(a) ==
  LET t == apiTask[a] IN
  /\ apiPc[a] = "checked"
  /\ reqOf' = [reqOf EXCEPT ![t] = apiReq[a]]
  /\ msg' = [msg EXCEPT ![t] = "ready"]
  /\ apiPc' = [apiPc EXCEPT ![a] = "sent"]
  /\ UNCHANGED <<apiReq, apiTask, snap, seen, result, execVars, dbVars, envVars>>

\* create_submission: the unique request_id makes the second row fail (500);
\* the session belongs to the request and is closed.
CreateSubmission(a) ==
  LET t == apiTask[a] IN
  /\ apiPc[a] = "sent"
  /\ ledger' = IF \E u \in Tasks : ledger[u] # NoRow /\ reqOf[u] = apiReq[a]
               THEN ledger
               ELSE [ledger EXCEPT ![t] = [status |-> "pending", payload |-> NoRun]]
  /\ apiPc' = [apiPc EXCEPT ![a] = "free"]
  /\ apiReq' = [apiReq EXCEPT ![a] = NoRequest]
  /\ apiTask' = [apiTask EXCEPT ![a] = NoTask]
  /\ UNCHANGED <<snap, seen, queueVars, execVars, auditVars, reviews, turnVars, envVars>>

-----------------------------------------------------------------------------
(* Refreshing the ledger from Celery: refresh_submission_status (one row,  *)
(* whatever its status) and list_submissions (the rows still pending).     *)

PendingStates == {"pending", "started"}

\* The rows a refresh loads; rows it leaves alone read NoRow.
LoadRows(a, S) ==
  /\ apiPc[a] = "free"
  /\ S # {}
  /\ apiPc' = [apiPc EXCEPT ![a] = "loaded"]
  /\ snap' = [snap EXCEPT ![a] = [t \in Tasks |-> IF t \in S THEN ledger[t] ELSE NoRow]]
  /\ UNCHANGED <<apiReq, apiTask, seen, queueVars, execVars, dbVars, envVars>>

RefreshSubmissionStatus(a, t) ==
  /\ ledger[t] # NoRow
  /\ LoadRows(a, {t})

ListSubmissions(a) == LoadRows(a, {t \in Tasks : ledger[t].status \in PendingStates})

\* AsyncResult(task_id).status and .result
ReadAsyncResults(a) ==
  /\ apiPc[a] = "loaded"
  /\ apiPc' = [apiPc EXCEPT ![a] = "read"]
  /\ seen' = [seen EXCEPT ![a] = result]
  /\ UNCHANGED <<apiReq, apiTask, snap, queueVars, execVars, dbVars, envVars>>

\* Wrong on purpose: the status is copied without the result payload.
apply_async_result_StatusOnly(now, loaded, res) ==
  [status |-> celeryStatus(res), payload |-> now.payload]

\* _apply_async_result and the commit.  The ORM writes the columns whose new
\* value differs from the one loaded, whatever the row holds by now.
apply_async_result(now, loaded, res) ==
  [status  |-> IF loaded.status # celeryStatus(res) THEN celeryStatus(res) ELSE now.status,
   payload |-> IF res \in Outcomes /\ loaded.payload # res THEN res ELSE now.payload]

CommitRefresh(a) ==
  /\ apiPc[a] = "read"
  /\ ledger' = [t \in Tasks |->
                  IF snap[a][t] = NoRow THEN ledger[t]
                  ELSE apply_async_result(ledger[t], snap[a][t], seen[a][t])]
  /\ apiPc' = [apiPc EXCEPT ![a] = "free"]
  /\ snap' = [snap EXCEPT ![a] = NoRows]
  /\ seen' = [seen EXCEPT ![a] = [t \in Tasks |-> "pending"]]
  /\ UNCHANGED <<apiReq, apiTask, queueVars, execVars, auditVars, reviews, turnVars, envVars>>

-----------------------------------------------------------------------------
(* The broker and the result backend (external: Redis, kombu, Celery).     *)

\* Wrong on purpose: a message is acknowledged when it is delivered.
Delivered_AckEarly == "gone"

\* task_acks_late: a delivered message waits for its acknowledgement.
Delivered == "unacked"

\* Wrong on purpose: the state is stored in place of the payload; a failure is
\* not stored.
StoredResult_State(t, res) == celeryStatus(res)
StoredResult_NoFailure(t, res) ==
  IF result[t] \in Outcomes \/ res = "failure" THEN result[t] ELSE res

\* Celery keeps a stored success: a later state of the same task is dropped.
StoredResult(t, res) == IF result[t] \in Outcomes THEN result[t] ELSE res

\* A worker takes a message; it stays unacked, and track_started stores
\* STARTED before the task body runs.
TakeMessage(w, t) ==
  /\ pc[w] = "idle"
  /\ msg[t] = "ready"
  /\ msg' = [msg EXCEPT ![t] = Delivered]
  /\ result' = [result EXCEPT ![t] = StoredResult(t, "started")]
  /\ pc' = [pc EXCEPT ![w] = "taken"]
  /\ holds' = [holds EXCEPT ![w] = t]
  /\ runReq' = [runReq EXCEPT ![w] = reqOf[t]]
  /\ UNCHANGED <<apiVars, reqOf, out, sawTurn, broken, dbVars, envVars>>

\* An unacked message goes back to the queue: its worker is gone, or the
\* visibility timeout ran out while the worker is still busy with it.
RestoreMessage(t) ==
  /\ msg[t] = "unacked"
  /\ IF \E w \in Workers : holds[w] = t
     THEN expiries < MaxExpiries /\ expiries' = expiries + 1
     ELSE expiries' = expiries
  /\ msg' = [msg EXCEPT ![t] = "ready"]
  /\ UNCHANGED <<apiVars, reqOf, result, execVars, dbVars, crashes, syncRuns>>

\* The result of a finished task is deleted when its time to live ends.
ExpireResult(t) ==
  /\ ResultsExpire
  /\ result[t] \in Outcomes \cup {"failure"}
  /\ result' = [result EXCEPT ![t] = "pending"]
  /\ UNCHANGED <<apiVars, reqOf, msg, execVars, dbVars, envVars>>

-----------------------------------------------------------------------------
(* One execution: run_workflow_task in a worker, run_workflow in an API    *)
(* process.  Both run orchestrator.run with the stack of their process.    *)

\* A coroutine moves only while no synchronous handler has the event loop.
At(p, where) ==
  /\ pc[p] = where
  /\ p \in Apis => apiPc[p] = "free"

Goto(p, where) == pc' = [pc EXCEPT ![p] = where]

\* The execution is over: the process forgets the message and the request.
Leave(p) ==
  /\ Goto(p, "idle")
  /\ holds' = [holds EXCEPT ![p] = NoTask]
  /\ runReq' = [runReq EXCEPT ![p] = NoRequest]
  /\ out' = [out EXCEPT ![p] = NoRun]
  /\ sawTurn' = [sawTurn EXCEPT ![p] = FALSE]

\* Wrong on purpose: a payload of None overwrites the stored payload.
LedgerUpdate_Overwrite(p, status, payload) ==
  LET t == holds[p] IN
  ledger' = IF ledger[t] = NoRow THEN ledger
            ELSE [ledger EXCEPT ![t] = [status |-> status, payload |-> payload]]

\* _update_async_submission: a missing row is left alone; a payload of None
\* keeps the stored payload.
LedgerUpdate(p, status, payload) ==
  LET t == holds[p] IN
  ledger' = IF ledger[t] = NoRow THEN ledger
            ELSE [ledger EXCEPT ![t] =
                    [status |-> status,
                     payload |-> IF payload = NoRun THEN ledger[t].payload ELSE payload]]

\* POST /workflows/run: no ledger row, no message, no duplicate check.
RunWorkflowSync(a, r) ==
  /\ At(a, "idle")
  /\ syncRuns < MaxSyncRuns
  /\ syncRuns' = syncRuns + 1
  /\ runReq' = [runReq EXCEPT ![a] = r]
  /\ Goto(a, "agents")
  /\ UNCHANGED <<apiVars, queueVars, holds, out, sawTurn, broken, dbVars, crashes, expiries>>

\* _find_finished_run looks at workflow_runs alone.
FindFinishedRun(p) ==
  /\ At(p, "taken")
  /\ IF workflowRuns[runReq[p]] # NoRun
     THEN /\ Goto(p, "skip")
          /\ out' = [out EXCEPT ![p] = workflowRuns[runReq[p]]]
     ELSE Goto(p, "begin") /\ UNCHANGED out
  /\ UNCHANGED <<apiVars, queueVars, holds, runReq, sawTurn, broken, dbVars, envVars>>

\* A redelivered message of a finished run: the submission is a success
\* whatever the status of the stored run.
SkipDuplicate(p) ==
  /\ At(p, "skip")
  /\ LedgerUpdate(p, "success", out[p])
  /\ Goto(p, "result")
  /\ UNCHANGED <<apiVars, queueVars, holds, runReq, out, sawTurn, broken,
                 auditVars, reviews, turnVars, envVars>>

BeginExecution(p) ==
  /\ At(p, "begin")
  /\ LedgerUpdate(p, "started", NoRun)
  /\ Goto(p, "agents")
  /\ UNCHANGED <<apiVars, queueVars, holds, runReq, out, sawTurn, broken,
                 auditVars, reviews, turnVars, envVars>>

\* Wrong on purpose: a failed run returns before its turns are persisted.
RunAgents_SkipTurns(p, o) ==
  /\ At(p, "agents")
  /\ out' = [out EXCEPT ![p] = o]
  /\ Goto(p, IF o = "failed" THEN "review" ELSE "turns")
  /\ UNCHANGED <<apiVars, queueVars, holds, runReq, sawTurn, broken, dbVars, envVars>>

\* The agents run to a terminal status; the step loop itself is abstracted.
RunAgents(p, o) ==
  /\ At(p, "agents")
  /\ out' = [out EXCEPT ![p] = o]
  /\ Goto(p, "turns")
  /\ UNCHANGED <<apiVars, queueVars, holds, runReq, sawTurn, broken, dbVars, envVars>>

\* A tool call log written through a session that needs a rollback raises
\* out of orchestrator.run.
ToolLogRaises(p) ==
  /\ At(p, "agents")
  /\ "audit" \in broken[p]
  /\ Goto(p, "raised")
  /\ UNCHANGED <<apiVars, queueVars, holds, runReq, out, sawTurn, broken, dbVars, envVars>>

\* Wrong on purpose: it looks for the run of the request, not for its turn.
has_request_turn_Run(r) == workflowRuns[r] # NoRun

has_request_turn(r) == userTurns[r] + assistantTurns[r] > 0

\* _persist_session_context: has_request_turn, then append and commit.
HasRequestTurn(p) ==
  /\ At(p, "turns")
  /\ sawTurn' = [sawTurn EXCEPT ![p] = has_request_turn(runReq[p])]
  /\ Goto(p, "append")
  /\ UNCHANGED <<apiVars, queueVars, holds, runReq, out, broken, dbVars, envVars>>

AppendTurns(p) ==
  LET r == runReq[p] IN
  /\ At(p, "append")
  /\ userTurns' = [userTurns EXCEPT ![r] = IF sawTurn[p] THEN @ ELSE @ + 1]
  /\ assistantTurns' = [assistantTurns EXCEPT ![r] = @ + 1]
  /\ Goto(p, "extract")
  /\ UNCHANGED <<apiVars, queueVars, holds, runReq, out, sawTurn, broken,
                 ledger, auditVars, reviews, envVars>>

\* extract_and_store_memories: the reply is parsed inside a try, its entries
\* are read outside of it.
ExtractMemories(p) ==
  /\ At(p, "extract")
  /\ \/ Goto(p, "review")
     \/ MalformedReplies /\ Goto(p, "raised")
  /\ UNCHANGED <<apiVars, queueVars, holds, runReq, out, sawTurn, broken, dbVars, envVars>>

\* Wrong on purpose: request_id is not unique.
FlushFails_NoUnique(p, s, exists) == s \in broken[p]

\* A flush through the session s of the process fails when the row is already
\* there or when an earlier flush failed: no code ever rolls back.
FlushFails(p, s, exists) == exists \/ s \in broken[p]

\* _create_human_review_if_needed: an exception is logged and swallowed.
CreateHumanReview(p) ==
  LET r == runReq[p] IN
  /\ At(p, "review")
  /\ IF out[p] # "needs_human_review"
     THEN UNCHANGED <<reviews, broken>>
     ELSE IF FlushFails(p, "review", reviews[r])
          THEN broken' = [broken EXCEPT ![p] = @ \cup {"review"}] /\ UNCHANGED reviews
          ELSE reviews' = [reviews EXCEPT ![r] = TRUE] /\ UNCHANGED broken
  /\ Goto(p, "task_run")
  /\ UNCHANGED <<apiVars, queueVars, holds, runReq, out, sawTurn,
                 ledger, auditVars, turnVars, envVars>>

\* save_runtime_records: session, task run and agent runs in one commit.
SaveRuntimeRecords(p) ==
  LET r == runReq[p] IN
  /\ At(p, "task_run")
  /\ IF FlushFails(p, "audit", taskRuns[r] # NoRun)
     THEN /\ broken' = [broken EXCEPT ![p] = @ \cup {"audit"}]
          /\ Goto(p, "raised")
          /\ UNCHANGED taskRuns
     ELSE /\ taskRuns' = [taskRuns EXCEPT ![r] = out[p]]
          /\ Goto(p, "workflow_run")
          /\ UNCHANGED broken
  /\ UNCHANGED <<apiVars, queueVars, holds, runReq, out, sawTurn,
                 ledger, workflowRuns, reviews, turnVars, envVars>>

\* save_workflow_run: a second commit through the same session.  A run of
\* POST /workflows/run ends here.
SaveWorkflowRun(p) ==
  LET r == runReq[p] IN
  /\ At(p, "workflow_run")
  /\ IF FlushFails(p, "audit", workflowRuns[r] # NoRun)
     THEN /\ broken' = [broken EXCEPT ![p] = @ \cup {"audit"}]
          /\ Goto(p, "raised")
          /\ UNCHANGED <<workflowRuns, holds, runReq, out, sawTurn>>
     ELSE /\ workflowRuns' = [workflowRuns EXCEPT ![r] = out[p]]
          /\ IF p \in Apis THEN Leave(p)
             ELSE Goto(p, "ledger") /\ UNCHANGED <<holds, runReq, out, sawTurn>>
          /\ UNCHANGED broken
  /\ UNCHANGED <<apiVars, queueVars, ledger, taskRuns, reviews, turnVars, envVars>>

\* The ledger follows the terminal state of the run.
ReportTerminalState(p) ==
  /\ At(p, "ledger")
  /\ LedgerUpdate(p, IF out[p] = "failed" THEN "failure" ELSE "success", out[p])
  /\ Goto(p, "result")
  /\ UNCHANGED <<apiVars, queueVars, holds, runReq, out, sawTurn, broken,
                 auditVars, reviews, turnVars, envVars>>

\* The except branch: failure and traceback, and the exception goes on to
\* Celery.  In an API process it is the 500 of the request.
ReportException(p) ==
  /\ At(p, "raised")
  /\ IF p \in Apis
     THEN Leave(p) /\ UNCHANGED ledger
     ELSE /\ LedgerUpdate(p, "failure", NoRun)
          /\ Goto(p, "failed_result")
          /\ UNCHANGED <<holds, runReq, out, sawTurn>>
  /\ UNCHANGED <<apiVars, queueVars, broken, auditVars, reviews, turnVars, envVars>>

\* Celery stores the result, then acknowledges.
StoreResult(p) ==
  /\ \/ At(p, "result") /\ result' = [result EXCEPT ![holds[p]] = StoredResult(holds[p], out[p])]
     \/ At(p, "failed_result") /\ result' = [result EXCEPT ![holds[p]] = StoredResult(holds[p], "failure")]
  /\ Goto(p, "ack")
  /\ UNCHANGED <<apiVars, reqOf, msg, holds, runReq, out, sawTurn, broken, dbVars, envVars>>

\* Wrong on purpose: only a success is acknowledged.
Removable_OnSuccess(t) == msg[t] = "unacked" /\ result[t] \in Outcomes

\* The delivery tag survives a restore, so an acknowledgement removes the
\* message wherever it is unacked; a message back in the queue stays.
Removable(t) == msg[t] = "unacked"

Acknowledge(p) ==
  LET t == holds[p] IN
  /\ At(p, "ack")
  /\ msg' = [msg EXCEPT ![t] = IF Removable(t) THEN "gone" ELSE @]
  /\ Leave(p)
  /\ UNCHANGED <<apiVars, reqOf, result, broken, dbVars, envVars>>

\* A process dies and is started again: its stack and its sessions are new.
Crash(p) ==
  /\ p \in Crashable
  /\ crashes < MaxCrashes
  /\ pc[p] # "idle" \/ (p \in Apis /\ apiPc[p] # "free")
  /\ crashes' = crashes + 1
  /\ Leave(p)
  /\ broken' = [broken EXCEPT ![p] = {}]
  /\ IF p \in Apis
     THEN /\ apiPc' = [apiPc EXCEPT ![p] = "free"]
          /\ apiReq' = [apiReq EXCEPT ![p] = NoRequest]
          /\ apiTask' = [apiTask EXCEPT ![p] = NoTask]
          /\ snap' = [snap EXCEPT ![p] = NoRows]
          /\ seen' = [seen EXCEPT ![p] = [t \in Tasks |-> "pending"]]
     ELSE UNCHANGED apiVars
  /\ UNCHANGED <<queueVars, dbVars, expiries, syncRuns>>

-----------------------------------------------------------------------------
Submit(a) ==
  \/ \E t \in Tasks, r \in Requests : CheckRequestId(a, t, r)
  \/ SendTask(a)
  \/ CreateSubmission(a)

\* The rest of a handler that has the event loop.
FinishHandler(a) ==
  SendTask(a) \/ CreateSubmission(a) \/ ReadAsyncResults(a) \/ CommitRefresh(a)

\* One step of an execution.
Execute(p) ==
  \/ FindFinishedRun(p)
  \/ SkipDuplicate(p)
  \/ BeginExecution(p)
  \/ \E o \in Outcomes : RunAgents(p, o)
  \/ ToolLogRaises(p)
  \/ HasRequestTurn(p)
  \/ AppendTurns(p)
  \/ ExtractMemories(p)
  \/ CreateHumanReview(p)
  \/ SaveRuntimeRecords(p)
  \/ SaveWorkflowRun(p)
  \/ ReportTerminalState(p)
  \/ ReportException(p)
  \/ StoreResult(p)
  \/ Acknowledge(p)

Next ==
  \/ \E a \in Apis :
       \/ Submit(a)
       \/ \E t \in Tasks : RefreshSubmissionStatus(a, t)
       \/ ListSubmissions(a)
       \/ ReadAsyncResults(a)
       \/ CommitRefresh(a)
       \/ \E r \in Requests : RunWorkflowSync(a, r)
  \/ \E w \in Workers, t \in Tasks : TakeMessage(w, t)
  \/ \E p \in Executors : Execute(p) \/ Crash(p)
  \/ \E t \in Tasks : RestoreMessage(t) \/ ExpireResult(t)

Spec == Init /\ [][Next]_vars

\* Processes that run keep running: a handler that has the event loop ends, an
\* execution goes on, a worker takes what is ready, and a live worker's sweep
\* restores what nobody holds.  The console polls the task list.
Fairness ==
  /\ \A a \in Apis : WF_vars(FinishHandler(a)) /\ WF_vars(ListSubmissions(a))
  /\ \A p \in Executors : WF_vars(Execute(p))
  /\ \A t \in Tasks : /\ WF_vars(\E w \in Workers : TakeMessage(w, t))
                       /\ WF_vars(RestoreMessage(t) /\ expiries' = expiries)

FairSpec == Spec /\ Fairness

-----------------------------------------------------------------------------
TypeOK ==
  /\ apiPc \in [Apis -> ApiPcs]
  /\ apiReq \in [Apis -> Requests \cup {NoRequest}]
  /\ apiTask \in [Apis -> Tasks \cup {NoTask}]
  /\ snap \in [Apis -> [Tasks -> Row \cup {NoRow}]]
  /\ seen \in [Apis -> [Tasks -> Results]]
  /\ reqOf \in [Tasks -> Requests \cup {NoRequest}]
  /\ msg \in [Tasks -> {"none", "ready", "unacked", "gone"}]
  /\ result \in [Tasks -> Results]
  /\ pc \in [Executors -> ExecPcs]
  /\ holds \in [Executors -> Tasks \cup {NoTask}]
  /\ runReq \in [Executors -> Requests \cup {NoRequest}]
  /\ out \in [Executors -> Outcomes \cup {NoRun}]
  /\ sawTurn \in [Executors -> BOOLEAN]
  /\ broken \in [Executors -> SUBSET {"audit", "review"}]
  /\ ledger \in [Tasks -> Row \cup {NoRow}]
  /\ taskRuns \in [Requests -> Outcomes \cup {NoRun}]
  /\ workflowRuns \in [Requests -> Outcomes \cup {NoRun}]
  /\ reviews \in [Requests -> BOOLEAN]
  /\ userTurns \in [Requests -> Nat]
  /\ assistantTurns \in [Requests -> Nat]
  /\ crashes \in Nat /\ expiries \in Nat /\ syncRuns \in Nat

\* The two audit tables never disagree: a stored workflow run has a task run
\* with the same status, although the rows are committed separately and a
\* redelivered or concurrent execution may try to write either of them.
AuditTablesAgree ==
  \A r \in Requests : workflowRuns[r] # NoRun => workflowRuns[r] = taskRuns[r]

\* What the ledger shows is what is stored: a submission is a success only
\* with a payload, and a payload carries the status of the stored run of its
\* request, whichever of worker, skip path, poll or list wrote the row and
\* whatever it read before.
ShownOutcomeIsStored ==
  \A t \in Tasks :
    /\ ledger[t].status = "success" => ledger[t].payload # NoRun
    /\ ledger[t].payload # NoRun =>
         reqOf[t] \in Requests /\ ledger[t].payload = workflowRuns[reqOf[t]]

\* A stored run has its question and its answer in the transcript: the
\* session turns are committed before the audit rows, on every path.
TranscriptBeforeRun ==
  \A r \in Requests :
    workflowRuns[r] # NoRun => userTurns[r] >= 1 /\ assistantTurns[r] >= 1

\* The question of a request is in the transcript at most once, however often
\* a crash makes the broker deliver the message again (has_request_turn).
UserTurnOnce == \A r \in Requests : userTurns[r] <= 1

\* Late acknowledgement: a message leaves the broker only with a final result
\* in the backend, so no crash can lose a submission.
AckAfterResult ==
  \A t \in Tasks : msg[t] = "gone" => result[t] \in Outcomes \cup {"failure"}

\* A process session is left in need of a rollback only by an execution of a
\* request that had been executed before; without redelivery, timeout and
\* repeated request ids every session stays usable.
SessionsUsable ==
  crashes = 0 /\ expiries = 0 /\ syncRuns = 0 => \A p \in Executors : broken[p] = {}

\* One API process never queues two messages for a request: the handler does
\* not yield between the 409 check, send_task and the row, even though the
\* message is sent before the row that the next check will find.
OneMessagePerRequest ==
  \A t, u \in Tasks : reqOf[t] = reqOf[u] /\ reqOf[t] # NoRequest => t = u

\* Every message sent is eventually acknowledged (acks_late with redelivery,
\* finitely many crashes).
QueueDrains == \A t \in Tasks : msg[t] = "ready" ~> msg[t] = "gone"

\* A submission with a ledger row ends up reported as finished for good: even
\* when the worker finished before the row was written, and although a stale
\* refresh may take a finished row back to an unfinished status for a while.
LedgerSettles ==
  \A t \in Tasks :
    ledger[t] # NoRow ~> [](ledger[t].status \in {"success", "failure"})

\* A workflow that ends FAILED is a failed submission (comment in
\* run_workflow_task): no submission of a failed run is shown as a success.
LedgerFollowsRun ==
  \A t \in Tasks : ledger[t].status = "success" => ledger[t].payload # "failed"

\* Retrying a run that never finished is the right thing to do (docstring of
\* _find_finished_run): when the broker is done with a message, the run of its
\* request is stored.
RetryFinishes ==
  \A t \in Tasks : msg[t] = "gone" => workflowRuns[reqOf[t]] # NoRun

\* A request that reached needs_human_review has its review row (docstring of
\* HumanReviewTask).
ReviewRowPerRequest ==
  \A r \in Requests : workflowRuns[r] = "needs_human_review" => reviews[r]

-----------------------------------------------------------------------------
(* Refinement: the outcome of a request is its workflow run, the outcome   *)
(* shown for a task is the payload of its ledger row.                      *)
Promise == INSTANCE RunOutcome
  WITH owner <- reqOf,
       outcome <- workflowRuns,
       shown <- [t \in Tasks |-> ledger[t].payload]

\* The submission system implements RunOutcome: one outcome per request, kept
\* for ever and never shown for another request, with redelivered messages,
\* concurrent executions, crashes and stale refreshes.
OutcomePromised == Promise!Spec

=============================================================================
