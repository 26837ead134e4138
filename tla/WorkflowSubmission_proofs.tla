---------------------- MODULE WorkflowSubmission_proofs ----------------------
(***************************************************************************)
(* Proofs about WorkflowSubmission for every set of requests, tasks and    *)
(* processes and every bound.                                              *)
(***************************************************************************)
EXTENDS WorkflowSubmission, TLAPS

\* A handler that has the event loop works on a task id of its own: unused
\* while only the check is done, bound to the request once sent.
ApiInv ==
  /\ \A a \in Apis :
       /\ apiPc[a] \in {"checked", "sent"} <=> apiTask[a] \in Tasks
       /\ apiPc[a] = "checked" => apiReq[a] \in Requests /\ reqOf[apiTask[a]] = NoRequest
       /\ apiPc[a] = "sent" => apiReq[a] \in Requests /\ reqOf[apiTask[a]] = apiReq[a]
  /\ \A a, b \in Apis : apiTask[a] = apiTask[b] /\ apiTask[a] # NoTask => a = b
  /\ \A t \in Tasks : msg[t] # "none" => reqOf[t] \in Requests
  /\ \A t \in Tasks : ledger[t] # NoRow => reqOf[t] \in Requests
  /\ \A a \in Apis, t \in Tasks : snap[a][t] # NoRow => ledger[t] # NoRow

\* The program points at which the terminal status is known.
DecidedPcs == {"skip", "turns", "append", "extract", "review", "task_run",
               "workflow_run", "ledger", "result"}

\* The program points an API process passes through (POST /workflows/run).
SyncPcs == {"idle", "agents", "turns", "append", "extract", "review",
            "task_run", "workflow_run", "raised"}

\* An execution knows its request, a worker holds a message of that request.
ExecInv ==
  \A p \in Executors :
    /\ pc[p] # "idle" => runReq[p] \in Requests
    /\ pc[p] \in DecidedPcs => out[p] \in Outcomes
    /\ p \in Apis => pc[p] \in SyncPcs
    /\ p \in Workers /\ pc[p] # "idle" =>
         holds[p] \in Tasks /\ reqOf[holds[p]] = runReq[p]

\* Between its two commits an execution is alone with its request.
AuditInv ==
  /\ AuditTablesAgree
  /\ \A p \in Executors : pc[p] = "workflow_run" =>
       taskRuns[runReq[p]] = out[p] /\ workflowRuns[runReq[p]] = NoRun
  /\ \A p, q \in Executors :
       pc[p] = "workflow_run" /\ pc[q] = "workflow_run" /\ runReq[p] = runReq[q] => p = q

\* The outcome o is the one stored for the request of task t.
StoredFor(t, o) == reqOf[t] \in Requests /\ workflowRuns[reqOf[t]] = o

\* Every copy of an outcome on its way to the ledger is the stored one: in an
\* execution, in the result backend, in a refresh and in the ledger itself.
ExecCopies ==
  \A p \in Executors : pc[p] \in {"skip", "ledger", "result"} =>
    workflowRuns[runReq[p]] = out[p]
ResultCopies ==
  \A t \in Tasks : result[t] \in Outcomes => StoredFor(t, result[t])
SeenCopies ==
  \A a \in Apis, t \in Tasks : seen[a][t] \in Outcomes => StoredFor(t, seen[a][t])
SnapCopies ==
  \A a \in Apis, t \in Tasks :
    snap[a][t].payload # NoRun => ledger[t].payload # NoRun
LedgerCopies ==
  \A t \in Tasks :
    /\ ledger[t].payload # NoRun => StoredFor(t, ledger[t].payload)
    /\ ledger[t].status = "success" => ledger[t].payload # NoRun

CopiesInv == ExecCopies /\ ResultCopies /\ SeenCopies /\ SnapCopies /\ LedgerCopies

IInv == TypeOK /\ ApiInv /\ ExecInv /\ AuditInv /\ CopiesInv

\* What the two ways of writing a ledger row put into it.
LEMMA TypeRow ==
  /\ \A now, loaded \in Row \cup {NoRow}, res \in Results :
       now # NoRow => apply_async_result(now, loaded, res) \in Row
  /\ \A row \in Row \cup {NoRow}, s \in LedgerStatus, o \in Outcomes \cup {NoRun} :
       [status |-> s, payload |-> IF o = NoRun THEN row.payload ELSE o] \in Row
  /\ NoRow \notin Row
  BY DEF Row, NoRow, Results, LedgerStatus, Outcomes, NoRun, apply_async_result,
      celeryStatus

\* Every action keeps every variable in its type.
LEMMA TypeStep ==
  ASSUME TypeOK, ApiInv, ExecInv, [Next]_vars
  PROVE  TypeOK'
<1> USE DEF TypeOK, Row, NoRow, NoRows, LedgerStatus, Outcomes, NoRun, Results, ApiPcs,
    ExecPcs, Executors, apiVars, queueVars, execVars, dbVars, auditVars, turnVars,
    envVars
<1>1. ASSUME NEW a \in Apis, NEW t \in Tasks, NEW r \in Requests, CheckRequestId(a, t, r)
      PROVE  TypeOK'
  BY <1>1 DEF CheckRequestId
<1>2. ASSUME NEW a \in Apis, SendTask(a) PROVE TypeOK'
  BY <1>2 DEF SendTask
<1>3. ASSUME NEW a \in Apis, CreateSubmission(a) PROVE TypeOK'
  BY <1>3 DEF CreateSubmission
<1>4. ASSUME NEW a \in Apis, NEW t \in Tasks, RefreshSubmissionStatus(a, t) PROVE TypeOK'
  BY <1>4 DEF RefreshSubmissionStatus, LoadRows
<1>5. ASSUME NEW a \in Apis, ListSubmissions(a) PROVE TypeOK'
  BY <1>5 DEF ListSubmissions, LoadRows
<1>6. ASSUME NEW a \in Apis, ReadAsyncResults(a) PROVE TypeOK'
  BY <1>6 DEF ReadAsyncResults
<1>7. ASSUME NEW a \in Apis, NEW r \in Requests, RunWorkflowSync(a, r) PROVE TypeOK'
  BY <1>7 DEF RunWorkflowSync, At, Goto
<1>8. ASSUME NEW w \in Workers, NEW t \in Tasks, TakeMessage(w, t) PROVE TypeOK'
  BY <1>8 DEF TakeMessage, Delivered, StoredResult
<1>9. ASSUME NEW p \in Executors, SkipDuplicate(p) PROVE TypeOK'
  BY <1>9 DEF SkipDuplicate, At, Goto, LedgerUpdate
<1>10. ASSUME NEW p \in Executors, BeginExecution(p) PROVE TypeOK'
  BY <1>10 DEF BeginExecution, At, Goto, LedgerUpdate
<1>11. ASSUME NEW p \in Executors, NEW o \in Outcomes, RunAgents(p, o) PROVE TypeOK'
  BY <1>11 DEF RunAgents, At, Goto
<1>12. ASSUME NEW p \in Executors, ToolLogRaises(p) PROVE TypeOK'
  BY <1>12 DEF ToolLogRaises, At, Goto
<1>13. ASSUME NEW p \in Executors, HasRequestTurn(p) PROVE TypeOK'
  BY <1>13 DEF HasRequestTurn, has_request_turn, At, Goto
<1>14. ASSUME NEW p \in Executors, ExtractMemories(p) PROVE TypeOK'
  <2>1. pc' = [pc EXCEPT ![p] = "review"] \/ pc' = [pc EXCEPT ![p] = "raised"]
    BY <1>14, Zenon DEF ExtractMemories, Goto
  <2>2. pc' \in [Executors -> ExecPcs]
    <3>1. {"review", "raised"} \subseteq ExecPcs
      BY DEF ExecPcs
    <3> HIDE DEF Executors, ExecPcs
    <3>2. pc \in [Executors -> ExecPcs]
      BY DEF TypeOK
    <3> QED BY ONLY <2>1, <3>1, <3>2
  <2>3. UNCHANGED <<apiVars, queueVars, holds, runReq, out, sawTurn, broken, dbVars, envVars>>
    BY <1>14, Zenon DEF ExtractMemories
  <2> QED BY <2>2, <2>3
<1>15. ASSUME NEW p \in Executors, ReportTerminalState(p) PROVE TypeOK'
  BY <1>15 DEF ReportTerminalState, At, Goto, LedgerUpdate
<1>16. ASSUME NEW p \in Executors, Acknowledge(p) PROVE TypeOK'
  BY <1>16 DEF Acknowledge, Removable, At, Goto, Leave
<1>17. ASSUME NEW t \in Tasks, RestoreMessage(t) PROVE TypeOK'
  BY <1>17 DEF RestoreMessage
<1>18. ASSUME NEW t \in Tasks, ExpireResult(t) PROVE TypeOK'
  BY <1>18 DEF ExpireResult
<1>19. CASE UNCHANGED vars
  BY <1>19 DEF vars
<1> HIDE DEF TypeOK, Row, NoRow, NoRows, LedgerStatus, Outcomes, NoRun, Results, ApiPcs,
    ExecPcs, Executors, apiVars, queueVars, execVars, dbVars, auditVars, turnVars,
    envVars
<1>20. ASSUME NEW a \in Apis, CommitRefresh(a) PROVE TypeOK'
  <2>1. ledger \in [Tasks -> Row \cup {NoRow}]
        /\ snap[a] \in [Tasks -> Row \cup {NoRow}] /\ seen[a] \in [Tasks -> Results]
    BY <1>20 DEF TypeOK
  <2>2. \A t \in Tasks : snap[a][t] # NoRow => ledger[t] # NoRow
    BY <1>20 DEF ApiInv
  <2>3. ASSUME NEW t \in Tasks PROVE IF snap[a][t] = NoRow THEN ledger[t] \in Row \cup {NoRow}
          ELSE apply_async_result(ledger[t], snap[a][t], seen[a][t]) \in Row
    BY <1>20, <2>1, <2>2, TypeRow
  <2>4. ledger' \in [Tasks -> Row \cup {NoRow}]
    BY <1>20, <2>1, <2>3 DEF CommitRefresh
  <2>5. apiPc' \in [Apis -> ApiPcs]
        /\ snap' \in [Apis -> [Tasks -> Row \cup {NoRow}]] /\ seen' \in [Apis -> [Tasks -> Results]]
    BY <1>20 DEF CommitRefresh, TypeOK, ApiPcs, NoRows, Results
  <2>q. QED
    BY <1>20, <2>1, <2>2, <2>3, <2>4, <2>5 DEF CommitRefresh, TypeOK, apiVars,
        queueVars, execVars, dbVars, auditVars, turnVars, envVars
<1>21. ASSUME NEW p \in Executors, FindFinishedRun(p) PROVE TypeOK'
  <2>1. /\ pc \in [Executors -> ExecPcs]
        /\ out \in [Executors -> Outcomes \cup {NoRun}]
    BY <1>21 DEF TypeOK
  <2>2. pc' \in [Executors -> ExecPcs]
    BY <1>21, <2>1 DEF FindFinishedRun, Goto, ExecPcs
  <2>3. runReq[p] \in Requests
    BY <1>21 DEF FindFinishedRun, At, ExecInv
  <2>4. workflowRuns[runReq[p]] \in Outcomes \cup {NoRun}
    BY <1>21, <2>3 DEF TypeOK
  <2>5. out' \in [Executors -> Outcomes \cup {NoRun}]
    BY <1>21, <2>1, <2>4 DEF FindFinishedRun
  <2>q. QED
    BY <1>21, <2>1, <2>2, <2>3, <2>4, <2>5 DEF FindFinishedRun, TypeOK, apiVars,
        queueVars, execVars, dbVars, auditVars, turnVars, envVars
<1>22. ASSUME NEW p \in Executors, AppendTurns(p) PROVE TypeOK'
  <2>1. pc' \in [Executors -> ExecPcs]
    BY <1>22 DEF AppendTurns, At, Goto, TypeOK, ExecPcs
  <2>2. /\ userTurns \in [Requests -> Nat] /\ assistantTurns \in [Requests -> Nat]
        /\ sawTurn[p] \in BOOLEAN
    BY <1>22 DEF TypeOK
  <2>3. runReq[p] \in Requests
    BY <1>22 DEF AppendTurns, At, ExecInv
  <2>4. userTurns' \in [Requests -> Nat] /\ assistantTurns' \in [Requests -> Nat]
    BY <1>22, <2>2, <2>3 DEF AppendTurns
  <2>q. QED
    BY <1>22, <2>1, <2>2, <2>3, <2>4 DEF AppendTurns, TypeOK, apiVars, queueVars,
        execVars, dbVars, auditVars, turnVars, envVars
<1>23. ASSUME NEW p \in Executors, CreateHumanReview(p) PROVE TypeOK'
  <2>1. pc' \in [Executors -> ExecPcs]
    BY <1>23 DEF CreateHumanReview, At, Goto, TypeOK, ExecPcs
  <2>2. reviews \in [Requests -> BOOLEAN] /\ broken \in [Executors -> SUBSET {"audit", "review"}]
    BY <1>23 DEF TypeOK
  <2>3. reviews' \in [Requests -> BOOLEAN] /\ broken' \in [Executors -> SUBSET {"audit", "review"}]
    BY <1>23, <2>2 DEF CreateHumanReview, FlushFails
  <2>q. QED
    BY <1>23, <2>1, <2>2, <2>3 DEF CreateHumanReview, TypeOK, apiVars, queueVars,
        execVars, dbVars, auditVars, turnVars, envVars
<1>24. ASSUME NEW p \in Executors, SaveRuntimeRecords(p) PROVE TypeOK'
  <2>1. /\ pc \in [Executors -> ExecPcs] /\ broken \in [Executors -> SUBSET {"audit", "review"}]
        /\ out[p] \in Outcomes \cup {NoRun}
        /\ taskRuns \in [Requests -> Outcomes \cup {NoRun}]
    BY <1>24 DEF TypeOK
  <2>2. pc' \in [Executors -> ExecPcs]
    BY <1>24, <2>1 DEF SaveRuntimeRecords, Goto, FlushFails, ExecPcs
  <2>3. broken' \in [Executors -> SUBSET {"audit", "review"}]
    BY <1>24, <2>1 DEF SaveRuntimeRecords, FlushFails
  <2>4. taskRuns' \in [Requests -> Outcomes \cup {NoRun}]
    BY <1>24, <2>1 DEF SaveRuntimeRecords, FlushFails
  <2>q. QED
    BY <1>24, <2>1, <2>2, <2>3, <2>4 DEF SaveRuntimeRecords, TypeOK, apiVars,
        queueVars, execVars, dbVars, auditVars, turnVars, envVars
<1>25. ASSUME NEW p \in Executors, SaveWorkflowRun(p) PROVE TypeOK'
  <2>1. /\ pc \in [Executors -> ExecPcs] /\ broken \in [Executors -> SUBSET {"audit", "review"}]
        /\ out[p] \in Outcomes \cup {NoRun}
        /\ workflowRuns \in [Requests -> Outcomes \cup {NoRun}]
    BY <1>25 DEF TypeOK
  <2>2. /\ holds \in [Executors -> Tasks \cup {NoTask}]
        /\ runReq \in [Executors -> Requests \cup {NoRequest}]
        /\ out \in [Executors -> Outcomes \cup {NoRun}]
        /\ sawTurn \in [Executors -> BOOLEAN]
    BY <1>25 DEF TypeOK
  <2>3. pc' \in [Executors -> ExecPcs]
    BY <1>25, <2>1 DEF SaveWorkflowRun, Goto, FlushFails, Leave, ExecPcs
  <2>4. broken' \in [Executors -> SUBSET {"audit", "review"}]
    BY <1>25, <2>1 DEF SaveWorkflowRun, FlushFails
  <2>5. workflowRuns' \in [Requests -> Outcomes \cup {NoRun}]
    BY <1>25, <2>1 DEF SaveWorkflowRun, FlushFails
  <2>6. /\ holds' \in [Executors -> Tasks \cup {NoTask}]
        /\ runReq' \in [Executors -> Requests \cup {NoRequest}]
        /\ out' \in [Executors -> Outcomes \cup {NoRun}]
        /\ sawTurn' \in [Executors -> BOOLEAN]
    BY <1>25, <2>2 DEF SaveWorkflowRun, FlushFails, Leave
  <2>q. QED
    BY <1>25, <2>1, <2>2, <2>3, <2>4, <2>5, <2>6 DEF SaveWorkflowRun, TypeOK,
        apiVars, queueVars, execVars, dbVars, auditVars, turnVars, envVars
<1>26. ASSUME NEW p \in Executors, ReportException(p) PROVE TypeOK'
  <2>1. /\ pc \in [Executors -> ExecPcs]
        /\ ledger \in [Tasks -> Row \cup {NoRow}]
    BY <1>26 DEF TypeOK
  <2>2. /\ holds \in [Executors -> Tasks \cup {NoTask}]
        /\ runReq \in [Executors -> Requests \cup {NoRequest}]
        /\ out \in [Executors -> Outcomes \cup {NoRun}]
        /\ sawTurn \in [Executors -> BOOLEAN]
    BY <1>26 DEF TypeOK
  <2>3. pc' \in [Executors -> ExecPcs]
    BY <1>26, <2>1 DEF ReportException, Goto, Leave, ExecPcs
  <2>4. ledger' \in [Tasks -> Row \cup {NoRow}]
    BY <1>26, <2>1, TypeRow DEF ReportException, LedgerUpdate, LedgerStatus
  <2>5. /\ holds' \in [Executors -> Tasks \cup {NoTask}]
        /\ runReq' \in [Executors -> Requests \cup {NoRequest}]
        /\ out' \in [Executors -> Outcomes \cup {NoRun}]
        /\ sawTurn' \in [Executors -> BOOLEAN]
    BY <1>26, <2>2 DEF ReportException, Leave
  <2>q. QED
    BY <1>26, <2>1, <2>2, <2>3, <2>4, <2>5 DEF ReportException, TypeOK, apiVars,
        queueVars, execVars, dbVars, auditVars, turnVars, envVars
<1>27. ASSUME NEW p \in Executors, StoreResult(p) PROVE TypeOK'
  <2>1. pc' \in [Executors -> ExecPcs]
    BY <1>27 DEF StoreResult, At, Goto, TypeOK, ExecPcs
  <2>2. pc[p] = "result" => out[p] \in Outcomes
    BY <1>27 DEF ExecInv, DecidedPcs
  <2>3. result \in [Tasks -> Results]
    BY <1>27 DEF TypeOK
  <2>4. result' \in [Tasks -> Results]
    BY <1>27, <2>2, <2>3 DEF StoreResult, StoredResult, At, Results
  <2>q. QED
    BY <1>27, <2>1, <2>2, <2>3, <2>4 DEF StoreResult, TypeOK, apiVars, queueVars,
        execVars, dbVars, auditVars, turnVars, envVars
<1>28. ASSUME NEW p \in Executors, Crash(p) PROVE TypeOK'
  <2>1. /\ pc \in [Executors -> ExecPcs] /\ broken \in [Executors -> SUBSET {"audit", "review"}] /\ crashes \in Nat
    BY <1>28 DEF TypeOK
  <2>2. /\ holds \in [Executors -> Tasks \cup {NoTask}]
        /\ runReq \in [Executors -> Requests \cup {NoRequest}]
        /\ out \in [Executors -> Outcomes \cup {NoRun}]
        /\ sawTurn \in [Executors -> BOOLEAN]
    BY <1>28 DEF TypeOK
  <2>3. /\ apiPc \in [Apis -> ApiPcs]
        /\ apiReq \in [Apis -> Requests \cup {NoRequest}]
        /\ apiTask \in [Apis -> Tasks \cup {NoTask}]
    BY <1>28 DEF TypeOK
  <2>4. snap \in [Apis -> [Tasks -> Row \cup {NoRow}]] /\ seen \in [Apis -> [Tasks -> Results]]
    BY <1>28 DEF TypeOK
  <2>5. /\ pc' \in [Executors -> ExecPcs]
        /\ holds' \in [Executors -> Tasks \cup {NoTask}]
        /\ runReq' \in [Executors -> Requests \cup {NoRequest}]
        /\ out' \in [Executors -> Outcomes \cup {NoRun}]
        /\ sawTurn' \in [Executors -> BOOLEAN]
    BY <1>28, <2>1, <2>2 DEF Crash, Leave, Goto, ExecPcs
  <2>6. broken' \in [Executors -> SUBSET {"audit", "review"}] /\ crashes' \in Nat
    BY <1>28, <2>1 DEF Crash
  <2>7. /\ apiPc' \in [Apis -> ApiPcs]
        /\ apiReq' \in [Apis -> Requests \cup {NoRequest}]
        /\ apiTask' \in [Apis -> Tasks \cup {NoTask}]
    BY <1>28, <2>3 DEF Crash, ApiPcs, apiVars
  <2>8. NoRow \in Row \cup {NoRow} /\ "pending" \in Results /\ NoRows \in [Tasks -> Row \cup {NoRow}]
        /\ [t \in Tasks |-> "pending"] \in [Tasks -> Results]
    BY <1>28 DEF Results, NoRows
  <2>9. snap' \in [Apis -> [Tasks -> Row \cup {NoRow}]] /\ seen' \in [Apis -> [Tasks -> Results]]
    <3>1. CASE p \in Apis
      BY <1>28, <2>4, <2>8, <3>1 DEF Crash
    <3>2. CASE p \notin Apis
      BY <1>28, <2>4, <3>2 DEF Crash, apiVars
    <3>q. QED  BY <3>1, <3>2
  <2>q. QED
    BY <1>28, <2>1, <2>2, <2>3, <2>4, <2>5, <2>6, <2>7, <2>8, <2>9 DEF Crash,
        TypeOK, apiVars, queueVars, execVars, dbVars, auditVars, turnVars, envVars
<1>q. QED
  BY <1>1, <1>2, <1>3, <1>4, <1>5, <1>6, <1>7, <1>8, <1>9, <1>10, <1>11, <1>12, <1>13,
      <1>14, <1>15, <1>16, <1>17, <1>18, <1>19, <1>20, <1>21, <1>22, <1>23, <1>24,
      <1>25, <1>26, <1>27, <1>28 DEF Next, Submit, Execute

\* A worker's ledger update makes no row and drops none.
LEMMA RowsKept ==
  ASSUME TypeOK, NEW p \in Executors, NEW s \in LedgerStatus,
         NEW o \in Outcomes \cup {NoRun}, LedgerUpdate(p, s, o)
  PROVE  \A t \in Tasks : ledger'[t] # NoRow <=> ledger[t] # NoRow
<1>1. \A t \in Tasks : ledger[t] \in Row \cup {NoRow}
  BY DEF TypeOK
<1>2. NoRow \notin Row
  BY DEF Row, NoRow, LedgerStatus
<1>3. ASSUME NEW t \in Tasks PROVE ledger'[t] # NoRow <=> ledger[t] # NoRow
  <2>1. CASE t # holds[p] \/ ledger[t] = NoRow
    BY <2>1 DEF LedgerUpdate, TypeOK
  <2>2. CASE t = holds[p] /\ ledger[t] # NoRow
    <3>1. ledger'[t] = [status |-> s, payload |-> IF o = NoRun THEN ledger[t].payload ELSE o]
      BY <2>2 DEF LedgerUpdate, TypeOK
    <3>q. QED  BY <1>1, <1>2, <2>2, <3>1, TypeRow
  <2>q. QED  BY <2>1, <2>2
<1>q. QED  BY <1>3

\* Handlers keep their task ids apart, and a request is bound for ever.
LEMMA ApiStep ==
  ASSUME TypeOK, ApiInv, [Next]_vars
  PROVE  ApiInv'
<1> USE DEF TypeOK, ApiInv, Row, NoRow, NoRows, Executors, NoRun, apiVars, queueVars,
    execVars, dbVars, auditVars, turnVars, envVars
<1>1. ASSUME NEW a \in Apis, NEW t \in Tasks, NEW r \in Requests, CheckRequestId(a, t, r)
      PROVE  ApiInv'
  BY <1>1, SubmissionAssumption DEF CheckRequestId
<1>2. ASSUME NEW a \in Apis, SendTask(a) PROVE ApiInv'
  BY <1>2, SubmissionAssumption DEF SendTask
<1>3. ASSUME NEW a \in Apis, CreateSubmission(a) PROVE ApiInv'
  BY <1>3, SubmissionAssumption DEF CreateSubmission
<1>4. ASSUME NEW a \in Apis, NEW t \in Tasks, RefreshSubmissionStatus(a, t) PROVE ApiInv'
  BY <1>4, SubmissionAssumption DEF RefreshSubmissionStatus, LoadRows
<1>5. ASSUME NEW a \in Apis, ListSubmissions(a) PROVE ApiInv'
  BY <1>5, SubmissionAssumption DEF ListSubmissions, LoadRows
<1>6. ASSUME NEW a \in Apis, ReadAsyncResults(a) PROVE ApiInv'
  BY <1>6, SubmissionAssumption DEF ReadAsyncResults
<1>7. ASSUME NEW a \in Apis, NEW r \in Requests, RunWorkflowSync(a, r) PROVE ApiInv'
  BY <1>7, SubmissionAssumption DEF RunWorkflowSync, At, Goto
<1>8. ASSUME NEW w \in Workers, NEW t \in Tasks, TakeMessage(w, t) PROVE ApiInv'
  BY <1>8, SubmissionAssumption DEF TakeMessage, Delivered, StoredResult
<1>9. ASSUME NEW p \in Executors, FindFinishedRun(p) PROVE ApiInv'
  BY <1>9, SubmissionAssumption DEF FindFinishedRun, At, Goto
<1>10. ASSUME NEW p \in Executors, SkipDuplicate(p) PROVE ApiInv'
  BY <1>10, SubmissionAssumption DEF SkipDuplicate, At, Goto, LedgerUpdate
<1>11. ASSUME NEW p \in Executors, BeginExecution(p) PROVE ApiInv'
  BY <1>11, SubmissionAssumption DEF BeginExecution, At, Goto, LedgerUpdate
<1>12. ASSUME NEW p \in Executors, NEW o \in Outcomes, RunAgents(p, o) PROVE ApiInv'
  BY <1>12, SubmissionAssumption DEF RunAgents, At, Goto
<1>13. ASSUME NEW p \in Executors, ToolLogRaises(p) PROVE ApiInv'
  BY <1>13, SubmissionAssumption DEF ToolLogRaises, At, Goto
<1>14. ASSUME NEW p \in Executors, HasRequestTurn(p) PROVE ApiInv'
  BY <1>14, SubmissionAssumption DEF HasRequestTurn, has_request_turn, At, Goto
<1>15. ASSUME NEW p \in Executors, AppendTurns(p) PROVE ApiInv'
  BY <1>15, SubmissionAssumption DEF AppendTurns, At, Goto
<1>16. ASSUME NEW p \in Executors, ExtractMemories(p) PROVE ApiInv'
  BY <1>16, SubmissionAssumption DEF ExtractMemories, At, Goto
<1>17. ASSUME NEW p \in Executors, CreateHumanReview(p) PROVE ApiInv'
  BY <1>17, SubmissionAssumption DEF CreateHumanReview, At, Goto, FlushFails
<1>18. ASSUME NEW p \in Executors, SaveRuntimeRecords(p) PROVE ApiInv'
  BY <1>18, SubmissionAssumption DEF SaveRuntimeRecords, At, Goto, FlushFails
<1>19. ASSUME NEW p \in Executors, SaveWorkflowRun(p) PROVE ApiInv'
  BY <1>19, SubmissionAssumption DEF SaveWorkflowRun, At, Goto, FlushFails, Leave
<1>20. ASSUME NEW p \in Executors, ReportTerminalState(p) PROVE ApiInv'
  BY <1>20, SubmissionAssumption DEF ReportTerminalState, At, Goto, LedgerUpdate
<1>21. ASSUME NEW p \in Executors, StoreResult(p) PROVE ApiInv'
  BY <1>21, SubmissionAssumption DEF StoreResult, At, Goto, StoredResult
<1>22. ASSUME NEW p \in Executors, Acknowledge(p) PROVE ApiInv'
  BY <1>22, SubmissionAssumption DEF Acknowledge, Removable, At, Goto, Leave
<1>23. ASSUME NEW t \in Tasks, RestoreMessage(t) PROVE ApiInv'
  BY <1>23, SubmissionAssumption DEF RestoreMessage
<1>24. ASSUME NEW t \in Tasks, ExpireResult(t) PROVE ApiInv'
  BY <1>24, SubmissionAssumption DEF ExpireResult
<1>25. CASE UNCHANGED vars
  BY <1>25, SubmissionAssumption DEF vars
<1> HIDE DEF TypeOK, ApiInv, Row, NoRow, NoRows, Executors, NoRun, apiVars, queueVars,
    execVars, dbVars, auditVars, turnVars, envVars
<1>26. ASSUME NEW a \in Apis, CommitRefresh(a) PROVE ApiInv'
  <2>1. \A b \in Apis, t \in Tasks : snap[b][t] # NoRow => ledger[t] # NoRow
    BY <1>26 DEF ApiInv
  <2>2. ASSUME NEW t \in Tasks PROVE ledger'[t] # NoRow <=> ledger[t] # NoRow
    <3>1. /\ ledger[t] \in Row \cup {NoRow} /\ snap[a][t] \in Row \cup {NoRow}
          /\ seen[a][t] \in Results
      BY DEF TypeOK
    <3>2. ledger'[t] = IF snap[a][t] = NoRow THEN ledger[t]
                       ELSE apply_async_result(ledger[t], snap[a][t], seen[a][t])
      BY <1>26 DEF CommitRefresh
    <3>q. QED  BY <2>1, <3>1, <3>2, TypeRow
  <2>3. \A b \in Apis, t \in Tasks : snap'[b][t] # NoRow => ledger'[t] # NoRow
    BY <1>26, <2>1, <2>2 DEF CommitRefresh, NoRows, TypeOK
  <2>4. \A b \in Apis : apiPc'[b] \in {"checked", "sent"} <=> apiPc[b] \in {"checked", "sent"}
    BY <1>26 DEF CommitRefresh, TypeOK
  <2>5. \A b \in Apis : apiPc'[b] \in {"checked", "sent"} => apiPc'[b] = apiPc[b]
    BY <1>26 DEF CommitRefresh, TypeOK
  <2>q. QED
    BY <1>26, <2>1, <2>2, <2>3, <2>4, <2>5 DEF CommitRefresh, ApiInv, apiVars,
        queueVars, execVars, dbVars, auditVars, turnVars, envVars
<1>27. ASSUME NEW p \in Executors, ReportException(p) PROVE ApiInv'
  <2>1. \A t \in Tasks : ledger'[t] # NoRow <=> ledger[t] # NoRow
    BY <1>27, RowsKept DEF ReportException, LedgerStatus
  <2>q. QED
    BY <1>27, <2>1 DEF ReportException, ApiInv, apiVars, queueVars
<1>28. ASSUME NEW p \in Executors, Crash(p) PROVE ApiInv'
  <2>1. UNCHANGED <<reqOf, msg, ledger>>
    BY <1>28 DEF Crash, queueVars, dbVars
  <2>2. CASE p \notin Apis
    BY <1>28, <2>1, <2>2 DEF Crash, ApiInv, apiVars
  <2>3. CASE p \in Apis
    <3>1. /\ apiPc' = [apiPc EXCEPT ![p] = "free"]
          /\ apiTask' = [apiTask EXCEPT ![p] = NoTask]
          /\ apiReq' = [apiReq EXCEPT ![p] = NoRequest]
          /\ snap' = [snap EXCEPT ![p] = NoRows]
      BY <1>28, <2>3 DEF Crash
    <3>2. \A a \in Apis, t \in Tasks : snap'[a][t] # NoRow => snap[a][t] # NoRow
      BY <3>1 DEF TypeOK, NoRows
    <3>3. \A a \in Apis \ {p} :
            apiPc'[a] = apiPc[a] /\ apiTask'[a] = apiTask[a] /\ apiReq'[a] = apiReq[a]
      BY <3>1 DEF TypeOK
    <3>4. apiPc'[p] = "free" /\ apiTask'[p] = NoTask
      BY <2>3, <3>1 DEF TypeOK
    <3>q. QED
      BY <2>1, <3>2, <3>3, <3>4, SubmissionAssumption DEF ApiInv
  <2>q. QED  BY <2>2, <2>3
<1>q. QED
  BY <1>1, <1>2, <1>3, <1>4, <1>5, <1>6, <1>7, <1>8, <1>9, <1>10, <1>11, <1>12, <1>13,
      <1>14, <1>15, <1>16, <1>17, <1>18, <1>19, <1>20, <1>21, <1>22, <1>23, <1>24,
      <1>25, <1>26, <1>27, <1>28 DEF Next, Submit, Execute

\* An execution keeps its request and its outcome until it leaves.
LEMMA ExecStep ==
  ASSUME TypeOK, ApiInv, ExecInv, [Next]_vars
  PROVE  ExecInv'
<1> USE DEF TypeOK, ApiInv, ExecInv, Executors, Outcomes, NoRun, DecidedPcs, SyncPcs,
    ExecPcs, apiVars, queueVars, execVars, dbVars, auditVars, turnVars, envVars
<1>1. ASSUME NEW a \in Apis, NEW t \in Tasks, NEW r \in Requests, CheckRequestId(a, t, r)
      PROVE  ExecInv'
  BY <1>1, SubmissionAssumption DEF CheckRequestId
<1>2. ASSUME NEW a \in Apis, SendTask(a) PROVE ExecInv'
  BY <1>2, SubmissionAssumption DEF SendTask
<1>3. ASSUME NEW a \in Apis, CreateSubmission(a) PROVE ExecInv'
  BY <1>3, SubmissionAssumption DEF CreateSubmission
<1>4. ASSUME NEW a \in Apis, NEW t \in Tasks, RefreshSubmissionStatus(a, t) PROVE ExecInv'
  BY <1>4, SubmissionAssumption DEF RefreshSubmissionStatus, LoadRows
<1>5. ASSUME NEW a \in Apis, ListSubmissions(a) PROVE ExecInv'
  BY <1>5, SubmissionAssumption DEF ListSubmissions, LoadRows
<1>6. ASSUME NEW a \in Apis, ReadAsyncResults(a) PROVE ExecInv'
  BY <1>6, SubmissionAssumption DEF ReadAsyncResults
<1>7. ASSUME NEW a \in Apis, CommitRefresh(a) PROVE ExecInv'
  BY <1>7, SubmissionAssumption DEF CommitRefresh, apply_async_result, celeryStatus
<1>8. ASSUME NEW a \in Apis, NEW r \in Requests, RunWorkflowSync(a, r) PROVE ExecInv'
  BY <1>8, SubmissionAssumption DEF RunWorkflowSync, At, Goto
<1>9. ASSUME NEW w \in Workers, NEW t \in Tasks, TakeMessage(w, t) PROVE ExecInv'
  BY <1>9, SubmissionAssumption DEF TakeMessage, Delivered, StoredResult
<1>10. ASSUME NEW p \in Executors, SkipDuplicate(p) PROVE ExecInv'
  BY <1>10, SubmissionAssumption DEF SkipDuplicate, At, Goto, LedgerUpdate
<1>11. ASSUME NEW p \in Executors, BeginExecution(p) PROVE ExecInv'
  BY <1>11, SubmissionAssumption DEF BeginExecution, At, Goto, LedgerUpdate
<1>12. ASSUME NEW p \in Executors, NEW o \in Outcomes, RunAgents(p, o) PROVE ExecInv'
  BY <1>12, SubmissionAssumption DEF RunAgents, At, Goto
<1>13. ASSUME NEW p \in Executors, ToolLogRaises(p) PROVE ExecInv'
  BY <1>13, SubmissionAssumption DEF ToolLogRaises, At, Goto
<1>14. ASSUME NEW p \in Executors, HasRequestTurn(p) PROVE ExecInv'
  BY <1>14, SubmissionAssumption DEF HasRequestTurn, has_request_turn, At, Goto
<1>15. ASSUME NEW p \in Executors, AppendTurns(p) PROVE ExecInv'
  BY <1>15, SubmissionAssumption DEF AppendTurns, At, Goto
<1>16. ASSUME NEW p \in Executors, CreateHumanReview(p) PROVE ExecInv'
  BY <1>16, SubmissionAssumption DEF CreateHumanReview, At, Goto, FlushFails
<1>17. ASSUME NEW p \in Executors, SaveRuntimeRecords(p) PROVE ExecInv'
  BY <1>17, SubmissionAssumption DEF SaveRuntimeRecords, At, Goto, FlushFails
<1>18. ASSUME NEW p \in Executors, ReportTerminalState(p) PROVE ExecInv'
  BY <1>18, SubmissionAssumption DEF ReportTerminalState, At, Goto, LedgerUpdate
<1>19. ASSUME NEW p \in Executors, StoreResult(p) PROVE ExecInv'
  BY <1>19, SubmissionAssumption DEF StoreResult, At, Goto, StoredResult
<1>20. ASSUME NEW p \in Executors, Acknowledge(p) PROVE ExecInv'
  BY <1>20, SubmissionAssumption DEF Acknowledge, Removable, At, Goto, Leave
<1>21. ASSUME NEW p \in Executors, Crash(p) PROVE ExecInv'
  BY <1>21, SubmissionAssumption DEF Crash, Goto, Leave
<1>22. ASSUME NEW t \in Tasks, RestoreMessage(t) PROVE ExecInv'
  BY <1>22, SubmissionAssumption DEF RestoreMessage
<1>23. ASSUME NEW t \in Tasks, ExpireResult(t) PROVE ExecInv'
  BY <1>23, SubmissionAssumption DEF ExpireResult
<1>24. CASE UNCHANGED vars
  BY <1>24, SubmissionAssumption DEF vars
<1> HIDE DEF TypeOK, ApiInv, ExecInv, Executors, Outcomes, NoRun, DecidedPcs, SyncPcs,
    ExecPcs, apiVars, queueVars, execVars, dbVars, auditVars, turnVars, envVars
<1>25. ASSUME NEW p \in Executors, FindFinishedRun(p) PROVE ExecInv'
  <2>1. \A q \in Executors \ {p} :
          /\ pc'[q] = pc[q] /\ runReq'[q] = runReq[q]
          /\ out'[q] = out[q] /\ holds'[q] = holds[q]
    BY <1>25 DEF FindFinishedRun, Goto, Leave, TypeOK
  <2>2. /\ pc[p] = "taken" /\ p \notin Apis
        /\ runReq'[p] = runReq[p] /\ holds'[p] = holds[p]
        /\ pc'[p] \in {"skip", "begin"} /\ (pc'[p] = "skip" => out'[p] \in Outcomes)
    BY <1>25 DEF FindFinishedRun, At, Goto, TypeOK, ExecInv, SyncPcs
  <2>q. QED
    BY <1>25, SubmissionAssumption, <2>1, <2>2 DEF FindFinishedRun, ExecInv,
        DecidedPcs, SyncPcs, Executors, queueVars
<1>26. ASSUME NEW p \in Executors, ExtractMemories(p) PROVE ExecInv'
  <2>1. \A q \in Executors \ {p} :
          /\ pc'[q] = pc[q] /\ runReq'[q] = runReq[q]
          /\ out'[q] = out[q] /\ holds'[q] = holds[q]
    BY <1>26 DEF ExtractMemories, Goto, Leave, TypeOK
  <2>2. /\ pc[p] = "extract" /\ pc'[p] \in {"review", "raised"}
        /\ runReq'[p] = runReq[p] /\ holds'[p] = holds[p] /\ out'[p] = out[p]
    BY <1>26 DEF ExtractMemories, At, Goto, TypeOK
  <2>q. QED
    BY <1>26, SubmissionAssumption, <2>1, <2>2 DEF ExtractMemories, ExecInv,
        DecidedPcs, SyncPcs, Executors, queueVars
<1>27. ASSUME NEW p \in Executors, SaveWorkflowRun(p) PROVE ExecInv'
  <2>1. \A q \in Executors \ {p} :
          /\ pc'[q] = pc[q] /\ runReq'[q] = runReq[q]
          /\ out'[q] = out[q] /\ holds'[q] = holds[q]
    BY <1>27 DEF SaveWorkflowRun, Goto, Leave, TypeOK
  <2>2. /\ pc[p] = "workflow_run"
        /\ \/ pc'[p] = "idle" /\ p \in Apis
           \/ /\ pc'[p] = "raised" \/ (pc'[p] = "ledger" /\ p \notin Apis)
              /\ runReq'[p] = runReq[p] /\ holds'[p] = holds[p] /\ out'[p] = out[p]
    BY <1>27 DEF SaveWorkflowRun, At, Goto, Leave, TypeOK
  <2>q. QED
    BY <1>27, SubmissionAssumption, <2>1, <2>2 DEF SaveWorkflowRun, ExecInv,
        DecidedPcs, SyncPcs, Executors, queueVars
<1>28. ASSUME NEW p \in Executors, ReportException(p) PROVE ExecInv'
  <2>1. \A q \in Executors \ {p} :
          /\ pc'[q] = pc[q] /\ runReq'[q] = runReq[q]
          /\ out'[q] = out[q] /\ holds'[q] = holds[q]
    BY <1>28 DEF ReportException, Goto, Leave, TypeOK
  <2>2. /\ pc[p] = "raised"
        /\ \/ pc'[p] = "idle" /\ p \in Apis
           \/ /\ pc'[p] = "failed_result" /\ p \notin Apis
              /\ runReq'[p] = runReq[p] /\ holds'[p] = holds[p]
    BY <1>28 DEF ReportException, At, Goto, Leave, TypeOK
  <2>q. QED
    BY <1>28, SubmissionAssumption, <2>1, <2>2 DEF ReportException, ExecInv,
        DecidedPcs, SyncPcs, Executors, queueVars
<1>q. QED
  BY <1>1, <1>2, <1>3, <1>4, <1>5, <1>6, <1>7, <1>8, <1>9, <1>10, <1>11, <1>12, <1>13,
      <1>14, <1>15, <1>16, <1>17, <1>18, <1>19, <1>20, <1>21, <1>22, <1>23, <1>24,
      <1>25, <1>26, <1>27, <1>28 DEF Next, Submit, Execute

\* A step that writes no audit row and brings nobody between the two commits.
LEMMA AuditFrame ==
  ASSUME AuditInv, UNCHANGED auditVars,
         \A q \in Executors : pc'[q] = "workflow_run" =>
           pc[q] = "workflow_run" /\ runReq'[q] = runReq[q] /\ out'[q] = out[q]
  PROVE  AuditInv'
  BY DEF AuditInv, AuditTablesAgree, auditVars

\* The audit tables agree after every step.
LEMMA AuditStep ==
  ASSUME TypeOK, ExecInv, AuditInv, [Next]_vars
  PROVE  AuditInv'
<1> USE DEF TypeOK, ExecInv, AuditInv, AuditTablesAgree, Executors, Outcomes, NoRun,
    DecidedPcs, apiVars, queueVars, execVars, dbVars, auditVars, turnVars, envVars
<1>1. ASSUME NEW a \in Apis, NEW t \in Tasks, NEW r \in Requests, CheckRequestId(a, t, r)
      PROVE  AuditInv'
  BY <1>1 DEF CheckRequestId
<1>2. ASSUME NEW a \in Apis, SendTask(a) PROVE AuditInv'
  BY <1>2 DEF SendTask
<1>3. ASSUME NEW a \in Apis, CreateSubmission(a) PROVE AuditInv'
  BY <1>3 DEF CreateSubmission
<1>4. ASSUME NEW a \in Apis, NEW t \in Tasks, RefreshSubmissionStatus(a, t) PROVE AuditInv'
  BY <1>4 DEF RefreshSubmissionStatus, LoadRows
<1>5. ASSUME NEW a \in Apis, ListSubmissions(a) PROVE AuditInv'
  BY <1>5 DEF ListSubmissions, LoadRows
<1>6. ASSUME NEW a \in Apis, ReadAsyncResults(a) PROVE AuditInv'
  BY <1>6 DEF ReadAsyncResults
<1>7. ASSUME NEW a \in Apis, CommitRefresh(a) PROVE AuditInv'
  BY <1>7 DEF CommitRefresh, apply_async_result, celeryStatus
<1>8. ASSUME NEW a \in Apis, NEW r \in Requests, RunWorkflowSync(a, r) PROVE AuditInv'
  BY <1>8 DEF RunWorkflowSync, At, Goto
<1>9. ASSUME NEW w \in Workers, NEW t \in Tasks, TakeMessage(w, t) PROVE AuditInv'
  BY <1>9 DEF TakeMessage, Delivered, StoredResult
<1>10. ASSUME NEW p \in Executors, SkipDuplicate(p) PROVE AuditInv'
  BY <1>10 DEF SkipDuplicate, At, Goto, LedgerUpdate
<1>11. ASSUME NEW p \in Executors, BeginExecution(p) PROVE AuditInv'
  BY <1>11 DEF BeginExecution, At, Goto, LedgerUpdate
<1>12. ASSUME NEW p \in Executors, NEW o \in Outcomes, RunAgents(p, o) PROVE AuditInv'
  BY <1>12 DEF RunAgents, At, Goto
<1>13. ASSUME NEW p \in Executors, ToolLogRaises(p) PROVE AuditInv'
  BY <1>13 DEF ToolLogRaises, At, Goto
<1>14. ASSUME NEW p \in Executors, HasRequestTurn(p) PROVE AuditInv'
  BY <1>14 DEF HasRequestTurn, has_request_turn, At, Goto
<1>15. ASSUME NEW p \in Executors, AppendTurns(p) PROVE AuditInv'
  BY <1>15 DEF AppendTurns, At, Goto
<1>16. ASSUME NEW p \in Executors, CreateHumanReview(p) PROVE AuditInv'
  BY <1>16 DEF CreateHumanReview, At, Goto, FlushFails
<1>17. ASSUME NEW p \in Executors, ReportTerminalState(p) PROVE AuditInv'
  BY <1>17 DEF ReportTerminalState, At, Goto, LedgerUpdate
<1>18. ASSUME NEW p \in Executors, StoreResult(p) PROVE AuditInv'
  BY <1>18 DEF StoreResult, At, Goto, StoredResult
<1>19. ASSUME NEW p \in Executors, Acknowledge(p) PROVE AuditInv'
  BY <1>19 DEF Acknowledge, Removable, At, Goto, Leave
<1>20. ASSUME NEW p \in Executors, Crash(p) PROVE AuditInv'
  BY <1>20 DEF Crash, Goto, Leave
<1>21. ASSUME NEW t \in Tasks, RestoreMessage(t) PROVE AuditInv'
  BY <1>21 DEF RestoreMessage
<1>22. ASSUME NEW t \in Tasks, ExpireResult(t) PROVE AuditInv'
  BY <1>22 DEF ExpireResult
<1>23. CASE UNCHANGED vars
  BY <1>23 DEF vars
<1> HIDE DEF TypeOK, ExecInv, AuditInv, AuditTablesAgree, Executors, Outcomes, NoRun,
    DecidedPcs, apiVars, queueVars, execVars, dbVars, auditVars, turnVars, envVars
<1>24. ASSUME NEW p \in Executors, FindFinishedRun(p) PROVE AuditInv'
  <2>1. \A q \in Executors : pc'[q] = "workflow_run" =>
          pc[q] = "workflow_run" /\ runReq'[q] = runReq[q] /\ out'[q] = out[q]
    BY <1>24 DEF FindFinishedRun, At, Goto, TypeOK
  <2>2. UNCHANGED auditVars
    BY <1>24 DEF FindFinishedRun, auditVars, dbVars
  <2>q. QED
    BY <2>1, <2>2, AuditFrame
<1>25. ASSUME NEW p \in Executors, ExtractMemories(p) PROVE AuditInv'
  <2>1. \A q \in Executors : pc'[q] = "workflow_run" =>
          pc[q] = "workflow_run" /\ runReq'[q] = runReq[q] /\ out'[q] = out[q]
    BY <1>25 DEF ExtractMemories, At, Goto, TypeOK
  <2>2. UNCHANGED auditVars
    BY <1>25 DEF ExtractMemories, auditVars, dbVars
  <2>q. QED
    BY <2>1, <2>2, AuditFrame
<1>26. ASSUME NEW p \in Executors, SaveRuntimeRecords(p) PROVE AuditInv'
  <2>1. CASE pc' = [pc EXCEPT ![p] = "raised"]
    <3>1. \A q \in Executors : pc'[q] = "workflow_run" => pc[q] = "workflow_run"
      BY <2>1 DEF TypeOK
    <3>2. UNCHANGED <<taskRuns, workflowRuns, runReq, out>>
      BY <1>26, <2>1 DEF SaveRuntimeRecords, Goto, TypeOK
    <3>q. QED  BY <3>1, <3>2, AuditFrame DEF auditVars
  <2>2. CASE pc' # [pc EXCEPT ![p] = "raised"]
    <3>1. /\ runReq[p] \in Requests /\ out[p] \in Outcomes
          /\ pc[p] = "task_run" /\ taskRuns[runReq[p]] = NoRun
          /\ pc' = [pc EXCEPT ![p] = "workflow_run"]
          /\ taskRuns' = [taskRuns EXCEPT ![runReq[p]] = out[p]]
          /\ UNCHANGED <<workflowRuns, runReq, out>>
      BY <1>26, <2>2 DEF SaveRuntimeRecords, At, Goto, FlushFails, ExecInv, DecidedPcs
    <3>2. workflowRuns[runReq[p]] = NoRun
      BY <3>1 DEF AuditInv, AuditTablesAgree
    <3>3. \A q \in Executors : pc[q] = "workflow_run" => out[q] # NoRun /\ runReq[q] # runReq[p]
      BY <3>1 DEF AuditInv, ExecInv, DecidedPcs, Outcomes, NoRun
    <3>4. AuditTablesAgree'
      BY <3>1, <3>2 DEF AuditInv, AuditTablesAgree, TypeOK
    <3>5. \A q \in Executors : pc'[q] = "workflow_run" =>
            taskRuns'[runReq'[q]] = out'[q] /\ workflowRuns'[runReq'[q]] = NoRun
      BY <3>1, <3>2, <3>3 DEF AuditInv, TypeOK
    <3>6. \A q, x \in Executors :
            pc'[q] = "workflow_run" /\ pc'[x] = "workflow_run" /\ runReq'[q] = runReq'[x] => q = x
      BY <3>1, <3>3 DEF AuditInv, TypeOK
    <3>q. QED  BY <3>4, <3>5, <3>6 DEF AuditInv
  <2>q. QED  BY <2>1, <2>2
<1>27. ASSUME NEW p \in Executors, SaveWorkflowRun(p) PROVE AuditInv'
  <2>1. /\ runReq[p] \in Requests /\ out[p] \in Outcomes /\ pc[p] = "workflow_run"
        /\ taskRuns[runReq[p]] = out[p]
    BY <1>27 DEF SaveWorkflowRun, At, AuditInv, ExecInv, DecidedPcs
  <2>2. \A q \in Executors : pc'[q] = "workflow_run" =>
          q # p /\ pc[q] = "workflow_run" /\ runReq'[q] = runReq[q] /\ out'[q] = out[q]
    BY <1>27, <2>1 DEF SaveWorkflowRun, Goto, Leave, TypeOK
  <2>3. CASE UNCHANGED workflowRuns
    <3>1. UNCHANGED auditVars
      BY <1>27, <2>3 DEF SaveWorkflowRun, auditVars
    <3>q. QED  BY <2>2, <3>1, AuditFrame
  <2>4. CASE workflowRuns' = [workflowRuns EXCEPT ![runReq[p]] = out[p]]
    <3>1. taskRuns' = taskRuns
      BY <1>27 DEF SaveWorkflowRun
    <3>2. AuditTablesAgree'
      BY <2>1, <2>4, <3>1 DEF AuditInv, AuditTablesAgree, TypeOK
    <3>3. \A q \in Executors : pc'[q] = "workflow_run" => runReq[q] # runReq[p]
      BY <2>1, <2>2 DEF AuditInv
    <3>q. QED  BY <2>2, <2>4, <3>1, <3>2, <3>3 DEF AuditInv, TypeOK
  <2>q. QED  BY <1>27, <2>3, <2>4 DEF SaveWorkflowRun
<1>28. ASSUME NEW p \in Executors, ReportException(p) PROVE AuditInv'
  <2>1. \A q \in Executors : pc'[q] = "workflow_run" =>
          pc[q] = "workflow_run" /\ runReq'[q] = runReq[q] /\ out'[q] = out[q]
    BY <1>28 DEF ReportException, At, Goto, TypeOK, Leave
  <2>2. UNCHANGED auditVars
    BY <1>28 DEF ReportException, auditVars, dbVars
  <2>q. QED
    BY <2>1, <2>2, AuditFrame
<1>q. QED
  BY <1>1, <1>2, <1>3, <1>4, <1>5, <1>6, <1>7, <1>8, <1>9, <1>10, <1>11, <1>12, <1>13,
      <1>14, <1>15, <1>16, <1>17, <1>18, <1>19, <1>20, <1>21, <1>22, <1>23, <1>24,
      <1>25, <1>26, <1>27, <1>28 DEF Next, Submit, Execute

\* Only send_task binds a task, only save_workflow_run stores a run.
LEMMA Writers ==
  ASSUME [Next]_vars
  PROVE  \/ \E a \in Apis : SendTask(a)
         \/ \E p \in Executors : SaveWorkflowRun(p)
         \/ UNCHANGED <<reqOf, workflowRuns>>
<1>1. CASE UNCHANGED vars
  BY <1>1 DEF vars, queueVars, dbVars, auditVars
<1>2. ASSUME NEW a \in Apis, NEW t \in Tasks, NEW r \in Requests, CheckRequestId(a, t, r)
      PROVE  UNCHANGED <<reqOf, workflowRuns>>
  BY <1>2 DEF CheckRequestId, queueVars, dbVars, auditVars
<1>3. ASSUME NEW a \in Apis, CreateSubmission(a) PROVE UNCHANGED <<reqOf, workflowRuns>>
  BY <1>3 DEF CreateSubmission, queueVars, dbVars, auditVars
<1>4. ASSUME NEW a \in Apis, NEW t \in Tasks, RefreshSubmissionStatus(a, t)
      PROVE  UNCHANGED <<reqOf, workflowRuns>>
  BY <1>4 DEF RefreshSubmissionStatus, LoadRows, queueVars, dbVars, auditVars
<1>5. ASSUME NEW a \in Apis, ListSubmissions(a) PROVE UNCHANGED <<reqOf, workflowRuns>>
  BY <1>5 DEF ListSubmissions, LoadRows, queueVars, dbVars, auditVars
<1>6. ASSUME NEW a \in Apis, ReadAsyncResults(a) PROVE UNCHANGED <<reqOf, workflowRuns>>
  BY <1>6 DEF ReadAsyncResults, queueVars, dbVars, auditVars
<1>7. ASSUME NEW a \in Apis, CommitRefresh(a) PROVE UNCHANGED <<reqOf, workflowRuns>>
  BY <1>7 DEF CommitRefresh, queueVars, dbVars, auditVars
<1>8. ASSUME NEW a \in Apis, NEW r \in Requests, RunWorkflowSync(a, r)
      PROVE  UNCHANGED <<reqOf, workflowRuns>>
  BY <1>8 DEF RunWorkflowSync, queueVars, dbVars, auditVars
<1>9. ASSUME NEW w \in Workers, NEW t \in Tasks, TakeMessage(w, t)
      PROVE  UNCHANGED <<reqOf, workflowRuns>>
  BY <1>9 DEF TakeMessage, Delivered, queueVars, dbVars, auditVars
<1>10. ASSUME NEW p \in Executors, FindFinishedRun(p)
      PROVE  UNCHANGED <<reqOf, workflowRuns>>
  BY <1>10 DEF FindFinishedRun, queueVars, dbVars, auditVars
<1>11. ASSUME NEW p \in Executors, SkipDuplicate(p) PROVE UNCHANGED <<reqOf, workflowRuns>>
  BY <1>11 DEF SkipDuplicate, queueVars, dbVars, auditVars
<1>12. ASSUME NEW p \in Executors, BeginExecution(p) PROVE UNCHANGED <<reqOf, workflowRuns>>
  BY <1>12 DEF BeginExecution, queueVars, dbVars, auditVars
<1>13. ASSUME NEW p \in Executors, NEW o \in Outcomes, RunAgents(p, o)
      PROVE  UNCHANGED <<reqOf, workflowRuns>>
  BY <1>13 DEF RunAgents, queueVars, dbVars, auditVars
<1>14. ASSUME NEW p \in Executors, ToolLogRaises(p) PROVE UNCHANGED <<reqOf, workflowRuns>>
  BY <1>14 DEF ToolLogRaises, queueVars, dbVars, auditVars
<1>15. ASSUME NEW p \in Executors, HasRequestTurn(p) PROVE UNCHANGED <<reqOf, workflowRuns>>
  BY <1>15 DEF HasRequestTurn, has_request_turn, queueVars, dbVars, auditVars
<1>16. ASSUME NEW p \in Executors, AppendTurns(p) PROVE UNCHANGED <<reqOf, workflowRuns>>
  BY <1>16 DEF AppendTurns, queueVars, dbVars, auditVars
<1>17. ASSUME NEW p \in Executors, ExtractMemories(p)
      PROVE  UNCHANGED <<reqOf, workflowRuns>>
  BY <1>17 DEF ExtractMemories, queueVars, dbVars, auditVars
<1>18. ASSUME NEW p \in Executors, CreateHumanReview(p)
      PROVE  UNCHANGED <<reqOf, workflowRuns>>
  BY <1>18 DEF CreateHumanReview, queueVars, dbVars, auditVars
<1>19. ASSUME NEW p \in Executors, SaveRuntimeRecords(p)
      PROVE  UNCHANGED <<reqOf, workflowRuns>>
  BY <1>19 DEF SaveRuntimeRecords, queueVars, dbVars, auditVars
<1>20. ASSUME NEW p \in Executors, ReportTerminalState(p)
      PROVE  UNCHANGED <<reqOf, workflowRuns>>
  BY <1>20 DEF ReportTerminalState, queueVars, dbVars, auditVars
<1>21. ASSUME NEW p \in Executors, ReportException(p)
      PROVE  UNCHANGED <<reqOf, workflowRuns>>
  BY <1>21 DEF ReportException, queueVars, dbVars, auditVars
<1>22. ASSUME NEW p \in Executors, StoreResult(p) PROVE UNCHANGED <<reqOf, workflowRuns>>
  BY <1>22 DEF StoreResult, queueVars, dbVars, auditVars
<1>23. ASSUME NEW p \in Executors, Acknowledge(p) PROVE UNCHANGED <<reqOf, workflowRuns>>
  BY <1>23 DEF Acknowledge, Removable, queueVars, dbVars, auditVars
<1>24. ASSUME NEW p \in Executors, Crash(p) PROVE UNCHANGED <<reqOf, workflowRuns>>
  BY <1>24 DEF Crash, queueVars, dbVars, auditVars
<1>25. ASSUME NEW t \in Tasks, RestoreMessage(t) PROVE UNCHANGED <<reqOf, workflowRuns>>
  BY <1>25 DEF RestoreMessage, queueVars, dbVars, auditVars
<1>26. ASSUME NEW t \in Tasks, ExpireResult(t) PROVE UNCHANGED <<reqOf, workflowRuns>>
  BY <1>26 DEF ExpireResult, queueVars, dbVars, auditVars
<1>q. QED
  BY <1>1, <1>2, <1>3, <1>4, <1>5, <1>6, <1>7, <1>8, <1>9, <1>10, <1>11, <1>12, <1>13,
      <1>14, <1>15, <1>16, <1>17, <1>18, <1>19, <1>20, <1>21, <1>22, <1>23, <1>24,
      <1>25, <1>26 DEF Next, Submit, Execute

\* The two columns a refresh writes.
LEMMA ApplyColumns ==
  \A now, loaded, res :
    /\ apply_async_result(now, loaded, res).status =
         IF loaded.status # celeryStatus(res) THEN celeryStatus(res) ELSE now.status
    /\ apply_async_result(now, loaded, res).payload =
         IF res \in Outcomes /\ loaded.payload # res THEN res ELSE now.payload
  BY DEF apply_async_result

\* What is stored for a task stays stored for it: a task keeps its request, a
\* request keeps its run.
LEMMA StoredStays ==
  ASSUME TypeOK, ApiInv, ExecInv, AuditInv, [Next]_vars
  PROVE  /\ \A t \in Tasks : reqOf[t] \in Requests => reqOf'[t] = reqOf[t]
         /\ \A r \in Requests : workflowRuns[r] # NoRun => workflowRuns'[r] = workflowRuns[r]
<1>1. ASSUME NEW a \in Apis, SendTask(a)
      PROVE  \A t \in Tasks : reqOf[t] \in Requests => reqOf'[t] = reqOf[t]
  BY <1>1, SubmissionAssumption DEF SendTask, ApiInv, TypeOK
<1>2. ASSUME NEW p \in Executors, SaveWorkflowRun(p)
      PROVE  \A r \in Requests : workflowRuns[r] # NoRun => workflowRuns'[r] = workflowRuns[r]
  <2>1. workflowRuns[runReq[p]] = NoRun
    BY <1>2 DEF SaveWorkflowRun, At, AuditInv
  <2>q. QED  BY <1>2, <2>1 DEF SaveWorkflowRun, TypeOK
<1>3. ASSUME NEW a \in Apis, SendTask(a) PROVE workflowRuns' = workflowRuns
  BY <1>3 DEF SendTask, dbVars, auditVars
<1>4. ASSUME NEW p \in Executors, SaveWorkflowRun(p) PROVE reqOf' = reqOf
  BY <1>4 DEF SaveWorkflowRun, queueVars
<1>q. QED  BY <1>1, <1>2, <1>3, <1>4, Writers

\* A step keeps the copies it does not touch.
LEMMA CopiesFrame ==
  ASSUME TypeOK, ExecInv, CopiesInv,
         \A t \in Tasks : reqOf[t] \in Requests => reqOf'[t] = reqOf[t],
         \A r \in Requests : workflowRuns[r] # NoRun => workflowRuns'[r] = workflowRuns[r]
  PROVE  /\ (\A p \in Executors : pc'[p] \in {"skip", "ledger", "result"} =>
                pc[p] \in {"skip", "ledger", "result"} /\ runReq'[p] = runReq[p] /\ out'[p] = out[p])
              => ExecCopies'
         /\ (\A t \in Tasks : result'[t] \in Outcomes => result'[t] = result[t]) => ResultCopies'
         /\ (\A a \in Apis, t \in Tasks : seen'[a][t] \in Outcomes =>
                seen'[a][t] = seen[a][t] \/ seen'[a][t] = result[t]) => SeenCopies'
         /\ ((\A t \in Tasks : ledger[t].payload # NoRun => ledger'[t].payload # NoRun) /\
              (\A a \in Apis, t \in Tasks : snap'[a][t].payload # NoRun =>
                snap'[a][t] = snap[a][t] \/ snap'[a][t] = ledger[t])) => SnapCopies'
         /\ ledger' = ledger => LedgerCopies'
<1>0. NoRun \notin Outcomes
  BY DEF NoRun, Outcomes
<1>1. \A t \in Tasks, o \in Outcomes : StoredFor(t, o) => StoredFor(t, o)'
  BY <1>0 DEF StoredFor
<1>2. ASSUME \A p \in Executors : pc'[p] \in {"skip", "ledger", "result"} =>
                pc[p] \in {"skip", "ledger", "result"} /\ runReq'[p] = runReq[p] /\ out'[p] = out[p]
      PROVE  ExecCopies'
  <2>1. ASSUME NEW p \in Executors, pc'[p] \in {"skip", "ledger", "result"}
        PROVE  workflowRuns'[runReq'[p]] = out'[p]
    <3>1. /\ runReq[p] \in Requests /\ out[p] \in Outcomes
          /\ workflowRuns[runReq[p]] = out[p]
      BY <1>2, <2>1 DEF ExecInv, DecidedPcs, CopiesInv, ExecCopies
    <3>q. QED  BY <1>0, <1>2, <2>1, <3>1
  <2>q. QED  BY <2>1 DEF ExecCopies
<1>3. ASSUME \A t \in Tasks : result'[t] \in Outcomes => result'[t] = result[t]
      PROVE  ResultCopies'
  BY <1>1, <1>3 DEF CopiesInv, ResultCopies
<1>4. ASSUME \A a \in Apis, t \in Tasks : seen'[a][t] \in Outcomes =>
               seen'[a][t] = seen[a][t] \/ seen'[a][t] = result[t]
      PROVE  SeenCopies'
  BY <1>1, <1>4 DEF CopiesInv, ResultCopies, SeenCopies
<1>5. ASSUME \A t \in Tasks : ledger[t].payload # NoRun => ledger'[t].payload # NoRun,
             \A a \in Apis, t \in Tasks : snap'[a][t].payload # NoRun =>
               snap'[a][t] = snap[a][t] \/ snap'[a][t] = ledger[t]
      PROVE  SnapCopies'
  BY <1>5 DEF CopiesInv, SnapCopies
<1>6. ASSUME ledger' = ledger PROVE LedgerCopies'
  <2>1. \A t \in Tasks : ledger[t].payload # NoRun => ledger[t].payload \in Outcomes
    BY DEF TypeOK, Row, NoRow, NoRun
  <2>q. QED  BY <1>1, <1>6, <2>1 DEF CopiesInv, LedgerCopies
<1>q. QED  BY <1>2, <1>3, <1>4, <1>5, <1>6

\* A worker writes into the ledger what is stored for the task it holds.
LEMMA LedgerUpdateCopies ==
  ASSUME TypeOK, CopiesInv, UNCHANGED <<reqOf, workflowRuns>>,
         NEW p \in Executors, NEW s \in LedgerStatus, NEW o \in Outcomes \cup {NoRun},
         LedgerUpdate(p, s, o),
         o # NoRun => holds[p] \in Tasks /\ StoredFor(holds[p], o),
         s = "success" => o # NoRun
  PROVE  /\ LedgerCopies'
         /\ \A t \in Tasks : ledger[t].payload # NoRun => ledger'[t].payload # NoRun
<1>1. ASSUME NEW t \in Tasks
      PROVE  \/ ledger'[t] = ledger[t]
             \/ /\ t = holds[p]
                /\ ledger'[t] = [status |-> s,
                                 payload |-> IF o = NoRun THEN ledger[t].payload ELSE o]
  BY DEF LedgerUpdate, TypeOK
<1>2. ASSUME NEW t \in Tasks
      PROVE  /\ ledger'[t].payload = ledger[t].payload \/ (o # NoRun /\ t = holds[p] /\ ledger'[t].payload = o)
             /\ \/ ledger'[t].status = ledger[t].status
                \/ o # NoRun /\ ledger'[t].payload = o
                \/ ledger'[t].status # "success"
  <2>1. CASE ledger'[t] = ledger[t]
    BY <2>1
  <2>2. CASE /\ t = holds[p]
             /\ ledger'[t] = [status |-> s,
                              payload |-> IF o = NoRun THEN ledger[t].payload ELSE o]
    <3>1. CASE o = NoRun
      <4>1. ledger'[t].status = s /\ ledger'[t].payload = ledger[t].payload
        BY <2>2, <3>1
      <4>q. QED  BY <3>1, <4>1
    <3>2. CASE o # NoRun
      <4>1. ledger'[t].payload = o
        BY <2>2, <3>2
      <4>q. QED  BY <2>2, <3>2, <4>1
    <3>q. QED  BY <3>1, <3>2
  <2>q. QED  BY <1>1, <2>1, <2>2
<1>q. QED  BY <1>2 DEF CopiesInv, LedgerCopies, StoredFor

\* Every copy of an outcome stays the stored one.
LEMMA CopiesStep ==
  ASSUME TypeOK, ApiInv, ExecInv, AuditInv, CopiesInv, [Next]_vars
  PROVE  CopiesInv'
<1>0. /\ \A t \in Tasks : reqOf[t] \in Requests => reqOf'[t] = reqOf[t]
      /\ \A r \in Requests : workflowRuns[r] # NoRun => workflowRuns'[r] = workflowRuns[r]
  BY StoredStays
<1>f. /\ (\A p \in Executors : pc'[p] \in {"skip", "ledger", "result"} =>
             pc[p] \in {"skip", "ledger", "result"} /\ runReq'[p] = runReq[p] /\ out'[p] = out[p])
           => ExecCopies'
      /\ (\A t \in Tasks : result'[t] \in Outcomes => result'[t] = result[t]) => ResultCopies'
      /\ (\A a \in Apis, t \in Tasks : seen'[a][t] \in Outcomes =>
             seen'[a][t] = seen[a][t] \/ seen'[a][t] = result[t]) => SeenCopies'
      /\ ((\A t \in Tasks : ledger[t].payload # NoRun => ledger'[t].payload # NoRun) /\
           (\A a \in Apis, t \in Tasks : snap'[a][t].payload # NoRun =>
             snap'[a][t] = snap[a][t] \/ snap'[a][t] = ledger[t])) => SnapCopies'
      /\ ledger' = ledger => LedgerCopies'
  BY <1>0, CopiesFrame
<1>1. ASSUME NEW a \in Apis, NEW t \in Tasks, NEW r \in Requests, CheckRequestId(a, t, r)
      PROVE  CopiesInv'
  BY <1>1, <1>f DEF CheckRequestId, CopiesInv, apiVars, queueVars, execVars, dbVars
<1>2. ASSUME NEW a \in Apis, SendTask(a) PROVE CopiesInv'
  BY <1>2, <1>f DEF SendTask, CopiesInv, apiVars, queueVars, execVars, dbVars
<1>3. ASSUME NEW a \in Apis, CreateSubmission(a) PROVE CopiesInv'
  <2>1. ASSUME NEW t \in Tasks PROVE ledger'[t] = ledger[t] \/
          (ledger[t] = NoRow /\ ledger'[t] = [status |-> "pending", payload |-> NoRun])
    BY <1>3 DEF CreateSubmission, ApiInv, TypeOK
  <2>2. LedgerCopies' /\ \A t \in Tasks : ledger[t].payload # NoRun => ledger'[t].payload # NoRun
    BY <1>3, <2>1 DEF CreateSubmission, NoRow, CopiesInv, LedgerCopies, StoredFor,
        queueVars, auditVars
  <2>q. QED  BY <1>3, <1>f, <2>2 DEF CreateSubmission, CopiesInv, queueVars, execVars
<1>4. ASSUME NEW a \in Apis, NEW t \in Tasks, RefreshSubmissionStatus(a, t) PROVE CopiesInv'
  <2>1. \A b \in Apis, u \in Tasks : snap'[b][u].payload # NoRun =>
          snap'[b][u] = snap[b][u] \/ snap'[b][u] = ledger[u]
    BY <1>4 DEF RefreshSubmissionStatus, LoadRows, TypeOK, NoRow
  <2>q. QED  BY <1>4, <1>f, <2>1 DEF RefreshSubmissionStatus, LoadRows, CopiesInv,
      queueVars, execVars, dbVars
<1>5. ASSUME NEW a \in Apis, ListSubmissions(a) PROVE CopiesInv'
  <2>1. \A b \in Apis, u \in Tasks : snap'[b][u].payload # NoRun =>
          snap'[b][u] = snap[b][u] \/ snap'[b][u] = ledger[u]
    BY <1>5 DEF ListSubmissions, LoadRows, TypeOK, NoRow
  <2>q. QED  BY <1>5, <1>f, <2>1 DEF ListSubmissions, LoadRows, CopiesInv, queueVars,
      execVars, dbVars
<1>6. ASSUME NEW a \in Apis, ReadAsyncResults(a) PROVE CopiesInv'
  <2>1. \A b \in Apis, t \in Tasks : seen'[b][t] = seen[b][t] \/ seen'[b][t] = result[t]
    BY <1>6 DEF ReadAsyncResults, TypeOK
  <2>q. QED  BY <1>6, <1>f, <2>1 DEF ReadAsyncResults, CopiesInv, queueVars, execVars,
      dbVars
<1>7. ASSUME NEW a \in Apis, CommitRefresh(a) PROVE CopiesInv'
  <2>1. ASSUME NEW t \in Tasks
        PROVE  ledger'[t] = IF snap[a][t] = NoRow THEN ledger[t]
                            ELSE apply_async_result(ledger[t], snap[a][t], seen[a][t])
    BY <1>7 DEF CommitRefresh
  <2>2. ASSUME NEW t \in Tasks
        PROVE  /\ ledger'[t].payload = ledger[t].payload
                  \/ (seen[a][t] \in Outcomes /\ ledger'[t].payload = seen[a][t])
               /\ ledger'[t].status = "success" => ledger'[t].payload # NoRun
    <3>1. /\ seen[a][t] \in Results
          /\ ledger[t].status = "success" => ledger[t].payload # NoRun
          /\ snap[a][t].payload # NoRun => ledger[t].payload # NoRun
      BY DEF TypeOK, CopiesInv, LedgerCopies, SnapCopies
    <3>2. "success" \notin Results /\ NoRun \notin Outcomes
      BY DEF Results, Outcomes, NoRun
    <3>3. CASE snap[a][t] = NoRow
      BY <2>1, <3>1, <3>3
    <3>4. CASE snap[a][t] # NoRow
      <4>0. ledger'[t] = apply_async_result(ledger[t], snap[a][t], seen[a][t])
        BY <2>1, <3>4
      <4>1. ledger'[t].payload = IF seen[a][t] \in Outcomes /\ snap[a][t].payload # seen[a][t]
                                 THEN seen[a][t] ELSE ledger[t].payload
        BY <4>0, ApplyColumns
      <4>2. ledger'[t].status = "success" =>
              seen[a][t] \in Outcomes \/ ledger[t].status = "success"
        BY <3>1, <3>2, <4>0, ApplyColumns DEF celeryStatus
      <4>q. QED  BY <3>1, <3>2, <4>1, <4>2
    <3>q. QED  BY <3>3, <3>4
  <2>3. LedgerCopies'
    BY <1>7, <2>2 DEF CommitRefresh, CopiesInv, LedgerCopies, SeenCopies, StoredFor,
        queueVars, auditVars
  <2>4. \A t \in Tasks : ledger[t].payload # NoRun => ledger'[t].payload # NoRun
    BY <2>2 DEF Outcomes, NoRun
  <2>5. \A b \in Apis, t \in Tasks :
          /\ seen'[b][t] \in Outcomes => seen'[b][t] = seen[b][t]
          /\ snap'[b][t].payload # NoRun => snap'[b][t] = snap[b][t]
    BY <1>7 DEF CommitRefresh, TypeOK, NoRows, NoRow, Outcomes
  <2>q. QED  BY <1>7, <1>f, <2>3, <2>4, <2>5 DEF CommitRefresh, CopiesInv, queueVars,
      execVars
<1>8. ASSUME NEW a \in Apis, NEW r \in Requests, RunWorkflowSync(a, r) PROVE CopiesInv'
  <2>1. \A q \in Executors : pc'[q] \in {"skip", "ledger", "result"} =>
          pc[q] \in {"skip", "ledger", "result"} /\ runReq'[q] = runReq[q] /\ out'[q] = out[q]
    BY <1>8 DEF RunWorkflowSync, At, Goto, Leave, TypeOK
  <2>q. QED  BY <1>8, <1>f, <2>1 DEF RunWorkflowSync, CopiesInv, apiVars, queueVars, dbVars
<1>9. ASSUME NEW w \in Workers, NEW t \in Tasks, TakeMessage(w, t) PROVE CopiesInv'
  <2>1. \A u \in Tasks : result'[u] \in Outcomes => result'[u] = result[u]
    BY <1>9 DEF TakeMessage, Delivered, StoredResult, TypeOK, Outcomes
  <2>2. \A p \in Executors : pc'[p] \in {"skip", "ledger", "result"} =>
          pc[p] \in {"skip", "ledger", "result"} /\ runReq'[p] = runReq[p] /\ out'[p] = out[p]
    BY <1>9 DEF TakeMessage, Delivered, TypeOK
  <2>q. QED  BY <1>9, <1>f, <2>1, <2>2 DEF TakeMessage, Delivered, CopiesInv, apiVars, dbVars
<1>10. ASSUME NEW p \in Executors, FindFinishedRun(p) PROVE CopiesInv'
  <2>1. ExecCopies'
    <3>1. \A q \in Executors \ {p} :
            pc'[q] = pc[q] /\ runReq'[q] = runReq[q] /\ out'[q] = out[q]
      BY <1>10 DEF FindFinishedRun, Goto, TypeOK
    <3>2. /\ pc'[p] \in {"skip", "begin"} /\ runReq'[p] = runReq[p]
          /\ pc'[p] = "skip" => out'[p] = workflowRuns[runReq[p]]
      BY <1>10 DEF FindFinishedRun, Goto, TypeOK
    <3>3. workflowRuns' = workflowRuns
      BY <1>10 DEF FindFinishedRun, dbVars, auditVars
    <3>q. QED  BY <3>1, <3>2, <3>3 DEF CopiesInv, ExecCopies
  <2>q. QED  BY <1>10, <1>f, <2>1 DEF FindFinishedRun, CopiesInv, apiVars, queueVars, dbVars
<1>11. ASSUME NEW p \in Executors, SkipDuplicate(p) PROVE CopiesInv'
  <2>1. LedgerCopies' /\ \A t \in Tasks : ledger[t].payload # NoRun => ledger'[t].payload # NoRun
    <3>1. holds[p] \in Tasks /\ StoredFor(holds[p], out[p]) /\ out[p] \in Outcomes
      BY <1>11 DEF SkipDuplicate, At, ExecInv, CopiesInv, ExecCopies, DecidedPcs,
          SyncPcs, StoredFor, Executors
    <3>q. QED  BY <1>11, <3>1, LedgerUpdateCopies
               DEF SkipDuplicate, LedgerStatus, Outcomes, NoRun, queueVars, auditVars
  <2>2. \A q \in Executors : pc'[q] \in {"skip", "ledger", "result"} =>
          pc[q] \in {"skip", "ledger", "result"} /\ runReq'[q] = runReq[q] /\ out'[q] = out[q]
    BY <1>11 DEF SkipDuplicate, At, Goto, Leave, TypeOK
  <2>q. QED  BY <1>11, <1>f, <2>1, <2>2 DEF SkipDuplicate, CopiesInv, apiVars, queueVars
<1>12. ASSUME NEW p \in Executors, BeginExecution(p) PROVE CopiesInv'
  <2>1. LedgerCopies' /\ \A t \in Tasks : ledger[t].payload # NoRun => ledger'[t].payload # NoRun
    BY <1>12, LedgerUpdateCopies DEF BeginExecution, LedgerStatus, NoRun, queueVars,
        auditVars
  <2>2. \A q \in Executors : pc'[q] \in {"skip", "ledger", "result"} =>
          pc[q] \in {"skip", "ledger", "result"} /\ runReq'[q] = runReq[q] /\ out'[q] = out[q]
    BY <1>12 DEF BeginExecution, At, Goto, Leave, TypeOK
  <2>q. QED  BY <1>12, <1>f, <2>1, <2>2 DEF BeginExecution, CopiesInv, apiVars, queueVars
<1>13. ASSUME NEW p \in Executors, NEW o \in Outcomes, RunAgents(p, o) PROVE CopiesInv'
  <2>1. \A q \in Executors : pc'[q] \in {"skip", "ledger", "result"} =>
          pc[q] \in {"skip", "ledger", "result"} /\ runReq'[q] = runReq[q] /\ out'[q] = out[q]
    BY <1>13 DEF RunAgents, At, Goto, Leave, TypeOK
  <2>q. QED  BY <1>13, <1>f, <2>1 DEF RunAgents, CopiesInv, apiVars, queueVars, dbVars
<1>14. ASSUME NEW p \in Executors, ToolLogRaises(p) PROVE CopiesInv'
  <2>1. \A q \in Executors : pc'[q] \in {"skip", "ledger", "result"} =>
          pc[q] \in {"skip", "ledger", "result"} /\ runReq'[q] = runReq[q] /\ out'[q] = out[q]
    BY <1>14 DEF ToolLogRaises, At, Goto, Leave, TypeOK
  <2>q. QED  BY <1>14, <1>f, <2>1 DEF ToolLogRaises, CopiesInv, apiVars, queueVars, dbVars
<1>15. ASSUME NEW p \in Executors, HasRequestTurn(p) PROVE CopiesInv'
  <2>1. \A q \in Executors : pc'[q] \in {"skip", "ledger", "result"} =>
          pc[q] \in {"skip", "ledger", "result"} /\ runReq'[q] = runReq[q] /\ out'[q] = out[q]
    BY <1>15 DEF HasRequestTurn, has_request_turn, At, Goto, Leave, TypeOK
  <2>q. QED  BY <1>15, <1>f, <2>1 DEF HasRequestTurn, has_request_turn, CopiesInv, apiVars, queueVars, dbVars
<1>16. ASSUME NEW p \in Executors, AppendTurns(p) PROVE CopiesInv'
  <2>1. \A q \in Executors : pc'[q] \in {"skip", "ledger", "result"} =>
          pc[q] \in {"skip", "ledger", "result"} /\ runReq'[q] = runReq[q] /\ out'[q] = out[q]
    BY <1>16 DEF AppendTurns, At, Goto, Leave, TypeOK
  <2>q. QED  BY <1>16, <1>f, <2>1 DEF AppendTurns, CopiesInv, apiVars, queueVars, dbVars
<1>17. ASSUME NEW p \in Executors, ExtractMemories(p) PROVE CopiesInv'
  <2>1. \A q \in Executors : pc'[q] \in {"skip", "ledger", "result"} =>
          pc[q] \in {"skip", "ledger", "result"} /\ runReq'[q] = runReq[q] /\ out'[q] = out[q]
    BY <1>17 DEF ExtractMemories, At, Goto, Leave, TypeOK
  <2>q. QED  BY <1>17, <1>f, <2>1 DEF ExtractMemories, CopiesInv, apiVars, queueVars, dbVars
<1>18. ASSUME NEW p \in Executors, CreateHumanReview(p) PROVE CopiesInv'
  <2>1. \A q \in Executors : pc'[q] \in {"skip", "ledger", "result"} =>
          pc[q] \in {"skip", "ledger", "result"} /\ runReq'[q] = runReq[q] /\ out'[q] = out[q]
    BY <1>18 DEF CreateHumanReview, At, Goto, Leave, TypeOK
  <2>q. QED  BY <1>18, <1>f, <2>1 DEF CreateHumanReview, CopiesInv, apiVars,
      queueVars, dbVars
<1>19. ASSUME NEW p \in Executors, SaveRuntimeRecords(p) PROVE CopiesInv'
  <2>1. \A q \in Executors : pc'[q] \in {"skip", "ledger", "result"} =>
          pc[q] \in {"skip", "ledger", "result"} /\ runReq'[q] = runReq[q] /\ out'[q] = out[q]
    BY <1>19 DEF SaveRuntimeRecords, At, Goto, Leave, TypeOK
  <2>q. QED  BY <1>19, <1>f, <2>1 DEF SaveRuntimeRecords, CopiesInv, apiVars,
      queueVars, dbVars
<1>20. ASSUME NEW p \in Executors, SaveWorkflowRun(p) PROVE CopiesInv'
  <2>1. pc[p] = "workflow_run" /\ runReq[p] \in Requests
    BY <1>20 DEF SaveWorkflowRun, At, ExecInv
  <2>2. \A q \in Executors \ {p} :
          pc'[q] = pc[q] /\ runReq'[q] = runReq[q] /\ out'[q] = out[q]
    BY <1>20 DEF SaveWorkflowRun, Goto, Leave, TypeOK
  <2>3. pc'[p] \in {"skip", "ledger", "result"} =>
          runReq'[p] = runReq[p] /\ out'[p] = out[p] /\ workflowRuns'[runReq[p]] = out[p]
    BY <1>20, <2>1 DEF SaveWorkflowRun, Goto, Leave, TypeOK
  <2>4. ASSUME NEW q \in Executors, pc[q] \in {"skip", "ledger", "result"}
        PROVE  workflowRuns'[runReq[q]] = out[q]
    <3>1. runReq[q] \in Requests /\ out[q] # NoRun /\ workflowRuns[runReq[q]] = out[q]
      BY <2>4 DEF ExecInv, DecidedPcs, Outcomes, NoRun, CopiesInv, ExecCopies
    <3>q. QED  BY <1>0, <3>1
  <2>5. ExecCopies'
    BY <2>2, <2>3, <2>4 DEF ExecCopies
  <2>q. QED  BY <1>20, <1>f, <2>5 DEF SaveWorkflowRun, CopiesInv, apiVars, queueVars
<1>21. ASSUME NEW p \in Executors, ReportTerminalState(p) PROVE CopiesInv'
  <2>1. LedgerCopies' /\ \A t \in Tasks : ledger[t].payload # NoRun => ledger'[t].payload # NoRun
    <3>1. holds[p] \in Tasks /\ StoredFor(holds[p], out[p]) /\ out[p] \in Outcomes
      BY <1>21 DEF ReportTerminalState, At, ExecInv, CopiesInv, ExecCopies,
          DecidedPcs, SyncPcs, StoredFor, Executors
    <3>q. QED  BY <1>21, <3>1, LedgerUpdateCopies
               DEF ReportTerminalState, LedgerStatus, Outcomes, NoRun, queueVars, auditVars
  <2>2. \A q \in Executors : pc'[q] \in {"skip", "ledger", "result"} =>
          pc[q] \in {"skip", "ledger", "result"} /\ runReq'[q] = runReq[q] /\ out'[q] = out[q]
    BY <1>21 DEF ReportTerminalState, At, Goto, Leave, TypeOK
  <2>q. QED  BY <1>21, <1>f, <2>1, <2>2 DEF ReportTerminalState, CopiesInv, apiVars,
      queueVars
<1>22. ASSUME NEW p \in Executors, ReportException(p) PROVE CopiesInv'
  <2>1. LedgerCopies' /\ \A t \in Tasks : ledger[t].payload # NoRun => ledger'[t].payload # NoRun
    <3>1. CASE p \in Apis
      BY <1>22, <1>f, <3>1 DEF ReportException
    <3>2. CASE p \notin Apis
      BY <1>22, <3>2, LedgerUpdateCopies DEF ReportException, LedgerStatus, NoRun,
          queueVars, auditVars
    <3>q. QED  BY <3>1, <3>2
  <2>2. \A q \in Executors : pc'[q] \in {"skip", "ledger", "result"} =>
          pc[q] \in {"skip", "ledger", "result"} /\ runReq'[q] = runReq[q] /\ out'[q] = out[q]
    BY <1>22 DEF ReportException, At, Goto, Leave, TypeOK
  <2>q. QED  BY <1>22, <1>f, <2>1, <2>2 DEF ReportException, CopiesInv, apiVars, queueVars
<1>23. ASSUME NEW p \in Executors, StoreResult(p) PROVE CopiesInv'
  <2>1. \A t \in Tasks : result'[t] \in Outcomes => StoredFor(t, result'[t])
    <3>1. pc[p] = "result" => holds[p] \in Tasks /\ StoredFor(holds[p], out[p])
      BY DEF ExecInv, CopiesInv, ExecCopies, DecidedPcs, SyncPcs, StoredFor, Executors
    <3>2. "failure" \notin Outcomes
      BY DEF Outcomes
    <3>q. QED
      BY <1>23, <3>1, <3>2 DEF StoreResult, StoredResult, At, TypeOK, CopiesInv,
          ResultCopies
  <2>2. ResultCopies'
    BY <1>23, <2>1 DEF StoreResult, ResultCopies, StoredFor, dbVars, auditVars
  <2>3. \A q \in Executors : pc'[q] \in {"skip", "ledger", "result"} =>
          pc[q] \in {"skip", "ledger", "result"} /\ runReq'[q] = runReq[q] /\ out'[q] = out[q]
    BY <1>23 DEF StoreResult, At, Goto, TypeOK
  <2>q. QED  BY <1>23, <1>f, <2>2, <2>3 DEF StoreResult, CopiesInv, apiVars, dbVars
<1>24. ASSUME NEW p \in Executors, Acknowledge(p) PROVE CopiesInv'
  <2>1. \A q \in Executors : pc'[q] \in {"skip", "ledger", "result"} =>
          pc[q] \in {"skip", "ledger", "result"} /\ runReq'[q] = runReq[q] /\ out'[q] = out[q]
    BY <1>24 DEF Acknowledge, Removable, At, Goto, Leave, TypeOK
  <2>q. QED  BY <1>24, <1>f, <2>1 DEF Acknowledge, Removable, CopiesInv, apiVars, queueVars, dbVars
<1>25. ASSUME NEW p \in Executors, Crash(p) PROVE CopiesInv'
  <2>1. \A q \in Executors : pc'[q] \in {"skip", "ledger", "result"} =>
          pc[q] \in {"skip", "ledger", "result"} /\ runReq'[q] = runReq[q] /\ out'[q] = out[q]
    BY <1>25 DEF Crash, Leave, Goto, TypeOK
  <2>2. \A b \in Apis, t \in Tasks :
          /\ seen'[b][t] \in Outcomes => seen'[b][t] = seen[b][t]
          /\ snap'[b][t].payload # NoRun => snap'[b][t] = snap[b][t]
    <3>1. CASE p \in Apis
      <4>1. /\ seen' = [seen EXCEPT ![p] = [t \in Tasks |-> "pending"]]
            /\ snap' = [snap EXCEPT ![p] = NoRows]
        BY <1>25, <3>1 DEF Crash
      <4>2. "pending" \notin Outcomes /\ \A t \in Tasks : NoRows[t].payload = NoRun
        BY DEF Outcomes, NoRows, NoRow
      <4>3. \A b \in Apis \ {p} : seen'[b] = seen[b] /\ snap'[b] = snap[b]
        BY <4>1 DEF TypeOK
      <4>4. \A t \in Tasks : seen'[p][t] = "pending" /\ snap'[p] = NoRows
        BY <3>1, <4>1 DEF TypeOK
      <4>q. QED  BY <4>2, <4>3, <4>4
    <3>2. CASE p \notin Apis
      BY <1>25, <3>2 DEF Crash, apiVars
    <3>q. QED  BY <3>1, <3>2
  <2>q. QED  BY <1>25, <1>f, <2>1, <2>2 DEF Crash, CopiesInv, queueVars, dbVars
<1>26. ASSUME NEW t \in Tasks, RestoreMessage(t) PROVE CopiesInv'
  BY <1>26, <1>f DEF RestoreMessage, CopiesInv, apiVars, queueVars, execVars, dbVars
<1>27. ASSUME NEW t \in Tasks, ExpireResult(t) PROVE CopiesInv'
  <2>1. \A u \in Tasks : result'[u] \in Outcomes => result'[u] = result[u]
    BY <1>27 DEF ExpireResult, TypeOK, Outcomes
  <2>q. QED  BY <1>27, <1>f, <2>1 DEF ExpireResult, CopiesInv, apiVars, execVars, dbVars
<1>28. CASE UNCHANGED vars
  BY <1>28, <1>f DEF vars, CopiesInv, apiVars, queueVars, execVars, dbVars
<1>q. QED
  BY <1>1, <1>2, <1>3, <1>4, <1>5, <1>6, <1>7, <1>8, <1>9, <1>10, <1>11, <1>12, <1>13,
      <1>14, <1>15, <1>16, <1>17, <1>18, <1>19, <1>20, <1>21, <1>22, <1>23, <1>24,
      <1>25, <1>26, <1>27, <1>28 DEF Next, Submit, Execute

-----------------------------------------------------------------------------
\* The inductive invariant holds initially.
LEMMA Initially == Init => IInv
<1> SUFFICES ASSUME Init PROVE IInv
  OBVIOUS
<1>1. TypeOK
  BY DEF Init, TypeOK, Row, NoRow, NoRows, LedgerStatus, Outcomes, NoRun, Results,
      ApiPcs, ExecPcs
<1>2. ApiInv
  BY SubmissionAssumption DEF Init, ApiInv, NoRows, NoRow
<1>3. ExecInv
  BY DEF Init, ExecInv, DecidedPcs, SyncPcs, Executors
<1>4. AuditInv
  BY DEF Init, AuditInv, AuditTablesAgree
<1>5. CopiesInv
  BY DEF Init, CopiesInv, ExecCopies, ResultCopies, SeenCopies, SnapCopies, LedgerCopies,
         NoRows, NoRow, Outcomes, NoRun
<1>q. QED  BY <1>1, <1>2, <1>3, <1>4, <1>5 DEF IInv

\* The inductive invariant holds in every reachable state.
THEOREM Invariance == Spec => []IInv
<1>1. Init => IInv
  BY Initially
<1>2. IInv /\ [Next]_vars => IInv'
  BY TypeStep, ApiStep, ExecStep, AuditStep, CopiesStep DEF IInv
<1>q. QED  BY <1>1, <1>2, PTL DEF Spec

\* Every variable keeps its type, for any processes, requests and bounds.
THEOREM TypeCorrect == Spec => []TypeOK
  BY Invariance, PTL DEF IInv

\* The audit tables agree (see AuditTablesAgree): redelivery, timeouts,
\* concurrent executions and crashes included.
THEOREM AuditTables == Spec => []AuditTablesAgree
<1>1. IInv => AuditTablesAgree
  BY DEF IInv, AuditInv
<1>q. QED  BY <1>1, Invariance, PTL

\* The ledger shows the stored outcome (see ShownOutcomeIsStored).
THEOREM ShownOutcome == Spec => []ShownOutcomeIsStored
<1>1. IInv => ShownOutcomeIsStored
  BY DEF IInv, CopiesInv, LedgerCopies, StoredFor, ShownOutcomeIsStored
<1>q. QED  BY <1>1, Invariance, PTL

-----------------------------------------------------------------------------
\* No step takes a payload out of the ledger.
LEMMA PayloadStays ==
  ASSUME TypeOK, ApiInv, [Next]_vars
  PROVE  \A t \in Tasks : ledger[t].payload # NoRun => ledger'[t].payload # NoRun
<1>1. ASSUME NEW a \in Apis, CreateSubmission(a), NEW t \in Tasks
      PROVE  ledger'[t] = ledger[t] \/ ledger[t] = NoRow
  BY <1>1 DEF CreateSubmission, ApiInv, TypeOK
<1>2. ASSUME NEW a \in Apis, CommitRefresh(a), NEW t \in Tasks
      PROVE  ledger'[t].payload = ledger[t].payload \/ ledger'[t].payload \in Outcomes
  BY <1>2, ApplyColumns DEF CommitRefresh
<1>3. ASSUME NEW p \in Executors, NEW s, NEW o, LedgerUpdate(p, s, o), NEW t \in Tasks
      PROVE  \/ ledger'[t] = ledger[t]
             \/ ledger'[t] = [status |-> s, payload |-> IF o = NoRun THEN ledger[t].payload ELSE o]
  BY <1>3 DEF LedgerUpdate, TypeOK
<1>4. \/ \E a \in Apis : CreateSubmission(a) \/ CommitRefresh(a)
      \/ \E p \in Executors, s \in LedgerStatus, o \in Outcomes \cup {NoRun} : LedgerUpdate(p, s, o)
      \/ ledger' = ledger
  <2>1. ASSUME NEW a \in Apis, NEW t \in Tasks, NEW r \in Requests, CheckRequestId(a, t, r) PROVE ledger' = ledger
    BY <2>1 DEF CheckRequestId, dbVars
  <2>2. ASSUME NEW a \in Apis, SendTask(a) PROVE ledger' = ledger
    BY <2>2 DEF SendTask, dbVars
  <2>4. ASSUME NEW a \in Apis, NEW t \in Tasks, RefreshSubmissionStatus(a, t) PROVE ledger' = ledger
    BY <2>4 DEF RefreshSubmissionStatus, LoadRows, dbVars
  <2>5. ASSUME NEW a \in Apis, ListSubmissions(a) PROVE ledger' = ledger
    BY <2>5 DEF ListSubmissions, LoadRows, dbVars
  <2>6. ASSUME NEW a \in Apis, ReadAsyncResults(a) PROVE ledger' = ledger
    BY <2>6 DEF ReadAsyncResults, dbVars
  <2>8. ASSUME NEW a \in Apis, NEW r \in Requests, RunWorkflowSync(a, r) PROVE ledger' = ledger
    BY <2>8 DEF RunWorkflowSync, dbVars
  <2>9. ASSUME NEW w \in Workers, NEW t \in Tasks, TakeMessage(w, t) PROVE ledger' = ledger
    BY <2>9 DEF TakeMessage, Delivered, dbVars
  <2>10. ASSUME NEW p \in Executors, FindFinishedRun(p) PROVE ledger' = ledger
    BY <2>10 DEF FindFinishedRun, dbVars
  <2>11. ASSUME NEW p \in Executors, SkipDuplicate(p)
        PROVE  (\E q \in Executors, s \in LedgerStatus, x \in Outcomes \cup {NoRun} : LedgerUpdate(q, s, x))
                \/ ledger' = ledger
    BY <2>11 DEF SkipDuplicate, LedgerStatus, TypeOK
  <2>12. ASSUME NEW p \in Executors, BeginExecution(p)
        PROVE  (\E q \in Executors, s \in LedgerStatus, x \in Outcomes \cup {NoRun} : LedgerUpdate(q, s, x))
                \/ ledger' = ledger
    BY <2>12 DEF BeginExecution, LedgerStatus, TypeOK
  <2>13. ASSUME NEW p \in Executors, NEW o \in Outcomes, RunAgents(p, o) PROVE ledger' = ledger
    BY <2>13 DEF RunAgents, dbVars
  <2>14. ASSUME NEW p \in Executors, ToolLogRaises(p) PROVE ledger' = ledger
    BY <2>14 DEF ToolLogRaises, dbVars
  <2>15. ASSUME NEW p \in Executors, HasRequestTurn(p) PROVE ledger' = ledger
    BY <2>15 DEF HasRequestTurn, has_request_turn, dbVars
  <2>16. ASSUME NEW p \in Executors, AppendTurns(p) PROVE ledger' = ledger
    BY <2>16 DEF AppendTurns, dbVars
  <2>17. ASSUME NEW p \in Executors, ExtractMemories(p) PROVE ledger' = ledger
    BY <2>17 DEF ExtractMemories, dbVars
  <2>18. ASSUME NEW p \in Executors, CreateHumanReview(p) PROVE ledger' = ledger
    BY <2>18 DEF CreateHumanReview, dbVars
  <2>19. ASSUME NEW p \in Executors, SaveRuntimeRecords(p) PROVE ledger' = ledger
    BY <2>19 DEF SaveRuntimeRecords, dbVars
  <2>20. ASSUME NEW p \in Executors, SaveWorkflowRun(p) PROVE ledger' = ledger
    BY <2>20 DEF SaveWorkflowRun, dbVars
  <2>21. ASSUME NEW p \in Executors, ReportTerminalState(p)
        PROVE  (\E q \in Executors, s \in LedgerStatus, x \in Outcomes \cup {NoRun} : LedgerUpdate(q, s, x))
                \/ ledger' = ledger
    BY <2>21 DEF ReportTerminalState, LedgerStatus, TypeOK
  <2>22. ASSUME NEW p \in Executors, ReportException(p)
        PROVE  (\E q \in Executors, s \in LedgerStatus, x \in Outcomes \cup {NoRun} : LedgerUpdate(q, s, x))
                \/ ledger' = ledger
    BY <2>22 DEF ReportException, LedgerStatus, TypeOK
  <2>23. ASSUME NEW p \in Executors, StoreResult(p) PROVE ledger' = ledger
    BY <2>23 DEF StoreResult, dbVars
  <2>24. ASSUME NEW p \in Executors, Acknowledge(p) PROVE ledger' = ledger
    BY <2>24 DEF Acknowledge, Removable, dbVars
  <2>25. ASSUME NEW p \in Executors, Crash(p) PROVE ledger' = ledger
    BY <2>25 DEF Crash, dbVars
  <2>26. ASSUME NEW t \in Tasks, RestoreMessage(t) PROVE ledger' = ledger
    BY <2>26 DEF RestoreMessage, dbVars
  <2>27. ASSUME NEW t \in Tasks, ExpireResult(t) PROVE ledger' = ledger
    BY <2>27 DEF ExpireResult, dbVars
  <2>28. CASE UNCHANGED vars
    BY <2>28 DEF vars, dbVars
  <2>q. QED  BY <2>1, <2>2, <2>4, <2>5, <2>6, <2>8, <2>9, <2>10, <2>11, <2>12, <2>13,
      <2>14, <2>15, <2>16, <2>17, <2>18, <2>19, <2>20, <2>21, <2>22, <2>23, <2>24,
      <2>25, <2>26, <2>27, <2>28 DEF Next, Submit, Execute
<1>5. NoRow.payload = NoRun /\ NoRun \notin Outcomes
  BY DEF NoRow, NoRun, Outcomes
<1>6. CASE \E a \in Apis : CreateSubmission(a) \/ CommitRefresh(a)
  BY <1>1, <1>2, <1>5, <1>6
<1>7. CASE \E p \in Executors, s \in LedgerStatus, o \in Outcomes \cup {NoRun} : LedgerUpdate(p, s, o)
  <2>1. PICK p \in Executors, s \in LedgerStatus, o \in Outcomes \cup {NoRun} : LedgerUpdate(p, s, o)
    BY <1>7
  <2>2. ASSUME NEW t \in Tasks, ledger[t].payload # NoRun PROVE ledger'[t].payload # NoRun
    <3>1. CASE ledger'[t] = [status |-> s, payload |-> IF o = NoRun THEN ledger[t].payload ELSE o]
      <4>1. ledger'[t].payload = IF o = NoRun THEN ledger[t].payload ELSE o
        BY <3>1
      <4>q. QED  BY <2>2, <4>1
    <3>2. CASE ledger'[t] = ledger[t]
      BY <2>2, <3>2
    <3>q. QED  BY <1>3, <2>1, <3>1, <3>2
  <2>q. QED  BY <2>2
<1>q. QED  BY <1>4, <1>6, <1>7

\* Where neither requests nor runs change, the ledger shows stored outcomes.
LEMMA ShowStep ==
  ASSUME TypeOK, LedgerCopies', UNCHANGED <<reqOf, workflowRuns>>,
         ledger' \in [Tasks -> Row \cup {NoRow}],
         \A t \in Tasks : ledger[t].payload # NoRun => ledger'[t].payload # NoRun
  PROVE  \E S \in SUBSET Tasks : Promise!Show(S)
<1>1. PICK C \in SUBSET Tasks : C = {t \in Tasks : ledger'[t].payload # ledger[t].payload}
  OBVIOUS
<1>2. \A t \in C : reqOf[t] \in Requests /\ workflowRuns[reqOf[t]] # NoRun
                   /\ ledger'[t].payload = workflowRuns[reqOf[t]]
  BY <1>1 DEF LedgerCopies, StoredFor
<1>3. [t \in Tasks |-> ledger'[t].payload] =
        [t \in Tasks |-> IF t \in C THEN workflowRuns[reqOf[t]] ELSE ledger[t].payload]
  BY <1>1, <1>2
<1>4. [t \in Tasks |-> IF t \in C THEN workflowRuns[reqOf[t]] ELSE ledger[t].payload] =
        [t \in Tasks |-> IF t \in C THEN workflowRuns[reqOf[t]]
                         ELSE [u \in Tasks |-> ledger[u].payload][t]]
  OBVIOUS
<1>5. Promise!Show(C)
  <2>1. \A t \in C : reqOf[t] \in Requests /\ workflowRuns[reqOf[t]] # NoRun
    BY <1>2
  <2>2. [t \in Tasks |-> ledger'[t].payload] =
          [t \in Tasks |-> IF t \in C THEN workflowRuns[reqOf[t]]
                           ELSE [u \in Tasks |-> ledger[u].payload][t]]
    BY <1>3, <1>4
  <2>3. UNCHANGED <<reqOf, workflowRuns>>
    OBVIOUS
  <2>q. QED  BY <2>1, <2>2, <2>3 DEF Promise!Show
<1>q. QED  BY <1>5

\* Submission, execution and refresh implement RunOutcome (see
\* OutcomePromised): one outcome per request, kept for ever, and shown for no
\* other request.
THEOREM Refinement == Spec => OutcomePromised
<1>1. Init => Promise!Init
  BY DEF Init, Promise!Init, NoRows, NoRow
<1>2. ASSUME IInv, IInv', [Next]_vars PROVE [Promise!Next]_(Promise!vars)
  <2>1. ASSUME NEW a \in Apis, SendTask(a) PROVE Promise!Next
    <3>1. apiTask[a] \in Tasks /\ apiReq[a] \in Requests /\ reqOf[apiTask[a]] = NoRequest
      BY <1>2, <2>1 DEF SendTask, IInv, ApiInv
    <3>2. Promise!Accept(apiTask[a], apiReq[a])
      BY <2>1, <3>1 DEF SendTask, Promise!Accept, dbVars, auditVars
    <3>q. QED  BY <3>1, <3>2 DEF Promise!Next
  <2>2. ASSUME NEW p \in Executors, SaveWorkflowRun(p), workflowRuns' # workflowRuns
        PROVE  Promise!Next
    <3>1. /\ runReq[p] \in Requests /\ out[p] \in Outcomes
          /\ workflowRuns[runReq[p]] = NoRun
          /\ workflowRuns' = [workflowRuns EXCEPT ![runReq[p]] = out[p]]
          /\ UNCHANGED <<reqOf, ledger>>
      BY <1>2, <2>2 DEF SaveWorkflowRun, At, IInv, ExecInv, AuditInv, DecidedPcs, queueVars
    <3>2. Promise!Finish(runReq[p], out[p])
      BY <3>1 DEF Promise!Finish
    <3>q. QED  BY <3>1, <3>2 DEF Promise!Next
  <2>3. CASE UNCHANGED <<reqOf, workflowRuns>>
    <3>1. \A t \in Tasks : ledger[t].payload # NoRun => ledger'[t].payload # NoRun
      BY <1>2, PayloadStays DEF IInv
    <3>2. \E S \in SUBSET Tasks : Promise!Show(S)
      BY <1>2, <2>3, <3>1, ShowStep DEF IInv, CopiesInv, TypeOK
    <3>q. QED  BY <3>2 DEF Promise!Next
  <2>4. \/ \E a \in Apis : SendTask(a)
        \/ \E p \in Executors : SaveWorkflowRun(p)
        \/ UNCHANGED <<reqOf, workflowRuns>>
    BY <1>2, Writers
  <2>5. ASSUME NEW p \in Executors, SaveWorkflowRun(p), workflowRuns' = workflowRuns
        PROVE  UNCHANGED <<reqOf, workflowRuns>>
    BY <2>5 DEF SaveWorkflowRun, queueVars
  <2>q. QED  BY <2>1, <2>2, <2>3, <2>4, <2>5
<1>q. QED  BY <1>1, <1>2, Invariance, PTL DEF Spec, OutcomePromised, Promise!Spec

-----------------------------------------------------------------------------
(***************************************************************************)
(* What happens once per request: its turns, its message, its             *)
(* acknowledgement and its rows.  The inductive invariant adds what the    *)
(* code relies on without saying so: one API process, and no execution     *)
(* that a visibility timeout doubles.  These premises are parts of the     *)
(* states, so that each theorem holds for every value of the constants, up *)
(* to the step that ends its premise.                                      *)
(***************************************************************************)
\* Every path to a stored run goes through the turns; an answer comes with its
\* question.
TurnsInv ==
  /\ TranscriptBeforeRun
  /\ \A r \in Requests : assistantTurns[r] >= 1 => userTurns[r] >= 1
  /\ \A p \in Executors :
       /\ pc[p] = "append" /\ sawTurn[p] => userTurns[runReq[p]] >= 1
       /\ pc[p] \in {"extract", "review", "task_run", "workflow_run"} =>
            userTurns[runReq[p]] >= 1 /\ assistantTurns[runReq[p]] >= 1

\* One event loop takes all submissions, and its process has not crashed.
SoleApi ==
  /\ \A a, b \in Apis : a = b
  /\ crashes = 0 \/ Apis \cap Crashable = {}

\* A message sent has its ledger row, or its handler is about to write it; a
\* request about to be sent has no message.
SentInv ==
  SoleApi =>
    /\ \A t \in Tasks : reqOf[t] \in Requests =>
         ledger[t] # NoRow \/ \E a \in Apis : apiPc[a] = "sent" /\ apiTask[a] = t
    /\ \A a \in Apis, t \in Tasks : apiPc[a] = "checked" => reqOf[t] # apiReq[a]
    /\ OneMessagePerRequest

\* Until a visibility timeout hits a busy worker, a message in flight has one
\* holder; without crashes it has exactly one.
HoldInv ==
  expiries = 0 =>
    /\ \A w \in Workers : pc[w] = "idle" => holds[w] = NoTask
    /\ \A v, w \in Workers : holds[v] = holds[w] /\ holds[v] # NoTask => v = w
    /\ \A w \in Workers : holds[w] # NoTask => msg[holds[w]] = "unacked"
    /\ crashes = 0 =>
         \A t \in Tasks : msg[t] = "unacked" => \E w \in Workers : holds[w] = t

\* The result backend is done with a task: it is returned or it has failed.
Settled(t) == result[t] \in Outcomes \cup {"failure"}

\* An execution about to acknowledge has stored its result.
AckInv ==
  ~ResultsExpire /\ expiries = 0 =>
    /\ AckAfterResult
    /\ \A w \in Workers : pc[w] = "ack" => Settled(holds[w])

\* Without visibility timeouts and synchronous runs, an execution that has
\* seen no turn of its request is the only one to append the question.
TurnOnceInv ==
  SoleApi /\ expiries = 0 /\ syncRuns = 0 =>
    /\ UserTurnOnce
    /\ \A a \in Apis : pc[a] = "idle"
    /\ \A w \in Workers : pc[w] = "append" /\ ~sawTurn[w] => userTurns[runReq[w]] = 0

\* Nothing of a request is stored yet.
Unexecuted(r) == taskRuns[r] = NoRun /\ workflowRuns[r] = NoRun /\ ~reviews[r]

\* The program points before the first row of a run.
BeforeRowsPcs == {"taken", "begin", "agents", "turns", "append", "extract", "review"}

\* Without crashes, visibility timeouts and synchronous runs every flush finds
\* its row missing: a request has no rows before its one execution writes them.
FreshInv ==
  SoleApi /\ crashes = 0 /\ expiries = 0 /\ syncRuns = 0 =>
    /\ \A p \in Executors : broken[p] = {}
    /\ \A r \in Requests : (\A t \in Tasks : reqOf[t] = r => msg[t] = "ready") => Unexecuted(r)
    /\ \A w \in Workers : pc[w] \in BeforeRowsPcs => Unexecuted(runReq[w])
    /\ \A w \in Workers : pc[w] = "task_run" =>
         taskRuns[runReq[w]] = NoRun /\ workflowRuns[runReq[w]] = NoRun

-----------------------------------------------------------------------------
\* Turns are only added, after the answers of earlier executions.
LEMMA TurnsStep ==
  ASSUME TypeOK, ExecInv, TurnsInv, [Next]_vars
  PROVE  TurnsInv'
<1>t. /\ pc \in [Executors -> ExecPcs] /\ sawTurn \in [Executors -> BOOLEAN]
      /\ runReq \in [Executors -> Requests \cup {NoRequest}]
      /\ workflowRuns \in [Requests -> Outcomes \cup {NoRun}]
      /\ userTurns \in [Requests -> Nat] /\ assistantTurns \in [Requests -> Nat]
  BY DEF TypeOK
<1>r. \A p \in Executors : pc[p] # "idle" => runReq[p] \in Requests
  BY DEF ExecInv
<1>f. ASSUME UNCHANGED <<pc, sawTurn, runReq, workflowRuns, turnVars>> PROVE TurnsInv'
  BY <1>f DEF TurnsInv, TranscriptBeforeRun, turnVars
<1>g. ASSUME NEW p \in Executors, UNCHANGED <<workflowRuns, turnVars>>,
             \A q \in Executors \ {p} :
               pc'[q] = pc[q] /\ sawTurn'[q] = sawTurn[q] /\ runReq'[q] = runReq[q],
             pc'[p] \notin {"append", "extract", "review", "task_run", "workflow_run"}
      PROVE  TurnsInv'
  BY <1>g DEF TurnsInv, TranscriptBeforeRun, turnVars
<1>1. ASSUME NEW a \in Apis, NEW t \in Tasks, NEW r \in Requests, CheckRequestId(a, t, r)
      PROVE  TurnsInv'
  BY <1>1, <1>f DEF CheckRequestId, execVars, dbVars, auditVars
<1>2. ASSUME NEW a \in Apis, SendTask(a) PROVE TurnsInv'
  BY <1>2, <1>f DEF SendTask, execVars, dbVars, auditVars
<1>3. ASSUME NEW a \in Apis, CreateSubmission(a) PROVE TurnsInv'
  BY <1>3, <1>f DEF CreateSubmission, execVars, dbVars, auditVars
<1>4. ASSUME NEW a \in Apis, NEW t \in Tasks, RefreshSubmissionStatus(a, t)
      PROVE  TurnsInv'
  BY <1>4, <1>f DEF RefreshSubmissionStatus, LoadRows, execVars, dbVars, auditVars
<1>5. ASSUME NEW a \in Apis, ListSubmissions(a) PROVE TurnsInv'
  BY <1>5, <1>f DEF ListSubmissions, LoadRows, execVars, dbVars, auditVars
<1>6. ASSUME NEW a \in Apis, ReadAsyncResults(a) PROVE TurnsInv'
  BY <1>6, <1>f DEF ReadAsyncResults, execVars, dbVars, auditVars
<1>7. ASSUME NEW a \in Apis, CommitRefresh(a) PROVE TurnsInv'
  BY <1>7, <1>f DEF CommitRefresh, execVars, dbVars, auditVars
<1>8. ASSUME NEW a \in Apis, NEW r \in Requests, RunWorkflowSync(a, r) PROVE TurnsInv'
  BY <1>8, <1>t, <1>g DEF RunWorkflowSync, At, Goto, execVars, dbVars, auditVars,
      Executors
<1>9. ASSUME NEW w \in Workers, NEW t \in Tasks, TakeMessage(w, t) PROVE TurnsInv'
  BY <1>9, <1>t, <1>g DEF TakeMessage, execVars, dbVars, auditVars, Executors
<1>10. ASSUME NEW p \in Executors, FindFinishedRun(p) PROVE TurnsInv'
  BY <1>10, <1>t, <1>g DEF FindFinishedRun, At, Goto, execVars, dbVars, auditVars,
      Executors
<1>11. ASSUME NEW p \in Executors, SkipDuplicate(p) PROVE TurnsInv'
  BY <1>11, <1>t, <1>g DEF SkipDuplicate, At, Goto, execVars, dbVars, auditVars,
      Executors
<1>12. ASSUME NEW p \in Executors, BeginExecution(p) PROVE TurnsInv'
  BY <1>12, <1>t, <1>g DEF BeginExecution, At, Goto, execVars, dbVars, auditVars,
      Executors
<1>13. ASSUME NEW p \in Executors, NEW o \in Outcomes, RunAgents(p, o) PROVE TurnsInv'
  BY <1>13, <1>t, <1>g DEF RunAgents, At, Goto, execVars, dbVars, auditVars, Executors
<1>14. ASSUME NEW p \in Executors, ToolLogRaises(p) PROVE TurnsInv'
  BY <1>14, <1>t, <1>g DEF ToolLogRaises, At, Goto, execVars, dbVars, auditVars,
      Executors
<1>15. ASSUME NEW p \in Executors, HasRequestTurn(p) PROVE TurnsInv'
  <2>1. /\ runReq[p] \in Requests /\ pc'[p] = "append" /\ UNCHANGED <<runReq, workflowRuns, turnVars>>
        /\ sawTurn'[p] => userTurns[runReq[p]] + assistantTurns[runReq[p]] > 0
        /\ \A q \in Executors \ {p} : pc'[q] = pc[q] /\ sawTurn'[q] = sawTurn[q]
    BY <1>15, <1>t, <1>r DEF HasRequestTurn, has_request_turn, At, Goto, execVars, dbVars, auditVars
  <2>2. sawTurn'[p] => userTurns[runReq[p]] >= 1
    BY <2>1, <1>t DEF TurnsInv
  <2>q. QED  BY <2>1, <2>2 DEF TurnsInv, TranscriptBeforeRun, turnVars
<1>16. ASSUME NEW p \in Executors, AppendTurns(p) PROVE TurnsInv'
  BY <1>16, <1>t, <1>r DEF AppendTurns, At, Goto, TurnsInv, TranscriptBeforeRun,
      execVars, dbVars, auditVars, turnVars
<1>17. ASSUME NEW p \in Executors, ExtractMemories(p) PROVE TurnsInv'
  BY <1>17, <1>t, <1>r DEF ExtractMemories, At, Goto, TurnsInv, TranscriptBeforeRun,
      execVars, dbVars, auditVars, turnVars
<1>18. ASSUME NEW p \in Executors, CreateHumanReview(p) PROVE TurnsInv'
  BY <1>18, <1>t, <1>r DEF CreateHumanReview, At, Goto, TurnsInv, TranscriptBeforeRun,
      execVars, dbVars, auditVars, turnVars
<1>19. ASSUME NEW p \in Executors, SaveRuntimeRecords(p) PROVE TurnsInv'
  BY <1>19, <1>t, <1>r DEF SaveRuntimeRecords, At, Goto, TurnsInv, TranscriptBeforeRun,
      execVars, dbVars, auditVars, turnVars
<1>20. ASSUME NEW p \in Executors, SaveWorkflowRun(p) PROVE TurnsInv'
  BY <1>20, <1>t, <1>r DEF SaveWorkflowRun, At, Goto, Leave, TurnsInv,
      TranscriptBeforeRun, execVars, dbVars, auditVars, turnVars
<1>21. ASSUME NEW p \in Executors, ReportTerminalState(p) PROVE TurnsInv'
  BY <1>21, <1>t, <1>g DEF ReportTerminalState, At, Goto, execVars, dbVars, auditVars,
      Executors
<1>22. ASSUME NEW p \in Executors, ReportException(p) PROVE TurnsInv'
  BY <1>22, <1>t, <1>g DEF ReportException, At, Goto, Leave, execVars, dbVars,
      auditVars, Executors
<1>23. ASSUME NEW p \in Executors, StoreResult(p) PROVE TurnsInv'
  BY <1>23, <1>t, <1>g DEF StoreResult, At, Goto, execVars, dbVars, auditVars, Executors
<1>24. ASSUME NEW p \in Executors, Acknowledge(p) PROVE TurnsInv'
  BY <1>24, <1>t, <1>g DEF Acknowledge, At, Goto, Leave, execVars, dbVars, auditVars,
      Executors
<1>25. ASSUME NEW p \in Executors, Crash(p) PROVE TurnsInv'
  BY <1>25, <1>t, <1>g DEF Crash, Goto, Leave, execVars, dbVars, auditVars, Executors
<1>26. ASSUME NEW t \in Tasks, RestoreMessage(t) PROVE TurnsInv'
  BY <1>26, <1>f DEF RestoreMessage, execVars, dbVars, auditVars
<1>27. ASSUME NEW t \in Tasks, ExpireResult(t) PROVE TurnsInv'
  BY <1>27, <1>f DEF ExpireResult, execVars, dbVars, auditVars
<1>28. CASE UNCHANGED vars
  BY <1>28, <1>f DEF vars, execVars, dbVars, auditVars
<1>q. QED
  BY <1>1, <1>2, <1>3, <1>4, <1>5, <1>6, <1>7, <1>8, <1>9, <1>10, <1>11, <1>12,
      <1>13, <1>14, <1>15, <1>16, <1>17, <1>18, <1>19, <1>20, <1>21, <1>22, <1>23,
      <1>24, <1>25, <1>26, <1>27, <1>28 DEF Next, Submit, Execute

\* A refresh makes no ledger row and drops none.
LEMMA RefreshKeepsRows ==
  ASSUME TypeOK, ApiInv, NEW a \in Apis, CommitRefresh(a)
  PROVE  \A t \in Tasks : ledger'[t] # NoRow <=> ledger[t] # NoRow
<1>1. ASSUME NEW t \in Tasks PROVE ledger'[t] # NoRow <=> ledger[t] # NoRow
  <2>1. /\ ledger[t] \in Row \cup {NoRow} /\ snap[a][t] \in Row \cup {NoRow}
        /\ seen[a][t] \in Results /\ (snap[a][t] # NoRow => ledger[t] # NoRow)
    BY DEF TypeOK, ApiInv
  <2>2. ledger'[t] = IF snap[a][t] = NoRow THEN ledger[t]
                     ELSE apply_async_result(ledger[t], snap[a][t], seen[a][t])
    BY DEF CommitRefresh
  <2>q. QED  BY <2>1, <2>2, TypeRow
<1>q. QED  BY <1>1

\* A single API process sends one message per request.
LEMMA SentStep ==
  ASSUME TypeOK, ApiInv, ExecInv, SentInv, [Next]_vars
  PROVE  SentInv'
<1>t. /\ apiPc \in [Apis -> ApiPcs] /\ apiTask \in [Apis -> Tasks \cup {NoTask}]
      /\ apiReq \in [Apis -> Requests \cup {NoRequest}]
      /\ reqOf \in [Tasks -> Requests \cup {NoRequest}]
      /\ ledger \in [Tasks -> Row \cup {NoRow}] /\ crashes \in Nat
  BY DEF TypeOK
<1>f. ASSUME UNCHANGED <<reqOf, apiTask, apiReq, crashes>>,
             \A b \in Apis : apiPc[b] \in {"checked", "sent"} \/ apiPc'[b] \in {"checked", "sent"}
                               => apiPc'[b] = apiPc[b],
             \A t \in Tasks : ledger'[t] # NoRow <=> ledger[t] # NoRow
      PROVE  SentInv'
  BY <1>f DEF SentInv, SoleApi, OneMessagePerRequest
<1>1. ASSUME NEW a \in Apis, NEW t \in Tasks, NEW r \in Requests, CheckRequestId(a, t, r)
      PROVE  SentInv'
  <2>1. /\ apiPc' = [apiPc EXCEPT ![a] = "checked"] /\ apiReq' = [apiReq EXCEPT ![a] = r]
        /\ apiTask' = [apiTask EXCEPT ![a] = t] /\ apiPc[a] = "free"
        /\ UNCHANGED <<reqOf, ledger, crashes>>
    BY <1>1 DEF CheckRequestId, queueVars, dbVars, envVars
  <2>2. \A u \in Tasks : ledger[u] # NoRow => reqOf[u] # r
    BY <1>1 DEF CheckRequestId, get_by_request_id
  <2>q. QED  BY <1>t, <2>1, <2>2 DEF SentInv, SoleApi, OneMessagePerRequest
<1>2. ASSUME NEW a \in Apis, SendTask(a) PROVE SentInv'
  <2>1. /\ apiPc[a] = "checked" /\ apiPc' = [apiPc EXCEPT ![a] = "sent"]
        /\ reqOf' = [reqOf EXCEPT ![apiTask[a]] = apiReq[a]]
        /\ UNCHANGED <<apiTask, apiReq, ledger, crashes>>
    BY <1>2 DEF SendTask, dbVars, envVars
  <2>2. apiTask[a] \in Tasks /\ apiReq[a] \in Requests
    BY <2>1 DEF ApiInv
  <2>q. QED  BY <1>t, <2>1, <2>2 DEF SentInv, SoleApi, OneMessagePerRequest
<1>3. ASSUME NEW a \in Apis, CreateSubmission(a) PROVE SentInv'
  <2>1. /\ apiPc[a] = "sent" /\ apiPc' = [apiPc EXCEPT ![a] = "free"]
        /\ apiReq' = [apiReq EXCEPT ![a] = NoRequest] /\ apiTask' = [apiTask EXCEPT ![a] = NoTask]
        /\ UNCHANGED <<reqOf, crashes>>
    BY <1>3 DEF CreateSubmission, queueVars, envVars
  <2>2. apiTask[a] \in Tasks /\ apiReq[a] \in Requests /\ reqOf[apiTask[a]] = apiReq[a]
    BY <2>1 DEF ApiInv
  <2>3. SoleApi => ledger'[apiTask[a]] # NoRow
    <3>1. CASE \E u \in Tasks : ledger[u] # NoRow /\ reqOf[u] = apiReq[a]
      BY <1>3, <2>2, <3>1, SubmissionAssumption DEF CreateSubmission, SentInv, OneMessagePerRequest
    <3>2. CASE ~ \E u \in Tasks : ledger[u] # NoRow /\ reqOf[u] = apiReq[a]
      BY <1>3, <1>t, <2>2, <3>2 DEF CreateSubmission, NoRow
    <3>q. QED  BY <3>1, <3>2
  <2>4. \A t \in Tasks : ledger[t] # NoRow => ledger'[t] # NoRow
    BY <1>3, <1>t, <2>2 DEF CreateSubmission, NoRow
  <2>q. QED
    BY <1>t, <2>1, <2>2, <2>3, <2>4 DEF SentInv, SoleApi, OneMessagePerRequest
<1>4. ASSUME NEW a \in Apis, NEW t \in Tasks, RefreshSubmissionStatus(a, t)
      PROVE  SentInv'
  BY <1>4, <1>t, <1>f DEF RefreshSubmissionStatus, LoadRows, apiVars, queueVars,
      dbVars, envVars
<1>5. ASSUME NEW a \in Apis, ListSubmissions(a) PROVE SentInv'
  BY <1>5, <1>t, <1>f DEF ListSubmissions, LoadRows, apiVars, queueVars, dbVars,
      envVars
<1>6. ASSUME NEW a \in Apis, ReadAsyncResults(a) PROVE SentInv'
  BY <1>6, <1>t, <1>f DEF ReadAsyncResults, apiVars, queueVars, dbVars, envVars
<1>7. ASSUME NEW a \in Apis, CommitRefresh(a) PROVE SentInv'
  <2>0. apiPc[a] = "read" /\ apiPc' = [apiPc EXCEPT ![a] = "free"]
    BY <1>7 DEF CommitRefresh
  <2>1. \A b \in Apis : apiPc'[b] = apiPc[b] \/ (apiPc[b] = "read" /\ apiPc'[b] = "free")
    BY <2>0, <1>t
  <2>2. UNCHANGED <<reqOf, apiTask, apiReq, crashes>>
    BY <1>7 DEF CommitRefresh, queueVars, envVars
  <2>q. QED  BY <1>7, <2>1, <2>2, <1>f, RefreshKeepsRows
<1>8. ASSUME NEW a \in Apis, NEW r \in Requests, RunWorkflowSync(a, r) PROVE SentInv'
  BY <1>8, <1>f DEF RunWorkflowSync, apiVars, queueVars, dbVars, envVars
<1>9. ASSUME NEW w \in Workers, NEW t \in Tasks, TakeMessage(w, t) PROVE SentInv'
  BY <1>9, <1>f DEF TakeMessage, apiVars, queueVars, dbVars, envVars
<1>10. ASSUME NEW p \in Executors, FindFinishedRun(p) PROVE SentInv'
  BY <1>10, <1>f DEF FindFinishedRun, apiVars, queueVars, dbVars, envVars
<1>11. ASSUME NEW p \in Executors, SkipDuplicate(p) PROVE SentInv'
  <2>1. UNCHANGED <<apiVars, queueVars, crashes>>
    BY <1>11 DEF SkipDuplicate, envVars
  <2>2. \A t \in Tasks : ledger'[t] # NoRow <=> ledger[t] # NoRow
    BY <1>11, RowsKept DEF SkipDuplicate, TypeOK, LedgerStatus, Outcomes
  <2>q. QED  BY <2>1, <2>2, <1>f DEF apiVars, queueVars
<1>12. ASSUME NEW p \in Executors, BeginExecution(p) PROVE SentInv'
  <2>1. UNCHANGED <<apiVars, queueVars, crashes>>
    BY <1>12 DEF BeginExecution, envVars
  <2>2. \A t \in Tasks : ledger'[t] # NoRow <=> ledger[t] # NoRow
    BY <1>12, RowsKept DEF BeginExecution, TypeOK, LedgerStatus, Outcomes
  <2>q. QED  BY <2>1, <2>2, <1>f DEF apiVars, queueVars
<1>13. ASSUME NEW p \in Executors, NEW o \in Outcomes, RunAgents(p, o) PROVE SentInv'
  BY <1>13, <1>f DEF RunAgents, apiVars, queueVars, dbVars, envVars
<1>14. ASSUME NEW p \in Executors, ToolLogRaises(p) PROVE SentInv'
  BY <1>14, <1>f DEF ToolLogRaises, apiVars, queueVars, dbVars, envVars
<1>15. ASSUME NEW p \in Executors, HasRequestTurn(p) PROVE SentInv'
  BY <1>15, <1>f DEF HasRequestTurn, apiVars, queueVars, dbVars, envVars
<1>16. ASSUME NEW p \in Executors, AppendTurns(p) PROVE SentInv'
  BY <1>16, <1>f DEF AppendTurns, apiVars, queueVars, dbVars, envVars
<1>17. ASSUME NEW p \in Executors, ExtractMemories(p) PROVE SentInv'
  BY <1>17, <1>f DEF ExtractMemories, apiVars, queueVars, dbVars, envVars
<1>18. ASSUME NEW p \in Executors, CreateHumanReview(p) PROVE SentInv'
  BY <1>18, <1>f DEF CreateHumanReview, apiVars, queueVars, dbVars, envVars
<1>19. ASSUME NEW p \in Executors, SaveRuntimeRecords(p) PROVE SentInv'
  BY <1>19, <1>f DEF SaveRuntimeRecords, apiVars, queueVars, dbVars, envVars
<1>20. ASSUME NEW p \in Executors, SaveWorkflowRun(p) PROVE SentInv'
  BY <1>20, <1>f DEF SaveWorkflowRun, apiVars, queueVars, dbVars, envVars
<1>21. ASSUME NEW p \in Executors, ReportTerminalState(p) PROVE SentInv'
  <2>1. UNCHANGED <<apiVars, queueVars, crashes>>
    BY <1>21 DEF ReportTerminalState, envVars
  <2>2. \A t \in Tasks : ledger'[t] # NoRow <=> ledger[t] # NoRow
    BY <1>21, RowsKept DEF ReportTerminalState, TypeOK, LedgerStatus, Outcomes
  <2>q. QED  BY <2>1, <2>2, <1>f DEF apiVars, queueVars
<1>22. ASSUME NEW p \in Executors, ReportException(p) PROVE SentInv'
  <2>1. UNCHANGED <<apiVars, queueVars, crashes>>
    BY <1>22 DEF ReportException, envVars
  <2>2. \A t \in Tasks : ledger'[t] # NoRow <=> ledger[t] # NoRow
    BY <1>22, RowsKept DEF ReportException, LedgerStatus
  <2>q. QED  BY <2>1, <2>2, <1>f DEF apiVars, queueVars
<1>23. ASSUME NEW p \in Executors, StoreResult(p) PROVE SentInv'
  BY <1>23, <1>f DEF StoreResult, apiVars, queueVars, dbVars, envVars
<1>24. ASSUME NEW p \in Executors, Acknowledge(p) PROVE SentInv'
  BY <1>24, <1>f DEF Acknowledge, apiVars, queueVars, dbVars, envVars
<1>25. ASSUME NEW p \in Executors, Crash(p) PROVE SentInv'
  <2>1. p \in Crashable /\ crashes' = crashes + 1 /\ UNCHANGED <<queueVars, dbVars>>
    BY <1>25 DEF Crash
  <2>2. ASSUME SoleApi' PROVE p \notin Apis
    BY <1>t, <2>1, <2>2 DEF SoleApi
  <2>3. ASSUME p \notin Apis PROVE UNCHANGED apiVars
    BY <1>25, <2>3 DEF Crash
  <2>q. QED
    BY <1>t, <2>1, <2>2, <2>3 DEF SentInv, SoleApi, OneMessagePerRequest, apiVars,
        queueVars, dbVars
<1>26. ASSUME NEW t \in Tasks, RestoreMessage(t) PROVE SentInv'
  BY <1>26, <1>f DEF RestoreMessage, apiVars, queueVars, dbVars, envVars
<1>27. ASSUME NEW t \in Tasks, ExpireResult(t) PROVE SentInv'
  BY <1>27, <1>f DEF ExpireResult, apiVars, queueVars, dbVars, envVars
<1>28. CASE UNCHANGED vars
  BY <1>28, <1>f DEF vars, apiVars, queueVars, dbVars, envVars
<1>q. QED
  BY <1>1, <1>2, <1>3, <1>4, <1>5, <1>6, <1>7, <1>8, <1>9, <1>10, <1>11, <1>12,
      <1>13, <1>14, <1>15, <1>16, <1>17, <1>18, <1>19, <1>20, <1>21, <1>22, <1>23,
      <1>24, <1>25, <1>26, <1>27, <1>28 DEF Next, Submit, Execute

\* A message in flight keeps its one holder.
LEMMA HoldStep ==
  ASSUME TypeOK, ApiInv, ExecInv, HoldInv, [Next]_vars
  PROVE  HoldInv'
<1>t. /\ pc \in [Executors -> ExecPcs] /\ holds \in [Executors -> Tasks \cup {NoTask}]
      /\ msg \in [Tasks -> {"none", "ready", "unacked", "gone"}]
      /\ expiries \in Nat /\ crashes \in Nat
  BY DEF TypeOK
<1>w. Workers \subseteq Executors /\ \A a \in Apis : a \notin Workers
  BY SubmissionAssumption DEF Executors
<1>f. ASSUME UNCHANGED <<msg, expiries, crashes>>,
             \A w \in Workers : holds'[w] = holds[w] /\ (pc'[w] = "idle" => pc[w] = "idle")
      PROVE  HoldInv'
  BY <1>f DEF HoldInv
<1>g. ASSUME NEW p \in Executors, UNCHANGED <<holds, msg, expiries, crashes>>,
             \E x : x # "idle" /\ pc' = [pc EXCEPT ![p] = x]
      PROVE  HoldInv'
  BY <1>g, <1>f, <1>t, <1>w
<1>1. ASSUME NEW a \in Apis, NEW t \in Tasks, NEW r \in Requests, CheckRequestId(a, t, r)
      PROVE  HoldInv'
  BY <1>1, <1>f DEF CheckRequestId, queueVars, execVars, envVars
<1>2. ASSUME NEW a \in Apis, SendTask(a) PROVE HoldInv'
  <2>1. /\ msg' = [msg EXCEPT ![apiTask[a]] = "ready"] /\ apiPc[a] = "checked"
        /\ UNCHANGED <<holds, pc, expiries, crashes>>
    BY <1>2 DEF SendTask, execVars, envVars
  <2>2. apiTask[a] \in Tasks /\ msg[apiTask[a]] = "none"
    BY <2>1, <1>t, SubmissionAssumption DEF ApiInv
  <2>q. QED  BY <1>t, <1>w, <2>1, <2>2 DEF HoldInv
<1>3. ASSUME NEW a \in Apis, CreateSubmission(a) PROVE HoldInv'
  BY <1>3, <1>f DEF CreateSubmission, queueVars, execVars, envVars
<1>4. ASSUME NEW a \in Apis, NEW t \in Tasks, RefreshSubmissionStatus(a, t)
      PROVE  HoldInv'
  BY <1>4, <1>f DEF RefreshSubmissionStatus, LoadRows, queueVars, execVars, envVars
<1>5. ASSUME NEW a \in Apis, ListSubmissions(a) PROVE HoldInv'
  BY <1>5, <1>f DEF ListSubmissions, LoadRows, queueVars, execVars, envVars
<1>6. ASSUME NEW a \in Apis, ReadAsyncResults(a) PROVE HoldInv'
  BY <1>6, <1>f DEF ReadAsyncResults, queueVars, execVars, envVars
<1>7. ASSUME NEW a \in Apis, CommitRefresh(a) PROVE HoldInv'
  BY <1>7, <1>f DEF CommitRefresh, queueVars, execVars, envVars
<1>8. ASSUME NEW a \in Apis, NEW r \in Requests, RunWorkflowSync(a, r) PROVE HoldInv'
  BY <1>8, <1>f, <1>t, <1>w DEF RunWorkflowSync, Goto, queueVars
<1>9. ASSUME NEW w \in Workers, NEW t \in Tasks, TakeMessage(w, t) PROVE HoldInv'
  <2>1. /\ msg[t] = "ready" /\ msg' = [msg EXCEPT ![t] = "unacked"]
        /\ pc' = [pc EXCEPT ![w] = "taken"] /\ holds' = [holds EXCEPT ![w] = t]
        /\ UNCHANGED <<expiries, crashes>> /\ pc[w] = "idle"
    BY <1>9 DEF TakeMessage, Delivered, envVars
  <2>2. /\ \A v \in Workers : v # w => holds'[v] = holds[v] /\ pc'[v] = pc[v]
        /\ holds'[w] = t /\ pc'[w] = "taken" /\ msg'[t] = "unacked"
        /\ \A u \in Tasks : u # t => msg'[u] = msg[u]
    BY <1>t, <1>w, <2>1
  <2>3. expiries = 0 => holds[w] = NoTask /\ \A v \in Workers : holds[v] # t
    BY <2>1, SubmissionAssumption DEF HoldInv
  <2>4. \A v \in Workers : holds[v] \in Tasks \cup {NoTask}
    BY <1>t, <1>w
  <2>q. QED  BY <2>1, <2>2, <2>3, <2>4, SubmissionAssumption DEF HoldInv
<1>10. ASSUME NEW p \in Executors, FindFinishedRun(p) PROVE HoldInv'
  BY <1>10, <1>g DEF FindFinishedRun, Goto, queueVars, execVars, envVars
<1>11. ASSUME NEW p \in Executors, SkipDuplicate(p) PROVE HoldInv'
  BY <1>11, <1>g DEF SkipDuplicate, Goto, queueVars, execVars, envVars
<1>12. ASSUME NEW p \in Executors, BeginExecution(p) PROVE HoldInv'
  BY <1>12, <1>g DEF BeginExecution, Goto, queueVars, execVars, envVars
<1>13. ASSUME NEW p \in Executors, NEW o \in Outcomes, RunAgents(p, o) PROVE HoldInv'
  BY <1>13, <1>g DEF RunAgents, Goto, queueVars, execVars, envVars
<1>14. ASSUME NEW p \in Executors, ToolLogRaises(p) PROVE HoldInv'
  BY <1>14, <1>g DEF ToolLogRaises, Goto, queueVars, execVars, envVars
<1>15. ASSUME NEW p \in Executors, HasRequestTurn(p) PROVE HoldInv'
  BY <1>15, <1>g DEF HasRequestTurn, Goto, queueVars, execVars, envVars
<1>16. ASSUME NEW p \in Executors, AppendTurns(p) PROVE HoldInv'
  BY <1>16, <1>g DEF AppendTurns, Goto, queueVars, execVars, envVars
<1>17. ASSUME NEW p \in Executors, ExtractMemories(p) PROVE HoldInv'
  BY <1>17, <1>g DEF ExtractMemories, Goto, queueVars, execVars, envVars
<1>18. ASSUME NEW p \in Executors, CreateHumanReview(p) PROVE HoldInv'
  BY <1>18, <1>g DEF CreateHumanReview, Goto, queueVars, execVars, envVars
<1>19. ASSUME NEW p \in Executors, SaveRuntimeRecords(p) PROVE HoldInv'
  BY <1>19, <1>g DEF SaveRuntimeRecords, Goto, queueVars, execVars, envVars
<1>20. ASSUME NEW p \in Executors, SaveWorkflowRun(p) PROVE HoldInv'
  <2>1. CASE p \in Apis /\ Leave(p)
    <3>1. \A w \in Workers : holds'[w] = holds[w] /\ pc'[w] = pc[w]
      BY <2>1, <1>t, <1>w DEF Leave, Goto
    <3>q. QED  BY <1>20, <3>1, <1>f DEF SaveWorkflowRun, queueVars, envVars
  <2>2. CASE \E x : x # "idle" /\ Goto(p, x) /\ UNCHANGED holds
    BY <1>20, <2>2, <1>g DEF SaveWorkflowRun, Goto, queueVars, envVars
  <2>q. QED  BY <1>20, <2>1, <2>2 DEF SaveWorkflowRun
<1>21. ASSUME NEW p \in Executors, ReportTerminalState(p) PROVE HoldInv'
  BY <1>21, <1>g DEF ReportTerminalState, Goto, queueVars, execVars, envVars
<1>22. ASSUME NEW p \in Executors, ReportException(p) PROVE HoldInv'
  <2>1. CASE p \in Apis /\ Leave(p)
    <3>1. \A w \in Workers : holds'[w] = holds[w] /\ pc'[w] = pc[w]
      BY <2>1, <1>t, <1>w DEF Leave, Goto
    <3>q. QED  BY <1>22, <3>1, <1>f DEF ReportException, queueVars, envVars
  <2>2. CASE \E x : x # "idle" /\ Goto(p, x) /\ UNCHANGED holds
    BY <1>22, <2>2, <1>g DEF ReportException, Goto, queueVars, envVars
  <2>q. QED  BY <1>22, <2>1, <2>2 DEF ReportException
<1>23. ASSUME NEW p \in Executors, StoreResult(p) PROVE HoldInv'
  BY <1>23, <1>g DEF StoreResult, Goto, queueVars, execVars, envVars
<1>24. ASSUME NEW p \in Executors, Acknowledge(p) PROVE HoldInv'
  <2>1. /\ pc[p] = "ack"
        /\ msg' = [msg EXCEPT ![holds[p]] = IF msg[holds[p]] = "unacked" THEN "gone" ELSE msg[holds[p]]]
        /\ pc' = [pc EXCEPT ![p] = "idle"] /\ holds' = [holds EXCEPT ![p] = NoTask]
        /\ UNCHANGED <<expiries, crashes>>
    BY <1>24 DEF Acknowledge, Removable, At, Leave, Goto, envVars
  <2>2. p \in Workers /\ holds[p] \in Tasks
    BY <2>1 DEF ExecInv, SyncPcs, Executors
  <2>q. QED  BY <1>t, <1>w, <2>1, <2>2, SubmissionAssumption DEF HoldInv
<1>25. ASSUME NEW p \in Executors, Crash(p) PROVE HoldInv'
  <2>1. /\ pc' = [pc EXCEPT ![p] = "idle"] /\ holds' = [holds EXCEPT ![p] = NoTask]
        /\ UNCHANGED <<msg, expiries>> /\ crashes' = crashes + 1
    BY <1>25 DEF Crash, Leave, Goto, queueVars
  <2>q. QED  BY <1>t, <1>w, <2>1 DEF HoldInv
<1>26. ASSUME NEW t \in Tasks, RestoreMessage(t) PROVE HoldInv'
  <2>1. /\ msg' = [msg EXCEPT ![t] = "ready"] /\ UNCHANGED <<pc, holds, crashes>>
        /\ \/ expiries' = expiries + 1
           \/ expiries' = expiries /\ \A w \in Workers : holds[w] # t
    BY <1>26 DEF RestoreMessage, execVars
  <2>q. QED  BY <1>t, <1>w, <2>1 DEF HoldInv
<1>27. ASSUME NEW t \in Tasks, ExpireResult(t) PROVE HoldInv'
  BY <1>27, <1>f DEF ExpireResult, queueVars, execVars, envVars
<1>28. CASE UNCHANGED vars
  BY <1>28, <1>f DEF vars, queueVars, execVars, envVars
<1>q. QED
  BY <1>1, <1>2, <1>3, <1>4, <1>5, <1>6, <1>7, <1>8, <1>9, <1>10, <1>11, <1>12,
      <1>13, <1>14, <1>15, <1>16, <1>17, <1>18, <1>19, <1>20, <1>21, <1>22, <1>23,
      <1>24, <1>25, <1>26, <1>27, <1>28 DEF Next, Submit, Execute

\* A message leaves the queue after its result has come.
LEMMA AckStep ==
  ASSUME TypeOK, ApiInv, ExecInv, HoldInv, AckInv, [Next]_vars
  PROVE  AckInv'
<1>t. /\ pc \in [Executors -> ExecPcs] /\ holds \in [Executors -> Tasks \cup {NoTask}]
      /\ msg \in [Tasks -> {"none", "ready", "unacked", "gone"}]
      /\ result \in [Tasks -> Results] /\ expiries \in Nat
  BY DEF TypeOK
<1>w. Workers \subseteq Executors /\ \A a \in Apis : a \notin Workers
  BY SubmissionAssumption DEF Executors
<1>f. ASSUME UNCHANGED <<msg, result, expiries>>,
             \A w \in Workers : pc'[w] = "ack" => pc[w] = "ack" /\ holds'[w] = holds[w]
      PROVE  AckInv'
  BY <1>f DEF AckInv, AckAfterResult, Settled
<1>g. ASSUME NEW p \in Executors, UNCHANGED <<holds, msg, result, expiries>>,
             \E x : x # "ack" /\ pc' = [pc EXCEPT ![p] = x]
      PROVE  AckInv'
  BY <1>g, <1>f, <1>t, <1>w
<1>1. ASSUME NEW a \in Apis, NEW t \in Tasks, NEW r \in Requests, CheckRequestId(a, t, r)
      PROVE  AckInv'
  BY <1>1, <1>f DEF CheckRequestId, queueVars, execVars, envVars
<1>2. ASSUME NEW a \in Apis, SendTask(a) PROVE AckInv'
  <2>1. /\ msg' = [msg EXCEPT ![apiTask[a]] = "ready"]
        /\ UNCHANGED <<holds, pc, result, expiries>>
    BY <1>2 DEF SendTask, execVars, envVars
  <2>q. QED  BY <1>t, <2>1 DEF AckInv, AckAfterResult, Settled
<1>3. ASSUME NEW a \in Apis, CreateSubmission(a) PROVE AckInv'
  BY <1>3, <1>f DEF CreateSubmission, queueVars, execVars, envVars
<1>4. ASSUME NEW a \in Apis, NEW t \in Tasks, RefreshSubmissionStatus(a, t)
      PROVE  AckInv'
  BY <1>4, <1>f DEF RefreshSubmissionStatus, LoadRows, queueVars, execVars, envVars
<1>5. ASSUME NEW a \in Apis, ListSubmissions(a) PROVE AckInv'
  BY <1>5, <1>f DEF ListSubmissions, LoadRows, queueVars, execVars, envVars
<1>6. ASSUME NEW a \in Apis, ReadAsyncResults(a) PROVE AckInv'
  BY <1>6, <1>f DEF ReadAsyncResults, queueVars, execVars, envVars
<1>7. ASSUME NEW a \in Apis, CommitRefresh(a) PROVE AckInv'
  BY <1>7, <1>f DEF CommitRefresh, queueVars, execVars, envVars
<1>8. ASSUME NEW a \in Apis, NEW r \in Requests, RunWorkflowSync(a, r) PROVE AckInv'
  BY <1>8, <1>g DEF RunWorkflowSync, Goto, Executors, queueVars
<1>9. ASSUME NEW w \in Workers, NEW t \in Tasks, TakeMessage(w, t) PROVE AckInv'
  <2>1. /\ msg[t] = "ready" /\ msg' = [msg EXCEPT ![t] = "unacked"]
        /\ pc' = [pc EXCEPT ![w] = "taken"] /\ holds' = [holds EXCEPT ![w] = t]
        /\ result' = [result EXCEPT ![t] = StoredResult(t, "started")] /\ expiries' = expiries
    BY <1>9 DEF TakeMessage, Delivered, envVars
  <2>2. /\ \A v \in Workers : v # w => holds'[v] = holds[v] /\ pc'[v] = pc[v]
        /\ pc'[w] = "taken" /\ msg'[t] = "unacked"
        /\ \A u \in Tasks : u # t => msg'[u] = msg[u] /\ result'[u] = result[u]
    BY <1>t, <1>w, <2>1
  <2>3. \A v \in Workers : pc[v] = "ack" => holds[v] \in Tasks
    BY SubmissionAssumption DEF ExecInv, Executors
  <2>4. expiries = 0 => \A v \in Workers : pc[v] = "ack" => holds[v] # t
    BY <2>1, <2>3, SubmissionAssumption DEF HoldInv
  <2>q. QED  BY <2>1, <2>2, <2>3, <2>4 DEF AckInv, AckAfterResult, Settled
<1>10. ASSUME NEW p \in Executors, FindFinishedRun(p) PROVE AckInv'
  BY <1>10, <1>g DEF FindFinishedRun, Goto, queueVars, execVars, envVars
<1>11. ASSUME NEW p \in Executors, SkipDuplicate(p) PROVE AckInv'
  BY <1>11, <1>g DEF SkipDuplicate, Goto, queueVars, execVars, envVars
<1>12. ASSUME NEW p \in Executors, BeginExecution(p) PROVE AckInv'
  BY <1>12, <1>g DEF BeginExecution, Goto, queueVars, execVars, envVars
<1>13. ASSUME NEW p \in Executors, NEW o \in Outcomes, RunAgents(p, o) PROVE AckInv'
  BY <1>13, <1>g DEF RunAgents, Goto, queueVars, execVars, envVars
<1>14. ASSUME NEW p \in Executors, ToolLogRaises(p) PROVE AckInv'
  BY <1>14, <1>g DEF ToolLogRaises, Goto, queueVars, execVars, envVars
<1>15. ASSUME NEW p \in Executors, HasRequestTurn(p) PROVE AckInv'
  BY <1>15, <1>g DEF HasRequestTurn, Goto, queueVars, execVars, envVars
<1>16. ASSUME NEW p \in Executors, AppendTurns(p) PROVE AckInv'
  BY <1>16, <1>g DEF AppendTurns, Goto, queueVars, execVars, envVars
<1>17. ASSUME NEW p \in Executors, ExtractMemories(p) PROVE AckInv'
  BY <1>17, <1>g DEF ExtractMemories, Goto, queueVars, execVars, envVars
<1>18. ASSUME NEW p \in Executors, CreateHumanReview(p) PROVE AckInv'
  BY <1>18, <1>g DEF CreateHumanReview, Goto, queueVars, execVars, envVars
<1>19. ASSUME NEW p \in Executors, SaveRuntimeRecords(p) PROVE AckInv'
  BY <1>19, <1>g DEF SaveRuntimeRecords, Goto, queueVars, execVars, envVars
<1>20. ASSUME NEW p \in Executors, SaveWorkflowRun(p) PROVE AckInv'
  <2>1. CASE p \in Apis /\ Leave(p)
    <3>1. \A w \in Workers : holds'[w] = holds[w] /\ pc'[w] = pc[w]
      BY <2>1, <1>t, <1>w DEF Leave, Goto
    <3>q. QED  BY <1>20, <3>1, <1>f DEF SaveWorkflowRun, queueVars, envVars
  <2>2. CASE \E x : x # "ack" /\ Goto(p, x) /\ UNCHANGED holds
    BY <1>20, <2>2, <1>g DEF SaveWorkflowRun, Goto, queueVars, envVars
  <2>q. QED  BY <1>20, <2>1, <2>2 DEF SaveWorkflowRun
<1>21. ASSUME NEW p \in Executors, ReportTerminalState(p) PROVE AckInv'
  BY <1>21, <1>g DEF ReportTerminalState, Goto, queueVars, execVars, envVars
<1>22. ASSUME NEW p \in Executors, ReportException(p) PROVE AckInv'
  <2>1. CASE p \in Apis /\ Leave(p)
    <3>1. \A w \in Workers : holds'[w] = holds[w] /\ pc'[w] = pc[w]
      BY <2>1, <1>t, <1>w DEF Leave, Goto
    <3>q. QED  BY <1>22, <3>1, <1>f DEF ReportException, queueVars, envVars
  <2>2. CASE \E x : x # "ack" /\ Goto(p, x) /\ UNCHANGED holds
    BY <1>22, <2>2, <1>g DEF ReportException, Goto, queueVars, envVars
  <2>q. QED  BY <1>22, <2>1, <2>2 DEF ReportException
<1>23. ASSUME NEW p \in Executors, StoreResult(p) PROVE AckInv'
  <2>1. /\ pc' = [pc EXCEPT ![p] = "ack"] /\ UNCHANGED <<msg, holds, expiries>>
        /\ \/ pc[p] = "result" /\ result' = [result EXCEPT ![holds[p]] = StoredResult(holds[p], out[p])]
           \/ pc[p] = "failed_result" /\ result' = [result EXCEPT ![holds[p]] = StoredResult(holds[p], "failure")]
    BY <1>23 DEF StoreResult, At, Goto, envVars
  <2>2. p \in Workers /\ holds[p] \in Tasks /\ (pc[p] = "result" => out[p] \in Outcomes)
    BY <2>1 DEF ExecInv, SyncPcs, DecidedPcs, Executors
  <2>3. Settled(holds[p])' /\ \A t \in Tasks : t # holds[p] => result'[t] = result[t]
    BY <1>t, <2>1, <2>2 DEF Settled, StoredResult
  <2>4. \A w \in Workers : w # p => pc'[w] = pc[w] /\ holds'[w] = holds[w]
    BY <1>t, <1>w, <2>1
  <2>5. \A w \in Workers : pc[w] = "ack" => holds[w] \in Tasks
    BY SubmissionAssumption DEF ExecInv, Executors
  <2>q. QED  BY <2>1, <2>2, <2>3, <2>4, <2>5 DEF AckInv, AckAfterResult, Settled
<1>24. ASSUME NEW p \in Executors, Acknowledge(p) PROVE AckInv'
  <2>1. /\ pc[p] = "ack"
        /\ msg' = [msg EXCEPT ![holds[p]] = IF msg[holds[p]] = "unacked" THEN "gone" ELSE msg[holds[p]]]
        /\ pc' = [pc EXCEPT ![p] = "idle"] /\ holds' = [holds EXCEPT ![p] = NoTask]
        /\ UNCHANGED <<result, expiries>>
    BY <1>24 DEF Acknowledge, Removable, At, Leave, Goto, envVars
  <2>2. p \in Workers /\ holds[p] \in Tasks
    BY <2>1 DEF ExecInv, SyncPcs, Executors
  <2>q. QED  BY <1>t, <1>w, <2>1, <2>2 DEF AckInv, AckAfterResult, Settled
<1>25. ASSUME NEW p \in Executors, Crash(p) PROVE AckInv'
  <2>1. pc' = [pc EXCEPT ![p] = "idle"] /\ holds' = [holds EXCEPT ![p] = NoTask]
        /\ UNCHANGED <<msg, result, expiries>>
    BY <1>25 DEF Crash, Leave, Goto, queueVars
  <2>q. QED  BY <1>t, <1>w, <1>f, <2>1
<1>26. ASSUME NEW t \in Tasks, RestoreMessage(t) PROVE AckInv'
  <2>1. /\ msg' = [msg EXCEPT ![t] = "ready"] /\ UNCHANGED <<pc, holds, result>>
        /\ expiries' = expiries + 1 \/ expiries' = expiries
    BY <1>26 DEF RestoreMessage, execVars
  <2>q. QED  BY <1>t, <1>w, <2>1 DEF AckInv, AckAfterResult, Settled
<1>27. ASSUME NEW t \in Tasks, ExpireResult(t) PROVE AckInv'
  BY <1>27 DEF ExpireResult, AckInv
<1>28. CASE UNCHANGED vars
  BY <1>28, <1>f DEF vars, queueVars, execVars, envVars
<1>q. QED
  BY <1>1, <1>2, <1>3, <1>4, <1>5, <1>6, <1>7, <1>8, <1>9, <1>10, <1>11, <1>12,
      <1>13, <1>14, <1>15, <1>16, <1>17, <1>18, <1>19, <1>20, <1>21, <1>22, <1>23,
      <1>24, <1>25, <1>26, <1>27, <1>28 DEF Next, Submit, Execute

\* Two executions of a request do not meet.
LEMMA OneExecution ==
  ASSUME TypeOK, ExecInv, SentInv, HoldInv, SoleApi, expiries = 0,
         NEW v \in Workers, NEW w \in Workers, pc[v] # "idle", pc[w] # "idle",
         runReq[v] = runReq[w]
  PROVE  v = w
<1>1. /\ holds[v] \in Tasks /\ reqOf[holds[v]] = runReq[v] /\ runReq[v] \in Requests
      /\ holds[w] \in Tasks /\ reqOf[holds[w]] = runReq[w]
  BY DEF ExecInv, Executors
<1>2. holds[v] = holds[w]
  BY <1>1, SubmissionAssumption DEF SentInv, OneMessagePerRequest
<1>q. QED  BY <1>1, <1>2, SubmissionAssumption DEF HoldInv

\* The question of a request is written once.
LEMMA TurnOnceStep ==
  ASSUME TypeOK, ExecInv, SentInv, HoldInv, TurnOnceInv, [Next]_vars
  PROVE  TurnOnceInv'
<1>t. /\ pc \in [Executors -> ExecPcs] /\ sawTurn \in [Executors -> BOOLEAN]
      /\ runReq \in [Executors -> Requests \cup {NoRequest}]
      /\ userTurns \in [Requests -> Nat] /\ assistantTurns \in [Requests -> Nat]
      /\ crashes \in Nat /\ expiries \in Nat /\ syncRuns \in Nat
  BY DEF TypeOK
<1>w. Executors = Workers \cup Apis /\ \A a \in Apis : a \notin Workers
  BY SubmissionAssumption DEF Executors
<1>r. \A p \in Executors : pc[p] # "idle" => runReq[p] \in Requests
  BY DEF ExecInv
<1>f. ASSUME UNCHANGED <<pc, runReq, sawTurn, turnVars, crashes, expiries, syncRuns>>
      PROVE  TurnOnceInv'
  BY <1>f DEF TurnOnceInv, SoleApi, UserTurnOnce, turnVars
<1>g. ASSUME NEW p \in Executors, UNCHANGED <<turnVars, crashes, expiries, syncRuns>>,
             \A q \in Executors \ {p} :
               pc'[q] = pc[q] /\ sawTurn'[q] = sawTurn[q] /\ runReq'[q] = runReq[q],
             pc'[p] # "append", p \in Workers \/ pc[p] # "idle" \/ pc'[p] = "idle"
      PROVE  TurnOnceInv'
  BY <1>g, <1>w DEF TurnOnceInv, SoleApi, UserTurnOnce, turnVars
<1>1. ASSUME NEW a \in Apis, NEW t \in Tasks, NEW r \in Requests, CheckRequestId(a, t, r)
      PROVE  TurnOnceInv'
  BY <1>1, <1>f DEF CheckRequestId, execVars, dbVars, envVars
<1>2. ASSUME NEW a \in Apis, SendTask(a) PROVE TurnOnceInv'
  BY <1>2, <1>f DEF SendTask, execVars, dbVars, envVars
<1>3. ASSUME NEW a \in Apis, CreateSubmission(a) PROVE TurnOnceInv'
  BY <1>3, <1>f DEF CreateSubmission, execVars, dbVars, envVars
<1>4. ASSUME NEW a \in Apis, NEW t \in Tasks, RefreshSubmissionStatus(a, t)
      PROVE  TurnOnceInv'
  BY <1>4, <1>f DEF RefreshSubmissionStatus, LoadRows, execVars, dbVars, envVars
<1>5. ASSUME NEW a \in Apis, ListSubmissions(a) PROVE TurnOnceInv'
  BY <1>5, <1>f DEF ListSubmissions, LoadRows, execVars, dbVars, envVars
<1>6. ASSUME NEW a \in Apis, ReadAsyncResults(a) PROVE TurnOnceInv'
  BY <1>6, <1>f DEF ReadAsyncResults, execVars, dbVars, envVars
<1>7. ASSUME NEW a \in Apis, CommitRefresh(a) PROVE TurnOnceInv'
  BY <1>7, <1>f DEF CommitRefresh, execVars, dbVars, envVars
<1>8. ASSUME NEW a \in Apis, NEW r \in Requests, RunWorkflowSync(a, r)
      PROVE  TurnOnceInv'
  <2>1. syncRuns' = syncRuns + 1
    BY <1>8 DEF RunWorkflowSync
  <2>q. QED  BY <1>t, <2>1 DEF TurnOnceInv
<1>9. ASSUME NEW w \in Workers, NEW t \in Tasks, TakeMessage(w, t) PROVE TurnOnceInv'
  BY <1>9, <1>t, <1>g, <1>w DEF TakeMessage, execVars, dbVars, envVars
<1>10. ASSUME NEW p \in Executors, FindFinishedRun(p) PROVE TurnOnceInv'
  BY <1>10, <1>t, <1>g DEF FindFinishedRun, At, Goto, execVars, dbVars, envVars
<1>11. ASSUME NEW p \in Executors, SkipDuplicate(p) PROVE TurnOnceInv'
  BY <1>11, <1>t, <1>g DEF SkipDuplicate, At, Goto, execVars, dbVars, envVars
<1>12. ASSUME NEW p \in Executors, BeginExecution(p) PROVE TurnOnceInv'
  BY <1>12, <1>t, <1>g DEF BeginExecution, At, Goto, execVars, dbVars, envVars
<1>13. ASSUME NEW p \in Executors, NEW o \in Outcomes, RunAgents(p, o)
      PROVE  TurnOnceInv'
  BY <1>13, <1>t, <1>g DEF RunAgents, At, Goto, execVars, dbVars, envVars
<1>14. ASSUME NEW p \in Executors, ToolLogRaises(p) PROVE TurnOnceInv'
  BY <1>14, <1>t, <1>g DEF ToolLogRaises, At, Goto, execVars, dbVars, envVars
<1>15. ASSUME NEW p \in Executors, HasRequestTurn(p) PROVE TurnOnceInv'
  <2>1. /\ pc[p] # "idle" /\ UNCHANGED <<runReq, turnVars, crashes, expiries, syncRuns>>
        /\ ~sawTurn'[p] => ~(userTurns[runReq[p]] + assistantTurns[runReq[p]] > 0)
        /\ \A q \in Executors \ {p} : pc'[q] = pc[q] /\ sawTurn'[q] = sawTurn[q]
    BY <1>15, <1>t DEF HasRequestTurn, has_request_turn, At, Goto, dbVars, envVars
  <2>2. ~sawTurn'[p] => userTurns[runReq[p]] = 0
    BY <1>t, <1>r, <2>1
  <2>q. QED  BY <1>w, <2>1, <2>2 DEF TurnOnceInv, SoleApi, UserTurnOnce, turnVars
<1>16. ASSUME NEW p \in Executors, AppendTurns(p) PROVE TurnOnceInv'
  <2>1. /\ pc[p] = "append" /\ runReq[p] \in Requests
        /\ UNCHANGED <<runReq, sawTurn, crashes, expiries, syncRuns>>
        /\ pc' = [pc EXCEPT ![p] = "extract"]
        /\ userTurns' = [userTurns EXCEPT ![runReq[p]] =
             IF sawTurn[p] THEN userTurns[runReq[p]] ELSE userTurns[runReq[p]] + 1]
    BY <1>16, <1>r DEF AppendTurns, At, Goto, envVars
  <2>. SUFFICES ASSUME SoleApi, expiries = 0, syncRuns = 0, TurnOnceInv
       PROVE  TurnOnceInv'
    BY <2>1 DEF TurnOnceInv, SoleApi
  <2>2. p \in Workers
    BY <1>w, <2>1 DEF TurnOnceInv
  <2>3. \A w \in Workers : w # p /\ pc[w] = "append" => runReq[w] # runReq[p]
    BY <2>1, <2>2, OneExecution
  <2>4. \A r \in Requests : userTurns'[r] <= 1 /\ (r # runReq[p] => userTurns'[r] = userTurns[r])
    BY <1>t, <2>1, <2>2 DEF TurnOnceInv, UserTurnOnce
  <2>5. \A q \in Executors : IF q = p THEN pc'[q] = "extract" ELSE pc'[q] = pc[q]
    BY <1>t, <2>1
  <2>q. QED
    BY <1>r, <1>w, <2>1, <2>2, <2>3, <2>4, <2>5 DEF TurnOnceInv, UserTurnOnce
<1>17. ASSUME NEW p \in Executors, ExtractMemories(p) PROVE TurnOnceInv'
  BY <1>17, <1>t, <1>g DEF ExtractMemories, At, Goto, execVars, dbVars, envVars
<1>18. ASSUME NEW p \in Executors, CreateHumanReview(p) PROVE TurnOnceInv'
  BY <1>18, <1>t, <1>g DEF CreateHumanReview, At, Goto, execVars, dbVars, envVars
<1>19. ASSUME NEW p \in Executors, SaveRuntimeRecords(p) PROVE TurnOnceInv'
  BY <1>19, <1>t, <1>g DEF SaveRuntimeRecords, At, Goto, execVars, dbVars, envVars
<1>20. ASSUME NEW p \in Executors, SaveWorkflowRun(p) PROVE TurnOnceInv'
  BY <1>20, <1>t, <1>g DEF SaveWorkflowRun, At, Goto, Leave, execVars, dbVars, envVars
<1>21. ASSUME NEW p \in Executors, ReportTerminalState(p) PROVE TurnOnceInv'
  BY <1>21, <1>t, <1>g DEF ReportTerminalState, At, Goto, execVars, dbVars, envVars
<1>22. ASSUME NEW p \in Executors, ReportException(p) PROVE TurnOnceInv'
  BY <1>22, <1>t, <1>g DEF ReportException, At, Goto, Leave, execVars, dbVars, envVars
<1>23. ASSUME NEW p \in Executors, StoreResult(p) PROVE TurnOnceInv'
  BY <1>23, <1>t, <1>g DEF StoreResult, At, Goto, execVars, dbVars, envVars
<1>24. ASSUME NEW p \in Executors, Acknowledge(p) PROVE TurnOnceInv'
  BY <1>24, <1>t, <1>g DEF Acknowledge, At, Goto, Leave, execVars, dbVars, envVars
<1>25. ASSUME NEW p \in Executors, Crash(p) PROVE TurnOnceInv'
  <2>1. /\ crashes' = crashes + 1 /\ UNCHANGED <<turnVars, expiries, syncRuns>> /\ pc'[p] = "idle"
        /\ \A q \in Executors \ {p} :
             pc'[q] = pc[q] /\ sawTurn'[q] = sawTurn[q] /\ runReq'[q] = runReq[q]
    BY <1>25, <1>t DEF Crash, Leave, Goto, dbVars
  <2>q. QED  BY <1>t, <1>w, <2>1 DEF TurnOnceInv, SoleApi, UserTurnOnce, turnVars
<1>26. ASSUME NEW t \in Tasks, RestoreMessage(t) PROVE TurnOnceInv'
  <2>1. UNCHANGED <<execVars, turnVars, crashes, syncRuns>> /\ (expiries' = expiries \/ expiries' = expiries + 1)
    BY <1>26 DEF RestoreMessage, dbVars
  <2>q. QED  BY <1>t, <1>f, <2>1 DEF TurnOnceInv, execVars
<1>27. ASSUME NEW t \in Tasks, ExpireResult(t) PROVE TurnOnceInv'
  BY <1>27, <1>f DEF ExpireResult, execVars, dbVars, envVars
<1>28. CASE UNCHANGED vars
  BY <1>28, <1>f DEF vars, execVars, dbVars, envVars
<1>q. QED
  BY <1>1, <1>2, <1>3, <1>4, <1>5, <1>6, <1>7, <1>8, <1>9, <1>10, <1>11, <1>12,
      <1>13, <1>14, <1>15, <1>16, <1>17, <1>18, <1>19, <1>20, <1>21, <1>22, <1>23,
      <1>24, <1>25, <1>26, <1>27, <1>28 DEF Next, Submit, Execute

\* The rows of a request are written by its one execution.
LEMMA FreshStep ==
  ASSUME TypeOK, ApiInv, ExecInv, AuditInv, SentInv, HoldInv, TurnOnceInv, FreshInv, [Next]_vars
  PROVE  FreshInv'
<1>t. /\ pc \in [Executors -> ExecPcs] /\ crashes \in Nat /\ expiries \in Nat /\ syncRuns \in Nat
      /\ runReq \in [Executors -> Requests \cup {NoRequest}]
      /\ broken \in [Executors -> SUBSET {"audit", "review"}]
      /\ reqOf \in [Tasks -> Requests \cup {NoRequest}]
      /\ msg \in [Tasks -> {"none", "ready", "unacked", "gone"}]
      /\ taskRuns \in [Requests -> Outcomes \cup {NoRun}]
      /\ workflowRuns \in [Requests -> Outcomes \cup {NoRun}]
      /\ reviews \in [Requests -> BOOLEAN]
  BY DEF TypeOK
<1>w. Executors = Workers \cup Apis /\ \A a \in Apis : a \notin Workers
  BY SubmissionAssumption DEF Executors
<1>r. \A p \in Executors : pc[p] # "idle" => runReq[p] \in Requests
  BY DEF ExecInv
<1>f. ASSUME UNCHANGED <<reqOf, broken, auditVars, reviews, crashes, expiries, syncRuns>>,
             \A t \in Tasks : msg'[t] = "ready" => msg[t] = "ready",
             \A w \in Workers :
               /\ pc'[w] \in BeforeRowsPcs => pc[w] \in BeforeRowsPcs /\ runReq'[w] = runReq[w]
               /\ pc'[w] = "task_run" => pc[w] = "task_run" /\ runReq'[w] = runReq[w]
      PROVE  FreshInv'
  BY <1>f DEF FreshInv, Unexecuted, SoleApi, auditVars
<1>g. ASSUME NEW p \in Executors,
             UNCHANGED <<reqOf, msg, broken, auditVars, reviews, crashes, expiries, syncRuns>>,
             \A q \in Executors \ {p} : pc'[q] = pc[q] /\ runReq'[q] = runReq[q],
             \/ pc[p] \in BeforeRowsPcs /\ pc'[p] \in BeforeRowsPcs /\ runReq'[p] = runReq[p]
             \/ pc'[p] \notin BeforeRowsPcs \cup {"task_run"}
      PROVE  FreshInv'
  BY <1>g, <1>f, <1>w DEF BeforeRowsPcs
\* The execution p has its request for itself.
<1>s. ASSUME NEW p \in Executors, pc[p] # "idle", pc[p] # "taken",
             SoleApi, crashes = 0, expiries = 0, syncRuns = 0
      PROVE  /\ p \in Workers
             /\ \A w \in Workers : w # p /\ pc[w] # "idle" => runReq[w] # runReq[p]
             /\ \E t \in Tasks : reqOf[t] = runReq[p] /\ msg[t] # "ready"
  <2>1. p \in Workers
    BY <1>s, <1>w DEF TurnOnceInv
  <2>2. \A w \in Workers : w # p /\ pc[w] # "idle" => runReq[w] # runReq[p]
    BY <1>s, <2>1, OneExecution
  <2>3. holds[p] \in Tasks /\ reqOf[holds[p]] = runReq[p] /\ msg[holds[p]] = "unacked"
    BY <1>s, <2>1, SubmissionAssumption DEF ExecInv, HoldInv
  <2>q. QED  BY <2>1, <2>2, <2>3
<1>1. ASSUME NEW a \in Apis, NEW t \in Tasks, NEW r \in Requests, CheckRequestId(a, t, r)
      PROVE  FreshInv'
  BY <1>1, <1>f DEF CheckRequestId, queueVars, execVars, dbVars, auditVars, envVars
<1>2. ASSUME NEW a \in Apis, SendTask(a) PROVE FreshInv'
  <2>1. /\ apiPc[a] = "checked" /\ reqOf' = [reqOf EXCEPT ![apiTask[a]] = apiReq[a]]
        /\ msg' = [msg EXCEPT ![apiTask[a]] = "ready"]
        /\ UNCHANGED <<pc, runReq, broken, taskRuns, workflowRuns, reviews, crashes, expiries, syncRuns>>
    BY <1>2 DEF SendTask, execVars, dbVars, auditVars, envVars
  <2>2. apiTask[a] \in Tasks /\ apiReq[a] \in Requests /\ reqOf[apiTask[a]] = NoRequest
    BY <2>1 DEF ApiInv
  <2>3. SoleApi => \A t \in Tasks : reqOf[t] # apiReq[a]
    BY <2>1 DEF SentInv
  <2>4. \A r \in Requests : r # apiReq[a] /\ (\A t \in Tasks : reqOf'[t] = r => msg'[t] = "ready")
          => \A t \in Tasks : reqOf[t] = r => msg[t] = "ready"
    BY <1>t, <2>1, <2>2, SubmissionAssumption
  <2>q. QED  BY <2>1, <2>2, <2>3, <2>4 DEF FreshInv, Unexecuted, SoleApi
<1>3. ASSUME NEW a \in Apis, CreateSubmission(a) PROVE FreshInv'
  BY <1>3, <1>f DEF CreateSubmission, queueVars, execVars, dbVars, auditVars, envVars
<1>4. ASSUME NEW a \in Apis, NEW t \in Tasks, RefreshSubmissionStatus(a, t)
      PROVE  FreshInv'
  BY <1>4, <1>f DEF RefreshSubmissionStatus, LoadRows, queueVars, execVars, dbVars,
      auditVars, envVars
<1>5. ASSUME NEW a \in Apis, ListSubmissions(a) PROVE FreshInv'
  BY <1>5, <1>f DEF ListSubmissions, LoadRows, queueVars, execVars, dbVars, auditVars,
      envVars
<1>6. ASSUME NEW a \in Apis, ReadAsyncResults(a) PROVE FreshInv'
  BY <1>6, <1>f DEF ReadAsyncResults, queueVars, execVars, dbVars, auditVars, envVars
<1>7. ASSUME NEW a \in Apis, CommitRefresh(a) PROVE FreshInv'
  BY <1>7, <1>f DEF CommitRefresh, queueVars, execVars, dbVars, auditVars, envVars
<1>8. ASSUME NEW a \in Apis, NEW r \in Requests, RunWorkflowSync(a, r) PROVE FreshInv'
  <2>1. syncRuns' = syncRuns + 1
    BY <1>8 DEF RunWorkflowSync
  <2>q. QED  BY <1>t, <2>1 DEF FreshInv, SoleApi
<1>9. ASSUME NEW w \in Workers, NEW t \in Tasks, TakeMessage(w, t) PROVE FreshInv'
  <2>1. /\ msg[t] = "ready" /\ msg' = [msg EXCEPT ![t] = "unacked"]
        /\ pc' = [pc EXCEPT ![w] = "taken"] /\ runReq' = [runReq EXCEPT ![w] = reqOf[t]]
        /\ UNCHANGED <<reqOf, broken, taskRuns, workflowRuns, reviews, crashes, expiries, syncRuns>>
    BY <1>9 DEF TakeMessage, Delivered, execVars, dbVars, auditVars, envVars
  <2>. SUFFICES ASSUME SoleApi, crashes = 0, expiries = 0, syncRuns = 0
       PROVE  FreshInv'
    BY <2>1 DEF FreshInv, SoleApi
  <2>2. reqOf[t] \in Requests
    BY <2>1 DEF ApiInv
  <2>3. \A u \in Tasks : reqOf[u] = reqOf[t] => u = t
    BY <2>2, SubmissionAssumption DEF SentInv, OneMessagePerRequest
  <2>4. Unexecuted(reqOf[t])
    BY <2>1, <2>2, <2>3 DEF FreshInv, SoleApi
  <2>5. /\ pc'[w] = "taken" /\ runReq'[w] = reqOf[t]
        /\ \A v \in Workers : v # w => pc'[v] = pc[v] /\ runReq'[v] = runReq[v]
        /\ \A u \in Tasks : msg'[u] = "ready" => msg[u] = "ready"
    BY <1>t, <1>w, <2>1
  <2>q. QED  BY <2>1, <2>4, <2>5 DEF FreshInv, Unexecuted, SoleApi
<1>10. ASSUME NEW p \in Executors, FindFinishedRun(p) PROVE FreshInv'
  BY <1>10, <1>t, <1>g DEF FindFinishedRun, At, Goto, queueVars, execVars, dbVars,
      auditVars, envVars, BeforeRowsPcs
<1>11. ASSUME NEW p \in Executors, SkipDuplicate(p) PROVE FreshInv'
  BY <1>11, <1>t, <1>g DEF SkipDuplicate, At, Goto, queueVars, execVars, dbVars,
      auditVars, envVars, BeforeRowsPcs
<1>12. ASSUME NEW p \in Executors, BeginExecution(p) PROVE FreshInv'
  BY <1>12, <1>t, <1>g DEF BeginExecution, At, Goto, queueVars, execVars, dbVars,
      auditVars, envVars, BeforeRowsPcs
<1>13. ASSUME NEW p \in Executors, NEW o \in Outcomes, RunAgents(p, o) PROVE FreshInv'
  BY <1>13, <1>t, <1>g DEF RunAgents, At, Goto, queueVars, execVars, dbVars, auditVars,
      envVars, BeforeRowsPcs
<1>14. ASSUME NEW p \in Executors, ToolLogRaises(p) PROVE FreshInv'
  BY <1>14, <1>t, <1>g DEF ToolLogRaises, At, Goto, queueVars, execVars, dbVars,
      auditVars, envVars, BeforeRowsPcs
<1>15. ASSUME NEW p \in Executors, HasRequestTurn(p) PROVE FreshInv'
  BY <1>15, <1>t, <1>g DEF HasRequestTurn, At, Goto, queueVars, execVars, dbVars,
      auditVars, envVars, BeforeRowsPcs
<1>16. ASSUME NEW p \in Executors, AppendTurns(p) PROVE FreshInv'
  BY <1>16, <1>t, <1>g DEF AppendTurns, At, Goto, queueVars, execVars, dbVars,
      auditVars, envVars, BeforeRowsPcs
<1>17. ASSUME NEW p \in Executors, ExtractMemories(p) PROVE FreshInv'
  BY <1>17, <1>t, <1>g DEF ExtractMemories, At, Goto, queueVars, execVars, dbVars,
      auditVars, envVars, BeforeRowsPcs
<1>18. ASSUME NEW p \in Executors, CreateHumanReview(p) PROVE FreshInv'
  <2>1. /\ pc[p] = "review" /\ pc' = [pc EXCEPT ![p] = "task_run"]
        /\ UNCHANGED <<reqOf, msg, runReq, taskRuns, workflowRuns, crashes, expiries, syncRuns>>
        /\ \A r \in Requests : r # runReq[p] => reviews'[r] = reviews[r]
    BY <1>18, <1>t DEF CreateHumanReview, At, Goto, queueVars, auditVars, envVars
  <2>. SUFFICES ASSUME SoleApi, crashes = 0, expiries = 0, syncRuns = 0
       PROVE  FreshInv'
    BY <2>1 DEF FreshInv, SoleApi
  <2>2. Unexecuted(runReq[p]) /\ broken[p] = {}
    BY <1>s, <2>1 DEF FreshInv, BeforeRowsPcs
  <2>3. broken' = broken
    BY <1>18, <2>2 DEF CreateHumanReview, FlushFails, Unexecuted
  <2>4. \A q \in Executors : pc'[q] = IF q = p THEN "task_run" ELSE pc[q]
    BY <1>t, <2>1
  <2>5. "idle" \notin BeforeRowsPcs /\ "task_run" \notin BeforeRowsPcs
    BY DEF BeforeRowsPcs
  <2>q. QED  BY <1>r, <1>s, <1>w, <2>1, <2>2, <2>3, <2>4, <2>5 DEF FreshInv, Unexecuted, SoleApi
<1>19. ASSUME NEW p \in Executors, SaveRuntimeRecords(p) PROVE FreshInv'
  <2>1. /\ pc[p] = "task_run"
        /\ UNCHANGED <<reqOf, msg, runReq, workflowRuns, reviews, crashes, expiries, syncRuns>>
        /\ \A r \in Requests : r # runReq[p] => taskRuns'[r] = taskRuns[r]
    BY <1>19, <1>t DEF SaveRuntimeRecords, At, queueVars, envVars
  <2>. SUFFICES ASSUME SoleApi, crashes = 0, expiries = 0, syncRuns = 0
       PROVE  FreshInv'
    BY <2>1 DEF FreshInv, SoleApi
  <2>2. taskRuns[runReq[p]] = NoRun /\ broken[p] = {}
    BY <1>s, <2>1 DEF FreshInv, SoleApi
  <2>3. broken' = broken /\ pc' = [pc EXCEPT ![p] = "workflow_run"]
    BY <1>19, <2>2 DEF SaveRuntimeRecords, FlushFails, Goto
  <2>4. \A q \in Executors : pc'[q] = IF q = p THEN "workflow_run" ELSE pc[q]
    BY <1>t, <2>3
  <2>5. "idle" \notin BeforeRowsPcs /\ "workflow_run" \notin BeforeRowsPcs
    BY DEF BeforeRowsPcs
  <2>q. QED  BY <1>r, <1>s, <1>w, <2>1, <2>3, <2>4, <2>5 DEF FreshInv, Unexecuted, SoleApi
<1>20. ASSUME NEW p \in Executors, SaveWorkflowRun(p) PROVE FreshInv'
  <2>1. /\ pc[p] = "workflow_run"
        /\ UNCHANGED <<reqOf, msg, taskRuns, reviews, crashes, expiries, syncRuns>>
        /\ \A r \in Requests : r # runReq[p] => workflowRuns'[r] = workflowRuns[r]
    BY <1>20, <1>t DEF SaveWorkflowRun, At, queueVars, envVars
  <2>. SUFFICES ASSUME SoleApi, crashes = 0, expiries = 0, syncRuns = 0
       PROVE  FreshInv'
    BY <2>1 DEF FreshInv, SoleApi
  <2>2. p \notin Apis
    BY <1>s, <1>w, <2>1
  <2>3. workflowRuns[runReq[p]] = NoRun /\ broken[p] = {}
    BY <2>1 DEF AuditInv, FreshInv
  <2>4. broken' = broken /\ runReq' = runReq /\ pc' = [pc EXCEPT ![p] = "ledger"]
    BY <1>20, <2>2, <2>3 DEF SaveWorkflowRun, FlushFails, Goto
  <2>5. \A q \in Executors : pc'[q] = IF q = p THEN "ledger" ELSE pc[q]
    BY <1>t, <2>4
  <2>6. "idle" \notin BeforeRowsPcs /\ "ledger" \notin BeforeRowsPcs
    BY DEF BeforeRowsPcs
  <2>q. QED  BY <1>r, <1>s, <1>w, <2>1, <2>4, <2>5, <2>6 DEF FreshInv, Unexecuted, SoleApi
<1>21. ASSUME NEW p \in Executors, ReportTerminalState(p) PROVE FreshInv'
  BY <1>21, <1>t, <1>g DEF ReportTerminalState, At, Goto, queueVars, execVars, dbVars,
      auditVars, envVars, BeforeRowsPcs
<1>22. ASSUME NEW p \in Executors, ReportException(p) PROVE FreshInv'
  BY <1>22, <1>t, <1>g DEF ReportException, At, Goto, Leave, queueVars, execVars,
      dbVars, auditVars, envVars, BeforeRowsPcs
<1>23. ASSUME NEW p \in Executors, StoreResult(p) PROVE FreshInv'
  BY <1>23, <1>t, <1>g DEF StoreResult, At, Goto, queueVars, execVars, dbVars,
      auditVars, envVars, BeforeRowsPcs
<1>24. ASSUME NEW p \in Executors, Acknowledge(p) PROVE FreshInv'
  <2>1. /\ UNCHANGED <<reqOf, broken, auditVars, reviews, crashes, expiries, syncRuns>>
        /\ pc'[p] = "idle" /\ \A q \in Executors \ {p} : pc'[q] = pc[q] /\ runReq'[q] = runReq[q]
    BY <1>24, <1>t DEF Acknowledge, Leave, Goto, dbVars, envVars
  <2>2. \A t \in Tasks : msg'[t] = "ready" => msg[t] = "ready"
    BY <1>24, <1>t DEF Acknowledge
  <2>q. QED  BY <1>f, <1>w, <2>1, <2>2 DEF BeforeRowsPcs
<1>25. ASSUME NEW p \in Executors, Crash(p) PROVE FreshInv'
  <2>1. crashes' = crashes + 1
    BY <1>25 DEF Crash
  <2>q. QED  BY <1>t, <2>1 DEF FreshInv, SoleApi
<1>26. ASSUME NEW t \in Tasks, RestoreMessage(t) PROVE FreshInv'
  <2>1. ASSUME crashes' = 0, expiries' = 0 PROVE FALSE
    <3>1. crashes = 0 /\ expiries = 0 /\ msg[t] = "unacked" /\ \A w \in Workers : holds[w] # t
      BY <1>26, <1>t, <2>1 DEF RestoreMessage
    <3>q. QED  BY <3>1 DEF HoldInv
  <2>q. QED  BY <2>1 DEF FreshInv, SoleApi
<1>27. ASSUME NEW t \in Tasks, ExpireResult(t) PROVE FreshInv'
  BY <1>27, <1>f DEF ExpireResult, queueVars, execVars, dbVars, auditVars, envVars
<1>28. CASE UNCHANGED vars
  BY <1>28, <1>f DEF vars, queueVars, execVars, dbVars, envVars
<1>q. QED
  BY <1>1, <1>2, <1>3, <1>4, <1>5, <1>6, <1>7, <1>8, <1>9, <1>10, <1>11, <1>12,
      <1>13, <1>14, <1>15, <1>16, <1>17, <1>18, <1>19, <1>20, <1>21, <1>22, <1>23,
      <1>24, <1>25, <1>26, <1>27, <1>28 DEF Next, Submit, Execute

-----------------------------------------------------------------------------
OnceInv ==
  IInv /\ TurnsInv /\ SentInv /\ HoldInv /\ AckInv /\ TurnOnceInv /\ FreshInv

\* The inductive invariant holds initially.
LEMMA OnceInitially == Init => OnceInv
<1> SUFFICES ASSUME Init PROVE OnceInv
  OBVIOUS
<1>1. IInv
  BY Initially
<1>2. TurnsInv /\ SentInv
  BY SubmissionAssumption DEF Init, TurnsInv, TranscriptBeforeRun, SentInv, OneMessagePerRequest
<1>3. HoldInv /\ AckInv
  BY DEF Init, HoldInv, AckInv, AckAfterResult, Executors
<1>4. TurnOnceInv
  BY DEF Init, TurnOnceInv, UserTurnOnce, Executors
<1>5. FreshInv
  BY DEF Init, FreshInv, Unexecuted, BeforeRowsPcs, Executors
<1>q. QED  BY <1>1, <1>2, <1>3, <1>4, <1>5 DEF OnceInv

\* The inductive invariant holds in every reachable state.
THEOREM OnceInvariance == Spec => []OnceInv
<1>1. Init => OnceInv
  BY OnceInitially
<1>2. OnceInv /\ [Next]_vars => OnceInv'
  BY TypeStep, ApiStep, ExecStep, AuditStep, CopiesStep, TurnsStep, SentStep, HoldStep,
      AckStep, TurnOnceStep, FreshStep DEF OnceInv, IInv
<1>q. QED  BY <1>1, <1>2, PTL DEF Spec

\* A stored run has its question and its answer in the transcript (see
\* TranscriptBeforeRun), with any processes, crashes, timeouts and redelivery.
THEOREM Transcript == Spec => []TranscriptBeforeRun
<1>1. OnceInv => TranscriptBeforeRun
  BY DEF OnceInv, TurnsInv
<1>q. QED  BY <1>1, OnceInvariance, PTL

\* A single API process sends at most one message for a request (see
\* OneMessagePerRequest), as long as it does not crash.
THEOREM OneMessage == Spec => [](SoleApi => OneMessagePerRequest)
<1>1. OnceInv => (SoleApi => OneMessagePerRequest)
  BY DEF OnceInv, SentInv
<1>q. QED  BY <1>1, OnceInvariance, PTL

\* The question of a request is in the transcript at most once (see
\* UserTurnOnce): any number of worker crashes and redeliveries, until a
\* visibility timeout hits a busy worker or POST /workflows/run is used.
THEOREM QuestionOnce ==
  Spec => [](SoleApi /\ expiries = 0 /\ syncRuns = 0 => UserTurnOnce)
<1>1. OnceInv => (SoleApi /\ expiries = 0 /\ syncRuns = 0 => UserTurnOnce)
  BY DEF OnceInv, TurnOnceInv
<1>q. QED  BY <1>1, OnceInvariance, PTL

\* A message leaves the queue with a final result in the backend (see
\* AckAfterResult): any processes and crashes, until a visibility timeout hits
\* a busy worker, with results that do not expire.
THEOREM LateAcknowledgement ==
  Spec => [](~ResultsExpire /\ expiries = 0 => AckAfterResult)
<1>1. OnceInv => (~ResultsExpire /\ expiries = 0 => AckAfterResult)
  BY DEF OnceInv, AckInv
<1>q. QED  BY <1>1, OnceInvariance, PTL

\* No session needs a rollback before the first crash, visibility timeout or
\* synchronous run (see SessionsUsable), with one API process.
THEOREM UsableSessions == Spec => [](SoleApi => SessionsUsable)
<1>1. OnceInv => (SoleApi => SessionsUsable)
  BY DEF OnceInv, FreshInv, SessionsUsable
<1>q. QED  BY <1>1, OnceInvariance, PTL

=============================================================================
