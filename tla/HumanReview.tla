---------------------------- MODULE HumanReview ----------------------------
(***************************************************************************)
(* Decisions on human reviews and the runs they resume.                    *)
(*                                                                         *)
(* Operators decide through the API; a beat task in a worker approves what *)
(* nobody answered in time.  Deciding is a read, a check and a write, and  *)
(* an approval resumes the workflow in steps of its own.  All handlers of  *)
(* the API process share one SQLAlchemy session, each worker has one; a    *)
(* session serves a row somebody still refers to from its identity map,    *)
(* without taking what the database holds by now.                          *)
(*                                                                         *)
(* The resumed run is reduced to what reviews depend on: its outcome, the  *)
(* review it may raise, and its stored record.                             *)
(***************************************************************************)
EXTENDS Naturals, FiniteSets

CONSTANTS
  Reviews,      \* review ids
  Originals,    \* bound: those that are left for workflows that resume nothing
  Operators,    \* decision requests the API process serves at a time
  Sweepers,     \* worker processes that run auto_approve_overdue_reviews
  NoReview,
  Limit,        \* page size of the sweep (200 in the code)
  MaxRequests,  \* bound: decision requests of the operators
  MaxCrashes    \* bound: crashes of sweepers

Actors == Operators \cup Sweepers
Sessions == Sweepers \cup {"api"}
session(a) == IF a \in Operators THEN "api" ELSE a
kind(a) == IF a \in Sweepers THEN "system" ELSE "operator"

ASSUME ReviewAssumption ==
  /\ IsFiniteSet(Reviews) /\ NoReview \notin Reviews /\ Originals \subseteq Reviews
  /\ Operators \cap Sweepers = {}
  /\ "api" \notin Actors
  /\ Limit \in Nat \ {0} /\ MaxRequests \in Nat /\ MaxCrashes \in Nat

Kinds == {"operator", "system"}
Decided == {"approved", "rejected"}
ReviewStatus == {"pending"} \cup Decided
Outcomes == {"completed", "failed", "needs_human_review"}
None == "none"

\* What a decision request asks for, and the request id of the run it resumes:
\* the one derived from the review id, or one the operator typed in.
Choices == {"approve", "resume", "reject"}
RunIds == {"default", "typed"}

VARIABLES
  \* rows of human_review_tasks; the request of a row is the run that raised
  \* it, run raisedBy[v].id of review raisedBy[v].of
  born, status, decidedBy, raisedBy, linked,
  age,
  \* identity map of a session: the status a row had when it was loaded
  loaded,
  \* sessions of a process in need of a rollback
  broken,
  \* deciding processes
  pc, target, choice, runId, out, todo,
  \* stored runs of resumed workflows; how often each kind resumed a review
  stored, resumed,
  \* against the bounds
  requests, crashes

decisionVars == <<status, decidedBy>>
rowVars == <<born, decisionVars, raisedBy, linked, age>>
requestVars == <<target, choice, runId>>
actorVars == <<pc, requestVars, out, todo>>
runVars == <<stored, resumed>>
bounds == <<requests, crashes>>
vars == <<rowVars, loaded, broken, actorVars, runVars, bounds>>

Original == [of |-> NoReview, id |-> "default"]
NoLink == [id |-> "default", outcome |-> None]
Nothing == [v \in Reviews |-> None]

Init ==
  /\ born = [v \in Reviews |-> 0]
  /\ status = Nothing
  /\ decidedBy = Nothing
  /\ raisedBy = [v \in Reviews |-> Original]
  /\ linked = [v \in Reviews |-> NoLink]
  /\ age = [v \in Reviews |-> "fresh"]
  /\ loaded = [s \in Sessions |-> Nothing]
  /\ broken = [s \in Sessions |-> {}]
  /\ pc = [a \in Actors |-> "idle"]
  /\ target = [a \in Actors |-> NoReview]
  /\ choice = [a \in Actors |-> "resume"]
  /\ runId = [a \in Actors |-> "default"]
  /\ out = [a \in Actors |-> None]
  /\ todo = [a \in Actors |-> {}]
  /\ stored = [v \in Reviews |-> [i \in RunIds |-> None]]
  /\ resumed = [v \in Reviews |-> [k \in Kinds |-> 0]]
  /\ requests = 0
  /\ crashes = 0

-----------------------------------------------------------------------------
(* Rows, and the time that passes over them.                               *)

Rows == {v \in Reviews : born[v] > 0}

\* create_from_state adds a pending row for the run that raised it.
AddReview(v, run) ==
  /\ v \notin Rows
  /\ born' = [born EXCEPT ![v] = Cardinality(Rows) + 1]
  /\ status' = [status EXCEPT ![v] = "pending"]
  /\ raisedBy' = [raisedBy EXCEPT ![v] = run]
  /\ UNCHANGED <<decidedBy, linked, age>>

\* A workflow that is no continuation raises a review.
CreateFromState(v) ==
  /\ v \in Originals
  /\ AddReview(v, Original)
  /\ UNCHANGED <<loaded, broken, actorVars, runVars, bounds>>

\* Half an hour passes, then the rest of a day: an older row is never fresher.
GrowOld(v) ==
  /\ v \in Rows
  /\ \/ /\ age[v] = "fresh"
        /\ \A u \in Rows : born[u] < born[v] => age[u] # "fresh"
        /\ age' = [age EXCEPT ![v] = "overdue"]
     \/ /\ age[v] = "overdue"
        /\ \A u \in Rows : born[u] < born[v] => age[u] = "stale"
        /\ age' = [age EXCEPT ![v] = "stale"]
  /\ UNCHANGED <<born, decisionVars, raisedBy, linked, loaded, broken, actorVars,
                 runVars, bounds>>

-----------------------------------------------------------------------------
(* The steps of a decision.                                                *)

Goto(a, where) == pc' = [pc EXCEPT ![a] = where]

\* The row as the session sees it: a row in the identity map is not reloaded.
get(s, v) == IF loaded[s][v] # None THEN loaded[s][v] ELSE status[v]

\* Wrong on purpose: deciding awaits between its check and its commit.
OnLoop_Awaits(o) == FALSE

\* approve and its caller run on the event loop without an await until the
\* decision is committed; reject runs in a thread beside it.
OnLoop(o) == choice[o] # "reject" /\ pc[o] \in {"check", "decide"}

\* A request reaches the service: the caller owns the review, and the row is
\* loaded (404 and 403 end the request before anything changes).
OpenRequest(o, v, c, i) ==
  /\ pc[o] = "idle"
  /\ requests < MaxRequests
  /\ v \in Rows
  /\ "review" \notin broken["api"]
  /\ c # "reject" => \A p \in Operators : ~OnLoop(p)
  /\ c # "resume" => i = "default"
  /\ Goto(o, "check")
  /\ target' = [target EXCEPT ![o] = v]
  /\ choice' = [choice EXCEPT ![o] = c]
  /\ runId' = [runId EXCEPT ![o] = i]
  /\ loaded' = [loaded EXCEPT !["api"][v] = get("api", v)]
  /\ requests' = requests + 1
  /\ UNCHANGED <<rowVars, broken, out, todo, runVars, crashes>>

\* The newest review of the sweep is the next.
Newest(S) == CHOOSE v \in S : \A u \in S : born[u] <= born[v]

\* The newest pending rows, and the overdue among them.
Pending == {v \in Rows : status[v] = "pending"}

\* Wrong on purpose: the sweep lists the oldest first.
Page_OldestFirst ==
  {v \in Pending : Cardinality({u \in Pending : born[u] < born[v]}) < Limit}

Page == {v \in Pending : Cardinality({u \in Pending : born[u] > born[v]}) < Limit}
OverduePending == {v \in Page : age[v] = "overdue"}

\* auto_approve_overdue_reviews lists once and keeps the rows to the end.
Sweep(s) ==
  /\ pc[s] = "idle"
  /\ "review" \notin broken[s]
  /\ OverduePending # {}
  /\ Goto(s, "check")
  /\ todo' = [todo EXCEPT ![s] = OverduePending]
  /\ target' = [target EXCEPT ![s] = Newest(OverduePending)]
  /\ choice' = [choice EXCEPT ![s] = "resume"]
  /\ runId' = [runId EXCEPT ![s] = "default"]
  /\ loaded' = [loaded EXCEPT ![s] = [v \in Reviews |->
                  IF v \in OverduePending THEN status[v] ELSE None]]
  /\ UNCHANGED <<rowVars, broken, out, runVars, bounds>>

\* The request of an operator ends; the row leaves the identity map with the
\* last request that refers to it.  A sweep goes on with its next row.
Finish(a) ==
  LET v == target[a]
      rest == todo[a] \ {v} IN
  /\ out' = [out EXCEPT ![a] = None]
  /\ todo' = [todo EXCEPT ![a] = rest]
  /\ target' = [target EXCEPT ![a] = IF rest = {} THEN NoReview ELSE Newest(rest)]
  /\ Goto(a, IF rest = {} THEN "idle" ELSE "check")
  /\ choice' = [choice EXCEPT ![a] = "resume"]
  /\ runId' = [runId EXCEPT ![a] = "default"]

Released(a, map) ==
  LET v == target[a] IN
  IF a \in Sweepers
  THEN IF todo[a] = {v} THEN [map EXCEPT ![a] = Nothing] ELSE map
  ELSE IF \E o \in Operators \ {a} : target[o] = v THEN map
       ELSE [map EXCEPT !["api"][v] = None]

\* _decide refuses what it does not see as pending (409), and so does a
\* session that needs a rollback (500).
Refused(a) ==
  \/ "review" \in broken[session(a)]
  \/ pc[a] = "check" /\ get(session(a), target[a]) # "pending"

Refuse(a) ==
  /\ pc[a] \in {"check", "decide", "record"}
  /\ Refused(a)
  /\ loaded' = Released(a, loaded)
  /\ Finish(a)
  /\ UNCHANGED <<rowVars, broken, runVars, bounds>>

CheckPending(a) ==
  /\ pc[a] = "check"
  /\ ~Refused(a)
  /\ Goto(a, "decide")
  /\ UNCHANGED <<rowVars, loaded, broken, requestVars, out, todo, runVars, bounds>>

\* The status approve and reject hand to _decide.
decision(c) == IF c = "reject" THEN "rejected" ELSE "approved"

\* Wrong on purpose: the sweep approves without resuming.
Decide_NoResume(a) ==
  LET v == target[a]
      new == decision(choice[a]) IN
  /\ pc[a] = "decide"
  /\ ~Refused(a)
  /\ status' = [status EXCEPT ![v] = new]
  /\ decidedBy' = [decidedBy EXCEPT ![v] = kind(a)]
  /\ Finish(a)
  /\ loaded' = Released(a, [loaded EXCEPT ![session(a)][v] = new])
  /\ UNCHANGED <<born, raisedBy, linked, age, broken, runVars, bounds>>

\* update_decision and commit: an UPDATE by id, whatever the row holds by now.
Decide(a) ==
  LET v == target[a]
      new == decision(choice[a])
      seen == [loaded EXCEPT ![session(a)][v] = new] IN
  /\ pc[a] = "decide"
  /\ ~Refused(a)
  /\ status' = [status EXCEPT ![v] = new]
  /\ decidedBy' = [decidedBy EXCEPT ![v] = kind(a)]
  /\ IF choice[a] = "resume"
     THEN /\ Goto(a, "run")
          /\ loaded' = seen
          /\ UNCHANGED <<requestVars, out, todo>>
     ELSE /\ Finish(a)
          /\ loaded' = Released(a, seen)
  /\ UNCHANGED <<born, raisedBy, linked, age, broken, runVars, bounds>>

-----------------------------------------------------------------------------
(* The resumed run (orchestrator.run on the continuation state).           *)

\* The run starts from the snapshot in the row.
BuildContinuation(a) ==
  /\ pc[a] = "run"
  /\ resumed' = [resumed EXCEPT ![target[a]][kind(a)] = @ + 1]
  /\ Goto(a, "running")
  /\ UNCHANGED <<rowVars, loaded, broken, requestVars, out, todo, stored, bounds>>

runOf(a) == [of |-> target[a], id |-> runId[a]]

\* Wrong on purpose: request_id is not unique.
FlushFails_NotUnique(a, s, exists) == s \in broken[session(a)]

\* A flush fails on a row that exists or in a session that needs a rollback.
FlushFails(a, s, exists) == exists \/ s \in broken[session(a)]

\* The run ends; one that needs a human raises a review of its own, and a
\* failure to do so is swallowed.
EndRun(a, o) ==
  /\ pc[a] = "running"
  /\ out' = [out EXCEPT ![a] = o]
  /\ Goto(a, "save")
  /\ IF o # "needs_human_review"
     THEN UNCHANGED <<rowVars, broken>>
     ELSE IF FlushFails(a, "review", \E v \in Rows : raisedBy[v] = runOf(a))
          THEN /\ broken' = [broken EXCEPT ![session(a)] = @ \cup {"review"}]
               /\ UNCHANGED rowVars
          ELSE /\ \E v \in Reviews \ Originals : AddReview(v, runOf(a))
               /\ UNCHANGED broken
  /\ UNCHANGED <<loaded, requestVars, todo, runVars, bounds>>

\* An exception of the run ends the request or, in a sweep, the item.
RunRaises(a) ==
  /\ pc[a] = "running"
  /\ loaded' = Released(a, loaded)
  /\ Finish(a)
  /\ UNCHANGED <<rowVars, broken, runVars, bounds>>

\* Wrong on purpose: the failure to save the run is swallowed.
SaveRun_BestEffort(a) ==
  LET v == target[a]
      i == runId[a] IN
  /\ pc[a] = "save"
  /\ stored' = [stored EXCEPT ![v][i] = IF @ = None THEN out[a] ELSE @]
  /\ Goto(a, "record")
  /\ UNCHANGED <<rowVars, broken, loaded, requestVars, out, todo, resumed, bounds>>

\* The audit rows of the run; request_id is unique, and a failure raises.
SaveRun(a) ==
  LET v == target[a]
      i == runId[a] IN
  /\ pc[a] = "save"
  /\ IF FlushFails(a, "audit", stored[v][i] # None)
     THEN /\ broken' = [broken EXCEPT ![session(a)] = @ \cup {"audit"}]
          /\ loaded' = Released(a, loaded)
          /\ Finish(a)
          /\ UNCHANGED stored
     ELSE /\ stored' = [stored EXCEPT ![v][i] = out[a]]
          /\ Goto(a, "record")
          /\ UNCHANGED <<broken, loaded, requestVars, out, todo>>
  /\ UNCHANGED <<rowVars, resumed, bounds>>

RecordContinuation(a) ==
  /\ pc[a] = "record"
  /\ ~Refused(a)
  /\ linked' = [linked EXCEPT ![target[a]] = [id |-> runId[a], outcome |-> out[a]]]
  /\ loaded' = Released(a, loaded)
  /\ Finish(a)
  /\ UNCHANGED <<born, decisionVars, raisedBy, age, broken, runVars, bounds>>

\* A worker dies in a sweep and is started again with new sessions.
Crash(s) ==
  /\ crashes < MaxCrashes
  /\ pc[s] # "idle"
  /\ crashes' = crashes + 1
  /\ Goto(s, "idle")
  /\ target' = [target EXCEPT ![s] = NoReview]
  /\ choice' = [choice EXCEPT ![s] = "resume"]
  /\ runId' = [runId EXCEPT ![s] = "default"]
  /\ out' = [out EXCEPT ![s] = None]
  /\ todo' = [todo EXCEPT ![s] = {}]
  /\ loaded' = [loaded EXCEPT ![s] = Nothing]
  /\ broken' = [broken EXCEPT ![s] = {}]
  /\ UNCHANGED <<rowVars, requests, runVars>>

-----------------------------------------------------------------------------
Step(a) ==
  \/ Refuse(a)
  \/ CheckPending(a)
  \/ Decide(a)
  \/ BuildContinuation(a)
  \/ \E o \in Outcomes : EndRun(a, o)
  \/ RunRaises(a)
  \/ SaveRun(a)
  \/ RecordContinuation(a)

Next ==
  \/ \E v \in Reviews : CreateFromState(v) \/ GrowOld(v)
  \/ \E o \in Operators, v \in Reviews, c \in Choices, i \in RunIds : OpenRequest(o, v, c, i)
  \/ \E s \in Sweepers : Sweep(s) \/ Crash(s)
  \/ \E a \in Actors : Step(a)

Spec == Init /\ [][Next]_vars

\* Processes that run keep running, beat sweeps every ten minutes, and a
\* fresh review becomes overdue.
Fairness ==
  /\ \A a \in Actors : WF_vars(Step(a))
  /\ WF_vars(\E s \in Sweepers : Sweep(s))
  /\ \A v \in Reviews : WF_vars(age[v] = "fresh" /\ GrowOld(v))

FairSpec == Spec /\ Fairness

-----------------------------------------------------------------------------
TypeOK ==
  /\ born \in [Reviews -> 0..Cardinality(Reviews)]
  /\ status \in [Reviews -> ReviewStatus \cup {None}]
  /\ decidedBy \in [Reviews -> {None} \cup Kinds]
  /\ raisedBy \in [Reviews -> [of : Reviews \cup {NoReview}, id : RunIds]]
  /\ linked \in [Reviews -> [id : RunIds, outcome : Outcomes \cup {None}]]
  /\ age \in [Reviews -> {"fresh", "overdue", "stale"}]
  /\ loaded \in [Sessions -> [Reviews -> ReviewStatus \cup {None}]]
  /\ broken \in [Sessions -> SUBSET {"audit", "review"}]
  /\ pc \in [Actors -> {"idle", "check", "decide", "run", "running", "save", "record"}]
  /\ target \in [Actors -> Reviews \cup {NoReview}]
  /\ choice \in [Actors -> Choices]
  /\ runId \in [Actors -> RunIds]
  /\ out \in [Actors -> Outcomes \cup {None}]
  /\ todo \in [Actors -> SUBSET Reviews]
  /\ stored \in [Reviews -> [RunIds -> Outcomes \cup {None}]]
  /\ resumed \in [Reviews -> [Kinds -> Nat]]
  /\ requests \in 0..MaxRequests /\ crashes \in 0..MaxCrashes

\* The continuation a review row names is the stored one, although two
\* processes may resume the same review under the same request id.
LinkedRunStored ==
  \A v \in Reviews :
    linked[v].outcome # None => stored[v][linked[v].id] = linked[v].outcome

\* A resumed run raises at most one further review, however often it is run:
\* chains of reviews do not branch on one run.
OneReviewPerRun ==
  \A u, v \in Rows :
    raisedBy[u] = raisedBy[v] /\ raisedBy[u] # Original => u = v

\* The API resumes a review at most once, whatever its concurrent requests
\* are and whatever a sweep does beside it: an approval is checked and
\* committed without giving up the event loop, and neither rejections in
\* other threads nor a sweep can make a review pending again.
ResumedOnce == \A v \in Reviews : resumed[v]["operator"] <= 1

\* A review is answered by the sweep only if nobody answered it before
\* (docstring of review_tasks): a rejection stands.
RejectionStands ==
  [][\A v \in Reviews : status[v] = "rejected" => status'[v] = "rejected"]_vars

\* What the sweep approves, it resumes (docstring of review_tasks): nothing
\* but a crash between the two commits leaves an approved workflow behind.
ApprovedResumes ==
  \A v \in Reviews :
    decidedBy[v] = "system" ~> (resumed[v]["system"] > 0 \/ crashes > 0)

\* A pending review does not block a workflow for ever: it is decided, or has
\* become a stale artifact the sweep must not touch.
PendingAnswered ==
  \A v \in Reviews : status[v] = "pending" ~> (status[v] # "pending" \/ age[v] = "stale")

=============================================================================
