------------------------- MODULE HumanReview_proofs -------------------------
(***************************************************************************)
(* Proofs about HumanReview, for all sets of reviews, operators, sweeping  *)
(* workers and all bounds.                                                 *)
(***************************************************************************)
EXTENDS HumanReview, FiniteSetTheorems, WellFoundedInduction, TLAPS

\* What the assumption says of each constant.
LEMMA Constants ==
  /\ IsFiniteSet(Reviews) /\ NoReview \notin Reviews /\ Originals \subseteq Reviews
  /\ Operators \cap Sweepers = {} /\ "api" \notin Actors
  /\ Limit \in Nat /\ MaxRequests \in Nat /\ MaxCrashes \in Nat
  /\ Cardinality(Reviews) \in Nat
BY ReviewAssumption, FS_CardinalityType

\* A process uses the session of its own.
LEMMA SessionType == ASSUME NEW a \in Actors PROVE session(a) \in Sessions
BY DEF Actors, Sessions, session

-----------------------------------------------------------------------------
(* Type correctness.                                                       *)

\* Every set of reviews but the empty one has a newest element.
LEMMA NewestIn ==
  ASSUME TypeOK, NEW S \in SUBSET Reviews, S # {}
  PROVE  Newest(S) \in S
<1> DEFINE newer(v) == {u \in S : born[u] > born[v]}
           T == {newer(v) : v \in S}
<1>1. IsFiniteSet(S) /\ T \subseteq SUBSET S /\ T # {}
  <2>1. IsFiniteSet(S)
    BY Constants, FS_Subset
  <2>2. \A v \in S : newer(v) \subseteq S
    OBVIOUS
  <2>3. T \subseteq SUBSET S
    BY <2>2, Zenon
  <2>4. T # {}
    BY Zenon
  <2> QED
    BY <2>1, <2>3, <2>4
<1>2. PICK x \in T : \A y \in T : <<y, x>> \notin StrictSubsetOrdering(S)
  <2>1. IsWellFoundedOn(StrictSubsetOrdering(S), SUBSET S)
    BY <1>1, FS_StrictSubsetOrderingWellFounded, FS_FiniteSubsetsOfFinite
  <2> HIDE DEF T
  <2> QED
    BY <1>1, <2>1, WFMin
<1>3. PICK v \in S : x = newer(v)
  BY <1>2
<1>4. \A u \in S : born[u] \in Int
  BY Constants DEF TypeOK
<1>5. \A u \in S : born[u] <= born[v]
  <2> SUFFICES ASSUME NEW u \in S, ~(born[u] <= born[v]) PROVE FALSE
    OBVIOUS
  <2>1. newer(u) \subseteq newer(v) /\ u \in newer(v) /\ u \notin newer(u)
    BY <1>4
  <2>2. <<newer(u), x>> \in StrictSubsetOrdering(S)
    BY <1>1, <1>3, <2>1 DEF StrictSubsetOrdering
  <2> QED
    BY <1>2, <2>2
<1> QED
  BY <1>5 DEF Newest

\* A new row leaves the ranks within the number of reviews.
LEMMA AddReviewType ==
  ASSUME TypeOK, NEW v \in Reviews, NEW run \in [of : Reviews \cup {NoReview}, id : RunIds],
         AddReview(v, run)
  PROVE  /\ born' \in [Reviews -> 0..Cardinality(Reviews)]
         /\ status' \in [Reviews -> ReviewStatus \cup {None}]
         /\ raisedBy' \in [Reviews -> [of : Reviews \cup {NoReview}, id : RunIds]]
<1>1. /\ IsFiniteSet(Rows) /\ Rows \subseteq Reviews /\ v \notin Rows
  BY Constants, FS_Subset DEF Rows, AddReview
<1>2. /\ Cardinality(Rows) \in Nat
      /\ Cardinality(Rows) + 1 <= Cardinality(Reviews)
  <2>1. IsFiniteSet(Rows \cup {v}) /\ Cardinality(Rows \cup {v}) = Cardinality(Rows) + 1
    BY <1>1, FS_AddElement
  <2>2. Cardinality(Rows \cup {v}) <= Cardinality(Reviews)
    BY <1>1, FS_Subset, Constants
  <2> QED
    BY <1>1, <2>1, <2>2, FS_CardinalityType
<1>3. Cardinality(Rows) + 1 \in 0..Cardinality(Reviews)
  BY <1>2, Constants
<1> QED
  BY <1>3 DEF AddReview, TypeOK, ReviewStatus

\* The bookkeeping at the end of a request or an item.
LEMMA FinishType ==
  ASSUME TypeOK, NEW a \in Actors, Finish(a)
  PROVE  /\ pc' \in [Actors -> {"idle", "check", "decide", "run", "running", "save", "record"}]
         /\ target' \in [Actors -> Reviews \cup {NoReview}]
         /\ choice' \in [Actors -> Choices]
         /\ runId' \in [Actors -> RunIds]
         /\ out' \in [Actors -> Outcomes \cup {None}]
         /\ todo' \in [Actors -> SUBSET Reviews]
<1> DEFINE rest == todo[a] \ {target[a]}
<1>1. rest \in SUBSET Reviews
  BY DEF TypeOK
<1>2. rest # {} => Newest(rest) \in Reviews
  BY <1>1, NewestIn
<1>3. target' = [target EXCEPT ![a] = IF rest = {} THEN NoReview ELSE Newest(rest)]
  BY DEF Finish
<1>4. target' \in [Actors -> Reviews \cup {NoReview}]
  BY <1>2, <1>3 DEF TypeOK
<1>5. pc' \in [Actors -> {"idle", "check", "decide", "run", "running", "save", "record"}]
  BY DEF Finish, Goto, TypeOK
<1>6. todo' \in [Actors -> SUBSET Reviews]
  BY <1>1 DEF Finish, TypeOK
<1> QED
  BY <1>4, <1>5, <1>6 DEF Finish, TypeOK, Choices, RunIds

\* Rows leave the identity map.
LEMMA ReleasedType ==
  ASSUME TypeOK, NEW a \in Actors,
         NEW map \in [Sessions -> [Reviews -> ReviewStatus \cup {None}]]
  PROVE  Released(a, map) \in [Sessions -> [Reviews -> ReviewStatus \cup {None}]]
<1>1. Nothing \in [Reviews -> ReviewStatus \cup {None}]
  BY DEF Nothing
<1>2. \A s \in Sessions, v \in Reviews \cup {NoReview} :
        [map EXCEPT ![s][v] = None] \in [Sessions -> [Reviews -> ReviewStatus \cup {None}]]
  OBVIOUS
<1>3. \A s \in Sessions :
        [map EXCEPT ![s] = Nothing] \in [Sessions -> [Reviews -> ReviewStatus \cup {None}]]
  BY <1>1
<1>4. target[a] \in Reviews \cup {NoReview} /\ "api" \in Sessions /\ (a \in Sweepers => a \in Sessions)
  BY DEF TypeOK, Sessions
<1> QED
  BY <1>2, <1>3, <1>4 DEF Released

\* A session comes to need a rollback.
LEMMA BrokenType ==
  ASSUME TypeOK, NEW a \in Actors, NEW x \in {"audit", "review"}
  PROVE  [broken EXCEPT ![session(a)] = @ \cup {x}] \in [Sessions -> SUBSET {"audit", "review"}]
BY SessionType DEF TypeOK

\* Rows are created and grow old.
LEMMA RowStepType ==
  ASSUME TypeOK, NEW v \in Reviews, CreateFromState(v) \/ GrowOld(v)
  PROVE  TypeOK'
<1> USE DEF TypeOK, actorVars, requestVars, runVars, bounds, decisionVars
<1>1. CASE CreateFromState(v)
  <2>1. Original \in [of : Reviews \cup {NoReview}, id : RunIds]
    BY DEF Original, RunIds
  <2> QED
    BY <1>1, <2>1, AddReviewType DEF CreateFromState, AddReview
<1>2. CASE GrowOld(v)
  <2>1. age' \in [Reviews -> {"fresh", "overdue", "stale"}]
    <3>1. age' = [age EXCEPT ![v] = "overdue"] \/ age' = [age EXCEPT ![v] = "stale"]
      BY <1>2, Zenon DEF GrowOld
    <3> QED BY <3>1
  <2>2. UNCHANGED <<born, decisionVars, raisedBy, linked, loaded, broken, actorVars,
                    runVars, bounds>>
    BY <1>2 DEF GrowOld
  <2> QED
    BY <2>1, <2>2
<1> QED
  BY <1>1, <1>2

\* What a session sees of a row is a status.
LEMMA GetType ==
  ASSUME TypeOK, NEW s \in Sessions, NEW v \in Reviews
  PROVE  get(s, v) \in ReviewStatus \cup {None}
BY DEF TypeOK, get

\* A request begins.
LEMMA OpenStepType ==
  ASSUME TypeOK, NEW o \in Operators, NEW v \in Reviews, NEW c \in Choices, NEW i \in RunIds,
         OpenRequest(o, v, c, i)
  PROVE  TypeOK'
<1> USE DEF TypeOK, rowVars, decisionVars, runVars, OpenRequest
<1>1. "api" \in Sessions /\ o \in Actors
  BY DEF Sessions, Actors
<1>2. loaded' \in [Sessions -> [Reviews -> ReviewStatus \cup {None}]]
  BY <1>1, GetType
<1>3. requests' \in 0..MaxRequests /\ crashes' \in 0..MaxCrashes
  BY Constants
<1> QED
  BY <1>1, <1>2, <1>3 DEF Goto

\* A sweep begins, or its worker dies.
LEMMA SweepStepType ==
  ASSUME TypeOK, NEW s \in Sweepers, Sweep(s) \/ Crash(s)
  PROVE  TypeOK'
<1> USE DEF TypeOK, rowVars, decisionVars, runVars, bounds, Goto
<1>1. s \in Sessions /\ s \in Actors
  BY DEF Sessions, Actors
<1>2. CASE Sweep(s)
  <2>1. OverduePending \in SUBSET Reviews /\ OverduePending # {}
    BY <1>2 DEF Sweep, OverduePending, Page, Pending, Rows
  <2>2. Newest(OverduePending) \in Reviews
    BY <2>1, NewestIn
  <2>3. loaded' \in [Sessions -> [Reviews -> ReviewStatus \cup {None}]]
    BY <1>1, <1>2 DEF Sweep
  <2>4. target' \in [Actors -> Reviews \cup {NoReview}]
    BY <1>2, <2>2 DEF Sweep
  <2>5. todo' \in [Actors -> SUBSET Reviews]
    BY <1>2, <2>1 DEF Sweep
  <2> QED
    BY <1>1, <1>2, <2>3, <2>4, <2>5 DEF Sweep, Choices, RunIds
<1>3. CASE Crash(s)
  <2>1. crashes' \in 0..MaxCrashes
    BY <1>3, Constants DEF Crash
  <2>2. Nothing \in [Reviews -> ReviewStatus \cup {None}]
    BY DEF Nothing
  <2> QED
    BY <1>1, <1>3, <2>1, <2>2 DEF Crash, Choices, RunIds
<1> QED
  BY <1>2, <1>3

\* The steps of a decision.
LEMMA DecisionStepType ==
  ASSUME TypeOK, NEW a \in Actors,
         Refuse(a) \/ CheckPending(a) \/ Decide(a) \/ RecordContinuation(a) \/ RunRaises(a)
  PROVE  TypeOK'
<1> USE DEF TypeOK, rowVars, decisionVars, requestVars, runVars, bounds
<1>1. CASE Refuse(a) \/ RunRaises(a)
  <2>1. loaded' \in [Sessions -> [Reviews -> ReviewStatus \cup {None}]]
    BY <1>1, ReleasedType DEF Refuse, RunRaises
  <2> QED
    BY <1>1, <2>1, FinishType DEF Refuse, RunRaises
<1>2. CASE CheckPending(a)
  BY <1>2 DEF CheckPending, Goto
<1>3. CASE Decide(a)
  <2> DEFINE v == target[a]
             seen == [loaded EXCEPT ![session(a)][v] = decision(choice[a])]
  <2>1. decision(choice[a]) \in ReviewStatus
    BY DEF decision, ReviewStatus, Decided
  <2>2. seen \in [Sessions -> [Reviews -> ReviewStatus \cup {None}]]
    BY <2>1, SessionType
  <2>3. loaded' \in [Sessions -> [Reviews -> ReviewStatus \cup {None}]]
    <3>1. loaded' = seen \/ loaded' = Released(a, seen)
      BY <1>3 DEF Decide
    <3> HIDE DEF seen, TypeOK
    <3> QED
      BY <2>2, <3>1, ReleasedType
  <2>4. /\ status' \in [Reviews -> ReviewStatus \cup {None}]
        /\ decidedBy' \in [Reviews -> {None} \cup Kinds]
    BY <1>3, <2>1 DEF Decide, kind, Kinds
  <2>5. /\ pc' \in [Actors -> {"idle", "check", "decide", "run", "running", "save", "record"}]
        /\ target' \in [Actors -> Reviews \cup {NoReview}]
        /\ choice' \in [Actors -> Choices]
        /\ runId' \in [Actors -> RunIds]
        /\ out' \in [Actors -> Outcomes \cup {None}]
        /\ todo' \in [Actors -> SUBSET Reviews]
    <3>1. CASE choice[a] = "resume"
      BY <1>3, <3>1 DEF Decide, Goto
    <3>2. CASE choice[a] # "resume"
      BY <1>3, <3>2, FinishType DEF Decide
    <3> QED
      BY <3>1, <3>2
  <2> QED
    BY <1>3, <2>3, <2>4, <2>5 DEF Decide
<1>4. CASE RecordContinuation(a)
  <2>1. loaded' \in [Sessions -> [Reviews -> ReviewStatus \cup {None}]]
    BY <1>4, ReleasedType DEF RecordContinuation
  <2>2. linked' \in [Reviews -> [id : RunIds, outcome : Outcomes \cup {None}]]
    BY <1>4 DEF RecordContinuation
  <2> QED
    BY <1>4, <2>1, <2>2, FinishType DEF RecordContinuation
<1> QED
  BY <1>1, <1>2, <1>3, <1>4

\* The resumed run.
LEMMA RunStepType ==
  ASSUME TypeOK, NEW a \in Actors,
         BuildContinuation(a) \/ (\E o \in Outcomes : EndRun(a, o)) \/ SaveRun(a)
  PROVE  TypeOK'
<1> USE DEF TypeOK, rowVars, decisionVars, requestVars, bounds
<1>1. CASE BuildContinuation(a)
  <2>1. resumed' \in [Reviews -> [Kinds -> Nat]]
    <3>1. resumed' = [resumed EXCEPT ![target[a]] = [resumed[target[a]] EXCEPT
                        ![kind(a)] = resumed[target[a]][kind(a)] + 1]]
      BY <1>1 DEF BuildContinuation
    <3>2. \A v \in Reviews, n \in Nat : [resumed[v] EXCEPT ![kind(a)] = n] \in [Kinds -> Nat]
      OBVIOUS
    <3>3. \A v \in Reviews : resumed[v][kind(a)] + 1 \in Nat
      BY DEF kind, Kinds
    <3>4. \A v \in Reviews :
            [resumed[v] EXCEPT ![kind(a)] = resumed[v][kind(a)] + 1] \in [Kinds -> Nat]
      BY <3>2, <3>3
    <3>5. resumed \in [Reviews -> [Kinds -> Nat]]
      OBVIOUS
    <3> HIDE DEF TypeOK
    <3> QED
      BY <3>1, <3>4, <3>5
  <2>2. pc' \in [Actors -> {"idle", "check", "decide", "run", "running", "save", "record"}]
    BY <1>1 DEF BuildContinuation, Goto
  <2> QED
    BY <1>1, <2>1, <2>2 DEF BuildContinuation
<1>2. CASE \E o \in Outcomes : EndRun(a, o)
  <2>1. PICK o \in Outcomes : EndRun(a, o)
    BY <1>2
  <2>2. broken' \in [Sessions -> SUBSET {"audit", "review"}]
    <3>1. broken' = broken \/ broken' = [broken EXCEPT ![session(a)] = @ \cup {"review"}]
      BY <2>1 DEF EndRun
    <3> HIDE DEF TypeOK
    <3>2. broken \in [Sessions -> SUBSET {"audit", "review"}]
      BY DEF TypeOK
    <3> QED
      BY <3>1, <3>2, BrokenType
  <2>3. UNCHANGED <<born, status, raisedBy, decidedBy, linked, age>> \/
        \E v \in Reviews : AddReview(v, runOf(a))
    BY <2>1 DEF EndRun
  <2>4. runOf(a) \in [of : Reviews \cup {NoReview}, id : RunIds]
    BY DEF runOf
  <2>5. /\ born' \in [Reviews -> 0..Cardinality(Reviews)]
        /\ status' \in [Reviews -> ReviewStatus \cup {None}]
        /\ raisedBy' \in [Reviews -> [of : Reviews \cup {NoReview}, id : RunIds]]
        /\ UNCHANGED <<decidedBy, linked, age>>
    <3>1. CASE UNCHANGED <<born, status, raisedBy, decidedBy, linked, age>>
      BY <3>1
    <3>2. CASE \E v \in Reviews : AddReview(v, runOf(a))
      BY <3>2, <2>4, AddReviewType DEF AddReview
    <3> QED
      BY <2>3, <3>1, <3>2
  <2> QED
    BY <2>1, <2>2, <2>5 DEF EndRun, Goto, runVars
<1>3. CASE SaveRun(a)
  <2>1. CASE FlushFails(a, "audit", stored[target[a]][runId[a]] # None)
    <3>1. loaded' \in [Sessions -> [Reviews -> ReviewStatus \cup {None}]]
      <4>1. loaded' = Released(a, loaded)
        BY <1>3, <2>1 DEF SaveRun
      <4> QED
        BY <4>1, ReleasedType
    <3>2. broken' \in [Sessions -> SUBSET {"audit", "review"}]
      <4>1. broken' = [broken EXCEPT ![session(a)] = @ \cup {"audit"}]
        BY <1>3, <2>1 DEF SaveRun
      <4> QED
        BY <4>1, BrokenType
    <3>3. Finish(a)
      BY <1>3, <2>1 DEF SaveRun
    <3>4. UNCHANGED <<stored, rowVars, resumed, bounds>>
      BY <1>3, <2>1 DEF SaveRun
    <3>5. /\ pc' \in [Actors -> {"idle", "check", "decide", "run", "running", "save", "record"}]
          /\ target' \in [Actors -> Reviews \cup {NoReview}]
          /\ choice' \in [Actors -> Choices]
          /\ runId' \in [Actors -> RunIds]
          /\ out' \in [Actors -> Outcomes \cup {None}]
          /\ todo' \in [Actors -> SUBSET Reviews]
      BY <3>3, FinishType
    <3> QED
      BY <3>1, <3>2, <3>4, <3>5
  <2>2. CASE ~FlushFails(a, "audit", stored[target[a]][runId[a]] # None)
    <3>1. stored' \in [Reviews -> [RunIds -> Outcomes \cup {None}]]
      <4>1. stored' = [stored EXCEPT ![target[a]][runId[a]] = out[a]]
        BY <1>3, <2>2 DEF SaveRun
      <4>2. runId[a] \in RunIds /\ out[a] \in Outcomes \cup {None}
        OBVIOUS
      <4> QED
        BY <4>1, <4>2
    <3>2. pc' \in [Actors -> {"idle", "check", "decide", "run", "running", "save", "record"}]
      <4>1. pc' = [pc EXCEPT ![a] = "record"]
        BY <1>3, <2>2 DEF SaveRun, Goto
      <4> QED
        BY <4>1
    <3>3. UNCHANGED <<rowVars, broken, loaded, requestVars, out, todo, resumed, bounds>>
      BY <1>3, <2>2 DEF SaveRun
    <3> QED
      BY <3>1, <3>2, <3>3
  <2> QED
    BY <2>1, <2>2
<1> QED
  BY <1>1, <1>2, <1>3

\* The initial state is typed.
LEMMA InitType == Init => TypeOK
<1> SUFFICES ASSUME Init PROVE TypeOK
  OBVIOUS
<1>1. born \in [Reviews -> 0..Cardinality(Reviews)]
  BY Constants DEF Init
<1>2. resumed \in [Reviews -> [Kinds -> Nat]] /\ requests \in 0..MaxRequests /\ crashes \in 0..MaxCrashes
  BY Constants DEF Init
<1> QED
  BY <1>1, <1>2 DEF Init, TypeOK, Nothing, Original, NoLink, RunIds, Choices

\* Every step keeps the types.
LEMMA TypeStep == TypeOK /\ [Next]_vars => TypeOK'
<1> SUFFICES ASSUME TypeOK, [Next]_vars PROVE TypeOK'
  OBVIOUS
<1>1. CASE UNCHANGED vars
  BY <1>1 DEF vars, rowVars, decisionVars, actorVars, requestVars, runVars, bounds, TypeOK
<1> QED
  BY <1>1, RowStepType, OpenStepType, SweepStepType, DecisionStepType, RunStepType DEF Next, Step

\* Every variable keeps its type.
THEOREM TypeCorrect == Spec => []TypeOK
BY InitType, TypeStep, PTL DEF Spec

-----------------------------------------------------------------------------
(* The run a review links to is the stored one.                            *)

\* Who is about to store a run has its outcome; who is about to link it has
\* stored that outcome.
RecordInv ==
  \A a \in Actors :
    /\ pc[a] \in {"save", "record"} => out[a] \in Outcomes
    /\ pc[a] = "record" /\ target[a] \in Reviews => stored[target[a]][runId[a]] = out[a]

LinkInv == LinkedRunStored /\ RecordInv

\* What a step must respect for LinkInv: links and stored runs stay, and a
\* process enters "save" and "record" only as described.
LEMMA LinkFrame ==
  ASSUME TypeOK, TypeOK', LinkInv, UNCHANGED <<linked, stored>>,
         \A a \in Actors :
           \/ pc'[a] \notin {"save", "record"}
           \/ pc'[a] = pc[a] /\ out'[a] = out[a] /\ target'[a] = target[a] /\ runId'[a] = runId[a]
           \/ pc'[a] = "save" /\ out'[a] \in Outcomes
  PROVE  LinkInv'
BY DEF LinkInv, LinkedRunStored, RecordInv, TypeOK

\* Requests that end leave "save" and "record".
LEMMA FinishLink ==
  ASSUME TypeOK, TypeOK', NEW a \in Actors, Finish(a)
  PROVE  /\ pc'[a] \in {"idle", "check"}
         /\ \A b \in Actors \ {a} : /\ pc'[b] = pc[b] /\ out'[b] = out[b]
                                    /\ target'[b] = target[b] /\ runId'[b] = runId[b]
BY DEF Finish, Goto, TypeOK

\* The steps that touch neither links nor stored runs.
LEMMA OtherStepLink ==
  ASSUME TypeOK, TypeOK', LinkInv, NEW a \in Actors,
         \/ Refuse(a) \/ CheckPending(a) \/ Decide(a) \/ BuildContinuation(a)
         \/ (\E o \in Outcomes : EndRun(a, o)) \/ RunRaises(a)
  PROVE  LinkInv'
<1> USE DEF rowVars, decisionVars, requestVars, runVars, bounds, Goto
<1>1. CASE Refuse(a) \/ RunRaises(a)
  <2>1. Finish(a) /\ UNCHANGED <<linked, stored>>
    BY <1>1 DEF Refuse, RunRaises
  <2> QED
    BY <2>1, FinishLink, LinkFrame
<1>2. CASE CheckPending(a)
  <2>1. /\ UNCHANGED <<linked, stored, out, target, runId>>
        /\ pc' = [pc EXCEPT ![a] = "decide"]
    BY <1>2 DEF CheckPending
  <2> QED
    BY <2>1, LinkFrame DEF TypeOK
<1>3. CASE Decide(a)
  <2>1. UNCHANGED <<linked, stored>>
    BY <1>3 DEF Decide
  <2>2. CASE choice[a] = "resume"
    <3>1. pc' = [pc EXCEPT ![a] = "run"] /\ UNCHANGED <<out, target, runId>>
      BY <1>3, <2>2 DEF Decide
    <3> QED
      BY <2>1, <3>1, LinkFrame DEF TypeOK
  <2>3. CASE choice[a] # "resume"
    <3>1. Finish(a)
      BY <1>3, <2>3 DEF Decide
    <3> QED
      BY <2>1, <3>1, FinishLink, LinkFrame
  <2> QED
    BY <2>2, <2>3
<1>4. CASE BuildContinuation(a)
  <2>1. /\ UNCHANGED <<linked, stored, out, target, runId>>
        /\ pc' = [pc EXCEPT ![a] = "running"]
    BY <1>4 DEF BuildContinuation
  <2> QED
    BY <2>1, LinkFrame DEF TypeOK
<1>5. CASE \E o \in Outcomes : EndRun(a, o)
  <2>1. PICK o \in Outcomes : EndRun(a, o)
    BY <1>5
  <2>2. UNCHANGED linked
    BY <2>1 DEF EndRun, AddReview
  <2>3. /\ UNCHANGED <<stored, target, runId>>
        /\ pc' = [pc EXCEPT ![a] = "save"] /\ out' = [out EXCEPT ![a] = o]
    BY <2>1 DEF EndRun
  <2> QED
    BY <2>2, <2>3, LinkFrame DEF TypeOK
<1> QED
  BY <1>1, <1>2, <1>3, <1>4, <1>5

\* A run is stored only where none was, so that no link to it and nobody
\* about to link it is contradicted.
LEMMA SaveRunLink ==
  ASSUME TypeOK, TypeOK', LinkInv, NEW a \in Actors, SaveRun(a)
  PROVE  LinkInv'
<1> DEFINE v == target[a]
           i == runId[a]
           fails == FlushFails(a, "audit", stored[v][i] # None)
<1>0. UNCHANGED linked
  BY DEF SaveRun, rowVars
<1>1. CASE fails
  <2>1. Finish(a) /\ UNCHANGED stored
    BY <1>1 DEF SaveRun
  <2> QED
    BY <1>0, <2>1, FinishLink, LinkFrame
<1>2. CASE ~fails
  <2>1. /\ stored' = [stored EXCEPT ![v][i] = out[a]]
        /\ pc' = [pc EXCEPT ![a] = "record"]
        /\ UNCHANGED <<target, runId, out>>
    BY <1>2 DEF SaveRun, Goto, requestVars
  <2>2. stored[v][i] = None /\ out[a] \in Outcomes /\ i \in RunIds
    BY <1>2 DEF FlushFails, SaveRun, LinkInv, RecordInv, TypeOK
  <2>3. None \notin Outcomes
    BY DEF None, Outcomes
  <2>4. \A u \in Reviews, j \in RunIds : stored[u][j] # None => stored'[u][j] = stored[u][j]
    BY <2>1, <2>2 DEF TypeOK
  <2>5. LinkedRunStored'
    BY <1>0, <2>4 DEF LinkInv, LinkedRunStored, TypeOK
  <2>6. ASSUME NEW b \in Actors, pc'[b] \in {"save", "record"}
        PROVE  out'[b] \in Outcomes
    BY <2>1, <2>2, <2>6 DEF LinkInv, RecordInv, TypeOK
  <2>7. ASSUME NEW b \in Actors, pc'[b] = "record", target'[b] \in Reviews
        PROVE  stored'[target'[b]][runId'[b]] = out'[b]
    <3>1. CASE b = a
      BY <2>1, <2>2, <2>7, <3>1 DEF TypeOK
    <3>2. CASE b # a
      <4>1. /\ pc[b] = "record" /\ target[b] \in Reviews /\ runId[b] \in RunIds
            /\ stored[target[b]][runId[b]] = out[b] /\ out[b] \in Outcomes
        BY <2>1, <2>7, <3>2 DEF LinkInv, RecordInv, TypeOK
      <4> QED
        BY <2>1, <2>3, <2>4, <4>1
    <3> QED
      BY <3>1, <3>2
  <2> QED
    BY <2>5, <2>6, <2>7 DEF LinkInv, RecordInv
<1> QED
  BY <1>1, <1>2

\* The link names the run just stored.
LEMMA RecordLink ==
  ASSUME TypeOK, TypeOK', LinkInv, NEW a \in Actors, RecordContinuation(a)
  PROVE  LinkInv'
<1>1. /\ pc[a] = "record" /\ Finish(a) /\ UNCHANGED stored
      /\ linked' = [linked EXCEPT ![target[a]] = [id |-> runId[a], outcome |-> out[a]]]
  BY DEF RecordContinuation, runVars
<1>2. LinkedRunStored'
  BY <1>1 DEF LinkInv, LinkedRunStored, RecordInv, TypeOK
<1>3. RecordInv'
  <2>1. pc'[a] \notin {"save", "record"}
    BY <1>1, FinishLink
  <2>2. \A b \in Actors \ {a} : /\ pc'[b] = pc[b] /\ out'[b] = out[b]
                                /\ target'[b] = target[b] /\ runId'[b] = runId[b]
    BY <1>1, FinishLink
  <2> QED
    BY <1>1, <2>1, <2>2 DEF LinkInv, RecordInv
<1> QED
  BY <1>2, <1>3 DEF LinkInv

\* Requests, sweeps, rows and crashes.
LEMMA OutsideLink ==
  ASSUME TypeOK, TypeOK', LinkInv,
         \/ \E v \in Reviews : CreateFromState(v) \/ GrowOld(v)
         \/ \E o \in Operators, v \in Reviews, c \in Choices, i \in RunIds : OpenRequest(o, v, c, i)
         \/ \E s \in Sweepers : Sweep(s) \/ Crash(s)
         \/ UNCHANGED vars
  PROVE  LinkInv'
<1> USE DEF rowVars, decisionVars, requestVars, actorVars, runVars, bounds, Goto
<1>1. CASE (\E v \in Reviews : CreateFromState(v) \/ GrowOld(v)) \/ UNCHANGED vars
  <2>1. UNCHANGED <<linked, stored, pc, out, target, runId>>
    BY <1>1 DEF CreateFromState, AddReview, GrowOld, vars
  <2> QED
    BY <2>1, LinkFrame
<1>2. ASSUME NEW o \in Operators, NEW v \in Reviews, NEW c \in Choices, NEW i \in RunIds,
             OpenRequest(o, v, c, i)
      PROVE  LinkInv'
  <2>1. /\ UNCHANGED <<linked, stored, out>>
        /\ pc' = [pc EXCEPT ![o] = "check"]
        /\ target' = [target EXCEPT ![o] = v]
        /\ runId' = [runId EXCEPT ![o] = i]
    BY <1>2 DEF OpenRequest
  <2> QED
    BY <2>1, LinkFrame DEF TypeOK
<1>3. ASSUME NEW s \in Sweepers, Sweep(s) \/ Crash(s)
      PROVE  LinkInv'
  <2>1. UNCHANGED <<linked, stored>> /\ pc'[s] \in {"idle", "check"}
    BY <1>3 DEF Sweep, Crash, Actors, TypeOK
  <2>2. \A b \in Actors \ {s} : /\ pc'[b] = pc[b] /\ out'[b] = out[b]
                                /\ target'[b] = target[b] /\ runId'[b] = runId[b]
    BY <1>3 DEF Sweep, Crash, TypeOK
  <2> QED
    BY <2>1, <2>2, LinkFrame
<1> QED
  BY <1>1, <1>2, <1>3

\* The run a review links to is stored with the outcome the link shows, also
\* when several processes resume the review under one request id.
THEOREM LinkedStored == Spec => []LinkedRunStored
<1>1. Init => LinkInv
  BY DEF Init, LinkInv, LinkedRunStored, RecordInv, NoLink
<1>2. TypeOK /\ TypeOK' /\ LinkInv /\ [Next]_vars => LinkInv'
  BY OtherStepLink, SaveRunLink, RecordLink, OutsideLink DEF Next, Step
<1>3. LinkInv => LinkedRunStored
  BY DEF LinkInv
<1> QED
  BY <1>1, <1>2, <1>3, TypeCorrect, PTL DEF Spec

-----------------------------------------------------------------------------
(* One review per resumed run.                                             *)

\* Who raised a review changes only when a new row is added.
LEMMA RaisedStep ==
  ASSUME TypeOK, [Next]_vars
  PROVE  \/ UNCHANGED <<born, raisedBy>>
         \/ \E v \in Reviews : AddReview(v, Original)
         \/ \E v \in Reviews, a \in Actors :
              /\ AddReview(v, runOf(a))
              /\ \A u \in Rows : raisedBy[u] # runOf(a)
<1> USE DEF rowVars, decisionVars
<1>1. ASSUME NEW v \in Reviews, CreateFromState(v) \/ GrowOld(v)
      PROVE  UNCHANGED <<born, raisedBy>> \/ AddReview(v, Original)
  BY <1>1 DEF CreateFromState, GrowOld
<1>2. ASSUME NEW a \in Actors, NEW o \in Outcomes, EndRun(a, o)
      PROVE  \/ UNCHANGED <<born, raisedBy>>
             \/ \E v \in Reviews : /\ AddReview(v, runOf(a))
                                   /\ \A u \in Rows : raisedBy[u] # runOf(a)
  BY <1>2 DEF EndRun, FlushFails
<1>3. ASSUME NEW a \in Actors,
             \/ Refuse(a) \/ CheckPending(a) \/ Decide(a) \/ BuildContinuation(a)
             \/ RunRaises(a) \/ SaveRun(a) \/ RecordContinuation(a)
      PROVE  UNCHANGED <<born, raisedBy>>
  BY <1>3 DEF Refuse, CheckPending, Decide, BuildContinuation, RunRaises, SaveRun,
    RecordContinuation
<1>4. ASSUME NEW s \in Sweepers, Sweep(s) \/ Crash(s)
      PROVE  UNCHANGED <<born, raisedBy>>
  BY <1>4 DEF Sweep, Crash
<1>5. ASSUME NEW o \in Operators, NEW v \in Reviews, NEW c \in Choices, NEW i \in RunIds,
             OpenRequest(o, v, c, i)
      PROVE  UNCHANGED <<born, raisedBy>>
  BY <1>5 DEF OpenRequest
<1>6. CASE UNCHANGED vars
  BY <1>6 DEF vars
<1> QED
  BY <1>1, <1>2, <1>3, <1>4, <1>5, <1>6 DEF Next, Step

\* A resumed run raises at most one further review, however often it is run.
THEOREM OnePerRun == Spec => []OneReviewPerRun
<1>1. Init => OneReviewPerRun
  BY DEF Init, OneReviewPerRun, Rows
<1>2. TypeOK /\ OneReviewPerRun /\ [Next]_vars => OneReviewPerRun'
  <2> SUFFICES ASSUME TypeOK, OneReviewPerRun, [Next]_vars PROVE OneReviewPerRun'
    OBVIOUS
  <2>1. CASE UNCHANGED <<born, raisedBy>>
    BY <2>1 DEF OneReviewPerRun, Rows
  <2>2. ASSUME NEW v \in Reviews, NEW run, AddReview(v, run),
               run # Original => \A u \in Rows : raisedBy[u] # run
        PROVE  OneReviewPerRun'
    <3>1. Rows' \subseteq Rows \cup {v} /\ v \notin Rows
      BY <2>2 DEF AddReview, Rows, TypeOK
    <3>2. raisedBy'[v] = run /\ \A u \in Rows : raisedBy'[u] = raisedBy[u]
      BY <2>2, <3>1 DEF AddReview, TypeOK, Rows
    <3> QED
      BY <2>2, <3>1, <3>2 DEF OneReviewPerRun, Original
  <2> QED
    BY <2>1, <2>2, RaisedStep
<1> QED
  BY <1>1, <1>2, TypeCorrect, PTL DEF Spec

-----------------------------------------------------------------------------
(* The API resumes a review once.                                          *)

\* The API has resumed the review, or has committed itself to.
Taken(v) ==
  resumed[v]["operator"] > 0 \/ \E o \in Operators : pc[o] = "run" /\ target[o] = v

\* One handler at a time is between its check and its commit, a review once
\* taken is seen as decided by every later check, and no handler that passed
\* its check has a taken review.
ResumeInv ==
  /\ \A o \in Operators : todo[o] = {} /\ (pc[o] # "idle" => target[o] \in Rows)
  /\ \A o, p \in Operators : OnLoop(o) /\ OnLoop(p) => o = p
  /\ \A v \in Reviews : Taken(v) =>
       v \in Rows /\ status[v] \in Decided /\ loaded["api"][v] # "pending"
  /\ \A o \in Operators : pc[o] = "decide" /\ choice[o] = "resume" => ~Taken(target[o])
  /\ \A o \in Operators : pc[o] = "run" => resumed[target[o]]["operator"] = 0
  /\ \A o, p \in Operators :
       pc[o] = "run" /\ pc[p] = "run" /\ target[o] = target[p] => o = p
  /\ ResumedOnce

\* What most steps respect: rows and decisions stay, nobody enters the steps
\* from the check to the resumption.
LEMMA ResumeFrame ==
  ASSUME TypeOK, ResumeInv,
         \A v \in Reviews :
           /\ born[v] > 0 => born'[v] > 0
           /\ v \in Rows /\ status[v] \in Decided => status'[v] \in Decided
           /\ v \in Rows /\ status[v] \in Decided /\ loaded["api"][v] # "pending" =>
                loaded'["api"][v] # "pending"
           /\ resumed'[v]["operator"] = resumed[v]["operator"],
         \A o \in Operators :
           /\ todo'[o] = {}
           /\ \/ pc'[o] = pc[o] /\ target'[o] = target[o] /\ choice'[o] = choice[o]
              \/ pc'[o] = "idle"
              \/ pc[o] # "idle" /\ pc'[o] \in {"running", "save", "record"} /\ target'[o] = target[o]
  PROVE  ResumeInv'
<1>1. \A o \in Operators :
        /\ pc'[o] \in {"check", "decide", "run"} =>
             pc'[o] = pc[o] /\ target'[o] = target[o] /\ choice'[o] = choice[o]
        /\ pc'[o] # "idle" => pc[o] # "idle" /\ target'[o] = target[o]
  OBVIOUS
<1>2. \A o \in Operators : target[o] \in Rows => target[o] \in Rows'
  BY DEF Rows
<1>3. \A v \in Reviews : Taken(v)' => Taken(v)
  BY <1>1 DEF Taken
<1>4. \A o \in Operators : pc[o] # "idle" => target[o] \in Reviews
  BY DEF ResumeInv, Rows
<1>5. \A o \in Operators : OnLoop(o)' => OnLoop(o)
  BY <1>1 DEF OnLoop
<1>6. (\A o \in Operators : todo[o] = {} /\ (pc[o] # "idle" => target[o] \in Rows))'
  BY <1>1, <1>2 DEF ResumeInv
<1>7. (\A v \in Reviews : Taken(v) =>
         v \in Rows /\ status[v] \in Decided /\ loaded["api"][v] # "pending")'
  BY <1>3 DEF ResumeInv, Rows
<1>8. (\A o \in Operators : pc[o] = "decide" /\ choice[o] = "resume" => ~Taken(target[o]))'
  BY <1>1, <1>3, <1>4 DEF ResumeInv
<1>9. (\A o \in Operators : pc[o] = "run" => resumed[target[o]]["operator"] = 0)'
  BY <1>1, <1>4 DEF ResumeInv
<1>q. QED
  BY <1>1, <1>5, <1>6, <1>7, <1>8, <1>9 DEF ResumeInv, ResumedOnce

\* The end of a request leaves the others alone.
LEMMA FinishResume ==
  ASSUME TypeOK, ResumeInv, NEW a \in Actors, Finish(a), NEW o \in Operators
  PROVE  /\ todo'[o] = {}
         /\ \/ pc'[o] = pc[o] /\ target'[o] = target[o] /\ choice'[o] = choice[o]
            \/ pc'[o] = "idle"
<1>1. CASE o = a
  BY <1>1 DEF Finish, Goto, ResumeInv, TypeOK
<1>2. CASE o # a
  BY <1>2 DEF Finish, Goto, ResumeInv, TypeOK, Actors
<1>q. QED  BY <1>1, <1>2

\* A row leaves the identity map of the API, or stays as it is.
LEMMA ReleasedApi ==
  ASSUME TypeOK, NEW a \in Actors, NEW v \in Reviews,
         NEW map \in [Sessions -> [Reviews -> ReviewStatus \cup {None}]]
  PROVE  Released(a, map)["api"][v] \in {map["api"][v], None}
<1>1. "api" \in Sessions /\ (a \in Sweepers => a # "api")
  BY Constants DEF Sessions, Actors
<1>2. target[a] \in Reviews \cup {NoReview}
  BY DEF TypeOK
<1>q. QED  BY <1>1, <1>2 DEF Released

\* A new row leaves the others alone.
LEMMA AddReviewRows ==
  ASSUME TypeOK, NEW v \in Reviews, NEW run, AddReview(v, run), NEW u \in Reviews
  PROVE  /\ born[u] > 0 => born'[u] > 0
         /\ u \in Rows => status'[u] = status[u]
<1>1. ~(born[v] > 0)
  BY DEF AddReview, Rows
<1>2. u # v => born'[u] = born[u] /\ status'[u] = status[u]
  BY DEF AddReview, TypeOK
<1>q. QED  BY <1>1, <1>2 DEF Rows

\* The steps outside of a decision that resumes.
LEMMA OtherStepResume ==
  ASSUME TypeOK, TypeOK', ResumeInv, NEW a \in Actors,
         \/ Refuse(a) \/ RunRaises(a) \/ SaveRun(a) \/ RecordContinuation(a)
         \/ (\E o \in Outcomes : EndRun(a, o))
  PROVE  ResumeInv'
<1> USE DEF rowVars, decisionVars, requestVars, runVars, bounds
<1>o. \A o \in Operators : todo[o] = {}
  BY DEF ResumeInv
<1>1. ASSUME Finish(a), UNCHANGED <<born, status, resumed>>, loaded' = Released(a, loaded)
      PROVE  ResumeInv'
  <2>1. \A v \in Reviews : loaded'["api"][v] \in {loaded["api"][v], None}
    BY <1>1, ReleasedApi DEF TypeOK
  <2>2. \A v \in Reviews : loaded["api"][v] # "pending" => loaded'["api"][v] # "pending"
    BY <2>1 DEF None
  <2>q. QED  BY <1>1, <2>2, FinishResume, ResumeFrame
<1>2. CASE Refuse(a) \/ RunRaises(a) \/ RecordContinuation(a)
  BY <1>1, <1>2 DEF Refuse, RunRaises, RecordContinuation
<1>3. CASE SaveRun(a)
  <2>1. CASE FlushFails(a, "audit", stored[target[a]][runId[a]] # None)
    BY <1>1, <1>3, <2>1 DEF SaveRun
  <2>2. CASE ~FlushFails(a, "audit", stored[target[a]][runId[a]] # None)
    <3>1. /\ pc[a] = "save" /\ pc' = [pc EXCEPT ![a] = "record"]
          /\ UNCHANGED <<born, status, loaded, target, choice, todo, resumed>>
      BY <1>3, <2>2 DEF SaveRun, Goto
    <3>2. \A o \in Operators :
            pc'[o] = pc[o] \/ (pc[o] # "idle" /\ pc'[o] = "record")
      BY <3>1 DEF TypeOK
    <3>q. QED  BY <1>o, <3>1, <3>2, ResumeFrame
  <2>q. QED  BY <2>1, <2>2
<1>4. ASSUME NEW r \in Outcomes, EndRun(a, r) PROVE ResumeInv'
  <2>1. /\ pc[a] = "running" /\ pc' = [pc EXCEPT ![a] = "save"]
        /\ UNCHANGED <<loaded, target, choice, todo, resumed>>
    BY <1>4 DEF EndRun, Goto
  <2>2. UNCHANGED <<born, status>> \/ \E v \in Reviews : AddReview(v, runOf(a))
    BY <1>4 DEF EndRun
  <2>3. \A v \in Reviews :
          /\ born[v] > 0 => born'[v] > 0
          /\ v \in Rows /\ status[v] \in Decided => status'[v] \in Decided
    BY <2>2, AddReviewRows
  <2>4. \A o \in Operators : pc'[o] = pc[o] \/ (pc[o] # "idle" /\ pc'[o] = "save")
    BY <2>1 DEF TypeOK
  <2>q. QED  BY <1>o, <2>1, <2>3, <2>4, ResumeFrame
<1>q. QED  BY <1>2, <1>3, <1>4

\* A decision that is not resumed by the API.
LEMMA DecideNoResume ==
  ASSUME TypeOK, TypeOK', ResumeInv, NEW a \in Actors, Decide(a),
         a \in Sweepers \/ choice[a] # "resume"
  PROVE  ResumeInv'
<1> DEFINE new == decision(choice[a])
           seen == [loaded EXCEPT ![session(a)][target[a]] = new]
<1>1. new \in Decided /\ new # "pending" /\ None # "pending" /\ new \in ReviewStatus \cup {None}
  BY DEF decision, Decided, ReviewStatus, None
<1>2. /\ status' = [status EXCEPT ![target[a]] = new] /\ UNCHANGED <<born, resumed>>
      /\ \/ choice[a] = "resume" /\ Goto(a, "run") /\ loaded' = seen /\ UNCHANGED <<requestVars, todo>>
         \/ choice[a] # "resume" /\ Finish(a) /\ loaded' = Released(a, seen)
  BY DEF Decide, runVars
<1> HIDE DEF new
<1>3. \A v \in Reviews : status[v] \in Decided => status'[v] \in Decided
  BY <1>1, <1>2 DEF TypeOK
<1>4. session(a) \in Sessions /\ "api" \in Sessions
  BY SessionType DEF Sessions
<1>5. /\ seen \in [Sessions -> [Reviews -> ReviewStatus \cup {None}]]
      /\ \A v \in Reviews : seen["api"][v] \in {loaded["api"][v], new}
  BY <1>1, <1>4 DEF TypeOK
<1> HIDE DEF seen
<1>6. \A v \in Reviews : loaded["api"][v] # "pending" => loaded'["api"][v] # "pending"
  <2>1. \A v \in Reviews : loaded'["api"][v] \in {seen["api"][v], None}
    BY <1>2, <1>5, ReleasedApi
  <2>q. QED  BY <1>1, <1>5, <2>1
<1>7. CASE choice[a] # "resume"
  BY <1>2, <1>3, <1>6, <1>7, FinishResume, ResumeFrame
<1>8. CASE choice[a] = "resume"
  <2>1. a \notin Operators /\ pc' = [pc EXCEPT ![a] = "run"] /\ UNCHANGED <<target, choice, todo>>
    BY <1>2, <1>8, Constants DEF Goto, requestVars
  <2>2. \A o \in Operators : pc'[o] = pc[o] /\ todo'[o] = {}
    BY <2>1 DEF TypeOK, Actors, ResumeInv
  <2>q. QED  BY <1>2, <1>3, <1>6, <2>1, <2>2, ResumeFrame
<1>q. QED  BY <1>7, <1>8

\* The API decides to resume: the review was not taken, and is now.
LEMMA DecideResume ==
  ASSUME TypeOK, TypeOK', ResumeInv, NEW a \in Operators, Decide(a), choice[a] = "resume"
  PROVE  ResumeInv'
<1>1. a \in Actors /\ session(a) = "api" /\ "api" \in Sessions /\ a \notin Sweepers
  BY Constants DEF Actors, session, Sessions
<1>2. /\ pc[a] = "decide" /\ pc' = [pc EXCEPT ![a] = "run"]
      /\ status' = [status EXCEPT ![target[a]] = "approved"]
      /\ loaded' = [loaded EXCEPT !["api"][target[a]] = "approved"]
      /\ UNCHANGED <<born, resumed, target, choice, todo>>
  BY <1>1 DEF Decide, decision, Goto, requestVars, runVars
<1>3. target[a] \in Rows /\ target[a] \in Reviews /\ ~Taken(target[a])
  BY <1>2 DEF ResumeInv, Rows
<1>4. \A o \in Operators : pc'[o] = IF o = a THEN "run" ELSE pc[o]
  BY <1>1, <1>2 DEF TypeOK, Actors
<1>5. Rows' = Rows
  BY <1>2 DEF Rows
<1>6. \A v \in Reviews : Taken(v)' => Taken(v) \/ v = target[a]
  BY <1>2, <1>4 DEF Taken
<1>7. \A o \in Operators : OnLoop(o)' => OnLoop(o) /\ o # a
  BY <1>2, <1>4 DEF OnLoop
<1>8. (\A v \in Reviews : Taken(v) =>
         v \in Rows /\ status[v] \in Decided /\ loaded["api"][v] # "pending")'
  <2>1. \A v \in Reviews :
          /\ status'[v] = IF v = target[a] THEN "approved" ELSE status[v]
          /\ loaded'["api"][v] = IF v = target[a] THEN "approved" ELSE loaded["api"][v]
    BY <1>1, <1>2 DEF TypeOK
  <2>2. "approved" \in Decided
    BY DEF Decided
  <2>q. QED  BY <1>3, <1>5, <1>6, <2>1, <2>2 DEF ResumeInv
<1>9. \A o \in Operators : ~(o # a /\ pc[o] = "decide" /\ choice[o] = "resume")
  <2>1. OnLoop(a)
    BY <1>2 DEF OnLoop
  <2>q. QED  BY <2>1 DEF ResumeInv, OnLoop
<1>10. resumed[target[a]]["operator"] = 0
  BY <1>3, Constants DEF Taken, TypeOK, Kinds
<1>11. \A o \in Operators : o # a /\ pc[o] = "run" => target[o] # target[a]
  BY <1>3 DEF Taken
<1>q. QED
  BY <1>2, <1>3, <1>4, <1>5, <1>7, <1>8, <1>9, <1>10, <1>11 DEF ResumeInv, ResumedOnce

\* The check of the API fails on a taken review.
LEMMA CheckResume ==
  ASSUME TypeOK, TypeOK', ResumeInv, NEW a \in Actors, CheckPending(a)
  PROVE  ResumeInv'
<1>1. /\ pc[a] = "check" /\ pc' = [pc EXCEPT ![a] = "decide"]
      /\ get(session(a), target[a]) = "pending"
      /\ UNCHANGED <<born, status, loaded, resumed, target, choice, todo>>
  BY DEF CheckPending, Refused, Goto, rowVars, decisionVars, requestVars, runVars
<1>o. \A o \in Operators : todo[o] = {}
  BY DEF ResumeInv
<1>2. CASE a \notin Operators
  <2>1. \A o \in Operators : pc'[o] = pc[o]
    BY <1>1, <1>2 DEF TypeOK, Actors
  <2>q. QED  BY <1>1, <1>o, <2>1, ResumeFrame
<1>3. CASE a \in Operators
  <2>1. \A o \in Operators : pc'[o] = IF o = a THEN "decide" ELSE pc[o]
    BY <1>1, <1>3 DEF TypeOK, Actors
  <2>2. target[a] \in Reviews /\ Rows' = Rows
    BY <1>1, <1>3 DEF ResumeInv, Rows
  <2>3. ~Taken(target[a])
    BY <1>1, <1>3, <2>2 DEF ResumeInv, get, session, Decided, None
  <2>4. \A v \in Reviews : Taken(v)' <=> Taken(v)
    BY <1>1, <2>1 DEF Taken
  <2>5. \A o \in Operators : OnLoop(o)' <=> OnLoop(o)
    BY <1>1, <2>1 DEF OnLoop
  <2>6. \A o \in Operators : pc[o] # "idle" => target[o] \in Reviews
    BY DEF ResumeInv, Rows
  <2>q. QED
    BY <1>1, <2>1, <2>2, <2>3, <2>4, <2>5, <2>6 DEF ResumeInv, ResumedOnce
<1>q. QED  BY <1>2, <1>3

\* The run starts: the one handler at "run" for the review becomes its one
\* resumption.
LEMMA BuildResume ==
  ASSUME TypeOK, TypeOK', ResumeInv, NEW a \in Actors, BuildContinuation(a)
  PROVE  ResumeInv'
<1>1. /\ pc[a] = "run" /\ pc' = [pc EXCEPT ![a] = "running"]
      /\ resumed' = [resumed EXCEPT ![target[a]][kind(a)] = @ + 1]
      /\ UNCHANGED <<born, status, loaded, target, choice, todo>>
  BY DEF BuildContinuation, Goto, rowVars, decisionVars, requestVars
<1>2. resumed \in [Reviews -> [Kinds -> Nat]] /\ "operator" \in Kinds
  BY DEF TypeOK, Kinds
<1>3. \A o \in Operators : pc'[o] = IF o = a THEN "running" ELSE pc[o]
  BY <1>1 DEF TypeOK, Actors
<1>4. CASE a \notin Operators
  <2>1. kind(a) = "system"
    BY <1>4 DEF kind, Actors
  <2>2. \A v \in Reviews : resumed'[v]["operator"] = resumed[v]["operator"]
    BY <1>1, <1>2, <2>1
  <2>3. \A o \in Operators : todo[o] = {}
    BY DEF ResumeInv
  <2>q. QED  BY <1>1, <1>3, <1>4, <2>2, <2>3, ResumeFrame
<1>5. CASE a \in Operators
  <2>1. kind(a) = "operator"
    BY <1>5, Constants DEF kind
  <2>2. target[a] \in Rows /\ target[a] \in Reviews /\ resumed[target[a]]["operator"] = 0
    BY <1>1, <1>5 DEF ResumeInv, Rows
  <2>3. \A v \in Reviews :
          resumed'[v]["operator"] = IF v = target[a] THEN 1 ELSE resumed[v]["operator"]
    BY <1>1, <1>2, <2>1, <2>2
  <2>4. Taken(target[a]) /\ \A v \in Reviews : Taken(v)' => Taken(v)
    BY <1>1, <1>3, <1>5, <2>3 DEF Taken
  <2>5. \A o \in Operators : OnLoop(o)' => OnLoop(o)
    BY <1>1, <1>3 DEF OnLoop
  <2>6. \A o \in Operators : pc[o] # "idle" => target[o] \in Reviews
    BY DEF ResumeInv, Rows
  <2>7. \A o \in Operators : o # a /\ pc[o] = "run" => target[o] # target[a]
    BY <1>1, <1>5 DEF ResumeInv
  <2>8. Rows' = Rows
    BY <1>1 DEF Rows
  <2>q. QED
    BY <1>1, <1>3, <2>2, <2>3, <2>4, <2>5, <2>6, <2>7, <2>8 DEF ResumeInv, ResumedOnce
<1>q. QED  BY <1>4, <1>5

\* A request is opened: beside no other on the event loop, unless it rejects.
LEMMA OpenResume ==
  ASSUME TypeOK, TypeOK', ResumeInv, NEW o \in Operators, NEW v \in Reviews,
         NEW c \in Choices, NEW i \in RunIds, OpenRequest(o, v, c, i)
  PROVE  ResumeInv'
<1>1. /\ pc[o] = "idle" /\ pc' = [pc EXCEPT ![o] = "check"] /\ v \in Rows
      /\ target' = [target EXCEPT ![o] = v] /\ choice' = [choice EXCEPT ![o] = c]
      /\ loaded' = [loaded EXCEPT !["api"][v] = get("api", v)]
      /\ c # "reject" => \A p \in Operators : ~OnLoop(p)
      /\ UNCHANGED <<born, status, resumed, todo>>
  BY DEF OpenRequest, Goto, rowVars, decisionVars, runVars
<1>2. /\ \A p \in Operators : p # o =>
           pc'[p] = pc[p] /\ target'[p] = target[p] /\ choice'[p] = choice[p]
      /\ pc'[o] = "check" /\ target'[o] = v /\ choice'[o] = c
  BY <1>1 DEF TypeOK, Actors
<1>3. \A u \in Reviews :
        loaded'["api"][u] = IF u = v THEN get("api", v) ELSE loaded["api"][u]
  BY <1>1 DEF TypeOK, Sessions
<1>4. Rows' = Rows
  BY <1>1 DEF Rows
<1>5. \A u \in Reviews : Taken(u)' => Taken(u)
  BY <1>1, <1>2 DEF Taken
<1>6. (\A u \in Reviews : Taken(u) =>
         u \in Rows /\ status[u] \in Decided /\ loaded["api"][u] # "pending")'
  BY <1>1, <1>3, <1>4, <1>5 DEF ResumeInv, get, Decided
<1>7. \A p \in Operators : OnLoop(p)' => OnLoop(p) \/ (p = o /\ c # "reject")
  BY <1>2 DEF OnLoop
<1>8. \A p \in Operators : pc[p] # "idle" => target[p] \in Reviews
  BY DEF ResumeInv, Rows
<1>q. QED
  BY <1>1, <1>2, <1>4, <1>5, <1>6, <1>7, <1>8 DEF ResumeInv, ResumedOnce

\* Rows, sweeps and crashes.
LEMMA OutsideResume ==
  ASSUME TypeOK, TypeOK', ResumeInv,
         \/ \E v \in Reviews : CreateFromState(v) \/ GrowOld(v)
         \/ \E s \in Sweepers : Sweep(s) \/ Crash(s)
         \/ UNCHANGED vars
  PROVE  ResumeInv'
<1> USE DEF rowVars, decisionVars, requestVars, actorVars, runVars, bounds
<1>o. \A o \in Operators : todo[o] = {}
  BY DEF ResumeInv
<1>1. ASSUME NEW v \in Reviews, CreateFromState(v) PROVE ResumeInv'
  <2>1. AddReview(v, Original) /\ UNCHANGED <<loaded, pc, target, choice, todo, resumed>>
    BY <1>1 DEF CreateFromState
  <2>2. \A u \in Reviews :
          /\ born[u] > 0 => born'[u] > 0
          /\ u \in Rows => status'[u] = status[u]
    BY <2>1, AddReviewRows
  <2>q. QED  BY <1>o, <2>1, <2>2, ResumeFrame
<1>2. ASSUME NEW v \in Reviews, GrowOld(v) PROVE ResumeInv'
  BY <1>2, <1>o, ResumeFrame DEF GrowOld
<1>3. ASSUME NEW s \in Sweepers, Sweep(s) \/ Crash(s) PROVE ResumeInv'
  <2>1. UNCHANGED <<born, status, resumed>>
    BY <1>3 DEF Sweep, Crash
  <2>2. /\ \A o \in Operators : /\ pc'[o] = pc[o] /\ target'[o] = target[o]
                                /\ choice'[o] = choice[o] /\ todo'[o] = todo[o]
        /\ loaded'["api"] = loaded["api"]
    BY <1>3, Constants DEF Sweep, Crash, TypeOK, Goto, Actors, Sessions
  <2>q. QED  BY <1>o, <2>1, <2>2, ResumeFrame
<1>4. CASE UNCHANGED vars
  BY <1>4, <1>o, ResumeFrame DEF vars
<1>q. QED  BY <1>1, <1>2, <1>3, <1>4

\* The API resumes a review at most once (see ResumedOnce), with any number of
\* concurrent requests, rejections in threads, sweeps and crashes.
THEOREM ResumedAtMostOnce == Spec => []ResumedOnce
<1>1. Init => ResumeInv
  <2> SUFFICES ASSUME Init PROVE ResumeInv
    OBVIOUS
  <2>1. \A v \in Reviews : resumed[v]["operator"] = 0
    BY DEF Init, Kinds
  <2>2. \A o \in Operators : pc[o] = "idle" /\ todo[o] = {}
    BY DEF Init, Actors
  <2>q. QED  BY <2>1, <2>2 DEF ResumeInv, ResumedOnce, Taken, OnLoop
<1>2. TypeOK /\ TypeOK' /\ ResumeInv /\ [Next]_vars => ResumeInv'
  <2> SUFFICES ASSUME TypeOK, TypeOK', ResumeInv, [Next]_vars PROVE ResumeInv'
    OBVIOUS
  <2>1. ASSUME NEW a \in Actors, Decide(a) PROVE ResumeInv'
    BY <2>1, DecideResume, DecideNoResume DEF Actors
  <2>2. ASSUME NEW a \in Actors, Step(a) PROVE ResumeInv'
    BY <2>1, <2>2, OtherStepResume, CheckResume, BuildResume DEF Step
  <2>q. QED  BY <2>2, OpenResume, OutsideResume DEF Next
<1>3. ResumeInv => ResumedOnce
  BY DEF ResumeInv
<1>q. QED
  BY <1>1, <1>2, <1>3, TypeCorrect, PTL DEF Spec

=============================================================================
