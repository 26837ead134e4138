---------------------- MODULE WorkerSupervision_proofs ----------------------
(***************************************************************************)
(* Proofs about WorkerSupervision, for every number of workers and         *)
(* messages and all thresholds.                                            *)
(***************************************************************************)
EXTENDS WorkerSupervision, TLAPS

-----------------------------------------------------------------------------
(* Type correctness.                                                       *)

\* What the assumption says of each constant.
LEMMA Constants ==
  /\ NoWorker \notin Workers /\ NoMessage \notin Messages
  /\ AutoRecover \subseteq BOOLEAN
  /\ StaleAfter \in Nat /\ StaleAfter > 0
  /\ StallAfter \in Nat /\ StallAfter > 0
  /\ VisibilityTimeout \in Nat /\ VisibilityTimeout > 0
  /\ MaxSpawnAttempts \in Nat /\ MaxSpawnAttempts > 0
  /\ MaxFaults \in Nat /\ MaxWedges \in Nat /\ MaxOutages \in Nat
BY SupervisionAssumption

\* The initial state is typed.
LEMMA InitType == Init => TypeOK
<1> SUFFICES ASSUME Init PROVE TypeOK
  OBVIOUS
<1>1. beat \in [Workers -> 0..NoKey]
  <2>1. 0 \in 0..NoKey /\ NoKey \in 0..NoKey
    BY Constants DEF NoKey
  <2> QED
    BY <2>1 DEF Init
<1>2. process \in [Workers -> {"off", "starting", "idle", "busy", "wedged"}]
  BY DEF Init
<1>3. /\ reachable \in BOOLEAN /\ live \in BOOLEAN /\ stall_detected \in BOOLEAN
      /\ worker_auto_recover \in BOOLEAN
  BY Constants, Zenon DEF Init
<1>4. /\ age \in [Messages -> 0..(VisibilityTimeout + 1)]
      /\ stall_since \in NoStall..StallAfter
      /\ spawn_attempts \in 0..MaxSpawnAttempts
      /\ newborn \in SUBSET Up /\ spawned \in Nat
      /\ faults \in 0..MaxFaults /\ wedges \in 0..MaxWedges /\ outages \in 0..MaxOutages
  BY Constants DEF Init, NoStall, NotTaken
<1>5. /\ task \in [Workers -> Messages \cup {NoMessage}]
      /\ queue \in [Messages -> {"none", "ready", "unacked", "done"}]
      /\ delivery \in [Messages -> Workers \cup {NoWorker}]
      /\ phase \in {"wait", "read", "backlog", "react"}
  BY DEF Init
<1> QED
  BY <1>1, <1>2, <1>3, <1>4, <1>5 DEF TypeOK

\* The broker's steps keep the types.
LEMMA BrokerStepType ==
  ASSUME TypeOK, (\E m \in Messages : Submit(m)) \/ LoseBroker \/ RegainBroker
  PROVE  TypeOK'
<1> USE Constants DEF TypeOK, NoStall, NoKey, NotTaken, Up, workerVars, messageVars,
      summaryVars, watchdogVars, bounds
<1>1. CASE \E m \in Messages : Submit(m)
  BY <1>1 DEF Submit
<1>2. CASE LoseBroker \/ RegainBroker
  <2>1. outages' \in 0..MaxOutages
    BY <1>2 DEF LoseBroker, RegainBroker
  <2>2. reachable' \in BOOLEAN
    BY <1>2, Zenon DEF LoseBroker, RegainBroker
  <2> QED
    BY <1>2, <2>1, <2>2 DEF LoseBroker, RegainBroker
<1> QED
  BY <1>1, <1>2

\* Workers that start, die, finish or get stuck keep the types.
LEMMA WorkerStepType ==
  ASSUME TypeOK, NEW w \in Workers,
         WorkerReady(w) \/ Crash(w) \/ Shutdown(w) \/ Finish(w) \/ Wedge(w)
  PROVE  TypeOK'
<1> USE Constants DEF TypeOK, NoStall, NoKey, NotTaken, Up, workerVars, messageVars,
      summaryVars, watchdogVars, bounds
<1>1. CASE WorkerReady(w)
  BY <1>1 DEF WorkerReady
<1>2. CASE Crash(w) \/ Shutdown(w)
  <2>1. Die(w, {"starting", "idle", "busy", "wedged"}) \/ Die(w, {"idle"})
    BY <1>2 DEF Crash, Shutdown
  <2>2. beat' \in [Workers -> 0..NoKey]
    BY <1>2 DEF Crash, Shutdown
  <2>3. faults' \in 0..MaxFaults
    BY <2>1 DEF Die
  <2>4. newborn' \in SUBSET Up'
    BY <2>1 DEF Die
  <2> QED
    BY <2>1, <2>2, <2>3, <2>4 DEF Die
<1>3. CASE Finish(w)
  BY <1>3 DEF Finish
<1>4. CASE Wedge(w)
  BY <1>4 DEF Wedge
<1> QED
  BY <1>1, <1>2, <1>3, <1>4

\* Taking and restoring a message keeps the types.
LEMMA DeliveryStepType ==
  ASSUME TypeOK, NEW w \in Workers, NEW m \in Messages, Take(w, m) \/ Restore(w, m)
  PROVE  TypeOK'
<1> USE Constants DEF TypeOK, NoStall, NoKey, NotTaken, Up, workerVars, messageVars,
      summaryVars, watchdogVars, bounds
<1>1. CASE Take(w, m)
  BY <1>1 DEF Take
<1>2. CASE Restore(w, m)
  BY <1>2 DEF Restore
<1> QED
  BY <1>1, <1>2

\* Time and the watchdog keep the types.
LEMMA WatchdogStepType ==
  ASSUME TypeOK, Tick \/ Check
  PROVE  TypeOK'
<1> USE Constants DEF TypeOK, NoStall, NoKey, NotTaken, Up, workerVars, messageVars,
      summaryVars, watchdogVars, bounds
<1>1. CASE Tick
  BY <1>1 DEF Tick, Beating, Capped
<1>2. CASE ReadHeartbeats
  BY <1>2 DEF ReadHeartbeats
<1>3. CASE SnapshotBacklog
  BY <1>3 DEF SnapshotBacklog
<1>4. CASE SeeWorker \/ SeeNoStall \/ OpenWindow \/ WaitWindow \/ ReportOnly
  BY <1>4 DEF SeeWorker, SeeNoStall, OpenWindow, WaitWindow, ReportOnly, Recover, React
<1>5. CASE \E w \in Workers : SpawnWorker(w)
  <2>1. PICK w \in Workers : SpawnWorker(w)
    BY <1>5
  <2> QED
    BY <2>1 DEF SpawnWorker, Attempt, Recover, React
<1>6. CASE SpawnFails
  BY <1>6 DEF SpawnFails, Attempt, Recover, React
<1> QED
  BY <1>1, <1>2, <1>3, <1>4, <1>5, <1>6 DEF Check

\* Every variable keeps its type.
THEOREM TypeCorrect == Spec => []TypeOK
<1>1. Init => TypeOK
  BY InitType
<1>2. TypeOK /\ [Next]_vars => TypeOK'
  <2> SUFFICES ASSUME TypeOK, [Next]_vars PROVE TypeOK'
    OBVIOUS
  <2>1. CASE UNCHANGED vars
    BY <2>1 DEF vars, workerVars, messageVars, summaryVars, watchdogVars, bounds, TypeOK, Up
  <2>2. CASE Tick \/ Check
    BY <2>2, WatchdogStepType
  <2>3. CASE (\E m \in Messages : Submit(m)) \/ LoseBroker \/ RegainBroker
    BY <2>3, BrokerStepType
  <2> QED
    BY <2>1, <2>2, <2>3, WorkerStepType, DeliveryStepType DEF Next
<1> QED
  BY <1>1, <1>2, PTL DEF Spec

-----------------------------------------------------------------------------
(* The bound on workers started.                                           *)

\* Every start is one of the attempts that count.
SpawnInv == TypeOK /\ spawned <= spawn_attempts

\* Workers, messages, time and the two reads leave the count alone; a start
\* is counted as an attempt, and the sight of a worker clears both.
LEMMA SpawnStep == SpawnInv /\ [Next]_vars => (spawned <= spawn_attempts)'
<1> SUFFICES ASSUME SpawnInv, [Next]_vars PROVE (spawned <= spawn_attempts)'
  OBVIOUS
<1> USE DEF SpawnInv
<1>1. CASE UNCHANGED <<spawned, spawn_attempts>>
  BY <1>1
<1>2. CASE SeeWorker
  BY <1>2 DEF SeeWorker
<1>3. CASE \E w \in Workers : SpawnWorker(w)
  BY <1>3 DEF SpawnWorker, Attempt, TypeOK
<1>4. CASE SpawnFails
  BY <1>4 DEF SpawnFails, Attempt, TypeOK
<1>5. CASE SeeNoStall \/ OpenWindow \/ WaitWindow \/ ReportOnly
           \/ ReadHeartbeats \/ SnapshotBacklog \/ Tick
  BY <1>5, <1>1 DEF SeeNoStall, OpenWindow, WaitWindow, ReportOnly, ReadHeartbeats,
    SnapshotBacklog, Tick
<1>6. CASE (\E m \in Messages : Submit(m)) \/ LoseBroker \/ RegainBroker
  BY <1>6, <1>1 DEF Submit, LoseBroker, RegainBroker, watchdogVars
<1>7. ASSUME NEW w \in Workers,
             \/ WorkerReady(w) \/ Crash(w) \/ Shutdown(w) \/ Finish(w) \/ Wedge(w)
             \/ \E m \in Messages : Take(w, m) \/ Restore(w, m)
      PROVE  UNCHANGED <<spawned, spawn_attempts>>
  BY <1>7 DEF WorkerReady, Crash, Shutdown, Die, Finish, Wedge, Take, Restore, watchdogVars
<1>8. CASE UNCHANGED vars
  BY <1>8, <1>1 DEF vars, watchdogVars
<1> QED
  BY <1>1, <1>2, <1>3, <1>4, <1>5, <1>6, <1>7, <1>8 DEF Next, Check

\* The watchdog starts at most _MAX_SPAWN_ATTEMPTS workers between two sights
\* of a live one.
THEOREM Bounded == Spec => []SpawnsBounded
<1>1. Init => spawned <= spawn_attempts
  BY DEF Init
<1>2. TypeOK /\ spawned <= spawn_attempts /\ [Next]_vars => (spawned <= spawn_attempts)'
  BY SpawnStep DEF SpawnInv
<1>3. TypeOK /\ spawned <= spawn_attempts => SpawnsBounded
  BY Constants DEF TypeOK, SpawnsBounded
<1> QED
  BY <1>1, <1>2, <1>3, TypeCorrect, PTL DEF Spec

-----------------------------------------------------------------------------
(* No worker is started beside a live one.                                 *)

\* With a broker that always answers, a worker that is up has just beaten,
\* and what the watchdog read of the keys is out of date only for workers
\* that became ready since.
Beaten ==
  /\ reachable
  /\ \A w \in Up : beat[w] = 0
  /\ phase \in {"backlog", "react"} /\ ~live => Up \subseteq newborn
  /\ phase = "react" /\ stall_detected => ~live

BeatInv == outages = 0 => Beaten

\* The steps of workers: only one that becomes ready is added to those up.
LEMMA WorkerStepBeat ==
  ASSUME TypeOK, Beaten, NEW w \in Workers,
         \/ WorkerReady(w) \/ Crash(w) \/ Shutdown(w) \/ Finish(w) \/ Wedge(w)
         \/ \E m \in Messages : Take(w, m) \/ Restore(w, m)
  PROVE  Beaten'
<1> USE DEF Beaten, TypeOK, Up, workerVars, messageVars, summaryVars, watchdogVars, bounds
<1>1. CASE WorkerReady(w)
  <2>1. Up' \subseteq Up \cup {w} /\ newborn' = newborn \cup {w}
    BY <1>1 DEF WorkerReady
  <2>2. \A v \in Up' : beat'[v] = 0
    BY <1>1 DEF WorkerReady
  <2> QED
    BY <1>1, <2>1, <2>2 DEF WorkerReady
<1>2. CASE Crash(w) \/ Shutdown(w)
  <2>1. Up' \subseteq Up \ {w} /\ newborn' = newborn \ {w}
    BY <1>2 DEF Crash, Shutdown, Die
  <2>2. \A v \in Up' : beat'[v] = 0
    BY <1>2, <2>1 DEF Crash, Shutdown
  <2>3. UNCHANGED <<reachable, phase, live, stall_detected>>
    BY <1>2 DEF Crash, Shutdown, Die
  <2> QED
    BY <2>1, <2>2, <2>3
<1>3. CASE Finish(w) \/ Wedge(w) \/ \E m \in Messages : Take(w, m) \/ Restore(w, m)
  <2>1. Up' = Up
    <3>1. process' \in [Workers -> {"off", "starting", "idle", "busy", "wedged"}]
          /\ \A v \in Workers \ {w} : process'[v] = process[v]
      BY <1>3 DEF Finish, Wedge, Take, Restore
    <3>2. (w \in Up /\ w \in Up') \/ process' = process
      BY <1>3 DEF Finish, Wedge, Take, Restore
    <3> QED
      BY <3>1, <3>2
  <2>2. UNCHANGED <<reachable, phase, live, stall_detected, beat, newborn>>
    BY <1>3 DEF Finish, Wedge, Take, Restore
  <2> QED
    BY <2>1, <2>2
<1> QED
  BY <1>1, <1>2, <1>3

\* Time and the watchdog: a beat is renewed, and keys of workers that are up
\* are never stale when they are read.
LEMMA WatchdogStepBeat ==
  ASSUME TypeOK, Beaten, Tick \/ Check
  PROVE  Beaten'
<1> USE DEF Beaten, TypeOK, Up, workerVars, messageVars, summaryVars, watchdogVars, bounds
<1>1. CASE Tick
  BY <1>1 DEF Tick, Beating
<1>2. CASE ReadHeartbeats
  <2>1. ~live' => Up = {}
    <3>1. ~live' => \A w \in Workers : is_stale(w)
      BY <1>2, Zenon DEF ReadHeartbeats
    <3>2. \A w \in Up : ~is_stale(w)
      BY Constants DEF is_stale
    <3> QED
      BY <3>1, <3>2
  <2> QED
    BY <1>2, <2>1 DEF ReadHeartbeats
<1>3. CASE SnapshotBacklog
  BY <1>3 DEF SnapshotBacklog
<1>4. CASE SeeWorker \/ SeeNoStall \/ OpenWindow \/ WaitWindow \/ ReportOnly \/ SpawnFails
  BY <1>4 DEF SeeWorker, SeeNoStall, OpenWindow, WaitWindow, ReportOnly, SpawnFails,
    Attempt, Recover, React
<1>5. CASE \E w \in Workers : SpawnWorker(w)
  BY <1>5 DEF SpawnWorker, Attempt, Recover, React
<1> QED
  BY <1>1, <1>2, <1>3, <1>4, <1>5 DEF Check

\* Only the loss of the broker counts as an outage.
LEMMA OutageStep ==
  ASSUME TypeOK, [Next]_vars
  PROVE  LoseBroker \/ UNCHANGED outages
<1>1. CASE Tick \/ Check
  BY <1>1 DEF Tick, Check, ReadHeartbeats, SnapshotBacklog, SeeWorker, SeeNoStall, OpenWindow,
    WaitWindow, ReportOnly, SpawnWorker, SpawnFails, Attempt, Recover, React, bounds
<1>2. CASE (\E m \in Messages : Submit(m)) \/ RegainBroker
  BY <1>2 DEF Submit, RegainBroker, bounds
<1>3. ASSUME NEW w \in Workers,
             \/ WorkerReady(w) \/ Crash(w) \/ Shutdown(w) \/ Finish(w) \/ Wedge(w)
             \/ \E m \in Messages : Take(w, m) \/ Restore(w, m)
      PROVE  UNCHANGED outages
  BY <1>3 DEF WorkerReady, Crash, Shutdown, Die, Finish, Wedge, Take, Restore, bounds
<1>4. CASE UNCHANGED vars
  BY <1>4 DEF vars, bounds
<1> QED
  BY <1>1, <1>2, <1>3, <1>4 DEF Next

\* As long as there was no outage, Beaten holds.
LEMMA BeatStep ==
  ASSUME TypeOK, BeatInv, [Next]_vars
  PROVE  BeatInv'
<1>1. CASE LoseBroker
  BY <1>1 DEF LoseBroker, BeatInv, TypeOK
<1>2. CASE outages # 0 /\ UNCHANGED outages
  BY <1>2 DEF BeatInv
<1>3. CASE outages = 0 /\ UNCHANGED outages
  <2>1. Beaten
    BY <1>3 DEF BeatInv
  <2>2. CASE UNCHANGED vars
    BY <2>1, <2>2 DEF vars, workerVars, summaryVars, watchdogVars, BeatInv, Beaten, Up
  <2>3. CASE \E m \in Messages : Submit(m)
    BY <2>1, <2>3 DEF Submit, workerVars, summaryVars, watchdogVars, BeatInv, Beaten, Up
  <2>4. CASE LoseBroker \/ RegainBroker
    BY <2>1, <1>1, <2>4 DEF RegainBroker, Beaten
  <2> QED
    BY <2>1, <2>2, <2>3, <2>4, WorkerStepBeat, WatchdogStepBeat DEF Next, BeatInv
<1> QED
  BY <1>1, <1>2, <1>3, OutageStep

\* Only the two attempts raise spawn_attempts, and they act on a reading in
\* which no worker was up.
LEMMA AttemptStep ==
  ASSUME TypeOK, BeatInv, [Next]_vars, outages = 0, spawn_attempts' > spawn_attempts
  PROVE  Up \subseteq newborn
<1>1. CASE Attempt
  BY <1>1 DEF Attempt, Recover, React, BeatInv, Beaten
<1>2. CASE UNCHANGED spawn_attempts
  BY <1>2 DEF TypeOK
<1>3. CASE SeeWorker
  BY <1>3 DEF SeeWorker, TypeOK
<1>4. ASSUME NEW w \in Workers,
             \/ WorkerReady(w) \/ Crash(w) \/ Shutdown(w) \/ Finish(w) \/ Wedge(w)
             \/ \E m \in Messages : Take(w, m) \/ Restore(w, m)
      PROVE  UNCHANGED spawn_attempts
  BY <1>4 DEF WorkerReady, Crash, Shutdown, Die, Finish, Wedge, Take, Restore, watchdogVars
<1>5. CASE SeeNoStall \/ OpenWindow \/ WaitWindow \/ ReportOnly
           \/ ReadHeartbeats \/ SnapshotBacklog \/ Tick
  BY <1>5, <1>2 DEF SeeNoStall, OpenWindow, WaitWindow, ReportOnly, ReadHeartbeats,
    SnapshotBacklog, Tick
<1>6. CASE (\E m \in Messages : Submit(m)) \/ LoseBroker \/ RegainBroker
  BY <1>6, <1>2 DEF Submit, LoseBroker, RegainBroker, watchdogVars
<1>7. CASE (\E w \in Workers : SpawnWorker(w)) \/ SpawnFails
  BY <1>7, <1>1 DEF SpawnWorker, SpawnFails
<1>8. CASE UNCHANGED vars
  BY <1>8, <1>2 DEF vars, watchdogVars
<1> QED
  BY <1>1, <1>2, <1>3, <1>4, <1>5, <1>6, <1>7, <1>8 DEF Next, Check

\* While the broker answers, no worker is started beside one that is up.
THEOREM NoSpawnBeside == Spec => NoSpawnBesideWorker
<1>1. Init => BeatInv
  BY DEF Init, BeatInv, Beaten, Up
<1>2. TypeOK /\ BeatInv /\ [Next]_vars => BeatInv'
  BY BeatStep
<1>3. TypeOK /\ BeatInv /\ [Next]_vars
        => [outages = 0 /\ spawn_attempts' > spawn_attempts => Up \subseteq newborn]_vars
  BY AttemptStep
<1> QED
  BY <1>1, <1>2, <1>3, TypeCorrect, PTL DEF Spec, NoSpawnBesideWorker

=============================================================================
