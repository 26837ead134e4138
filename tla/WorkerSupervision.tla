------------------------- MODULE WorkerSupervision -------------------------
(***************************************************************************)
(* Supervision of the Celery workers.                                      *)
(*                                                                         *)
(* A thread of every worker writes a heartbeat key with a time to live     *)
(* into the broker's Redis.  The watchdog of the API process reads the     *)
(* keys, then the depth of the queue, and starts a worker when messages    *)
(* wait and nobody has beaten for a whole stall window.  A message a dead  *)
(* worker took stays unacknowledged until a live, idle worker restores it  *)
(* after the visibility timeout: on the solo pool a task blocks the event  *)
(* loop that would.                                                        *)
(*                                                                         *)
(* Time is counted in intervals of the watchdog.  Every thread that beats  *)
(* does so at least once per interval (30 s against 60 s).                 *)
(***************************************************************************)
EXTENDS Integers, FiniteSets

CONSTANTS
  Workers,            \* slots for worker processes
  Messages,
  NoWorker, NoMessage,
  AutoRecover,        \* settings worker_auto_recover may have
  StaleAfter,         \* worker_heartbeat_stale_seconds
  StallAfter,         \* queue_stall_seconds
  VisibilityTimeout,  \* visibility_timeout_seconds
  SlowTasks,          \* whether a task may outlast the visibility timeout
  MaxSpawnAttempts,   \* _MAX_SPAWN_ATTEMPTS
  MaxFaults,          \* bound: workers that die, stop or fail to start
  MaxWedges,          \* bound: tasks that never return
  MaxOutages          \* bound: times the broker is out of reach

ASSUME SupervisionAssumption ==
  /\ NoWorker \notin Workers /\ NoMessage \notin Messages
  /\ AutoRecover \subseteq BOOLEAN /\ SlowTasks \in BOOLEAN
  /\ {StaleAfter, StallAfter, VisibilityTimeout, MaxSpawnAttempts} \subseteq Nat \ {0}
  /\ {MaxFaults, MaxWedges, MaxOutages} \subseteq Nat

VARIABLES
  process, task,          \* worker processes and what each executes
  beat,                   \* age of the heartbeat keys
  queue, delivery, age,   \* messages, who took them, and how long ago
  reachable,              \* the broker answers
  phase,                  \* where the watchdog is
  live, stall_detected,   \* WorkerHealthSummary
  stall_since,            \* age of the stall window
  spawn_attempts,
  worker_auto_recover,
  newborn,                \* workers that became ready since the keys were read
  spawned,                \* workers started since a live one was seen
  faults, wedges, outages

workerVars == <<process, task>>
messageVars == <<queue, delivery, age>>
summaryVars == <<live, stall_detected>>
watchdogVars == <<phase, summaryVars, stall_since, spawn_attempts, spawned>>
bounds == <<faults, wedges, outages>>
vars == <<workerVars, beat, messageVars, reachable, watchdogVars,
          worker_auto_recover, newborn, bounds>>

NoStall == -1
NoKey == StaleAfter + 2
NotTaken == 0

Init ==
  /\ process \in [Workers -> {"off", "idle"}]
  /\ task = [w \in Workers |-> NoMessage]
  /\ beat = [w \in Workers |-> IF process[w] = "idle" THEN 0 ELSE NoKey]
  /\ queue = [m \in Messages |-> "none"]
  /\ delivery = [m \in Messages |-> NoWorker]
  /\ age = [m \in Messages |-> NotTaken]
  /\ reachable = TRUE
  /\ phase = "wait"
  /\ live = FALSE
  /\ stall_detected = FALSE
  /\ stall_since = NoStall
  /\ spawn_attempts = 0
  /\ worker_auto_recover \in AutoRecover
  /\ newborn = {}
  /\ spawned = 0
  /\ faults = 0
  /\ wedges = 0
  /\ outages = 0

Up == {w \in Workers : process[w] \in {"idle", "busy", "wedged"}}

\* Wrong on purpose: the thread that executes tasks writes the heartbeat.
Beating_TaskThread == {w \in Workers : process[w] = "idle"}

\* The heartbeat has a thread of its own, whatever the worker executes.
Beating == Up

Capped(n, limit) == IF n > limit THEN limit ELSE n

\* The configuration demands that a task ends before its message is restored.
TimePasses ==
  \A w \in Workers :
    process[w] = "busy" /\ ~SlowTasks => age[task[w]] < VisibilityTimeout - 1

\* One interval passes: beats, ages, and the next check of the watchdog.
Tick ==
  /\ TimePasses
  /\ phase = "wait"
  /\ phase' = "read"
  /\ beat' = [w \in Workers |->
       IF w \in Beating /\ reachable THEN 0 ELSE Capped(beat[w] + 1, NoKey)]
  /\ age' = [m \in Messages |->
       IF queue[m] = "unacked" THEN Capped(age[m] + 1, VisibilityTimeout + 1) ELSE age[m]]
  /\ stall_since' =
       IF stall_since = NoStall THEN NoStall ELSE Capped(stall_since + 1, StallAfter)
  /\ UNCHANGED <<workerVars, queue, delivery, reachable, summaryVars, spawn_attempts,
                 spawned, worker_auto_recover, newborn, bounds>>

-----------------------------------------------------------------------------
(* Workers and the broker.                                                 *)

Submit(m) ==
  /\ reachable
  /\ queue[m] = "none"
  /\ queue' = [queue EXCEPT ![m] = "ready"]
  /\ UNCHANGED <<workerVars, beat, delivery, age, reachable, watchdogVars,
                 worker_auto_recover, newborn, bounds>>

\* worker_ready starts the heartbeat thread, which beats at once.
WorkerReady(w) ==
  /\ process[w] = "starting"
  /\ process' = [process EXCEPT ![w] = "idle"]
  /\ beat' = [beat EXCEPT ![w] = IF reachable THEN 0 ELSE @]
  /\ newborn' = newborn \cup {w}
  /\ UNCHANGED <<task, messageVars, reachable, watchdogVars, worker_auto_recover, bounds>>

Die(w, states) ==
  /\ faults < MaxFaults
  /\ process[w] \in states
  /\ faults' = faults + 1
  /\ process' = [process EXCEPT ![w] = "off"]
  /\ task' = [task EXCEPT ![w] = NoMessage]
  /\ newborn' = newborn \ {w}
  /\ UNCHANGED <<messageVars, reachable, watchdogVars, worker_auto_recover, wedges, outages>>

\* A worker that dies, or never gets ready, leaves its key to expire.
Crash(w) ==
  /\ Die(w, {"starting", "idle", "busy", "wedged"})
  /\ UNCHANGED beat

\* worker_shutting_down removes the key, unless the broker is out of reach.
Shutdown(w) ==
  /\ Die(w, {"idle"})
  /\ beat' = [beat EXCEPT ![w] = IF reachable THEN NoKey ELSE @]

Take(w, m) ==
  /\ reachable
  /\ process[w] = "idle"
  /\ queue[m] = "ready"
  /\ process' = [process EXCEPT ![w] = "busy"]
  /\ task' = [task EXCEPT ![w] = m]
  /\ queue' = [queue EXCEPT ![m] = "unacked"]
  /\ delivery' = [delivery EXCEPT ![m] = w]
  /\ age' = [age EXCEPT ![m] = 0]
  /\ UNCHANGED <<beat, reachable, watchdogVars, worker_auto_recover, newborn, bounds>>

\* The late acknowledgement: it finds nothing if the message was restored.
Finish(w) ==
  LET m == task[w] IN
  /\ reachable
  /\ process[w] = "busy"
  /\ process' = [process EXCEPT ![w] = "idle"]
  /\ task' = [task EXCEPT ![w] = NoMessage]
  /\ IF queue[m] = "unacked" /\ delivery[m] = w
     THEN /\ queue' = [queue EXCEPT ![m] = "done"]
          /\ delivery' = [delivery EXCEPT ![m] = NoWorker]
          /\ age' = [age EXCEPT ![m] = NotTaken]
     ELSE UNCHANGED messageVars
  /\ UNCHANGED <<beat, reachable, watchdogVars, worker_auto_recover, newborn, bounds>>

\* The task never returns.
Wedge(w) ==
  /\ wedges < MaxWedges
  /\ process[w] = "busy"
  /\ process' = [process EXCEPT ![w] = "wedged"]
  /\ wedges' = wedges + 1
  /\ UNCHANGED <<task, beat, messageVars, reachable, watchdogVars, worker_auto_recover,
                 newborn, faults, outages>>

\* The restore sweep of a worker whose event loop is free.
Restore(w, m) ==
  /\ reachable
  /\ process[w] = "idle"
  /\ queue[m] = "unacked"
  /\ age[m] >= VisibilityTimeout
  /\ queue' = [queue EXCEPT ![m] = "ready"]
  /\ delivery' = [delivery EXCEPT ![m] = NoWorker]
  /\ age' = [age EXCEPT ![m] = NotTaken]
  /\ UNCHANGED <<workerVars, beat, reachable, watchdogVars, worker_auto_recover,
                 newborn, bounds>>

LoseBroker ==
  /\ reachable
  /\ outages < MaxOutages
  /\ reachable' = FALSE
  /\ outages' = outages + 1
  /\ UNCHANGED <<workerVars, beat, messageVars, watchdogVars, worker_auto_recover,
                 newborn, faults, wedges>>

RegainBroker ==
  /\ ~reachable
  /\ reachable' = TRUE
  /\ UNCHANGED <<workerVars, beat, messageVars, watchdogVars, worker_auto_recover,
                 newborn, bounds>>

-----------------------------------------------------------------------------
(* The watchdog: summarize_worker_health reads twice, _react decides.      *)

is_stale(w) == beat[w] > StaleAfter

\* A failure to read the heartbeats counts as no heartbeat.
ReadHeartbeats ==
  /\ phase = "read"
  /\ phase' = "backlog"
  /\ live' = (reachable /\ \E w \in Workers : ~is_stale(w))
  /\ newborn' = {}
  /\ UNCHANGED <<workerVars, beat, messageVars, reachable, stall_detected, stall_since,
                 spawn_attempts, spawned, worker_auto_recover, bounds>>

\* Wrong on purpose: only messages nobody took count as a backlog.
is_stalled_ReadyOnly == reachable /\ \E m \in Messages : queue[m] = "ready"

\* Messages nobody takes, or one only a restore sweep can save.
is_stalled ==
  /\ reachable
  /\ \/ \E m \in Messages : queue[m] = "ready"
     \/ \E m \in Messages : queue[m] = "unacked" /\ age[m] > VisibilityTimeout

SnapshotBacklog ==
  /\ phase = "backlog"
  /\ phase' = "react"
  /\ stall_detected' = (~live /\ is_stalled)
  /\ UNCHANGED <<workerVars, beat, messageVars, reachable, live, stall_since,
                 spawn_attempts, spawned, worker_auto_recover, newborn, bounds>>

\* What every branch of _react does: the loop waits for the next interval.
React ==
  /\ phase = "react"
  /\ phase' = "wait"
  /\ UNCHANGED <<task, beat, messageVars, reachable, summaryVars, worker_auto_recover,
                 newborn, wedges, outages>>

SeeWorker ==
  /\ React
  /\ live
  /\ stall_since' = NoStall
  /\ spawn_attempts' = 0
  /\ spawned' = 0
  /\ UNCHANGED <<process, faults>>

\* Wrong on purpose: a check without a stall forgets the attempts.
SeeNoStall_Forgets ==
  /\ React
  /\ ~live /\ ~stall_detected
  /\ stall_since' = NoStall
  /\ spawn_attempts' = 0
  /\ UNCHANGED <<process, spawned, faults>>

SeeNoStall ==
  /\ React
  /\ ~live /\ ~stall_detected
  /\ stall_since' = NoStall
  /\ UNCHANGED <<process, spawn_attempts, spawned, faults>>

OpenWindow ==
  /\ React
  /\ stall_detected
  /\ stall_since = NoStall
  /\ stall_since' = 0
  /\ UNCHANGED <<process, spawn_attempts, spawned, faults>>

WaitWindow ==
  /\ React
  /\ stall_detected
  /\ stall_since \in 0..(StallAfter - 1)
  /\ UNCHANGED <<process, stall_since, spawn_attempts, spawned, faults>>

\* The window is over; it starts again whatever is done now.
Recover ==
  /\ React
  /\ stall_detected
  /\ stall_since = StallAfter
  /\ stall_since' = 0

\* worker_auto_recover is off, or the attempts are used up: report only.
ReportOnly ==
  /\ Recover
  /\ ~worker_auto_recover \/ spawn_attempts >= MaxSpawnAttempts
  /\ UNCHANGED <<process, spawn_attempts, spawned, faults>>

Attempt ==
  /\ Recover
  /\ worker_auto_recover /\ spawn_attempts < MaxSpawnAttempts
  /\ spawn_attempts' = spawn_attempts + 1

SpawnWorker(w) ==
  /\ Attempt
  /\ process[w] = "off"
  /\ process' = [process EXCEPT ![w] = "starting"]
  /\ spawned' = spawned + 1
  /\ UNCHANGED faults

\* The start fails; so it does when no slot is left (bound).
SpawnFails ==
  /\ Attempt
  /\ \/ faults < MaxFaults /\ faults' = faults + 1
     \/ (\A w \in Workers : process[w] # "off") /\ UNCHANGED faults
  /\ UNCHANGED <<process, spawned>>

Check ==
  \/ ReadHeartbeats \/ SnapshotBacklog
  \/ SeeWorker \/ SeeNoStall \/ OpenWindow \/ WaitWindow \/ ReportOnly
  \/ \E w \in Workers : SpawnWorker(w)
  \/ SpawnFails

-----------------------------------------------------------------------------
Next ==
  \/ Tick
  \/ \E m \in Messages : Submit(m)
  \/ \E w \in Workers :
       \/ WorkerReady(w) \/ Crash(w) \/ Shutdown(w) \/ Finish(w) \/ Wedge(w)
       \/ \E m \in Messages : Take(w, m) \/ Restore(w, m)
  \/ LoseBroker \/ RegainBroker
  \/ Check

Spec == Init /\ [][Next]_vars

\* Time passes, the watchdog's loop runs, processes that start get ready
\* unless they die, live workers work and sweep, and outages end.
Fairness ==
  /\ WF_vars(Tick)
  /\ WF_vars(Check)
  /\ WF_vars(RegainBroker)
  /\ \A w \in Workers :
       /\ WF_vars(WorkerReady(w))
       /\ WF_vars(Finish(w))
       /\ \A m \in Messages : WF_vars(Take(w, m)) /\ WF_vars(Restore(w, m))

FairSpec == Spec /\ Fairness

-----------------------------------------------------------------------------
TypeOK ==
  /\ process \in [Workers -> {"off", "starting", "idle", "busy", "wedged"}]
  /\ task \in [Workers -> Messages \cup {NoMessage}]
  /\ beat \in [Workers -> 0..NoKey]
  /\ queue \in [Messages -> {"none", "ready", "unacked", "done"}]
  /\ delivery \in [Messages -> Workers \cup {NoWorker}]
  /\ age \in [Messages -> 0..(VisibilityTimeout + 1)]
  /\ phase \in {"wait", "read", "backlog", "react"}
  /\ reachable \in BOOLEAN /\ worker_auto_recover \in BOOLEAN
  /\ live \in BOOLEAN /\ stall_detected \in BOOLEAN
  /\ stall_since \in NoStall..StallAfter
  /\ spawn_attempts \in 0..MaxSpawnAttempts
  /\ newborn \in SUBSET Up
  /\ spawned \in Nat
  /\ faults \in 0..MaxFaults /\ wedges \in 0..MaxWedges /\ outages \in 0..MaxOutages

\* Between two sights of a live worker the watchdog starts a bounded number
\* of workers, however often stall windows open and close in between
\* (comment on _MAX_SPAWN_ATTEMPTS).
SpawnsBounded == spawned <= MaxSpawnAttempts

\* As long as the broker has always answered, no worker is started beside
\* one that has been up since before the keys were last read: a long task, a
\* task that never returns or a slow start is not mistaken for a dead worker.
NoSpawnBesideWorker ==
  [][outages = 0 /\ spawn_attempts' > spawn_attempts => Up \subseteq newborn]_vars

\* No message is lost to workers that die: whoever took it, it is restored
\* and executed, although no worker may be left when it happens and the
\* broker may be out of reach for a while.  A task that never returns is the
\* exception: its worker beats and counts as a live one.
MessagesServed ==
  \A m \in Messages :
    (queue[m] = "ready" /\ worker_auto_recover) ~> (queue[m] = "done" \/ wedges > 0)

\* A worker stuck inside a task stops beating (docstring of worker_health).
WedgedStopsBeating ==
  \A w \in Workers : process[w] = "wedged" ~> (process[w] # "wedged" \/ is_stale(w))

=============================================================================
