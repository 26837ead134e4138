SPECIFICATION FairSpec
CONSTANTS
  Workers = {w1, w2, w3}
  Messages = {m1}
  NoWorker = NoWorker
  NoMessage = NoMessage
  AutoRecover = {TRUE, FALSE}
  StaleAfter = 1
  StallAfter = 2
  VisibilityTimeout = 2
  SlowTasks = FALSE
  MaxSpawnAttempts = 2
  MaxFaults = 1
  MaxWedges = 1
  MaxOutages = 1
INVARIANTS SpawnsBounded
PROPERTIES  MessagesServed
