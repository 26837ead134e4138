\* Two turns of the same caller over a pool of two models.
SPECIFICATION FairSpec
CONSTANTS
  Turns = {t1, t2}
  Sessions = {s1}
  NoTurn = NoTurn
  NoSession = NoSession
  Calls <- MCCalls
  MaxRetries = 1
  MaxPieces = 1
  Usable = {"p1"}
  ProviderModel <- MCProviderModel
  NoModel = NoModel
  Entries = {e1, e2}
  Admins = {a1}
  EntryModels = {"m2"}
  NoEntry = NoEntry
  FirstEntry = e1
  FirstModel = "m1"
  MaxChanges = 1
  MaxContext = 3
  Candidates = {"known_agent"}
  RouteAnswers <- MCRouteAnswers
  t1 = t1
  t2 = t2
  Rag = TRUE
  Retrievals <- MCRetrievals
  ProviderOf <- MCProviderOf
  HistoryLimit = 4
  Faulty = {t1}
INVARIANTS
  DoneIsRecorded
  TaskHandedOver
  EvidenceGiven
  EvidenceFits
  
  AsksPicked
  SeesQuestion
PROPERTIES
  TurnsEnd
CHECK_DEADLOCK FALSE
