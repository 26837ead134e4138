SPECIFICATION FairSpec
CONSTANTS
  Requests = {r1}
  Tasks = {t1}
  Workers = {w1, w2}
  Apis = {a1}
  NoTask = NoTask
  NoRequest = NoRequest
  Crashable = {w1, w2}
  MaxCrashes = 2
  MaxExpiries = 0
  MaxSyncRuns = 0
  MalformedReplies = TRUE
  ResultsExpire = FALSE
PROPERTIES QueueDrains LedgerSettles
