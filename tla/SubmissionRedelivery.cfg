SPECIFICATION Spec
CONSTANTS
  Requests = {r1, r2}
  Tasks = {t1, t2}
  Workers = {w1, w2}
  Apis = {a1}
  NoTask = NoTask
  NoRequest = NoRequest
  Crashable = {w1, w2}
  MaxCrashes = 1
  MaxExpiries = 0
  MaxSyncRuns = 0
  MalformedReplies = TRUE
  ResultsExpire = FALSE
INVARIANTS TypeOK  UserTurnOnce AckAfterResult  OneMessagePerRequest
SYMMETRY Symmetry
