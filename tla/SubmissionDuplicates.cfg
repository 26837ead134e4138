SPECIFICATION Spec
CONSTANTS
  Requests = {r1}
  Tasks = {t1}
  Workers = {w1, w2}
  Apis = {a1}
  NoTask = NoTask
  NoRequest = NoRequest
  Crashable = {}
  MaxCrashes = 0
  MaxExpiries = 1
  MaxSyncRuns = 1
  MalformedReplies = FALSE
  ResultsExpire = TRUE
INVARIANTS AuditTablesAgree ShownOutcomeIsStored
PROPERTY OutcomePromised
SYMMETRY Symmetry
