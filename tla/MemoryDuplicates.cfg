\* Two workers and an administrator, three requests of two users.
SPECIFICATION Spec
CONSTANTS
  Workers = {w1, w2}
  Api = api
  Requests = {r1, r2, r3}
  r1 = r1
  r2 = r2
  r3 = r3
  NoRequest = NoRequest
  Payloads <- MCPayloads
  AdminEntries <- MCAdminEntries
  Alike <- MCAlike
  Length <- MCLength
  MergeDuplicates = TRUE
  CandidateLimit = 3
  MaxEdits = 1
  MaxCrashes = 1
INVARIANTS
  
  StatementKept
CHECK_DEADLOCK FALSE
