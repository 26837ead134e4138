SPECIFICATION FairSpec
CONSTANTS
  Reviews = {v1, v2, v3, v4}
  Originals = {v1, v2}
  Operators = {}
  Sweepers = {s1}
  NoReview = NoReview
  Limit = 1
  MaxRequests = 0
  MaxCrashes = 1
PROPERTIES  ApprovedResumes
CHECK_DEADLOCK FALSE
