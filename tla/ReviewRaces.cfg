SPECIFICATION Spec
CONSTANTS
  Reviews = {v1, v2, v3}
  Originals = {v1}
  Operators = {o1, o2}
  Sweepers = {s1}
  NoReview = NoReview
  Limit = 2
  MaxRequests = 2
  MaxCrashes = 0
INVARIANTS LinkedRunStored OneReviewPerRun ResumedOnce
SYMMETRY Symmetry
CHECK_DEADLOCK FALSE
