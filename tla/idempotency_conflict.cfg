\* The 409 text "is in progress" against what the code does.
SPECIFICATION FairSpec
CONSTANTS
  Requests = {r1, r2}
  Instances = {i1}
  Keys = {k1}
  MaxAttempts = 1
  MaxCrashes = 0
  None = None
PROPERTIES ConflictMeansInProgress
CHECK_DEADLOCK FALSE
