\* The concurrent test's "response body differs" against the JSONB column.
SPECIFICATION Spec
CONSTANTS
  Requests = {r1, r2}
  Instances = {i1}
  Keys = {k1}
  MaxAttempts = 1
  MaxCrashes = 0
  None = None
INVARIANTS ReplaysAreIdentical
CHECK_DEADLOCK FALSE
