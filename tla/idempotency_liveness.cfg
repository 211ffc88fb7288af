\* Three requests compete for the mutex of one key on one instance, under the
\* fairness of the handlers and of sync.Mutex.  No symmetry: liveness.
SPECIFICATION FairSpec
CONSTANTS
  Requests = {r1, r2, r3}
  Instances = {i1}
  Keys = {k1}
  MaxAttempts = 1
  MaxCrashes = 1
  None = None
PROPERTIES EveryRequestAnswered
\* The model stops once every request is answered.
CHECK_DEADLOCK FALSE
