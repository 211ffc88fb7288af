\* Four requests, two rows that may share a code, and a fault; then only the
\* TTL is at work.
SPECIFICATION FairSpec
CONSTANTS
  Requests = {q1, q2, q3, q4}
  Codes = {c1}
  Users = {alice}
  Dests = {d1, d2}
  MaxIds = 2
  MaxFaults = 1
  None = None
PROPERTIES CacheConverges
\* The model stops once every request is answered.
CHECK_DEADLOCK FALSE
