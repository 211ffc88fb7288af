\* Five requests on one code: a row is created, read, changed, deleted and its
\* code taken over by a second row.
SPECIFICATION Spec
CONSTANTS
  Requests = {q1, q2, q3, q4, q5}
  Codes = {c1}
  Users = {alice, bob}
  Dests = {d1, d2}
  MaxIds = 2
  MaxFaults = 2
  None = None
SYMMETRY Symmetry
INVARIANTS TypeOK StalenessHasACause EntriesWereVisible
PROPERTIES OnlyOwnersWrite DeletedStaysDeleted
\* The model stops once every request is answered.
CHECK_DEADLOCK FALSE
