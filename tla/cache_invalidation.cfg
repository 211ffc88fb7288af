\* "Redis entries are invalidated when URL data changes", without any fault.
SPECIFICATION Spec
CONSTANTS
  Requests = {q1, q2, q3}
  Codes = {c1}
  Users = {alice}
  Dests = {d1, d2}
  MaxIds = 1
  MaxFaults = 0
  None = None
INVARIANTS EntriesAreInvalidated
CHECK_DEADLOCK FALSE
