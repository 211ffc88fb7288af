\* Three requests of two clients; a global limit of two and a login limit of one;
\* two ticks a second, a window of three, and a mutex waited for one tick.
SPECIFICATION Spec
CONSTANTS
  Requests = {r1, r2, r3}
  Clients = {c1, c2}
  GlobalMax = 2
  LoginMax = 1
  Window = 3
  TicksPerSecond = 2
  MaxWait = 1
  MaxClock = 6
  None = None
SYMMETRY Symmetry
INVARIANTS TypeOK BurstBound RefusedOnlyWhenFull
PROPERTIES RetryAfterFits
\* The clock is bounded.
CHECK_DEADLOCK FALSE
