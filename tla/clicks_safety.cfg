\* Four redirects of one URL, two workers, a channel of two slots, two
\* attempts: the channel fills, drains, and is closed under running handlers.
SPECIFICATION Spec
CONSTANTS
  Redirects = {r1, r2, r3, r4}
  u1 = u1
  Urls = {u1}
  UrlOf <- MCUrlOf
  Workers = {w1, w2}
  QueueSize = 2
  MaxRetries = 2
  None = None
SYMMETRY Symmetry
INVARIANTS TypeOK OnePlaceAtATime CountedOnce DrainedBeforeClose GracefulShutdownAbortsNothing
PROPERTIES DropsOnlyAfterRetries ImplementsClickDelivery
\* The process exits or is killed.
CHECK_DEADLOCK FALSE
