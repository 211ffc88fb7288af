\* Two redirects, one of them possibly hanging in its lookup, two workers, and
\* one report read meanwhile.
SPECIFICATION AnalyticsSpec
CONSTANTS
  r1 = r1
  u1 = u1
  Redirects = {r1, r2}
  Urls = {u1}
  UrlOf <- MCUrlOf
  Workers = {w1, w2}
  QueueSize = 1
  MaxRetries = 2
  None = None
  Readers = {a1}
  UserAgentOf <- MCUserAgentOf
  ReferrerOf <- MCReferrerOf
  DayOf <- MCDayOf
INVARIANTS ReportsOnlyGrow ReadersAreAwaited
PROPERTIES ShutdownCompletes EventsSettle
\* The process exits or is killed.
CHECK_DEADLOCK FALSE
