\* "Redirects return 302 Found" against a shutdown that times out.
SPECIFICATION Spec
CONSTANTS
  Redirects = {r1}
  u1 = u1
  Urls = {u1}
  UrlOf <- MCUrlOf
  Workers = {w1}
  QueueSize = 1
  MaxRetries = 1
  None = None
INVARIANTS RedirectsAnswered
CHECK_DEADLOCK FALSE
