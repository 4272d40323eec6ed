\* Two apps on two workers, one domain that both may have, with moves, restarts
\* and failures.
SPECIFICATION Spec
CONSTANTS
  a1 = a1
  a2 = a2
  d1 = d1
  d2 = d2
  Apps = {a1, a2}
  Workers = {w1, w2}
  Elsewhere = Elsewhere
  Domains = {d1, d2}
  May <- MCMay
  Id <- MCId
  Owned <- MCOwned
  None = None
  Faults = {"deploy", "copy", "caddy", "save", "cloudflare", "timeout", "restart", "owner", "crash"}
  MaxRequests = 2
  MaxFaults = 1
SYMMETRY Symmetry
INVARIANTS RoutesServed RoutesSurvive PointsHome NoDuplicates ProxyGivenBack
PROPERTIES CreatedRecordsGone
CHECK_DEADLOCK FALSE
