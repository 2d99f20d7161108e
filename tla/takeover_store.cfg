SPECIFICATION Spec
CONSTANTS
  k1 = k1
  k2 = k2
  d1 = d1
  d2 = d2
  None = None
  Publishers = {p1}
  Boots = {b1}
  Scopes <- OnlyAdmin
  MaxEpoch = 1
  MaxPublishers = 2
  Paths = {}
  MaxPathGeneration = 2
  Keys = {k1}
  RouteIds = {d1, m1}
  DerivedId <- MCDerivedId
  AttemptIds = {a1, a2}
  NextHops = {h1}
  Outcomes = {"Applied", "RetryableFailure"}
  Presences = {}
  MaxGeneration = 4
  MaxRoutes = 2
  MaxOutstanding = 2
SYMMETRY AttemptSymmetry
INVARIANTS
  StoredRoutesLoad
