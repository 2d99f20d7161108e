SPECIFICATION ProgrammingFairSpec
CONSTANTS
  k1 = k1
  d1 = d1
  None = None
  Publishers = {p1}
  Boots = {b1}
  Scopes <- OnlyAdmin
  MaxEpoch = 1
  MaxPublishers = 2
  Paths = {}
  MaxPathGeneration = 2
  Keys = {k1}
  RouteIds = {d1}
  DerivedId <- MCDerivedId
  AttemptIds = {a1, a2}
  NextHops = {h1, h2}
  Outcomes = {"Applied", "Ambiguous"}
  Presences = {}
  MaxGeneration = 3
  MaxRoutes = 2
  MaxOutstanding = 2
  BackendOrders = TRUE
INVARIANTS ProgrammingTypeOK OutcomeWasRequested BackendAgrees
PROPERTIES ImplementsRuntime WaitingEnds
