SPECIFICATION Spec
CONSTANTS
  k1 = k1
  k2 = k2
  d1 = d1
  d2 = d2
  None = None
  Publishers = {p1}
  Boots = {b1}
  Scopes <- OnlyAdmin
  MaxEpoch = 1
  MaxPublishers = 2
  Paths = {x}
  MaxPathGeneration = 2
  Keys = {k1, k2}
  RouteIds = {d1, d2}
  DerivedId <- MCDerivedId
  AttemptIds = {a1, a2}
  NextHops = {h1}
  Outcomes = {"Applied"}
  Presences = {}
  MaxGeneration = 3
  MaxRoutes = 2
  MaxOutstanding = 2
SYMMETRY FullSymmetry
INVARIANTS
  TypeOK
  IndexNamesLive
  RevokedNeverInstalled
  InvalidationIsFinal
  CurrentIsAuthorized
  OutcomesAreProven
  OutstandingIsExact
PROPERTIES
  GenerationsRestartWhole
  RetirementEndsByRecreation
