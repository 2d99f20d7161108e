SPECIFICATION Spec
CONSTANTS
  k1 = k1
  k2 = k2
  d1 = d1
  d2 = d2
  None = None
  Publishers = {p1}
  Boots = {b1, b2}
  Scopes <- OnlyAdmin
  MaxEpoch = 2
  MaxPublishers = 2
  Paths = {}
  MaxPathGeneration = 2
  Keys = {k1}
  RouteIds = {d1}
  DerivedId <- MCDerivedId
  AttemptIds = {a1, a2, a3}
  NextHops = {h1}
  Outcomes = {"Applied", "Idempotent", "NotSupported", "Rejected", "RetryableFailure", "PermanentFailure", "Ambiguous", "BackendUnavailable"}
  Presences = {"Present", "Absent", "Unavailable"}
  MaxGeneration = 4
  MaxRoutes = 2
  MaxOutstanding = 3
SYMMETRY FullSymmetry
INVARIANTS
  LiveRecordsValid
  OutcomesAreProven
  OutstandingIsExact
  CurrentIsAuthorized
  CompletionsFitLifecycle
  WaitingHasAttempt
PROPERTIES
  OutcomeIsOwn
