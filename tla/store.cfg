SPECIFICATION Spec
CONSTANTS
  Routes = {r1, r2}
  Attempts = {a1, a2}
  None = None
  Modes = {"snapshot", "journal"}
  Faults = {}
  MaxEpoch = 2
  MaxGeneration = 2
  MaxStamp = 3
SYMMETRY StoreSymmetry
INVARIANTS StoreTypeOK AcknowledgedSurvives WaitingIsStored
PROPERTY ImplementsDurableStore
