SPECIFICATION Spec
CONSTANTS
  Routes = {r1, r2}
  Attempts = {a1, a2}
  None = None
  Modes = {"journal"}
  Faults = {"torn"}
  MaxEpoch = 2
  MaxGeneration = 2
  MaxStamp = 3
INVARIANT AcknowledgedSurvives
