SPECIFICATION FairSpec
CONSTANTS
  Ops <- AllOps
  Raws <- AllRaws
  Leftovers <- LargeAnswers
  MaxCalls = 3
  MaxEpoch = 2
INVARIANTS WireTypeOK AnswerIsOwn OneExecution
PROPERTY CallReturnsIfServed
CHECK_DEADLOCK FALSE
