SPECIFICATION CompareSpec
CONSTANTS
  OutputId = {"a", "b"}
  Outputs <- MCOutputs
  AbsoluteTolerance = 1
  RelativeTolerance = 50
INVARIANTS
  PassesWhenClose
  ErrorIsMet
CHECK_DEADLOCK FALSE
