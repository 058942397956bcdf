SPECIFICATION Spec
CONSTANTS
  a = a
  b = b
  c = c
  NodeId <- MCIds
  Shape <- MCShapes
  Candidates <- MCCandidates
INVARIANTS
  MalformedRaisesValidationError
CHECK_DEADLOCK FALSE
