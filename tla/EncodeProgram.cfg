SPECIFICATION EncoderSpec
CONSTANTS
  Modulus = 3
  a = "a"
  b = "b"
  c = "c"
  NodeId <- MCNodeId
  Shape <- MCShapes
  Candidates <- MCPrograms
INVARIANTS
  EncoderTypeOK
  AcceptedIsWellFormed
  RefusedIsIllFormed
  LookupFailsOnlyOnSelfReference
  AcceptedIsEncodable
  EntriesAreSelectors
CHECK_DEADLOCK FALSE
