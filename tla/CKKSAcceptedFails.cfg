SPECIFICATION Spec
CONSTANTS
  Modulus = 3
  NodeId <- MCNodeId
  Shape <- MCShape
  Payload <- MCPayload
  Zero <- MCZero
  Plus <- MCPlus
  Times <- MCTimes
  MatMul <- MCMatMul
  Corpus <- MCCorpus
  Supply <- MCSupply
  Budget = {5}
  InputDepth = {0}
INVARIANT
  AcceptedProgramRuns
CHECK_DEADLOCK FALSE
