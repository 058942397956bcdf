SPECIFICATION FairSpec
CONSTANTS
  Modulus = 3
  NodeId <- MCNodeId
  Shape <- MCShape
  Payload <- MCPayload
  Zero <- MCZero
  Plus <- MCPlus
  Times <- MCTimes
  MatMul <- MCMatMul
  Corpus <- MCCorpus
  Supply <- MCSupply
INVARIANTS
  TypeOK
PROPERTIES
  ImplementsGraph
  AlwaysReturns
CHECK_DEADLOCK FALSE
