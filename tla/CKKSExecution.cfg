SPECIFICATION FairSpec
CONSTANTS
  Modulus = 3
  NodeId <- MCNodeId
  Shape <- MCShape
  Payload <- MCPayload
  Zero <- MCZero
  Plus <- MCPlus
  Times <- MCTimes
  MatMul <- MCMatMul
  Corpus <- MCCorpus
  Supply <- MCSupply
  Budget = {1, 5, 7}
  InputDepth = {0, 2}
INVARIANTS
  TypeOK
  LevelsWithinBudget
  RefusalIsJustified
  EstimateIsLowerBound
  EveryValueIsFed
PROPERTIES
  ImplementsGraph
  ImplementsPublic
  Termination
CHECK_DEADLOCK FALSE
