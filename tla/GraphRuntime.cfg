SPECIFICATION Spec
CONSTANTS
  Modulus = 2
  MaxTensors = 2
  Replaceable <- MCReplaceable
  ckks1 = ckks1
  ckks2 = ckks2
  plain = plain
  Provider <- MCProvider
  Kind <- MCKind
  CallerProgram <- MCCallerProgram
  NodeId <- MCNodeId
  Shape <- MCShape
  Payload <- MCPayload
  Zero <- MCZero
  Plus <- MCPlus
  Times <- MCTimes
  MatMul <- MCMatMul
  Corpus <- MCCorpus
  Supply <- MCSupply
INVARIANTS
  TypeOK
  SessionsStaySeparate
  ReportIsMeant
  OwnProgramErrors
SYMMETRY Symmetry
