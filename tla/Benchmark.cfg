SPECIFICATION Spec
CONSTANTS
  Workload <- MCWorkload
  ProviderId <- MCProviderId
  MaxRepeat = 2
INVARIANTS
  TypeOK
  ReportIsComplete
  GateIsExact
PROPERTIES
  WrittenAtTheEnd
  Ends
CHECK_DEADLOCK FALSE
