SPECIFICATION Spec
CONSTANTS
  Environment <- MCEnvironment
  Bundle <- MCBundle
  Arguments <- MCDefaults
INVARIANTS
  SuccessMeansExact
CHECK_DEADLOCK FALSE
