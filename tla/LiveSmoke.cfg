SPECIFICATION FairSpec
CONSTANTS
  Environment <- MCEnvironment
  Bundle <- MCBundle
  Arguments <- MCArguments
INVARIANTS
  LiveTypeOK
  InstalledIsExpected
  RejectionIsExplained
  MintedTokensPass
  EachRouteOnce
  OkWithinRange
PROPERTIES
  Ends
CHECK_DEADLOCK FALSE
