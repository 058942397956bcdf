SPECIFICATION Spec
CONSTANTS
  Fine = 8
  Value <- MCValue
  Encoding <- MCEncoding
  AddForm = "RepresentativeAdd"
  Given = TRUE
  MaxTensors = 2
  MaxTerms = 3
  MaxContexts = 2
INVARIANTS
  TypeOK
  OneContext
  RequestsAreConsistent
  RoundTrip
  ArtifactIsWhole
