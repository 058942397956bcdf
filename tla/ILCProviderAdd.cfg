SPECIFICATION Spec
CONSTANTS
  Fine = 8
  Value <- MCValue
  Encoding <- MCEncoding
  AddForm = "ciphertext"
  Given = TRUE
  MaxTensors = 2
  MaxTerms = 3
  MaxContexts = 2
INVARIANT AddSendsCiphertexts
