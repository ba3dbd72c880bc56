\* Pages read in pieces while two requests sign and an administrator edits and
\* deletes, from every state the migrations may leave.
SPECIFICATION PagesSpec
CONSTANTS
  None = None
  ContractIds = {c1}
  MaxSlots = 2
  Contents = {x, y}
  Requests = {r1, r2}
  MaxTime = 0
  Failures = TRUE
  x = x
  y = y
  Payloads <- EditPayloads
SYMMETRY Symmetry
INVARIANTS
  FilledHasSignature
  PageIsBacked
  SignedPageIsComplete
  SignedPageVerifies
  CodeStaysGood
PROPERTIES
  SignaturesPersist
\* With the contracts deleted and the clock at its bound nothing is left to do.
CHECK_DEADLOCK FALSE
