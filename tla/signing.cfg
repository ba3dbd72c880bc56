\* One contract of up to three parties, three requests, any of them may fail anywhere.
SPECIFICATION SigningSpec
CONSTANTS
  None = None
  ContractIds = {c1}
  MaxSlots = 3
  Contents = {x}
  Requests = {r1, r2, r3}
  MaxTime = 1
  Failures = TRUE
  x = x
  y = y
  Payloads <- NoPayloads
SYMMETRY RequestSymmetry
INVARIANTS
  TypeOK
  CountNeverAhead
  SignedMeansAllSigned
  FinalProofHolds
PROPERTIES
  SignedIsFinal
  ExpiryCloses
  KeepsPromise
\* With the contracts deleted and the clock at its bound nothing is left to do.
CHECK_DEADLOCK FALSE
