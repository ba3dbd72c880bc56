\* Two contracts, one request at a time, no failures, weak fairness.
SPECIFICATION FairSigningSpec
CONSTANTS
  None = None
  ContractIds = {c1, c2}
  MaxSlots = 3
  Contents = {x}
  Requests = {r1}
  MaxTime = 1
  Failures = FALSE
  x = x
  y = y
  Payloads <- NoPayloads
INVARIANTS
  ReferentialIntegrity
  CountTracksSignatures
  FinalHashOnceAllSigned
PROPERTIES
  LastSignatureCompletes
\* With the contracts deleted and the clock at its bound nothing is left to do.
CHECK_DEADLOCK FALSE
