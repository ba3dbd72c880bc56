\* Two requests for two slots, no failure.
SPECIFICATION SigningSpec
CONSTANTS
  None = None
  ContractIds = {c1}
  MaxSlots = 2
  Contents = {x}
  Requests = {r1, r2}
  MaxTime = 0
  Failures = FALSE
  x = x
  y = y
  Payloads <- NoPayloads
SYMMETRY RequestSymmetry
INVARIANTS
  FinalHashOnceAllSigned
\* With the contracts deleted and the clock at its bound nothing is left to do.
CHECK_DEADLOCK FALSE
