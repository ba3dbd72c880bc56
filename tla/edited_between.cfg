\* One request and an edit of the text, no failure.
SPECIFICATION Spec
CONSTANTS
  None = None
  ContractIds = {c1}
  MaxSlots = 2
  Contents = {x, y}
  Requests = {r1}
  MaxTime = 0
  Failures = FALSE
  x = x
  y = y
  Payloads <- TextPayload
INVARIANTS
  FinalHashProvesOneVersion
\* With the contracts deleted and the clock at its bound nothing is left to do.
CHECK_DEADLOCK FALSE
