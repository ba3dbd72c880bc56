\* Two connections, two requests of any kind.
SPECIFICATION Spec
CONSTANTS
  None = None
  Requests = {r1, r2}
  MaxSize = 2
  CustomerIds = {k1, k2}
  InvoiceIds = {i1}
  Failures = TRUE
INVARIANTS
  TypeOK
  ReferencesHold
  MissingForCause
  OnlyNestedBlock
PROPERTIES
  DeletedStaysDeleted
  EveryRequestEnds
