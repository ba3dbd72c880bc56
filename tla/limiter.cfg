\* Two addresses, two requests at a time, three windows.
SPECIFICATION Spec
CONSTANTS
  IPs = {i1, i2}
  Requests = {r1, r2}
  MaxAttempts = 2
  WindowMinutes = 1
  CleanupMinutes = 2
  TicksPerMinute = 2
  MaxTime = 5
SYMMETRY Symmetry
INVARIANTS
  TypeOK
  OverrunBounded
  SlidingBound
  BlockedForCause
PROPERTIES
  NothingForgotten
