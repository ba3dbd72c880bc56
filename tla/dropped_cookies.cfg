\* The administrator uses the dashboard, whose scripts call the other handlers.
SPECIFICATION Spec
CONSTANTS
  None = None
  Browsers = {b1}
  Requests = {r1}
  Kinds = {"login", "api"}
  JwtLife = 0
  RefreshLife = 9
  MaxLogins = 1
  MaxRefresh = 3
  MaxTime = 3
SYMMETRY RequestSymmetry
INVARIANTS
  EveryHandlerForwards
\* A request that needs one more refresh token than the bound waits for ever.
CHECK_DEADLOCK FALSE
