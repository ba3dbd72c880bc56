\* A page and a logout at the same time.
SPECIFICATION Spec
CONSTANTS
  None = None
  Browsers = {b1}
  Requests = {r1, r2}
  Kinds = {"login", "page", "logout"}
  JwtLife = 0
  RefreshLife = 9
  MaxLogins = 1
  MaxRefresh = 3
  MaxTime = 3
SYMMETRY RequestSymmetry
INVARIANTS
  LogoutRevokesBoth
\* A request that needs one more refresh token than the bound waits for ever.
CHECK_DEADLOCK FALSE
