\* Any handlers, two requests at a time, anything may fail.
SPECIFICATION Spec
CONSTANTS
  None = None
  Browsers = {b1}
  Requests = {r1, r2}
  Kinds = {"login", "page", "api", "logout"}
  JwtLife = 0
  RefreshLife = 2
  MaxLogins = 1
  MaxRefresh = 3
  MaxTime = 2
SYMMETRY RequestSymmetry
INVARIANTS
  TypeOK
  RevokedIsRefused
  JarIsLive
  VerifiedIsLetIn
  LogoutEndsSession
  OneRefreshTokenPerSession
\* A request that needs one more refresh token than the bound waits for ever.
CHECK_DEADLOCK FALSE
