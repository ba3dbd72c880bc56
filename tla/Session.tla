------------------------------- MODULE Session -------------------------------
(***************************************************************************)
(* Sessions: auth.rs and the login, logout and verify handlers, over the   *)
(* tables jwt_tokens and refresh_tokens and the cookie jars of browsers.   *)
(*                                                                         *)
(* One user.  A JWT is its claims, and these are determined by the second  *)
(* in which it was issued: a JWT is its iat, and two of the same second    *)
(* are one token.  A refresh token is random: it is the id of its row.     *)
(* Each database statement of a request is an action; what follows the     *)
(* extractor in a handler touches none of this state.                      *)
(*                                                                         *)
(* session, barred, ended and troubles are history: the code does not keep *)
(* them.                                                                   *)
(* An operator whose name ends in Bug is a wrong version of the definition *)
(* below it: nothing uses it, and it is there to show that a property      *)
(* would notice.                                                           *)
(***************************************************************************)
EXTENDS Integers, FiniteSets

CONSTANTS
  Browsers,
  Requests,     \* concurrent requests
  Kinds,        \* the handlers that are called
  JwtLife,      \* seconds until a JWT is refused, the library's leeway included
  RefreshLife,  \* seconds until a refresh token expires
  MaxLogins,    \* bound on the logins
  MaxRefresh,   \* bound on the rows of refresh_tokens
  MaxTime,      \* bound on the clock
  None          \* no cookie

\* "page": dashboard, profile and a successful view_invoice, which end in
\* apply_refreshed_cookies; "api": all else that takes an AuthUser.
AllKinds == {"login", "page", "api", "logout"}

Times == 0 .. MaxTime
RefreshIds == 1 .. MaxRefresh
Sessions == 1 .. MaxLogins

ASSUME BoundsAssumption ==
  /\ MaxLogins \in Nat /\ MaxRefresh \in Nat /\ MaxTime \in Nat
  /\ JwtLife \in Nat /\ RefreshLife \in Nat
ASSUME KindsAssumption == Kinds \subseteq AllKinds
ASSUME NoneAssumption == None \notin Int

VARIABLES
  jwt_tokens,      \* by iat
  refresh_tokens,  \* by id
  cookies,         \* the jar of each browser
  logins,          \* how many there have been
  ended,           \* the sessions whose logout has been answered
  troubles,        \* what has happened so far that disturbs sessions
  now,             \* Utc::now(), in seconds
  req              \* requests in flight, with their local variables

vars == <<jwt_tokens, refresh_tokens, cookies, logins, ended, troubles, now, req>>
tokens == <<jwt_tokens, refresh_tokens>>
browsing == <<cookies, logins, ended>>

\* "failure": a statement failed, a client hung up or an answer was lost;
\* "overlap": a request was sent while another was under way;
\* "dropped": a handler refreshed the session and kept the new tokens to itself.
Troubles == {"failure", "overlap", "dropped"}

NoRows == [k \in {} |-> k]

Init ==
  /\ jwt_tokens = NoRows /\ refresh_tokens = NoRows
  /\ cookies = [b \in Browsers |-> [jwt |-> None, refresh |-> None]]
  /\ logins = 0 /\ ended = {} /\ troubles = {}
  /\ now = 0
  /\ req = NoRows

-----------------------------------------------------------------------------
(* Lookups *)

\* decode_jwt: the signature is right, so only the expiry counts.
Unexpired(jwt) == jwt # None /\ now <= jwt + JwtLife

\* A token that is not in the table counts as revoked.
Revoked(jwt) == jwt \notin DOMAIN jwt_tokens \/ jwt_tokens[jwt].revoked

\* The revoked column forgotten in the query.
ValidRefresh_Bug(refresh) ==
  /\ refresh \in DOMAIN refresh_tokens
  /\ refresh_tokens[refresh].expires_at > now

\* get_valid_refresh_token
ValidRefresh(refresh) ==
  /\ refresh \in DOMAIN refresh_tokens
  /\ ~refresh_tokens[refresh].revoked
  /\ refresh_tokens[refresh].expires_at > now

\* verify_auth, which the login page asks.
VerifyAuth(b) == Unexpired(cookies[b].jwt)

\* Both tokens are missing, expired or revoked, and no later event makes them
\* good again.  (Said of the rows, not with the code's own lookups above.)
Barred(jar) ==
  /\ jar.jwt = None \/ now > jar.jwt + JwtLife \/ jwt_tokens[jar.jwt].revoked
  /\ jar.refresh = None \/ LET row == refresh_tokens[jar.refresh] IN
       row.revoked \/ row.expires_at <= now

-----------------------------------------------------------------------------
(* Requests *)

InFlight == DOMAIN req
At(r, pc) == r \in InFlight /\ req[r].pc = pc
GoTo(r, pc) == req' = [req EXCEPT ![r].pc = pc]
Return(r) == req' = [q \in InFlight \ {r} |-> req[q]]
Fails == troubles' = troubles \cup {"failure"}

FirstStep(kind) ==
  CASE kind = "login"  -> "generate"
    [] kind = "logout" -> "revoke_jwt"
    [] OTHER           -> "decode"

\* A request leaves with the cookies of its browser.  A login is let in when its
\* password has been verified.
Begin(r, b, kind) ==
  LET jar == cookies[b] IN
  /\ r \notin InFlight
  /\ kind = "login" => logins < MaxLogins
  /\ logins' = IF kind = "login" THEN logins + 1 ELSE logins
  /\ req' = [q \in InFlight \cup {r} |->
       IF q # r THEN req[q]
       ELSE [pc |-> FirstStep(kind), kind |-> kind, browser |-> b,
             jwt |-> jar.jwt, refresh |-> jar.refresh,
             new_jwt |-> None, new_refresh |-> None,
             session |-> IF kind = "login" THEN logins + 1
                         ELSE IF jar.refresh = None THEN 0
                         ELSE refresh_tokens[jar.refresh].session,
             barred |-> Barred(jar)]]
  /\ troubles' = IF InFlight = {} THEN troubles ELSE troubles \cup {"overlap"}
  /\ UNCHANGED <<tokens, cookies, ended, now>>

\* The extractor: an unexpired JWT is looked up, one that is expired or missing
\* leads to the refresh path.
Decode(r) ==
  /\ At(r, "decode")
  /\ GoTo(r, IF Unexpired(req[r].jwt) THEN "revoked" ELSE "find")
  /\ UNCHANGED <<tokens, browsing, troubles, now>>

IsJwtRevoked(r) ==
  /\ At(r, "revoked")
  /\ IF Revoked(req[r].jwt) THEN Return(r) ELSE GoTo(r, "answer")
  /\ UNCHANGED <<tokens, browsing, troubles, now>>

FindRefresh(r) ==
  /\ At(r, "find")
  /\ IF ValidRefresh(req[r].refresh) THEN GoTo(r, "generate") ELSE Return(r)
  /\ UNCHANGED <<tokens, browsing, troubles, now>>

\* The second rounded up.
GenerateJwt_Bug(r) ==
  /\ At(r, "generate")
  /\ req' = [req EXCEPT ![r].pc = "store_jwt", ![r].new_jwt = now + 1]
  /\ UNCHANGED <<tokens, browsing, troubles, now>>

\* The user row is there; generate_jwt reads the clock.
GenerateJwt(r) ==
  /\ At(r, "generate")
  /\ req' = [req EXCEPT ![r].pc = "store_jwt", ![r].new_jwt = now]
  /\ UNCHANGED <<tokens, browsing, troubles, now>>

\* token_hash is UNIQUE: of two tokens of one second the later is refused, and
\* with it the request.
StoreJwt(r) ==
  LET q == req[r] IN
  /\ At(r, "store_jwt")
  /\ IF q.new_jwt \in DOMAIN jwt_tokens
       THEN Return(r) /\ UNCHANGED jwt_tokens
       ELSE /\ jwt_tokens' = [t \in DOMAIN jwt_tokens \cup {q.new_jwt} |->
                 IF t # q.new_jwt THEN jwt_tokens[t]
                 ELSE [revoked |-> FALSE, session |-> q.session]]
            /\ GoTo(r, IF q.kind = "login" THEN "store_refresh" ELSE "rotate")
  /\ UNCHANGED <<refresh_tokens, browsing, troubles, now>>

\* UPDATE ... SET revoked = true; its error is ignored.
RevokeRow(table, key) ==
  [t \in DOMAIN table |->
     IF t = key THEN [table[t] EXCEPT !.revoked = TRUE] ELSE table[t]]

\* The old refresh token left valid.
Rotate_Bug(r) ==
  /\ At(r, "rotate")
  /\ GoTo(r, "store_refresh")
  /\ UNCHANGED <<tokens, browsing, troubles, now>>

Rotate(r) ==
  /\ At(r, "rotate")
  /\ \/ refresh_tokens' = RevokeRow(refresh_tokens, req[r].refresh) /\ UNCHANGED troubles
     \/ Fails /\ UNCHANGED refresh_tokens
  /\ GoTo(r, "store_refresh")
  /\ UNCHANGED <<jwt_tokens, browsing, now>>

StoreRefresh(r) ==
  LET id == Cardinality(DOMAIN refresh_tokens) + 1 IN
  /\ At(r, "store_refresh")
  /\ id \in RefreshIds
  /\ refresh_tokens' = [t \in DOMAIN refresh_tokens \cup {id} |->
       IF t # id THEN refresh_tokens[t]
       ELSE [expires_at |-> now + RefreshLife, revoked |-> FALSE,
             session |-> req[r].session]]
  /\ req' = [req EXCEPT ![r].pc = "answer", ![r].new_refresh = id]
  /\ UNCHANGED <<jwt_tokens, browsing, troubles, now>>

\* logout
RevokeJwt(r) ==
  /\ At(r, "revoke_jwt")
  /\ \/ jwt_tokens' = RevokeRow(jwt_tokens, req[r].jwt) /\ UNCHANGED troubles
     \/ Fails /\ UNCHANGED jwt_tokens
  /\ GoTo(r, "revoke_refresh")
  /\ UNCHANGED <<refresh_tokens, browsing, now>>

\* Only the JWT is revoked.
RevokeRefresh_Bug(r) ==
  /\ At(r, "revoke_refresh")
  /\ GoTo(r, "answer")
  /\ UNCHANGED <<tokens, browsing, troubles, now>>

RevokeRefresh(r) ==
  /\ At(r, "revoke_refresh")
  /\ \/ refresh_tokens' = RevokeRow(refresh_tokens, req[r].refresh) /\ UNCHANGED troubles
     \/ Fails /\ UNCHANGED refresh_tokens
  /\ GoTo(r, "answer")
  /\ UNCHANGED <<jwt_tokens, browsing, now>>

\* Only the JWT forwarded.
SetCookies_Bug(jar, q) ==
  CASE q.kind = "logout" ->
         [jwt |-> IF q.jwt = None THEN jar.jwt ELSE None,
          refresh |-> IF q.refresh = None THEN jar.refresh ELSE None]
    [] q.kind = "login" -> [jwt |-> q.new_jwt, refresh |-> q.new_refresh]
    [] q.kind = "page" /\ q.new_refresh # None ->
         [jar EXCEPT !.jwt = q.new_jwt]
    [] OTHER -> jar

\* Logout clears the refresh token only.
SetCookies_LogoutBug(jar, q) ==
  CASE q.kind = "logout" -> [jar EXCEPT !.refresh = None]
    [] q.kind \in {"login", "page"} /\ q.new_refresh # None ->
         [jwt |-> q.new_jwt, refresh |-> q.new_refresh]
    [] OTHER -> jar

\* The Set-Cookie headers of the answer, as the browser applies them: logout
\* removes the cookies it was sent, login and apply_refreshed_cookies set both,
\* the other handlers drop the new tokens.
SetCookies(jar, q) ==
  CASE q.kind = "logout" ->
         [jwt |-> IF q.jwt = None THEN jar.jwt ELSE None,
          refresh |-> IF q.refresh = None THEN jar.refresh ELSE None]
    [] q.kind \in {"login", "page"} /\ q.new_refresh # None ->
         [jwt |-> q.new_jwt, refresh |-> q.new_refresh]
    [] OTHER -> jar

Answer(r) ==
  LET q == req[r] IN
  /\ At(r, "answer")
  /\ cookies' = [cookies EXCEPT ![q.browser] = SetCookies(@, q)]
  /\ ended' = IF q.kind = "logout" /\ q.session # 0 THEN ended \cup {q.session}
              ELSE ended
  /\ troubles' = IF q.kind = "api" /\ q.new_refresh # None
                 THEN troubles \cup {"dropped"} ELSE troubles
  /\ Return(r)
  /\ UNCHANGED <<tokens, logins, now>>

\* A statement fails and the request is refused, the client hangs up, or the
\* answer is lost: the rows written so far stay.
Abort(r) ==
  /\ r \in InFlight
  /\ Fails
  /\ Return(r)
  /\ UNCHANGED <<tokens, browsing, now>>

Tick ==
  /\ now < MaxTime
  /\ now' = now + 1
  /\ UNCHANGED <<tokens, browsing, troubles, req>>

Step(r) ==
  \/ Decode(r) \/ IsJwtRevoked(r) \/ FindRefresh(r)
  \/ GenerateJwt(r) \/ StoreJwt(r) \/ Rotate(r) \/ StoreRefresh(r)
  \/ RevokeJwt(r) \/ RevokeRefresh(r)
  \/ Answer(r)

Next ==
  \/ \E r \in Requests, b \in Browsers, kind \in Kinds : Begin(r, b, kind)
  \/ \E r \in Requests : Step(r) \/ Abort(r)
  \/ Tick

Spec == Init /\ [][Next]_vars

-----------------------------------------------------------------------------
(* Properties *)

Jar == [jwt : Times \cup {None}, refresh : RefreshIds \cup {None}]

RequestState ==
  [pc : {"decode", "revoked", "find", "generate", "store_jwt", "rotate",
         "store_refresh", "revoke_jwt", "revoke_refresh", "answer"},
   kind : AllKinds, browser : Browsers,
   jwt : Times \cup {None}, refresh : RefreshIds \cup {None},
   new_jwt : Times \cup {None}, new_refresh : RefreshIds \cup {None},
   session : 0 .. MaxLogins, barred : BOOLEAN]

IsTable(table, Keys, Rows) ==
  /\ table = [k \in DOMAIN table |-> table[k]]
  /\ DOMAIN table \subseteq Keys
  /\ \A k \in DOMAIN table : table[k] \in Rows

\* Well-typed rows; the ids of refresh tokens have no gap, and every token that a
\* browser or a request holds has a row.
TypeOK ==
  /\ IsTable(jwt_tokens, Times, [revoked : BOOLEAN, session : Sessions])
  /\ IsTable(refresh_tokens, RefreshIds,
             [expires_at : Nat, revoked : BOOLEAN, session : Sessions])
  /\ DOMAIN refresh_tokens = 1 .. Cardinality(DOMAIN refresh_tokens)
  /\ cookies \in [Browsers -> Jar]
  /\ logins \in 0 .. MaxLogins /\ ended \subseteq Sessions
  /\ troubles \subseteq Troubles
  /\ now \in Times
  /\ IsTable(req, Requests, RequestState)
  /\ \A b \in Browsers :
       /\ cookies[b].jwt \in DOMAIN jwt_tokens \cup {None}
       /\ cookies[b].refresh \in DOMAIN refresh_tokens \cup {None}

Quiet(b) == \A r \in InFlight : req[r].browser # b
Only(allowed) == troubles \subseteq allowed

\* Revocation takes effect at once and for good: a request whose tokens were all
\* revoked or expired when it was sent is neither served nor given new ones.
RevokedIsRefused ==
  \A r \in InFlight :
    req[r].barred /\ req[r].kind \in {"page", "api"} =>
      req[r].pc \in {"decode", "revoked", "find"}

RefreshTokensLive ==
  \A b \in Browsers : Quiet(b) /\ cookies[b].refresh # None =>
    ~refresh_tokens[cookies[b].refresh].revoked

\* Unless something fails or a handler drops the new tokens, a browser that waits
\* for no answer holds a refresh token that is not revoked: whatever order its
\* requests ran in and their answers came in, rotation does not log it out.
JarIsLive == Only({"overlap"}) => RefreshTokensLive

\* Unless an answer was lost, whom verify_auth calls authenticated, the extractor
\* lets in: the one does not look at the revoked column, the other does.
VerifiedIsLetIn ==
  Only({"overlap", "dropped"}) =>
    \A b \in Browsers : Quiet(b) /\ VerifyAuth(b) => ~Revoked(cookies[b].jwt)

EndedSessionsAreOver ==
  InFlight = {} =>
    /\ \A t \in DOMAIN jwt_tokens : jwt_tokens[t].session \in ended =>
         jwt_tokens[t].revoked \/ now > t + JwtLife
    /\ \A t \in DOMAIN refresh_tokens : refresh_tokens[t].session \in ended =>
         refresh_tokens[t].revoked \/ refresh_tokens[t].expires_at <= now

\* When requests come one by one and nothing goes wrong, an answered logout ends
\* its session: none of its tokens, old or new, is accepted any more.
LogoutEndsSession == Only({}) => EndedSessionsAreOver

\* However often it is refreshed, and even when the new tokens are dropped, a
\* session whose requests come one by one has one refresh token that works.
OneRefreshTokenPerSession ==
  Only({"dropped"}) /\ InFlight = {} =>
    \A t, u \in DOMAIN refresh_tokens :
      /\ ~refresh_tokens[t].revoked /\ ~refresh_tokens[u].revoked
      /\ refresh_tokens[t].session = refresh_tokens[u].session
      => t = u

\* "Call this at the end of every protected handler that receives AuthUser"
\* (auth.rs:392): whichever handlers are called, the browser gets its new tokens.
EveryHandlerForwards == Only({"overlap", "dropped"}) => RefreshTokensLive

\* "revokes both tokens" (handlers/auth.rs:198), also of a session that is being
\* refreshed meanwhile.
LogoutRevokesBoth == Only({"overlap"}) => EndedSessionsAreOver
=============================================================================
