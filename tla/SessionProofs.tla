----------------------------- MODULE SessionProofs -----------------------------
(***************************************************************************)
(* Session for any number of browsers, requests, logins and tokens, and    *)
(* any lifetimes: the types, what revocation does, whose a token is, which *)
(* tokens a browser is left with, and what a logout comes to.              *)
(***************************************************************************)
EXTENDS Session, FiniteSetTheorems, TLAPS

-----------------------------------------------------------------------------
(* What a step does to the requests *)

\* What a request holds from its start to its end.
Keeps(r) ==
  /\ req'[r].kind = req[r].kind /\ req'[r].browser = req[r].browser
  /\ req'[r].jwt = req[r].jwt /\ req'[r].refresh = req[r].refresh
  /\ req'[r].session = req[r].session /\ req'[r].barred = req[r].barred

Moves(r) ==
  /\ r \in InFlight /\ InFlight' = InFlight /\ Keeps(r)
  /\ \A q \in InFlight \ {r} : req'[q] = req[q]

MovesTo(r, pc) ==
  /\ Moves(r) /\ req'[r].pc = pc
  /\ req'[r].new_jwt = req[r].new_jwt /\ req'[r].new_refresh = req[r].new_refresh

Returns(r) ==
  /\ r \in InFlight /\ InFlight' = InFlight \ {r}
  /\ \A q \in InFlight' : req'[q] = req[q]

Requesting == IsTable(req, Requests, RequestState)

LEMMA Returning ==
  ASSUME Requesting, NEW r \in InFlight, Return(r)
  PROVE  Returns(r) /\ Requesting'
BY DEF Return, Returns, InFlight, Requesting, IsTable

PCs == {"decode", "revoked", "find", "generate", "store_jwt", "rotate",
        "store_refresh", "revoke_jwt", "revoke_refresh", "answer"}

LEMMA Going ==
  ASSUME Requesting, NEW r \in InFlight, NEW pc \in PCs, GoTo(r, pc)
  PROVE  MovesTo(r, pc) /\ Requesting'
<1>1. req[r] \in RequestState /\ InFlight' = InFlight
  BY DEF Requesting, IsTable, InFlight, GoTo
<1>2. /\ req'[r] = [req[r] EXCEPT !.pc = pc]
      /\ \A q \in InFlight \ {r} : req'[q] = req[q]
  BY DEF GoTo, InFlight
<1>3. [req[r] EXCEPT !.pc = pc] \in RequestState
  BY <1>1 DEF RequestState, PCs
<1>4. MovesTo(r, pc)
  BY <1>1, <1>2 DEF MovesTo, Moves, Keeps, RequestState
<1>5. Requesting'
  BY <1>1, <1>2, <1>3 DEF Requesting, IsTable, InFlight, GoTo
<1> QED
  BY <1>4, <1>5

-----------------------------------------------------------------------------
(* The inductive invariant: what requests hold *)

Refreshing == {"generate", "store_jwt", "rotate", "store_refresh"}

\* The handler and the point that a request has reached in it fit together.
InPlace(q) ==
  /\ q.kind = "login" => q.pc \in {"generate", "store_jwt", "store_refresh", "answer"}
  /\ q.kind = "logout" => /\ q.pc \in {"revoke_jwt", "revoke_refresh", "answer"}
                          /\ q.new_refresh = None
  /\ q.pc \in {"revoke_jwt", "revoke_refresh"} => q.kind = "logout"
  /\ q.new_refresh # None => q.pc = "answer"

\* A request whose new JWT is stored and will be sent.
HasNew(q) ==
  \/ q.pc \in {"rotate", "store_refresh"}
  \/ q.pc = "answer" /\ q.new_refresh # None

\* The tokens a request was sent with have rows, and so have those it has stored.
HoldsRows(q) ==
  /\ q.jwt \in DOMAIN jwt_tokens \cup {None}
  /\ q.refresh \in DOMAIN refresh_tokens \cup {None}
  /\ q.pc = "store_jwt" => q.new_jwt \in Times
  /\ HasNew(q) => q.new_jwt \in DOMAIN jwt_tokens
  /\ q.new_refresh \in DOMAIN refresh_tokens \cup {None}

\* The session is a new one, or that of the refresh token.
InSession(q) ==
  /\ q.kind = "login" => q.session \in 1 .. logins
  /\ q.kind # "login" =>
       q.session = IF q.refresh = None THEN 0 ELSE refresh_tokens[q.refresh].session
  /\ q.pc \in Refreshing => q.kind = "login" \/ q.refresh # None
  /\ q.new_refresh # None => refresh_tokens[q.new_refresh].session = q.session

\* The sessions that exist are those that have begun.
SessionsBegun ==
  /\ \A t \in DOMAIN jwt_tokens : jwt_tokens[t].session <= logins
  /\ \A t \in DOMAIN refresh_tokens : refresh_tokens[t].session <= logins
  /\ \A s \in ended : s <= logins

HoldInv ==
  /\ TypeOK /\ SessionsBegun
  /\ \A r \in InFlight : InPlace(req[r]) /\ HoldsRows(req[r]) /\ InSession(req[r])

-----------------------------------------------------------------------------
(* The inductive invariant: what revocation does *)

DeadJwt(t) == now > t + JwtLife \/ jwt_tokens[t].revoked
DeadRefresh(t) == refresh_tokens[t].revoked \/ refresh_tokens[t].expires_at <= now

\* A barred request has not got past the check it is at, and will not.
StaysBarred(q) ==
  q.barred /\ q.kind \in {"page", "api"} =>
    /\ q.pc \in {"decode", "revoked", "find"}
    /\ q.refresh # None => DeadRefresh(q.refresh)
    /\ q.pc = "decode" => q.jwt = None \/ DeadJwt(q.jwt)
    /\ q.pc = "revoked" => q.jwt # None /\ jwt_tokens[q.jwt].revoked

BarredInv == \A r \in InFlight : StaysBarred(req[r])

-----------------------------------------------------------------------------
(* The inductive invariant: whose a token is *)

\* No two browsers have a token in common, and a token of a browser was sent by
\* its own requests only.
JarsApart ==
  \A b, c \in Browsers :
    /\ cookies[b].jwt = cookies[c].jwt /\ b # c => cookies[b].jwt = None
    /\ cookies[b].refresh = cookies[c].refresh /\ b # c => cookies[b].refresh = None

SentByOwner ==
  \A b \in Browsers : \A r \in InFlight :
    /\ req[r].jwt = cookies[b].jwt /\ req[r].jwt # None => req[r].browser = b
    /\ req[r].refresh = cookies[b].refresh /\ req[r].refresh # None => req[r].browser = b

\* Nobody but the request that stored it has a new token, and it is not revoked.
NewJwtIsSecret(r) ==
  HasNew(req[r]) => LET new == req[r].new_jwt IN
    /\ ~jwt_tokens[new].revoked
    /\ \A b \in Browsers : cookies[b].jwt # new
    /\ \A q \in InFlight : req[q].jwt # new
    /\ \A q \in InFlight \ {r} : HasNew(req[q]) => req[q].new_jwt # new

NewRefreshIsSecret(r) ==
  LET new == req[r].new_refresh IN new # None =>
    /\ ~refresh_tokens[new].revoked
    /\ \A b \in Browsers : cookies[b].refresh # new
    /\ \A q \in InFlight : req[q].refresh # new
    /\ \A q \in InFlight \ {r} : req[q].new_refresh # new

OwnerInv ==
  /\ JarsApart /\ SentByOwner
  /\ \A r \in InFlight : NewJwtIsSecret(r) /\ NewRefreshIsSecret(r)

-----------------------------------------------------------------------------
(* The inductive invariant: which tokens a browser is left with *)

\* The answer of this request will replace or remove the refresh token.
WillReplace(q) ==
  \/ q.pc = "store_refresh"
  \/ q.pc = "answer" /\ q.new_refresh # None
  \/ q.pc = "answer" /\ q.kind = "logout" /\ q.refresh # None

RevokedIsReplaced ==
  Only({"overlap"}) =>
    \A b \in Browsers :
      cookies[b].refresh # None /\ refresh_tokens[cookies[b].refresh].revoked =>
        \E r \in InFlight : req[r].browser = b /\ WillReplace(req[r])

WillRemove(q) ==
  q.kind = "logout" /\ q.jwt # None /\ q.pc \in {"revoke_refresh", "answer"}

RevokedIsRemoved ==
  Only({"overlap", "dropped"}) =>
    \A b \in Browsers :
      cookies[b].jwt # None /\ jwt_tokens[cookies[b].jwt].revoked =>
        \E r \in InFlight : req[r].browser = b /\ WillRemove(req[r])

-----------------------------------------------------------------------------
(* The inductive invariant: requests that come one by one *)

OneByOne == "overlap" \notin troubles => \A q, r \in InFlight : q = r

Works(t, s) == ~refresh_tokens[t].revoked /\ refresh_tokens[t].session = s

OneWorks == \A t, u \in DOMAIN refresh_tokens : \A s \in Sessions :
  Works(t, s) /\ Works(u, s) => t = u

\* What works of the session of a request: before rotation the token it was sent
\* with, after it none; of a new session nothing.
WorksBefore(q) ==
  /\ q.pc \in {"generate", "store_jwt", "rotate"} =>
       \A t \in DOMAIN refresh_tokens :
         Works(t, q.session) => t = q.refresh /\ q.kind # "login"
  /\ q.pc = "store_refresh" =>
       \A t \in DOMAIN refresh_tokens : ~Works(t, q.session)

OneWorksInv ==
  Only({"dropped"}) => OneWorks /\ \A r \in InFlight : WorksBefore(req[r])

-----------------------------------------------------------------------------
(* The inductive invariant: what a logout comes to *)

SessionOf(b) == refresh_tokens[cookies[b].refresh].session

\* A browser's session is its own and goes on.
OwnSession ==
  /\ \A b, c \in Browsers :
       /\ cookies[b].refresh # None /\ cookies[c].refresh # None
       /\ SessionOf(b) = SessionOf(c)
       => b = c
  /\ \A b \in Browsers : cookies[b].refresh # None => SessionOf(b) \notin ended

\* Nothing of an ended session is accepted.
EndedIsDead ==
  /\ \A t \in DOMAIN jwt_tokens : jwt_tokens[t].session \in ended => DeadJwt(t)
  /\ \A t \in DOMAIN refresh_tokens :
       refresh_tokens[t].session \in ended => DeadRefresh(t)

\* Of a browser's session nothing is accepted but what the browser has and what a
\* request of its own is about to bring it.
AcceptsItsOwn ==
  \A b \in Browsers : cookies[b].refresh # None =>
    /\ \A t \in DOMAIN jwt_tokens :
         jwt_tokens[t].session = SessionOf(b) =>
           \/ DeadJwt(t) \/ t = cookies[b].jwt
           \/ \E r \in InFlight :
                req[r].browser = b /\ HasNew(req[r]) /\ req[r].new_jwt = t
    /\ \A t \in DOMAIN refresh_tokens :
         refresh_tokens[t].session = SessionOf(b) =>
           \/ refresh_tokens[t].revoked \/ t = cookies[b].refresh
           \/ \E r \in InFlight : req[r].browser = b /\ req[r].new_refresh = t

\* How far a request has come in doing away with the tokens it was sent with.
LeftJwt(q) ==
  \/ q.kind # "login" /\ (q.pc \in Refreshing \cup {"find"} \/ q.new_refresh # None)
  \/ q.kind = "logout" /\ q.pc \in {"revoke_refresh", "answer"}

Rotated(q) == q.kind # "login" /\ (q.pc = "store_refresh" \/ q.new_refresh # None)
LoggedOut(q) == q.kind = "logout" /\ q.pc = "answer"

\* A request has the tokens its browser still has, and what it has left behind is
\* not accepted any more.
LeavesBehind(q) ==
  /\ q.jwt = cookies[q.browser].jwt /\ q.refresh = cookies[q.browser].refresh
  /\ LeftJwt(q) => q.jwt = None \/ DeadJwt(q.jwt)
  /\ Rotated(q) => q.refresh # None /\ refresh_tokens[q.refresh].revoked
  /\ LoggedOut(q) => q.refresh = None \/ refresh_tokens[q.refresh].revoked

\* A login's session is nobody else's, and has only what the login has stored.
SessionIsNew(q) ==
  q.kind = "login" =>
    /\ q.session \notin ended
    /\ \A b \in Browsers : cookies[b].refresh # None => SessionOf(b) # q.session
    /\ \A t \in DOMAIN jwt_tokens :
         jwt_tokens[t].session = q.session => HasNew(q) /\ t = q.new_jwt
    /\ \A t \in DOMAIN refresh_tokens :
         refresh_tokens[t].session = q.session => t = q.new_refresh

InOrder ==
  /\ OwnSession /\ EndedIsDead /\ AcceptsItsOwn
  /\ \A r \in InFlight : LeavesBehind(req[r]) /\ SessionIsNew(req[r])

LogoutInv == Only({}) => InOrder

-----------------------------------------------------------------------------
(* What the steps do, one by one *)

Begins(r, b, kind) ==
  /\ r \notin InFlight /\ InFlight' = InFlight \cup {r}
  /\ \A q \in InFlight : req'[q] = req[q]
  /\ req'[r].pc = FirstStep(kind) /\ req'[r].kind = kind /\ req'[r].browser = b
  /\ req'[r].jwt = cookies[b].jwt /\ req'[r].refresh = cookies[b].refresh
  /\ req'[r].new_jwt = None /\ req'[r].new_refresh = None
  /\ req'[r].session = IF kind = "login" THEN logins + 1
                       ELSE IF cookies[b].refresh = None THEN 0
                       ELSE refresh_tokens[cookies[b].refresh].session
  /\ req'[r].barred = Barred(cookies[b])
  /\ logins' = IF kind = "login" THEN logins + 1 ELSE logins
  /\ troubles' = IF InFlight = {} THEN troubles ELSE troubles \cup {"overlap"}
  /\ UNCHANGED <<tokens, cookies, ended, now>>

LEMMA Beginning ==
  ASSUME NEW r, NEW b, NEW kind, Begin(r, b, kind)
  PROVE  Begins(r, b, kind)
BY DEF Begin, Begins, InFlight

Goes(r) ==
  /\ r \in InFlight
  /\ \/ /\ req[r].pc = "decode" /\ ~Unexpired(req[r].jwt) /\ MovesTo(r, "find")
     \/ /\ req[r].pc = "decode" /\ Unexpired(req[r].jwt) /\ MovesTo(r, "revoked")
     \/ /\ req[r].pc = "revoked" /\ ~Revoked(req[r].jwt) /\ MovesTo(r, "answer")
     \/ /\ req[r].pc = "find" /\ ValidRefresh(req[r].refresh) /\ MovesTo(r, "generate")
  /\ UNCHANGED <<tokens, browsing, troubles, now>>

Leaves(r) ==
  /\ Returns(r)
  /\ \/ req[r].pc \in {"revoked", "find", "store_jwt"} /\ UNCHANGED troubles
     \/ troubles' = troubles \cup {"failure"}
  /\ UNCHANGED <<tokens, browsing, now>>

Generates(r) ==
  /\ Moves(r) /\ req[r].pc = "generate" /\ req'[r].pc = "store_jwt"
  /\ req'[r].new_jwt = now /\ req'[r].new_refresh = req[r].new_refresh
  /\ UNCHANGED <<tokens, browsing, troubles, now>>

\* A row is new, and not revoked.
JwtAdded(jwt, s) ==
  /\ jwt \notin DOMAIN jwt_tokens
  /\ DOMAIN jwt_tokens' = DOMAIN jwt_tokens \cup {jwt}
  /\ \A t \in DOMAIN jwt_tokens : jwt_tokens'[t] = jwt_tokens[t]
  /\ jwt_tokens'[jwt] = [revoked |-> FALSE, session |-> s]

StoresJwt(r) ==
  /\ req[r].pc = "store_jwt"
  /\ MovesTo(r, IF req[r].kind = "login" THEN "store_refresh" ELSE "rotate")
  /\ JwtAdded(req[r].new_jwt, req[r].session)
  /\ UNCHANGED <<refresh_tokens, browsing, troubles, now>>

RefreshAdded(id, s) ==
  /\ id \notin DOMAIN refresh_tokens /\ id \in RefreshIds
  /\ DOMAIN refresh_tokens' = DOMAIN refresh_tokens \cup {id}
  /\ \A t \in DOMAIN refresh_tokens : refresh_tokens'[t] = refresh_tokens[t]
  /\ refresh_tokens'[id] =
       [expires_at |-> now + RefreshLife, revoked |-> FALSE, session |-> s]
  /\ DOMAIN refresh_tokens' = 1 .. Cardinality(DOMAIN refresh_tokens')

StoresRefresh(r) ==
  /\ Moves(r) /\ req[r].pc = "store_refresh" /\ req'[r].pc = "answer"
  /\ req'[r].new_jwt = req[r].new_jwt
  /\ RefreshAdded(req'[r].new_refresh, req[r].session)
  /\ UNCHANGED <<jwt_tokens, browsing, troubles, now>>

JwtRevoked(jwt) ==
  /\ DOMAIN jwt_tokens' = DOMAIN jwt_tokens
  /\ \A t \in DOMAIN jwt_tokens :
       /\ jwt_tokens'[t].session = jwt_tokens[t].session
       /\ t = jwt => jwt_tokens'[t].revoked = TRUE
       /\ t # jwt => jwt_tokens'[t] = jwt_tokens[t]

RefreshRevoked(id) ==
  /\ DOMAIN refresh_tokens' = DOMAIN refresh_tokens
  /\ \A t \in DOMAIN refresh_tokens :
       /\ refresh_tokens'[t].session = refresh_tokens[t].session
       /\ refresh_tokens'[t].expires_at = refresh_tokens[t].expires_at
       /\ t = id => refresh_tokens'[t].revoked = TRUE
       /\ t # id => refresh_tokens'[t] = refresh_tokens[t]

RevokesJwt(r) ==
  /\ req[r].pc = "revoke_jwt" /\ MovesTo(r, "revoke_refresh")
  /\ \/ JwtRevoked(req[r].jwt) /\ UNCHANGED troubles
     \/ troubles' = troubles \cup {"failure"} /\ UNCHANGED jwt_tokens
  /\ UNCHANGED <<refresh_tokens, browsing, now>>

RevokesRefresh(r) ==
  /\ \/ req[r].pc = "rotate" /\ MovesTo(r, "store_refresh")
     \/ req[r].pc = "revoke_refresh" /\ MovesTo(r, "answer")
  /\ \/ RefreshRevoked(req[r].refresh) /\ UNCHANGED troubles
     \/ troubles' = troubles \cup {"failure"} /\ UNCHANGED refresh_tokens
  /\ UNCHANGED <<jwt_tokens, browsing, now>>

Answers(r) ==
  /\ Returns(r) /\ req[r].pc = "answer"
  /\ cookies'[req[r].browser] = SetCookies(cookies[req[r].browser], req[r])
  /\ \A b \in Browsers \ {req[r].browser} : cookies'[b] = cookies[b]
  /\ ended' = IF req[r].kind = "logout" /\ req[r].session # 0
              THEN ended \cup {req[r].session} ELSE ended
  /\ troubles' = IF req[r].kind = "api" /\ req[r].new_refresh # None
                 THEN troubles \cup {"dropped"} ELSE troubles
  /\ UNCHANGED <<tokens, logins, now>>

\* Time passes, or nothing happens.
Waits ==
  /\ now' \in {now, now + 1} /\ now' \in Times
  /\ UNCHANGED <<tokens, browsing, troubles, req>>

Effect ==
  \/ \E r \in Requests, b \in Browsers, kind \in Kinds :
       Begins(r, b, kind) /\ (kind = "login" => logins < MaxLogins)
  \/ \E r \in Requests : Goes(r) \/ Leaves(r) \/ Generates(r) \/ StoresJwt(r)
       \/ StoresRefresh(r) \/ RevokesJwt(r) \/ RevokesRefresh(r) \/ Answers(r)
  \/ Waits

\* The types, without the rows that tokens have.
Tables ==
  /\ IsTable(jwt_tokens, Times, [revoked : BOOLEAN, session : Sessions])
  /\ IsTable(refresh_tokens, RefreshIds,
             [expires_at : Nat, revoked : BOOLEAN, session : Sessions])
  /\ DOMAIN refresh_tokens = 1 .. Cardinality(DOMAIN refresh_tokens)

Types ==
  /\ Tables
  /\ cookies \in [Browsers -> Jar]
  /\ logins \in 0 .. MaxLogins /\ ended \subseteq Sessions
  /\ troubles \subseteq Troubles
  /\ now \in Times
  /\ Requesting

LEMMA Bounds ==
  /\ MaxLogins \in Nat /\ MaxRefresh \in Nat /\ MaxTime \in Nat
  /\ JwtLife \in Nat /\ RefreshLife \in Nat
  /\ None \notin Times /\ None \notin RefreshIds
  /\ Times \subseteq Nat /\ RefreshIds \subseteq Nat /\ Sessions \subseteq Nat
BY BoundsAssumption, NoneAssumption DEF Times, RefreshIds, Sessions

\* The ids are 1 .. n, and the next is n + 1.
LEMMA NewId ==
  ASSUME NEW S, S = 1 .. Cardinality(S), S \subseteq RefreshIds
  PROVE  LET id == Cardinality(S) + 1 IN
           /\ id \notin S
           /\ S \cup {id} = 1 .. Cardinality(S \cup {id})
<1>1. IsFiniteSet(RefreshIds)
  BY FS_Interval, Bounds, 1 \in Int, MaxRefresh \in Int DEF RefreshIds
<1>2. IsFiniteSet(S)
  BY <1>1, FS_Subset
<1>3. Cardinality(S) \in Nat
  BY <1>2, FS_CardinalityType
<1>4. Cardinality(S) + 1 \notin S
  BY <1>3
<1>5. S \cup {Cardinality(S) + 1} = 1 .. (Cardinality(S) + 1)
  BY <1>3
<1>6. Cardinality(S \cup {Cardinality(S) + 1}) = Cardinality(S) + 1
  BY <1>2, <1>4, FS_AddElement
<1> QED
  BY <1>4, <1>5, <1>6

LEMMA Revoking ==
  ASSUME NEW Keys, NEW Rows, NEW table, IsTable(table, Keys, Rows), NEW key,
         \A k \in DOMAIN table : [table[k] EXCEPT !.revoked = TRUE] \in Rows
  PROVE  /\ IsTable(RevokeRow(table, key), Keys, Rows)
         /\ DOMAIN RevokeRow(table, key) = DOMAIN table
         /\ \A t \in DOMAIN table : RevokeRow(table, key)[t] =
              IF t = key THEN [table[t] EXCEPT !.revoked = TRUE] ELSE table[t]
BY DEF IsTable, RevokeRow

LEMMA RevokingJwt ==
  ASSUME Tables, NEW jwt, jwt_tokens' = RevokeRow(jwt_tokens, jwt)
  PROVE  /\ JwtRevoked(jwt)
         /\ IsTable(jwt_tokens', Times, [revoked : BOOLEAN, session : Sessions])
<1> DEFINE Rows == [revoked : BOOLEAN, session : Sessions]
<1>1. IsTable(jwt_tokens, Times, Rows) /\ \A t \in DOMAIN jwt_tokens : jwt_tokens[t] \in Rows
  BY DEF Tables, IsTable
<1>2. \A t \in DOMAIN jwt_tokens : [jwt_tokens[t] EXCEPT !.revoked = TRUE] \in Rows
  BY <1>1
<1> HIDE DEF Rows
<1>3. /\ IsTable(jwt_tokens', Times, Rows)
      /\ DOMAIN jwt_tokens' = DOMAIN jwt_tokens
      /\ \A t \in DOMAIN jwt_tokens : jwt_tokens'[t] =
           IF t = jwt THEN [jwt_tokens[t] EXCEPT !.revoked = TRUE] ELSE jwt_tokens[t]
  BY <1>1, <1>2, Revoking
<1>4. ASSUME NEW t \in DOMAIN jwt_tokens
      PROVE  /\ jwt_tokens'[t].session = jwt_tokens[t].session
             /\ t = jwt => jwt_tokens'[t].revoked = TRUE
             /\ t # jwt => jwt_tokens'[t] = jwt_tokens[t]
  <2>1. jwt_tokens[t].revoked \in BOOLEAN
    BY <1>1 DEF Rows
  <2>2. CASE t = jwt
    BY <2>1, <2>2, <1>1, <1>3 DEF Rows
  <2>3. CASE t # jwt
    BY <2>1, <2>3, <1>3
  <2> QED
    BY <2>2, <2>3
<1>5. JwtRevoked(jwt)
  BY <1>3, <1>4 DEF JwtRevoked
<1> QED
  BY <1>3, <1>5 DEF Rows

LEMMA RevokingRefresh ==
  ASSUME Tables, NEW id, refresh_tokens' = RevokeRow(refresh_tokens, id)
  PROVE  /\ RefreshRevoked(id)
         /\ IsTable(refresh_tokens', RefreshIds,
                    [expires_at : Nat, revoked : BOOLEAN, session : Sessions])
<1> DEFINE Rows == [expires_at : Nat, revoked : BOOLEAN, session : Sessions]
<1>1. /\ IsTable(refresh_tokens, RefreshIds, Rows)
      /\ \A t \in DOMAIN refresh_tokens : refresh_tokens[t] \in Rows
  BY DEF Tables, IsTable
<1>2. \A t \in DOMAIN refresh_tokens : [refresh_tokens[t] EXCEPT !.revoked = TRUE] \in Rows
  BY <1>1
<1> HIDE DEF Rows
<1>3. /\ IsTable(refresh_tokens', RefreshIds, Rows)
      /\ DOMAIN refresh_tokens' = DOMAIN refresh_tokens
      /\ \A t \in DOMAIN refresh_tokens : refresh_tokens'[t] =
           IF t = id THEN [refresh_tokens[t] EXCEPT !.revoked = TRUE]
           ELSE refresh_tokens[t]
  BY <1>1, <1>2, Revoking
<1>4. ASSUME NEW t \in DOMAIN refresh_tokens
      PROVE  /\ refresh_tokens'[t].session = refresh_tokens[t].session
             /\ refresh_tokens'[t].expires_at = refresh_tokens[t].expires_at
             /\ t = id => refresh_tokens'[t].revoked = TRUE
             /\ t # id => refresh_tokens'[t] = refresh_tokens[t]
  <2>1. refresh_tokens[t].revoked \in BOOLEAN
    BY <1>1 DEF Rows
  <2>2. CASE t = id
    BY <2>1, <2>2, <1>1, <1>3 DEF Rows
  <2>3. CASE t # id
    BY <2>1, <2>3, <1>3
  <2> QED
    BY <2>2, <2>3
<1>5. RefreshRevoked(id)
  BY <1>3, <1>4 DEF RefreshRevoked
<1> QED
  BY <1>3, <1>5 DEF Rows

\* A request that refreshes a session has one.
LEMMA SessionIsOne ==
  ASSUME HoldInv, NEW r \in InFlight, req[r].pc \in Refreshing
  PROVE  req[r].session \in Sessions
<1>1. HoldsRows(req[r]) /\ InSession(req[r]) /\ logins \in 0 .. MaxLogins
  BY DEF HoldInv, TypeOK
<1>2. \A t \in DOMAIN refresh_tokens : refresh_tokens[t].session \in Sessions
  BY DEF HoldInv, TypeOK, IsTable
<1>3. CASE req[r].kind = "login"
  BY <1>1, <1>3, Bounds DEF InSession, Sessions
<1>4. CASE req[r].kind # "login"
  BY <1>1, <1>2, <1>4 DEF InSession, HoldsRows
<1> QED
  BY <1>3, <1>4

LEMMA AddingJwt ==
  ASSUME HoldInv, NEW r \in InFlight, req[r].pc = "store_jwt",
         req[r].new_jwt \notin DOMAIN jwt_tokens,
         jwt_tokens' = [t \in DOMAIN jwt_tokens \cup {req[r].new_jwt} |->
                          IF t # req[r].new_jwt THEN jwt_tokens[t]
                          ELSE [revoked |-> FALSE, session |-> req[r].session]]
  PROVE  /\ JwtAdded(req[r].new_jwt, req[r].session)
         /\ IsTable(jwt_tokens', Times, [revoked : BOOLEAN, session : Sessions])
<1> DEFINE Rows == [revoked : BOOLEAN, session : Sessions]
<1>1. IsTable(jwt_tokens, Times, Rows) /\ \A t \in DOMAIN jwt_tokens : jwt_tokens[t] \in Rows
  BY DEF HoldInv, TypeOK, IsTable
<1>2. HoldsRows(req[r]) /\ InSession(req[r])
  BY DEF HoldInv
<1>3. req[r].session \in Sessions
  BY <1>2, SessionIsOne DEF Refreshing
<1>4. [revoked |-> FALSE, session |-> req[r].session] \in Rows
  BY <1>3
<1> HIDE DEF Rows
<1> DEFINE jwt == req[r].new_jwt
           row == [revoked |-> FALSE, session |-> req[r].session]
<1>5. jwt \in Times /\ jwt \notin DOMAIN jwt_tokens
  BY <1>2 DEF HoldsRows
<1>6. jwt_tokens' = [t \in DOMAIN jwt_tokens \cup {jwt} |->
                       IF t # jwt THEN jwt_tokens[t] ELSE row]
  OBVIOUS
<1>7. row \in Rows
  BY <1>4
<1> HIDE DEF jwt, row
<1>8. IsTable(jwt_tokens', Times, Rows)
  BY <1>1, <1>5, <1>6, <1>7 DEF IsTable
<1>9. /\ DOMAIN jwt_tokens' = DOMAIN jwt_tokens \cup {jwt}
      /\ \A t \in DOMAIN jwt_tokens : jwt_tokens'[t] = jwt_tokens[t]
      /\ jwt_tokens'[jwt] = row
  BY <1>5, <1>6
<1> QED
  BY <1>5, <1>8, <1>9 DEF Rows, JwtAdded, jwt, row

LEMMA AddingRefresh ==
  ASSUME HoldInv, NEW r \in InFlight, req[r].pc = "store_refresh",
         NEW id, id = Cardinality(DOMAIN refresh_tokens) + 1, id \in RefreshIds,
         refresh_tokens' = [t \in DOMAIN refresh_tokens \cup {id} |->
           IF t # id THEN refresh_tokens[t]
           ELSE [expires_at |-> now + RefreshLife, revoked |-> FALSE,
                 session |-> req[r].session]]
  PROVE  /\ RefreshAdded(id, req[r].session)
         /\ IsTable(refresh_tokens', RefreshIds,
                    [expires_at : Nat, revoked : BOOLEAN, session : Sessions])
<1> DEFINE Rows == [expires_at : Nat, revoked : BOOLEAN, session : Sessions]
           row == [expires_at |-> now + RefreshLife, revoked |-> FALSE,
                   session |-> req[r].session]
<1>1. /\ IsTable(refresh_tokens, RefreshIds, Rows)
      /\ \A t \in DOMAIN refresh_tokens : refresh_tokens[t] \in Rows
      /\ DOMAIN refresh_tokens = 1 .. Cardinality(DOMAIN refresh_tokens)
      /\ DOMAIN refresh_tokens \subseteq RefreshIds
  BY DEF HoldInv, TypeOK, IsTable
<1>2. HoldsRows(req[r]) /\ InSession(req[r]) /\ now \in Times
  BY DEF HoldInv, TypeOK
<1>3. req[r].session \in Sessions
  BY <1>2, SessionIsOne DEF Refreshing
<1>4. row \in Rows
  BY <1>2, <1>3, Bounds
<1>5. refresh_tokens' = [t \in DOMAIN refresh_tokens \cup {id} |->
                           IF t # id THEN refresh_tokens[t] ELSE row]
  OBVIOUS
<1>6. /\ id \notin DOMAIN refresh_tokens
      /\ DOMAIN refresh_tokens \cup {id}
           = 1 .. Cardinality(DOMAIN refresh_tokens \cup {id})
  BY <1>1, NewId
<1>7. row = [expires_at |-> now + RefreshLife, revoked |-> FALSE,
             session |-> req[r].session]
  OBVIOUS
<1> HIDE DEF Rows, row
<1>8. IsTable(refresh_tokens', RefreshIds, Rows)
  BY <1>1, <1>4, <1>5, <1>6 DEF IsTable
<1>9. /\ DOMAIN refresh_tokens' = DOMAIN refresh_tokens \cup {id}
      /\ \A t \in DOMAIN refresh_tokens : refresh_tokens'[t] = refresh_tokens[t]
      /\ refresh_tokens'[id] = row
  BY <1>5, <1>6
<1>10. DOMAIN refresh_tokens' = 1 .. Cardinality(DOMAIN refresh_tokens')
  BY <1>6, <1>9
<1> QED
  BY <1>6, <1>7, <1>8, <1>9, <1>10 DEF Rows, RefreshAdded

LEMMA HasTypes ==
  ASSUME HoldInv
  PROVE  /\ Types /\ \A r \in InFlight : req[r] \in RequestState
         /\ \A b \in Browsers : cookies[b] \in Jar
         /\ \A t \in DOMAIN jwt_tokens :
              jwt_tokens[t] \in [revoked : BOOLEAN, session : Sessions]
         /\ \A t \in DOMAIN refresh_tokens : refresh_tokens[t] \in
              [expires_at : Nat, revoked : BOOLEAN, session : Sessions]
BY DEF HoldInv, TypeOK, Types, Tables, Requesting, InFlight, IsTable

-----------------------------------------------------------------------------
(* Every step is one of these *)

LEMMA BeginStep ==
  ASSUME HoldInv, NEW r \in Requests, NEW b \in Browsers, NEW kind \in Kinds,
         Begin(r, b, kind)
  PROVE  Types' /\ Effect
<1>1. Begins(r, b, kind) /\ (kind = "login" => logins < MaxLogins)
  BY Beginning DEF Begin
<1>2. Types
  BY HasTypes
<1>3. logins' \in 0 .. MaxLogins
  BY <1>1, <1>2, Bounds DEF Begins, Types
<1>4. troubles' \subseteq Troubles
  BY <1>2 DEF Begin, Types, Troubles
<1> DEFINE s == IF kind = "login" THEN logins + 1
                ELSE IF cookies[b].refresh = None THEN 0
                ELSE refresh_tokens[cookies[b].refresh].session
           q == [pc |-> FirstStep(kind), kind |-> kind, browser |-> b,
                 jwt |-> cookies[b].jwt, refresh |-> cookies[b].refresh,
                 new_jwt |-> None, new_refresh |-> None,
                 session |-> s, barred |-> Barred(cookies[b])]
<1>5. s \in 0 .. MaxLogins
  <2>1. CASE kind = "login"
    BY <1>1, <1>2, <2>1, Bounds DEF Types
  <2>2. CASE kind # "login" /\ cookies[b].refresh = None
    BY <2>2, Bounds
  <2>3. CASE kind # "login" /\ cookies[b].refresh # None
    <3>1. cookies[b].refresh \in DOMAIN refresh_tokens
      BY <2>3 DEF HoldInv, TypeOK
    <3>2. refresh_tokens[cookies[b].refresh].session \in Sessions
      BY <3>1, HasTypes
    <3> QED
      BY <2>3, <3>2, Bounds DEF Sessions
  <2> QED
    BY <2>1, <2>2, <2>3
<1>6. Barred(cookies[b]) \in BOOLEAN
  BY DEF Barred
<1>7. FirstStep(kind) \in PCs /\ kind \in AllKinds
  BY KindsAssumption DEF FirstStep, PCs, AllKinds
<1>8. cookies[b] \in Jar
  BY HasTypes
<1> HIDE DEF s
<1>9. q \in RequestState
  BY <1>5, <1>6, <1>7, <1>8 DEF RequestState, PCs, Jar
<1>10. req' = [p \in InFlight \cup {r} |-> IF p # r THEN req[p] ELSE q]
  BY DEF Begin, s
<1> HIDE DEF q
<1>11. Requesting'
  BY <1>2, <1>9, <1>10 DEF Types, Requesting, IsTable, InFlight
<1>12. Types'
  BY <1>1, <1>2, <1>3, <1>4, <1>11 DEF Types, Tables, Begins, tokens
<1> QED
  BY <1>1, <1>12 DEF Effect

\* The steps that change the point a request is at, and nothing else.
LEMMA GoStep ==
  ASSUME HoldInv, NEW r \in Requests, NEW pc \in PCs, r \in InFlight, GoTo(r, pc),
         UNCHANGED <<tokens, browsing, troubles, now>>
  PROVE  Types' /\ MovesTo(r, pc)
<1>1. Types
  BY HasTypes
<1>2. MovesTo(r, pc) /\ Requesting'
  BY <1>1, Going DEF Types
<1> QED
  BY <1>1, <1>2 DEF Types, Tables, tokens, browsing

LEMMA LeaveStep ==
  ASSUME HoldInv, NEW r \in Requests, r \in InFlight, Return(r),
         UNCHANGED <<tokens, browsing, now>>,
         \/ req[r].pc \in {"revoked", "find", "store_jwt"} /\ UNCHANGED troubles
         \/ Fails
  PROVE  Types' /\ Leaves(r)
<1>1. Types
  BY HasTypes
<1>2. Returns(r) /\ Requesting'
  BY <1>1, Returning DEF Types
<1>3. troubles' \subseteq Troubles
  BY <1>1 DEF Types, Fails, Troubles
<1>4. Leaves(r)
  BY <1>2 DEF Leaves, Fails
<1>5. Types'
  BY <1>1, <1>2, <1>3 DEF Types, Tables, tokens, browsing
<1> QED
  BY <1>4, <1>5

LEMMA GenerateStep ==
  ASSUME HoldInv, NEW r \in Requests, GenerateJwt(r)
  PROVE  Types' /\ Generates(r)
<1>1. Types /\ r \in InFlight /\ req[r] \in RequestState
  BY HasTypes DEF GenerateJwt, At
<1> DEFINE q == [[req[r] EXCEPT !.pc = "store_jwt"] EXCEPT !.new_jwt = now]
<1>2. q \in RequestState
  BY <1>1 DEF RequestState, Types
<1>3. req' = [req EXCEPT ![r] = q]
  BY <1>1 DEF GenerateJwt, InFlight
<1>4. /\ q.pc = "store_jwt" /\ q.new_jwt = now /\ q.new_refresh = req[r].new_refresh
      /\ q.kind = req[r].kind /\ q.browser = req[r].browser /\ q.jwt = req[r].jwt
      /\ q.refresh = req[r].refresh /\ q.session = req[r].session
      /\ q.barred = req[r].barred
  BY <1>1 DEF RequestState
<1> HIDE DEF q
<1>5. InFlight' = InFlight /\ req'[r] = q /\ \A p \in InFlight \ {r} : req'[p] = req[p]
  BY <1>1, <1>3 DEF InFlight
<1>6. Requesting'
  BY <1>1, <1>2, <1>3 DEF Types, Requesting, IsTable, InFlight
<1>7. Generates(r)
  BY <1>1, <1>4, <1>5 DEF Generates, Moves, Keeps, GenerateJwt, At
<1>8. Types'
  BY <1>1, <1>6 DEF Types, Tables, GenerateJwt, tokens, browsing
<1> QED
  BY <1>7, <1>8

LEMMA StoreJwtStep ==
  ASSUME HoldInv, NEW r \in Requests, StoreJwt(r)
  PROVE  Types' /\ (Leaves(r) \/ StoresJwt(r))
<1>1. Types /\ r \in InFlight /\ req[r].pc = "store_jwt"
  BY HasTypes DEF StoreJwt, At
<1>2. CASE req[r].new_jwt \in DOMAIN jwt_tokens
  BY <1>1, <1>2, LeaveStep DEF StoreJwt, tokens
<1>3. CASE req[r].new_jwt \notin DOMAIN jwt_tokens
  <2> DEFINE pc == IF req[r].kind = "login" THEN "store_refresh" ELSE "rotate"
  <2>1. pc \in PCs /\ GoTo(r, pc)
    BY <1>1, <1>3 DEF StoreJwt, PCs
  <2> HIDE DEF pc
  <2>2. MovesTo(r, pc) /\ Requesting'
    BY <1>1, <2>1, Going DEF Types
  <2>3. /\ JwtAdded(req[r].new_jwt, req[r].session)
        /\ IsTable(jwt_tokens', Times, [revoked : BOOLEAN, session : Sessions])
    BY <1>1, <1>3, AddingJwt DEF StoreJwt
  <2>4. UNCHANGED <<refresh_tokens, browsing, troubles, now>>
    BY DEF StoreJwt
  <2>5. Types'
    BY <1>1, <2>2, <2>3, <2>4 DEF Types, Tables, browsing
  <2>6. StoresJwt(r)
    BY <1>1, <2>2, <2>3, <2>4 DEF StoresJwt, pc
  <2> QED
    BY <2>5, <2>6
<1> QED
  BY <1>2, <1>3

LEMMA StoreRefreshStep ==
  ASSUME HoldInv, NEW r \in Requests, StoreRefresh(r)
  PROVE  Types' /\ StoresRefresh(r)
<1>1. /\ Types /\ r \in InFlight /\ req[r] \in RequestState
      /\ req[r].pc = "store_refresh"
  BY HasTypes DEF StoreRefresh, At
<1> DEFINE id == Cardinality(DOMAIN refresh_tokens) + 1
           q == [[req[r] EXCEPT !.pc = "answer"] EXCEPT !.new_refresh = id]
<1>2. id \in RefreshIds
  BY DEF StoreRefresh
<1>3. /\ RefreshAdded(id, req[r].session)
      /\ IsTable(refresh_tokens', RefreshIds,
                 [expires_at : Nat, revoked : BOOLEAN, session : Sessions])
  BY <1>1, <1>2, AddingRefresh DEF StoreRefresh
<1>4. req' = [req EXCEPT ![r] = q]
  BY <1>1 DEF StoreRefresh, InFlight
<1> HIDE DEF id
<1>5. q \in RequestState
  BY <1>1, <1>2 DEF RequestState
<1>6. /\ q.pc = "answer" /\ q.new_jwt = req[r].new_jwt /\ q.new_refresh = id
      /\ q.kind = req[r].kind /\ q.browser = req[r].browser /\ q.jwt = req[r].jwt
      /\ q.refresh = req[r].refresh /\ q.session = req[r].session
      /\ q.barred = req[r].barred
  BY <1>1 DEF RequestState
<1> HIDE DEF q
<1>7. InFlight' = InFlight /\ req'[r] = q /\ \A p \in InFlight \ {r} : req'[p] = req[p]
  BY <1>1, <1>4 DEF InFlight
<1>8. Requesting'
  BY <1>1, <1>4, <1>5 DEF Types, Requesting, IsTable, InFlight
<1>9. UNCHANGED <<jwt_tokens, browsing, troubles, now>>
  BY DEF StoreRefresh
<1>10. StoresRefresh(r)
  <2>1. Moves(r) /\ req'[r].pc = "answer" /\ req'[r].new_jwt = req[r].new_jwt
    BY <1>1, <1>6, <1>7 DEF Moves, Keeps
  <2>2. RefreshAdded(req'[r].new_refresh, req[r].session)
    BY <1>3, <1>6, <1>7 DEF RefreshAdded
  <2> QED
    BY <1>1, <1>9, <2>1, <2>2 DEF StoresRefresh
<1>11. DOMAIN refresh_tokens' = 1 .. Cardinality(DOMAIN refresh_tokens')
  BY <1>3 DEF RefreshAdded
<1>12. Types'
  BY <1>1, <1>3, <1>8, <1>9, <1>11 DEF Types, Tables, browsing
<1> QED
  BY <1>10, <1>12

LEMMA RevokeJwtStep ==
  ASSUME HoldInv, NEW r \in Requests, RevokeJwt(r)
  PROVE  Types' /\ RevokesJwt(r)
<1>1. Types /\ r \in InFlight /\ req[r].pc = "revoke_jwt"
  BY HasTypes DEF RevokeJwt, At
<1>2. MovesTo(r, "revoke_refresh") /\ Requesting'
  BY <1>1, Going DEF RevokeJwt, Types, PCs
<1>3. UNCHANGED <<refresh_tokens, browsing, now>>
  BY DEF RevokeJwt
<1>4. CASE jwt_tokens' = RevokeRow(jwt_tokens, req[r].jwt) /\ UNCHANGED troubles
  <2>1. /\ JwtRevoked(req[r].jwt)
        /\ IsTable(jwt_tokens', Times, [revoked : BOOLEAN, session : Sessions])
    BY <1>1, <1>4, RevokingJwt DEF Types
  <2>2. Types'
    BY <1>1, <1>2, <1>3, <1>4, <2>1 DEF Types, Tables, browsing
  <2>3. RevokesJwt(r)
    BY <1>1, <1>2, <1>3, <1>4, <2>1 DEF RevokesJwt
  <2> QED
    BY <2>2, <2>3
<1>5. CASE Fails /\ UNCHANGED jwt_tokens
  <2>1. troubles' \subseteq Troubles
    BY <1>1, <1>5 DEF Types, Fails, Troubles
  <2>2. Types'
    BY <1>1, <1>2, <1>3, <1>5, <2>1 DEF Types, Tables, browsing
  <2>3. RevokesJwt(r)
    BY <1>1, <1>2, <1>3, <1>5 DEF RevokesJwt, Fails
  <2> QED
    BY <2>2, <2>3
<1> QED
  BY <1>4, <1>5 DEF RevokeJwt

LEMMA RevokeRefreshStep ==
  ASSUME HoldInv, NEW r \in Requests, Rotate(r) \/ RevokeRefresh(r)
  PROVE  Types' /\ RevokesRefresh(r)
<1>1. Types /\ r \in InFlight
  BY HasTypes DEF Rotate, RevokeRefresh, At
<1>2. /\ Requesting'
      /\ \/ req[r].pc = "rotate" /\ MovesTo(r, "store_refresh")
         \/ req[r].pc = "revoke_refresh" /\ MovesTo(r, "answer")
  BY <1>1, Going DEF Rotate, RevokeRefresh, At, Types, PCs
<1>3. UNCHANGED <<jwt_tokens, browsing, now>>
  BY DEF Rotate, RevokeRefresh
<1>4. CASE refresh_tokens' = RevokeRow(refresh_tokens, req[r].refresh) /\ UNCHANGED troubles
  <2>1. /\ RefreshRevoked(req[r].refresh)
        /\ IsTable(refresh_tokens', RefreshIds,
                   [expires_at : Nat, revoked : BOOLEAN, session : Sessions])
    BY <1>1, <1>4, RevokingRefresh DEF Types
  <2>2. DOMAIN refresh_tokens' = 1 .. Cardinality(DOMAIN refresh_tokens')
    BY <1>1, <2>1 DEF Types, Tables, RefreshRevoked
  <2>3. Types'
    BY <1>1, <1>2, <1>3, <1>4, <2>1, <2>2 DEF Types, Tables, browsing
  <2>4. RevokesRefresh(r)
    BY <1>2, <1>3, <1>4, <2>1 DEF RevokesRefresh
  <2> QED
    BY <2>3, <2>4
<1>5. CASE Fails /\ UNCHANGED refresh_tokens
  <2>1. troubles' \subseteq Troubles
    BY <1>1, <1>5 DEF Types, Fails, Troubles
  <2>2. Types'
    BY <1>1, <1>2, <1>3, <1>5, <2>1 DEF Types, Tables, browsing
  <2>3. RevokesRefresh(r)
    BY <1>2, <1>3, <1>5 DEF RevokesRefresh, Fails
  <2> QED
    BY <2>2, <2>3
<1> QED
  BY <1>4, <1>5 DEF Rotate, RevokeRefresh

LEMMA AnswerStep ==
  ASSUME HoldInv, NEW r \in Requests, Answer(r)
  PROVE  Types' /\ Answers(r)
<1>1. /\ Types /\ r \in InFlight /\ req[r] \in RequestState /\ req[r].pc = "answer"
      /\ req[r].browser \in Browsers /\ HoldsRows(req[r])
  BY HasTypes DEF Answer, At, RequestState, HoldInv
<1>2. Returns(r) /\ Requesting'
  BY <1>1, Returning DEF Answer, Types
<1>3. cookies' = [cookies EXCEPT ![req[r].browser] = SetCookies(@, req[r])]
  BY DEF Answer
<1>4. /\ cookies'[req[r].browser] = SetCookies(cookies[req[r].browser], req[r])
      /\ \A b \in Browsers \ {req[r].browser} : cookies'[b] = cookies[b]
  BY <1>1, <1>3 DEF Types
<1>5. SetCookies(cookies[req[r].browser], req[r]) \in Jar
  <2> DEFINE jar == cookies[req[r].browser]
  <2>1. jar \in Jar
    BY <1>1, HasTypes
  <2>2. req[r].new_jwt \in Times \cup {None} /\ req[r].new_refresh \in RefreshIds \cup {None}
    BY <1>1 DEF RequestState
  <2> HIDE DEF jar
  <2>3. SetCookies(jar, req[r]) \in Jar
    BY <2>1, <2>2 DEF SetCookies, Jar
  <2> QED
    BY <2>3 DEF jar
<1>6. cookies' \in [Browsers -> Jar]
  BY <1>1, <1>3, <1>5 DEF Types
<1>7. ended' \subseteq Sessions
  <2>1. req[r].session \in 0 .. MaxLogins
    BY <1>1 DEF RequestState
  <2>2. req[r].session # 0 => req[r].session \in Sessions
    BY <2>1, Bounds DEF Sessions
  <2> QED
    BY <1>1, <2>2 DEF Answer, Types
<1>8. troubles' \subseteq Troubles
  BY <1>1 DEF Answer, Types, Troubles
<1>9. UNCHANGED <<tokens, logins, now>>
  BY DEF Answer
<1>10. Answers(r)
  BY <1>1, <1>2, <1>4, <1>9 DEF Answers, Answer
<1>11. Types'
  BY <1>1, <1>2, <1>6, <1>7, <1>8, <1>9 DEF Types, Tables, tokens
<1> QED
  BY <1>10, <1>11

LEMMA Steps ==
  ASSUME HoldInv, [Next]_vars
  PROVE  Types' /\ Effect
<1>1. ASSUME NEW r \in Requests, NEW b \in Browsers, NEW kind \in Kinds, Begin(r, b, kind)
      PROVE  Types' /\ Effect
  BY <1>1, BeginStep
<1>2. ASSUME NEW r \in Requests, Decode(r)
      PROVE  Types' /\ Goes(r)
  BY <1>2, GoStep DEF Decode, At, Goes, PCs
<1>3. ASSUME NEW r \in Requests, IsJwtRevoked(r)
      PROVE  Types' /\ (Goes(r) \/ Leaves(r))
  <2>1. CASE Revoked(req[r].jwt)
    BY <1>3, <2>1, LeaveStep DEF IsJwtRevoked, At, browsing
  <2>2. CASE ~Revoked(req[r].jwt)
    BY <1>3, <2>2, GoStep DEF IsJwtRevoked, At, Goes, PCs
  <2> QED
    BY <2>1, <2>2
<1>4. ASSUME NEW r \in Requests, FindRefresh(r)
      PROVE  Types' /\ (Goes(r) \/ Leaves(r))
  <2>1. CASE ~ValidRefresh(req[r].refresh)
    BY <1>4, <2>1, LeaveStep DEF FindRefresh, At, browsing
  <2>2. CASE ValidRefresh(req[r].refresh)
    BY <1>4, <2>2, GoStep DEF FindRefresh, At, Goes, PCs
  <2> QED
    BY <2>1, <2>2
<1>5. ASSUME NEW r \in Requests, Abort(r)
      PROVE  Types' /\ Leaves(r)
  BY <1>5, LeaveStep DEF Abort
<1>6. ASSUME NEW r \in Requests, Step(r) \/ Abort(r)
      PROVE  Types' /\ (Goes(r) \/ Leaves(r) \/ Generates(r) \/ StoresJwt(r)
               \/ StoresRefresh(r) \/ RevokesJwt(r) \/ RevokesRefresh(r) \/ Answers(r))
  BY <1>2, <1>3, <1>4, <1>5, <1>6, GenerateStep, StoreJwtStep, StoreRefreshStep,
     RevokeJwtStep, RevokeRefreshStep, AnswerStep
  DEF Step
<1>7. CASE Tick
  <2>1. Types
    BY HasTypes
  <2>2. now' \in Times
    BY <1>7, <2>1, Bounds DEF Tick, Types, Times
  <2>3. Types'
    BY <1>7, <2>1, <2>2 DEF Tick, Types, Tables, tokens, browsing, Requesting
  <2> QED
    BY <1>7, <2>2, <2>3 DEF Tick, Effect, Waits
<1>8. CASE UNCHANGED vars
  <2>1. Types
    BY HasTypes
  <2>2. Types'
    BY <1>8, <2>1 DEF vars, Types, Tables, Requesting
  <2> QED
    BY <1>8, <2>1 , <2>2 DEF vars, Effect, Waits, Types, tokens, browsing
<1> QED
  BY <1>1, <1>6, <1>7, <1>8 DEF Next, Effect

-----------------------------------------------------------------------------
(* Rows stay, and nothing is taken back *)

Grow ==
  /\ \A t \in DOMAIN jwt_tokens :
       /\ t \in DOMAIN jwt_tokens' /\ jwt_tokens'[t].session = jwt_tokens[t].session
       /\ jwt_tokens[t].revoked => jwt_tokens'[t].revoked
  /\ \A t \in DOMAIN refresh_tokens :
       /\ t \in DOMAIN refresh_tokens'
       /\ refresh_tokens'[t].session = refresh_tokens[t].session
       /\ refresh_tokens'[t].expires_at = refresh_tokens[t].expires_at
       /\ refresh_tokens[t].revoked => refresh_tokens'[t].revoked
  /\ now' >= now /\ logins' >= logins
  /\ ended \subseteq ended' /\ troubles \subseteq troubles'

LEMMA Growing ==
  ASSUME HoldInv, Effect
  PROVE  Grow
<1>1. now \in Int /\ logins \in Int /\ now + 1 >= now /\ logins + 1 >= logins
  <2>1. now \in Times /\ logins \in 0 .. MaxLogins
    BY HasTypes DEF Types
  <2> QED
    BY <2>1, Bounds
<1>2. ASSUME NEW r \in Requests, NEW b \in Browsers, NEW kind \in Kinds, Begins(r, b, kind)
      PROVE  Grow
  <2>1. troubles \subseteq troubles'
    BY <1>2 DEF Begins
  <2> QED
    BY <1>1, <1>2, <2>1 DEF Grow, Begins, tokens
<1>3. ASSUME NEW r \in Requests, Goes(r) \/ Leaves(r) \/ Generates(r)
      PROVE  Grow
  BY <1>1, <1>3 DEF Grow, Goes, Leaves, Generates, tokens, browsing
<1>4. ASSUME NEW r \in Requests, StoresJwt(r)
      PROVE  Grow
  BY <1>1, <1>4 DEF Grow, StoresJwt, JwtAdded, browsing
<1>5. ASSUME NEW r \in Requests, StoresRefresh(r)
      PROVE  Grow
  BY <1>1, <1>5 DEF Grow, StoresRefresh, RefreshAdded, browsing
<1>6. ASSUME NEW r \in Requests, RevokesJwt(r)
      PROVE  Grow
  <2>1. CASE UNCHANGED jwt_tokens
    BY <1>1, <1>6, <2>1 DEF Grow, RevokesJwt, browsing
  <2>2. CASE JwtRevoked(req[r].jwt)
    BY <1>1, <1>6, <2>2 DEF Grow, RevokesJwt, JwtRevoked, browsing
  <2> QED
    BY <1>6, <2>1, <2>2 DEF RevokesJwt
<1>7. ASSUME NEW r \in Requests, RevokesRefresh(r)
      PROVE  Grow
  <2>1. CASE UNCHANGED refresh_tokens
    BY <1>1, <1>7, <2>1 DEF Grow, RevokesRefresh, browsing
  <2>2. CASE RefreshRevoked(req[r].refresh)
    BY <1>1, <1>7, <2>2 DEF Grow, RevokesRefresh, RefreshRevoked, browsing
  <2> QED
    BY <1>7, <2>1, <2>2 DEF RevokesRefresh
<1>8. ASSUME NEW r \in Requests, Answers(r)
      PROVE  Grow
  BY <1>1, <1>8 DEF Grow, Answers, tokens
<1>9. CASE Waits
  BY <1>1, <1>9 DEF Grow, Waits, tokens, browsing
<1> QED
  BY <1>2, <1>3, <1>4, <1>5, <1>6, <1>7, <1>8, <1>9 DEF Effect

-----------------------------------------------------------------------------
(* Requests hold what they should *)

Held(q) == InPlace(q) /\ HoldsRows(q) /\ InSession(q)

LEMMA HeldStays ==
  ASSUME HoldInv, Grow, Types', NEW p \in InFlight, req'[p] = req[p]
  PROVE  Held(req[p])'
<1>1. Held(req[p]) /\ logins \in 0 .. MaxLogins /\ logins' \in 0 .. MaxLogins
  BY HasTypes DEF HoldInv, Held, Types
<1>2. PICK q : q = req[p]
  OBVIOUS
<1>3. InPlace(q) /\ HoldsRows(q) /\ InSession(q)
  BY <1>1, <1>2 DEF Held
<1>4. HoldsRows(q)'
  BY <1>3 DEF HoldsRows, Grow
<1>5. InSession(q)'
  <2>1. q.kind = "login" => q.session \in 1 .. logins'
    BY <1>1, <1>3, Bounds DEF InSession, Grow
  <2> QED
    BY <1>3, <2>1 DEF InSession, HoldsRows, Grow
<1>6. q = req'[p]
  BY <1>2
<1>7. HoldsRows(req[p])'
  BY <1>4, <1>6 DEF HoldsRows
<1>8. InSession(req[p])'
  BY <1>5, <1>6 DEF InSession
<1>9. InPlace(req[p])'
  BY <1>3, <1>6 DEF InPlace
<1> QED
  BY <1>7, <1>8, <1>9 DEF Held

\* The browsers' tokens still have rows when a jar is as it was.
JarsHaveRows ==
  \A b \in Browsers :
    /\ cookies[b].jwt \in DOMAIN jwt_tokens \cup {None}
    /\ cookies[b].refresh \in DOMAIN refresh_tokens \cup {None}

LEMMA HeldMoves ==
  ASSUME HoldInv, Grow, Types', NEW r \in InFlight, Keeps(r),
         req'[r].new_jwt = req[r].new_jwt, req'[r].new_refresh = req[r].new_refresh,
         InPlace(req[r])',
         req'[r].pc # "store_jwt",
         HasNew(req[r])' => HasNew(req[r]),
         req'[r].pc \in Refreshing => req[r].kind = "login" \/ req[r].refresh # None
  PROVE  Held(req[r])'
<1>1. HoldsRows(req[r]) /\ InSession(req[r]) /\ logins \in 0 .. MaxLogins
  BY HasTypes DEF HoldInv, Types
<1>2. HoldsRows(req[r])'
  BY <1>1 DEF HoldsRows, Grow, Keeps
<1>3. InSession(req[r])'
  <2>1. logins' \in 0 .. MaxLogins
    BY DEF Types
  <2>2. req[r].kind = "login" => req[r].session \in 1 .. logins'
    BY <1>1, <2>1, Bounds DEF InSession, Grow
  <2> QED
    BY <1>1, <2>2 DEF InSession, HoldsRows, Grow, Keeps
<1> QED
  BY <1>2, <1>3 DEF Held

LEMMA HeldBegins ==
  ASSUME HoldInv, Grow, Types', NEW r \in Requests, NEW b \in Browsers, NEW kind \in Kinds,
         Begins(r, b, kind)
  PROVE  Held(req[r])'
<1>1. /\ cookies[b].jwt \in DOMAIN jwt_tokens \cup {None}
      /\ cookies[b].refresh \in DOMAIN refresh_tokens \cup {None}
      /\ logins \in 0 .. MaxLogins
  BY HasTypes DEF HoldInv, TypeOK
<1>2. req'[r].pc \in {"generate", "revoke_jwt", "decode"}
  BY DEF Begins, FirstStep
<1>3. InPlace(req[r])'
  BY <1>2, KindsAssumption DEF Begins, FirstStep, InPlace
<1>4. HoldsRows(req[r])'
  BY <1>1, <1>2 DEF HoldsRows, HasNew, Begins, tokens
<1>5. InSession(req[r])'
  <2>1. kind = "login" => req'[r].session \in 1 .. logins'
    BY <1>1, Bounds DEF Begins
  <2>2. req'[r].pc \in Refreshing => kind = "login"
    BY <1>2 DEF Begins, FirstStep, Refreshing
  <2> QED
    BY <2>1, <2>2 DEF Begins, InSession, tokens
<1> QED
  BY <1>3, <1>4, <1>5 DEF Held

LEMMA HeldGoes ==
  ASSUME HoldInv, Grow, Types', NEW r \in Requests, Goes(r)
  PROVE  Held(req[r])'
<1>1. r \in InFlight /\ Held(req[r]) /\ Keeps(r) /\ req[r] \in RequestState
  BY HasTypes DEF Goes, MovesTo, Moves, HoldInv, Held
<1>2. req'[r].new_jwt = req[r].new_jwt /\ req'[r].new_refresh = req[r].new_refresh
  BY DEF Goes, MovesTo
<1>3. /\ req[r].pc \in {"decode", "revoked", "find"} /\ req[r].new_refresh = None
      /\ req'[r].pc \in {"find", "revoked", "answer", "generate"}
      /\ req[r].kind \notin {"login", "logout"}
  BY <1>1 DEF Goes, MovesTo, Held, InPlace
<1>4. InPlace(req[r])'
  BY <1>1, <1>2, <1>3 DEF InPlace, Keeps
<1>5. ~HasNew(req[r])'
  BY <1>2, <1>3 DEF HasNew
<1>6. req'[r].pc \in Refreshing => req[r].refresh # None
  <2>1. req'[r].pc \in Refreshing => ValidRefresh(req[r].refresh)
    BY <1>3 DEF Goes, MovesTo, Refreshing
  <2>2. None \notin DOMAIN refresh_tokens
    BY HasTypes, Bounds DEF Types, Tables, IsTable
  <2> QED
    BY <2>1, <2>2 DEF ValidRefresh
<1> QED
  BY <1>1, <1>2, <1>3, <1>4, <1>5, <1>6, HeldMoves

LEMMA HeldGenerates ==
  ASSUME HoldInv, Grow, Types', NEW r \in Requests, Generates(r)
  PROVE  Held(req[r])'
<1>1. r \in InFlight /\ Held(req[r]) /\ Keeps(r)
  BY DEF Generates, Moves, HoldInv, Held
<1>2. /\ req[r].pc = "generate" /\ req'[r].pc = "store_jwt" /\ req'[r].new_jwt \in Times
      /\ req'[r].new_refresh = None
  BY <1>1, HasTypes DEF Generates, Held, InPlace, Types
<1>3. req[r].kind # "logout" /\ (req[r].kind = "login" \/ req[r].refresh # None)
  BY <1>1, <1>2 DEF Held, InPlace, InSession, Refreshing
<1>4. InPlace(req[r])'
  BY <1>1, <1>2, <1>3 DEF InPlace, Keeps
<1>5. HoldsRows(req[r])'
  BY <1>1, <1>2 DEF Held, HoldsRows, HasNew, Keeps, Grow
<1>6. InSession(req[r])'
  BY <1>1, <1>2, <1>3 DEF Held, InSession, Keeps, Generates, tokens, browsing
<1> QED
  BY <1>4, <1>5, <1>6 DEF Held

LEMMA HeldStoresJwt ==
  ASSUME HoldInv, Grow, Types', NEW r \in Requests, StoresJwt(r)
  PROVE  Held(req[r])'
<1>1. r \in InFlight /\ Held(req[r]) /\ Keeps(r)
  BY DEF StoresJwt, MovesTo, Moves, HoldInv, Held
<1>2. /\ req[r].pc = "store_jwt" /\ req'[r].new_jwt = req[r].new_jwt
      /\ req'[r].pc = IF req[r].kind = "login" THEN "store_refresh" ELSE "rotate"
      /\ req'[r].new_refresh = None
  BY <1>1 DEF StoresJwt, MovesTo, Held, InPlace
<1>3. req[r].kind # "logout" /\ (req[r].kind = "login" \/ req[r].refresh # None)
  BY <1>1, <1>2 DEF Held, InPlace, InSession, Refreshing
<1>4. InPlace(req[r])'
  BY <1>1, <1>2, <1>3 DEF InPlace, Keeps
<1>5. req'[r].new_jwt \in DOMAIN jwt_tokens'
  BY <1>2 DEF StoresJwt, JwtAdded
<1>6. HoldsRows(req[r])'
  BY <1>1, <1>2, <1>5 DEF Held, HoldsRows, Keeps, Grow
<1>7. InSession(req[r])'
  BY <1>1, <1>2, <1>3 DEF Held, InSession, Keeps, StoresJwt, browsing
<1> QED
  BY <1>4, <1>6, <1>7 DEF Held

LEMMA HeldStoresRefresh ==
  ASSUME HoldInv, Grow, Types', NEW r \in Requests, StoresRefresh(r)
  PROVE  Held(req[r])'
<1>1. r \in InFlight /\ Held(req[r]) /\ Keeps(r) /\ logins' = logins
  BY DEF StoresRefresh, Moves, HoldInv, Held, browsing
<1>2. /\ req[r].pc = "store_refresh" /\ req'[r].new_jwt = req[r].new_jwt
      /\ req'[r].pc = "answer"
      /\ RefreshAdded(req'[r].new_refresh, req[r].session)
  BY DEF StoresRefresh
<1>3. req[r].kind # "logout" /\ HasNew(req[r])
  BY <1>1, <1>2 DEF Held, InPlace, HasNew
<1>4. InPlace(req[r])'
  BY <1>1, <1>2, <1>3 DEF InPlace, Keeps
<1>5. /\ req'[r].new_refresh \in DOMAIN refresh_tokens'
      /\ refresh_tokens'[req'[r].new_refresh].session = req[r].session
  BY <1>2 DEF RefreshAdded
<1>6. HoldsRows(req[r])'
  BY <1>1, <1>2, <1>3, <1>5 DEF Held, HoldsRows, Keeps, Grow
<1>7. InSession(req[r])'
  BY <1>1, <1>2, <1>5 DEF Held, InSession, HoldsRows, Keeps, Grow, Refreshing
<1> QED
  BY <1>4, <1>6, <1>7 DEF Held

LEMMA HeldRevokes ==
  ASSUME HoldInv, Grow, Types', NEW r \in Requests, RevokesJwt(r) \/ RevokesRefresh(r)
  PROVE  Held(req[r])'
<1>1. /\ r \in InFlight /\ Held(req[r]) /\ Keeps(r)
      /\ req'[r].new_jwt = req[r].new_jwt /\ req'[r].new_refresh = req[r].new_refresh
  BY DEF RevokesJwt, RevokesRefresh, MovesTo, Moves, HoldInv, Held
<1>2. \/ req[r].pc = "revoke_jwt" /\ req'[r].pc = "revoke_refresh"
      \/ req[r].pc = "rotate" /\ req'[r].pc = "store_refresh"
      \/ req[r].pc = "revoke_refresh" /\ req'[r].pc = "answer"
  BY DEF RevokesJwt, RevokesRefresh, MovesTo
<1>3. /\ req[r].new_refresh = None
      /\ req[r].pc = "rotate" => req[r].kind # "logout"
      /\ req[r].pc # "rotate" => req[r].kind = "logout"
  BY <1>1, <1>2 DEF Held, InPlace
<1>4. InPlace(req[r])'
  BY <1>1, <1>2, <1>3 DEF Held, InPlace, Keeps
<1>5. HasNew(req[r])' => HasNew(req[r])
  BY <1>1, <1>2, <1>3 DEF HasNew
<1>6. req'[r].pc \in Refreshing => req[r].kind = "login" \/ req[r].refresh # None
  BY <1>1, <1>2 DEF Held, InSession, Refreshing
<1> QED
  BY <1>1, <1>2, <1>4, <1>5, <1>6, HeldMoves

\* Who is in flight after a step, and which of the requests are as they were.
LEMMA OneMoves ==
  ASSUME Effect
  PROVE  \A p \in InFlight' :
           \/ p \in InFlight /\ req'[p] = req[p]
           \/ \E b \in Browsers, kind \in Kinds : p \in Requests /\ Begins(p, b, kind)
           \/ /\ p \in Requests
              /\ \/ Goes(p) \/ Generates(p) \/ StoresJwt(p) \/ StoresRefresh(p)
                 \/ RevokesJwt(p) \/ RevokesRefresh(p)
<1>1. ASSUME NEW r \in Requests, NEW b \in Browsers, NEW kind \in Kinds, Begins(r, b, kind),
             NEW p \in InFlight'
      PROVE  p = r \/ (p \in InFlight /\ req'[p] = req[p])
  BY <1>1 DEF Begins
<1>2. ASSUME NEW r \in Requests, NEW p \in InFlight',
             \/ Goes(r) \/ Generates(r) \/ StoresJwt(r) \/ StoresRefresh(r)
             \/ RevokesJwt(r) \/ RevokesRefresh(r)
      PROVE  p = r \/ (p \in InFlight /\ req'[p] = req[p])
  <2>1. Moves(r)
    BY <1>2 DEF Goes, Generates, StoresJwt, StoresRefresh, RevokesJwt, RevokesRefresh, MovesTo
  <2> QED
    BY <1>2, <2>1 DEF Moves
<1>3. ASSUME NEW r \in Requests, NEW p \in InFlight', Leaves(r) \/ Answers(r)
      PROVE  p \in InFlight /\ req'[p] = req[p]
  BY <1>3 DEF Leaves, Answers, Returns
<1>4. ASSUME NEW p \in InFlight', Waits
      PROVE  p \in InFlight /\ req'[p] = req[p]
  BY <1>4 DEF Waits, InFlight
<1>5. ASSUME NEW p \in InFlight', NEW r \in Requests, NEW b \in Browsers, NEW kind \in Kinds,
             Begins(r, b, kind)
      PROVE  (p \in InFlight /\ req'[p] = req[p]) \/ (p \in Requests /\ Begins(p, b, kind))
  BY <1>1, <1>5
<1>6. ASSUME NEW p \in InFlight', NEW r \in Requests,
             \/ Goes(r) \/ Generates(r) \/ StoresJwt(r) \/ StoresRefresh(r)
             \/ RevokesJwt(r) \/ RevokesRefresh(r)
      PROVE  \/ p \in InFlight /\ req'[p] = req[p]
             \/ /\ p \in Requests
                /\ \/ Goes(p) \/ Generates(p) \/ StoresJwt(p) \/ StoresRefresh(p)
                   \/ RevokesJwt(p) \/ RevokesRefresh(p)
  BY <1>2, <1>6
<1> QED
  BY <1>3, <1>4, <1>5, <1>6 DEF Effect

\* Unless something fails, a request past the checks that may refuse it is there
\* until it answers.
LEMMA StaysOrAnswers ==
  ASSUME Effect, "failure" \notin troubles', NEW r \in InFlight,
         req[r].pc \notin {"revoked", "find", "store_jwt"}
  PROVE  r \in InFlight' \/ Answers(r)
<1>1. ASSUME NEW p \in Requests, Leaves(p)
      PROVE  r \in InFlight'
  BY <1>1 DEF Leaves, Returns
<1>2. ASSUME NEW p \in Requests, Answers(p), p # r
      PROVE  r \in InFlight'
  BY <1>2 DEF Answers, Returns
<1>3. ASSUME NEW p \in Requests, NEW b \in Browsers, NEW kind \in Kinds, Begins(p, b, kind)
      PROVE  r \in InFlight'
  BY <1>3 DEF Begins
<1>4. ASSUME NEW p \in Requests,
             \/ Goes(p) \/ Generates(p) \/ StoresJwt(p) \/ StoresRefresh(p)
             \/ RevokesJwt(p) \/ RevokesRefresh(p)
      PROVE  r \in InFlight'
  <2>1. Moves(p)
    BY <1>4 DEF Goes, Generates, StoresJwt, StoresRefresh, RevokesJwt, RevokesRefresh, MovesTo
  <2> QED
    BY <2>1 DEF Moves
<1>5. CASE Waits
  BY <1>5 DEF Waits, InFlight
<1> QED
  BY <1>1, <1>2, <1>3, <1>4, <1>5 DEF Effect

\* Where the new rows come from.
LEMMA NewRows ==
  ASSUME Effect
  PROVE  /\ \A t \in DOMAIN jwt_tokens' :
              \/ t \in DOMAIN jwt_tokens
              \/ \E r \in Requests : StoresJwt(r) /\ t = req[r].new_jwt
         /\ \A t \in DOMAIN refresh_tokens' :
              \/ t \in DOMAIN refresh_tokens
              \/ \E r \in Requests : StoresRefresh(r) /\ t = req'[r].new_refresh
<1>1. ASSUME NEW r \in Requests, NEW b \in Browsers, NEW kind \in Kinds, Begins(r, b, kind)
      PROVE  UNCHANGED tokens
  BY <1>1 DEF Begins, tokens
<1>2. ASSUME NEW r \in Requests, Goes(r) \/ Leaves(r) \/ Generates(r) \/ Answers(r)
      PROVE  UNCHANGED tokens
  BY <1>2 DEF Goes, Leaves, Generates, Answers, tokens
<1>3. CASE Waits
  BY <1>3 DEF Waits, tokens
<1>4. ASSUME NEW r \in Requests, StoresJwt(r)
      PROVE  /\ DOMAIN jwt_tokens' = DOMAIN jwt_tokens \cup {req[r].new_jwt}
             /\ DOMAIN refresh_tokens' = DOMAIN refresh_tokens
  BY <1>4 DEF StoresJwt, JwtAdded
<1>5. ASSUME NEW r \in Requests, StoresRefresh(r)
      PROVE  /\ DOMAIN refresh_tokens' = DOMAIN refresh_tokens \cup {req'[r].new_refresh}
             /\ DOMAIN jwt_tokens' = DOMAIN jwt_tokens
  BY <1>5 DEF StoresRefresh, RefreshAdded
<1>6. ASSUME NEW r \in Requests, RevokesJwt(r) \/ RevokesRefresh(r)
      PROVE  /\ DOMAIN refresh_tokens' = DOMAIN refresh_tokens
             /\ DOMAIN jwt_tokens' = DOMAIN jwt_tokens
  BY <1>6 DEF RevokesJwt, RevokesRefresh, JwtRevoked, RefreshRevoked
<1>7. CASE UNCHANGED tokens
  BY <1>7 DEF tokens
<1>8. ASSUME NEW r \in Requests, StoresJwt(r) \/ StoresRefresh(r) \/ RevokesJwt(r) \/ RevokesRefresh(r)
      PROVE  /\ \A t \in DOMAIN jwt_tokens' :
                  \/ t \in DOMAIN jwt_tokens
                  \/ StoresJwt(r) /\ t = req[r].new_jwt
             /\ \A t \in DOMAIN refresh_tokens' :
                  \/ t \in DOMAIN refresh_tokens
                  \/ StoresRefresh(r) /\ t = req'[r].new_refresh
  BY <1>4, <1>5, <1>6, <1>8
<1> QED
  BY <1>1, <1>2, <1>3, <1>7, <1>8 DEF Effect

\* A browser's jar changes only when an answer comes.
LEMMA JarsChange ==
  ASSUME Effect, HoldInv, NEW b \in Browsers
  PROVE  \/ cookies'[b] = cookies[b]
         \/ \E r \in Requests : /\ Answers(r) /\ req[r].browser = b
                                /\ cookies'[b] = SetCookies(cookies[b], req[r])
<1>1. ASSUME NEW r \in Requests, Answers(r)
      PROVE  \/ cookies'[b] = cookies[b]
             \/ req[r].browser = b /\ cookies'[b] = SetCookies(cookies[b], req[r])
  BY <1>1 DEF Answers
<1>2. ASSUME ~\E r \in Requests : Answers(r)
      PROVE  cookies' = cookies
  BY <1>2 DEF Effect, Begins, Goes, Leaves, Generates, StoresJwt, StoresRefresh,
              RevokesJwt, RevokesRefresh, Waits, browsing
<1> QED
  BY <1>1, <1>2

\* What an answer leaves in the jar: what there was, the new tokens or nothing.
LEMMA AnswersBring ==
  ASSUME HoldInv, NEW r \in InFlight, NEW jar \in Jar
  PROVE  LET new == SetCookies(jar, req[r]) IN
           /\ new.jwt # jar.jwt /\ new.jwt # None =>
                new.jwt = req[r].new_jwt /\ HasNew(req[r])
           /\ new.refresh # jar.refresh /\ new.refresh # None =>
                new.refresh = req[r].new_refresh
           /\ req[r].new_refresh # None /\ req[r].kind \in {"login", "page"} =>
                new.jwt = req[r].new_jwt /\ new.refresh = req[r].new_refresh
           /\ req[r].kind = "logout" =>
                /\ new.jwt = IF req[r].jwt = None THEN jar.jwt ELSE None
                /\ new.refresh = IF req[r].refresh = None THEN jar.refresh ELSE None
           /\ req[r].kind # "logout"
                /\ (req[r].new_refresh = None \/ req[r].kind = "api") => new = jar
<1>1. InPlace(req[r]) /\ req[r] \in RequestState
  BY HasTypes DEF HoldInv
<1>2. CASE req[r].kind = "logout"
  BY <1>1, <1>2 DEF SetCookies, InPlace
<1>3. CASE req[r].kind \in {"login", "page"} /\ req[r].new_refresh # None
  BY <1>1, <1>3 DEF SetCookies, InPlace, HasNew
<1>4. CASE req[r].kind # "logout" /\ ~(req[r].kind \in {"login", "page"} /\ req[r].new_refresh # None)
  BY <1>1, <1>4 DEF SetCookies
<1> QED
  BY <1>2, <1>3, <1>4

LEMMA HoldStep ==
  ASSUME HoldInv, [Next]_vars
  PROVE  HoldInv'
<1>1. Types' /\ Effect /\ Grow /\ Types
  BY Steps, Growing, HasTypes
<1>2. ASSUME NEW p \in InFlight'
      PROVE  Held(req[p])'
  <2>1. CASE p \in InFlight /\ req'[p] = req[p]
    BY <1>1, <2>1, HeldStays
  <2>2. ASSUME NEW b \in Browsers, NEW kind \in Kinds, p \in Requests, Begins(p, b, kind)
        PROVE  Held(req[p])'
    BY <1>1, <2>2, HeldBegins
  <2>3. CASE p \in Requests /\ Goes(p)
    BY <1>1, <2>3, HeldGoes
  <2>4. CASE p \in Requests /\ Generates(p)
    BY <1>1, <2>4, HeldGenerates
  <2>5. CASE p \in Requests /\ StoresJwt(p)
    BY <1>1, <2>5, HeldStoresJwt
  <2>6. CASE p \in Requests /\ StoresRefresh(p)
    BY <1>1, <2>6, HeldStoresRefresh
  <2>7. CASE p \in Requests /\ (RevokesJwt(p) \/ RevokesRefresh(p))
    BY <1>1, <2>7, HeldRevokes
  <2> QED
    BY <1>1, <2>1, <2>2, <2>3, <2>4, <2>5, <2>6, <2>7, OneMoves
<1>3. JarsHaveRows'
  <2> SUFFICES ASSUME NEW b \in Browsers
      PROVE  /\ cookies'[b].jwt \in DOMAIN jwt_tokens' \cup {None}
             /\ cookies'[b].refresh \in DOMAIN refresh_tokens' \cup {None}
    BY DEF JarsHaveRows
  <2>1. /\ cookies[b].jwt \in DOMAIN jwt_tokens \cup {None}
        /\ cookies[b].refresh \in DOMAIN refresh_tokens \cup {None}
    BY DEF HoldInv, TypeOK
  <2>2. CASE cookies'[b] = cookies[b]
    BY <1>1, <2>1, <2>2 DEF Grow
  <2>3. ASSUME NEW r \in Requests, Answers(r), cookies'[b] = SetCookies(cookies[b], req[r])
        PROVE  /\ cookies'[b].jwt \in DOMAIN jwt_tokens' \cup {None}
               /\ cookies'[b].refresh \in DOMAIN refresh_tokens' \cup {None}
    <3>1. r \in InFlight /\ HoldsRows(req[r]) /\ cookies[b] \in Jar
      BY <2>3, HasTypes DEF Answers, Returns, HoldInv
    <3> DEFINE new == cookies'[b]
    <3>2. /\ new.jwt # cookies[b].jwt /\ new.jwt # None =>
               new.jwt = req[r].new_jwt /\ HasNew(req[r])
          /\ new.refresh # cookies[b].refresh /\ new.refresh # None =>
               new.refresh = req[r].new_refresh
      BY <2>3, <3>1, AnswersBring
    <3> QED
      BY <1>1, <2>1, <3>1, <3>2 DEF HoldsRows, Grow
  <2> QED
    BY <1>1, <2>2, <2>3, JarsChange
<1>4. TypeOK'
  BY <1>1, <1>3 DEF TypeOK, Types, Tables, Requesting, JarsHaveRows
<1>5. SessionsBegun'
  <2>1. SessionsBegun /\ logins \in Nat /\ logins' \in Nat /\ logins' >= logins
    BY <1>1, Bounds DEF HoldInv, Types, Grow
  <2>2. \A t \in DOMAIN jwt_tokens : jwt_tokens[t].session \in Nat
    BY HasTypes, Bounds
  <2>3. \A t \in DOMAIN refresh_tokens : refresh_tokens[t].session \in Nat
    BY HasTypes, Bounds
  <2>4. ASSUME NEW r \in InFlight
        PROVE  req[r].session \in Nat /\ req[r].session <= logins
    <3>1. InSession(req[r]) /\ HoldsRows(req[r])
      BY DEF HoldInv
    <3> QED
      BY <2>1, <2>3, <3>1 DEF InSession, HoldsRows, SessionsBegun
  <2>5. ASSUME NEW t \in DOMAIN jwt_tokens'
        PROVE  jwt_tokens'[t].session <= logins'
    <3>1. CASE t \in DOMAIN jwt_tokens
      BY <1>1, <2>1, <2>2, <3>1 DEF Grow, SessionsBegun
    <3>2. ASSUME t \notin DOMAIN jwt_tokens
          PROVE  \E r \in InFlight : jwt_tokens'[t].session = req[r].session
      <4>1. PICK r \in Requests : StoresJwt(r) /\ t = req[r].new_jwt
        BY <1>1, <3>2, NewRows
      <4> QED
        BY <4>1 DEF StoresJwt, JwtAdded, MovesTo, Moves
    <3> QED
      BY <2>1, <2>4, <3>1, <3>2
  <2>6. ASSUME NEW t \in DOMAIN refresh_tokens'
        PROVE  refresh_tokens'[t].session <= logins'
    <3>1. CASE t \in DOMAIN refresh_tokens
      BY <1>1, <2>1, <2>3, <3>1 DEF Grow, SessionsBegun
    <3>2. ASSUME t \notin DOMAIN refresh_tokens
          PROVE  \E r \in InFlight : refresh_tokens'[t].session = req[r].session
      <4>1. PICK r \in Requests : StoresRefresh(r) /\ t = req'[r].new_refresh
        BY <1>1, <3>2, NewRows
      <4> QED
        BY <4>1 DEF StoresRefresh, RefreshAdded, Moves
    <3> QED
      BY <2>1, <2>4, <3>1, <3>2
  <2>7. ASSUME NEW s \in ended'
        PROVE  s <= logins'
    <3>1. s \in ended \/ \E r \in InFlight : s = req[r].session
      BY <1>1, <2>7 DEF Effect, Begins, Goes, Leaves, Generates, StoresJwt, StoresRefresh,
         RevokesJwt, RevokesRefresh, Answers, Returns, Waits, browsing
    <3>2. s \in ended => s \in Nat
      BY <1>1, Bounds DEF Types
    <3> QED
      BY <2>1, <2>4, <3>1, <3>2 DEF SessionsBegun
  <2> QED
    BY <2>5, <2>6, <2>7 DEF SessionsBegun
<1> QED
  BY <1>2, <1>4, <1>5 DEF HoldInv, Held

\* A token once refused is refused for good.
LEMMA DeadStays ==
  ASSUME HoldInv, Grow, Types'
  PROVE  /\ \A t \in DOMAIN jwt_tokens : DeadJwt(t) => DeadJwt(t)'
         /\ \A t \in DOMAIN refresh_tokens : DeadRefresh(t) => DeadRefresh(t)'
<1>1. now \in Nat /\ now' \in Nat /\ now' >= now /\ JwtLife \in Nat
  BY HasTypes, Bounds DEF Types, Grow
<1>2. \A t \in DOMAIN jwt_tokens : t \in Nat
  BY HasTypes, Bounds DEF Types, Tables, IsTable
<1>3. \A t \in DOMAIN refresh_tokens : refresh_tokens[t].expires_at \in Nat
  BY HasTypes
<1>4. ASSUME NEW t \in DOMAIN jwt_tokens, DeadJwt(t)
      PROVE  DeadJwt(t)'
  BY <1>1, <1>2, <1>4 DEF DeadJwt, Grow
<1>5. ASSUME NEW t \in DOMAIN refresh_tokens, DeadRefresh(t)
      PROVE  DeadRefresh(t)'
  BY <1>1, <1>3, <1>5 DEF DeadRefresh, Grow
<1> QED
  BY <1>4, <1>5

LEMMA BarredStep ==
  ASSUME HoldInv, BarredInv, [Next]_vars
  PROVE  BarredInv'
<1>1. Types' /\ Effect /\ Grow /\ Types
  BY Steps, Growing, HasTypes
<1>2. /\ \A t \in DOMAIN jwt_tokens : DeadJwt(t) => DeadJwt(t)'
      /\ \A t \in DOMAIN refresh_tokens : DeadRefresh(t) => DeadRefresh(t)'
  BY <1>1, DeadStays
<1> SUFFICES ASSUME NEW p \in InFlight'
             PROVE  StaysBarred(req[p])'
  BY DEF BarredInv
<1>3. CASE p \in InFlight /\ req'[p] = req[p]
  <2>1. StaysBarred(req[p]) /\ HoldsRows(req[p])
    BY <1>3 DEF BarredInv, HoldInv
  <2> QED
    BY <1>1, <1>2, <1>3, <2>1 DEF StaysBarred, HoldsRows, Grow
<1>4. ASSUME NEW b \in Browsers, NEW kind \in Kinds, Begins(p, b, kind)
      PROVE  StaysBarred(req[p])'
  <2>1. /\ cookies[b].jwt \in DOMAIN jwt_tokens \cup {None}
        /\ cookies[b].refresh \in DOMAIN refresh_tokens \cup {None}
    BY DEF HoldInv, TypeOK
  <2>2. Barred(cookies[b]) =>
          /\ cookies[b].refresh # None => DeadRefresh(cookies[b].refresh)
          /\ cookies[b].jwt = None \/ DeadJwt(cookies[b].jwt)
    BY DEF Barred, DeadJwt, DeadRefresh
  <2>3. kind \in {"page", "api"} => FirstStep(kind) = "decode"
    BY DEF FirstStep
  <2> QED
    BY <1>2, <1>4, <2>1, <2>2, <2>3 DEF Begins, StaysBarred
<1>5. CASE Goes(p)
  <2>1. StaysBarred(req[p]) /\ HoldsRows(req[p]) /\ Keeps(p) /\ UNCHANGED <<tokens, now>>
    BY <1>5 DEF Goes, MovesTo, Moves, BarredInv, HoldInv
  <2> SUFFICES ASSUME req[p].barred, req[p].kind \in {"page", "api"}
               PROVE  StaysBarred(req[p])'
    BY <2>1 DEF StaysBarred, Keeps
  <2>2. /\ req[p].refresh # None => DeadRefresh(req[p].refresh)
        /\ req[p].pc = "decode" => req[p].jwt = None \/ DeadJwt(req[p].jwt)
        /\ req[p].pc = "revoked" => req[p].jwt # None /\ jwt_tokens[req[p].jwt].revoked
    BY <2>1 DEF StaysBarred
  <2>3. now \in Nat /\ JwtLife \in Nat /\ (req[p].jwt # None => req[p].jwt \in Nat)
    BY <1>1, <2>1, Bounds DEF Types, Tables, IsTable, HoldsRows
  <2>4. ~(req[p].pc = "revoked" /\ ~Revoked(req[p].jwt))
    BY <2>2 DEF Revoked
  <2>5. ~(req[p].pc = "find" /\ ValidRefresh(req[p].refresh))
    <3> SUFFICES ASSUME ValidRefresh(req[p].refresh)
                 PROVE  FALSE
      OBVIOUS
    <3>1. req[p].refresh \in DOMAIN refresh_tokens /\ req[p].refresh # None
      BY <1>1, Bounds DEF ValidRefresh, Types, Tables, IsTable
    <3>2. refresh_tokens[req[p].refresh].expires_at \in Nat
      BY <3>1, HasTypes
    <3> QED
      BY <2>2, <2>3, <3>1, <3>2 DEF ValidRefresh, DeadRefresh
  <2>6. CASE req[p].pc = "decode" /\ Unexpired(req[p].jwt) /\ MovesTo(p, "revoked")
    <3>1. req[p].jwt # None /\ jwt_tokens[req[p].jwt].revoked
      BY <2>2, <2>3, <2>6 DEF Unexpired, DeadJwt
    <3> QED
      BY <2>1, <2>2, <2>6, <3>1 DEF StaysBarred, MovesTo, Keeps, DeadRefresh, tokens
  <2>7. CASE req[p].pc = "decode" /\ MovesTo(p, "find")
    BY <2>1, <2>2, <2>7 DEF StaysBarred, MovesTo, Keeps, DeadRefresh, tokens
  <2> QED
    BY <1>5, <2>4, <2>5, <2>6, <2>7 DEF Goes
<1>6. CASE \/ Generates(p) \/ StoresJwt(p) \/ StoresRefresh(p)
           \/ RevokesJwt(p) \/ RevokesRefresh(p)
  <2>1. p \in InFlight /\ Keeps(p) /\ req[p].pc \notin {"decode", "revoked", "find"}
    BY <1>6 DEF Generates, StoresJwt, StoresRefresh, RevokesJwt, RevokesRefresh, MovesTo, Moves
  <2>2. StaysBarred(req[p])
    BY <2>1 DEF BarredInv
  <2> QED
    BY <2>1, <2>2 DEF StaysBarred, Keeps
<1> QED
  BY <1>1, <1>3, <1>4, <1>5, <1>6, OneMoves

-----------------------------------------------------------------------------
(* The types, and what revocation does *)

LEMMA InitHold ==
  ASSUME Init
  PROVE  HoldInv /\ BarredInv
<1>1. InFlight = {} /\ DOMAIN jwt_tokens = {} /\ DOMAIN refresh_tokens = {}
  BY DEF Init, NoRows, InFlight
<1>2. Cardinality(DOMAIN refresh_tokens) = 0
  BY <1>1, FS_EmptySet
<1>3. TypeOK
  <2>1. DOMAIN refresh_tokens = 1 .. Cardinality(DOMAIN refresh_tokens)
    BY <1>1, <1>2
  <2>2. IsTable(NoRows, Requests, RequestState)
    BY DEF IsTable, NoRows
  <2>3. IsTable(NoRows, Times, [revoked : BOOLEAN, session : Sessions])
    BY DEF IsTable, NoRows
  <2>4. IsTable(NoRows, RefreshIds, [expires_at : Nat, revoked : BOOLEAN, session : Sessions])
    BY DEF IsTable, NoRows
  <2>5. logins \in 0 .. MaxLogins /\ now \in Times
    BY Bounds DEF Init, Times
  <2>6. cookies \in [Browsers -> Jar] /\ \A b \in Browsers : cookies[b].jwt = None /\ cookies[b].refresh = None
    BY DEF Init, Jar
  <2> QED
    BY <2>1, <2>2, <2>3, <2>4, <2>5, <2>6 DEF Init, TypeOK
<1> QED
  BY <1>1, <1>3 DEF Init, HoldInv, BarredInv, SessionsBegun

LEMMA AlwaysHold == Spec => [](HoldInv /\ BarredInv)
<1>1. Init => HoldInv /\ BarredInv
  BY InitHold
<1>2. HoldInv /\ BarredInv /\ [Next]_vars => (HoldInv /\ BarredInv)'
  BY HoldStep, BarredStep
<1> QED
  BY <1>1, <1>2, PTL DEF Spec

\* Every reachable state of the sessions is well-typed: rows, jars and requests, and
\* what a browser or a request holds has a row in jwt_tokens or refresh_tokens.
THEOREM TypeCorrect == Spec => []TypeOK
<1>1. HoldInv => TypeOK
  BY DEF HoldInv
<1> QED
  BY <1>1, AlwaysHold, PTL

\* A request whose tokens were revoked or expired when it was sent gets past neither
\* is_jwt_revoked nor get_valid_refresh_token, whatever other requests do meanwhile.
THEOREM RevocationIsFinal == Spec => []RevokedIsRefused
<1>1. BarredInv => RevokedIsRefused
  BY DEF BarredInv, StaysBarred, RevokedIsRefused
<1> QED
  BY <1>1, AlwaysHold, PTL

-----------------------------------------------------------------------------
(* What a step can change, from the other end *)

\* A request in flight was there and keeps what it was sent with, or begins.
LEMMA SentWith ==
  ASSUME Effect, NEW p \in InFlight'
  PROVE  \/ p \in InFlight /\ Keeps(p)
         \/ \E b \in Browsers, kind \in Kinds : p \in Requests /\ Begins(p, b, kind)
<1>1. CASE p \in InFlight /\ req'[p] = req[p]
  BY <1>1 DEF Keeps
<1>2. CASE \/ Goes(p) \/ Generates(p) \/ StoresJwt(p) \/ StoresRefresh(p)
           \/ RevokesJwt(p) \/ RevokesRefresh(p)
  BY <1>2 DEF Goes, Generates, StoresJwt, StoresRefresh, RevokesJwt, RevokesRefresh,
              MovesTo, Moves
<1> QED
  BY <1>1, <1>2, OneMoves

\* A row becomes revoked only when a request revokes the token it was sent with.
LEMMA OnlyRevoked ==
  ASSUME Effect, HoldInv
  PROVE  /\ \A t \in DOMAIN jwt_tokens :
              jwt_tokens'[t].revoked /\ ~jwt_tokens[t].revoked =>
                \E r \in Requests : RevokesJwt(r) /\ t = req[r].jwt
         /\ \A t \in DOMAIN refresh_tokens :
              refresh_tokens'[t].revoked /\ ~refresh_tokens[t].revoked =>
                \E r \in Requests : RevokesRefresh(r) /\ t = req[r].refresh
<1>1. ASSUME NEW r \in Requests, NEW b \in Browsers, NEW kind \in Kinds, Begins(r, b, kind)
      PROVE  UNCHANGED tokens
  BY <1>1 DEF Begins, tokens
<1>2. ASSUME NEW r \in Requests, Goes(r) \/ Leaves(r) \/ Generates(r) \/ Answers(r)
      PROVE  UNCHANGED tokens
  BY <1>2 DEF Goes, Leaves, Generates, Answers, tokens
<1>3. CASE Waits
  BY <1>3 DEF Waits, tokens
<1>4. ASSUME NEW r \in Requests, StoresJwt(r) \/ StoresRefresh(r)
      PROVE  /\ \A t \in DOMAIN jwt_tokens : jwt_tokens'[t] = jwt_tokens[t]
             /\ \A t \in DOMAIN refresh_tokens : refresh_tokens'[t] = refresh_tokens[t]
  BY <1>4 DEF StoresJwt, StoresRefresh, JwtAdded, RefreshAdded
<1>5. ASSUME NEW r \in Requests, RevokesJwt(r)
      PROVE  /\ \A t \in DOMAIN jwt_tokens :
                  t # req[r].jwt => jwt_tokens'[t] = jwt_tokens[t]
             /\ refresh_tokens' = refresh_tokens
  BY <1>5 DEF RevokesJwt, JwtRevoked
<1>6. ASSUME NEW r \in Requests, RevokesRefresh(r)
      PROVE  /\ \A t \in DOMAIN refresh_tokens :
                  t # req[r].refresh => refresh_tokens'[t] = refresh_tokens[t]
             /\ jwt_tokens' = jwt_tokens
  BY <1>6 DEF RevokesRefresh, RefreshRevoked
<1>7. CASE UNCHANGED tokens
  BY <1>7 DEF tokens
<1>8. ASSUME NEW r \in Requests, StoresJwt(r) \/ StoresRefresh(r) \/ RevokesJwt(r) \/ RevokesRefresh(r)
      PROVE  /\ \A t \in DOMAIN jwt_tokens :
                  jwt_tokens'[t].revoked /\ ~jwt_tokens[t].revoked =>
                    RevokesJwt(r) /\ t = req[r].jwt
             /\ \A t \in DOMAIN refresh_tokens :
                  refresh_tokens'[t].revoked /\ ~refresh_tokens[t].revoked =>
                    RevokesRefresh(r) /\ t = req[r].refresh
  BY <1>4, <1>5, <1>6, <1>8
<1> QED
  BY <1>1, <1>2, <1>3, <1>7, <1>8 DEF Effect

\* A request has a new token because it had it before, or has stored it just now.
LEMMA NewTokens ==
  ASSUME Effect, HoldInv, NEW p \in InFlight'
  PROVE  /\ HasNew(req[p])' =>
              \/ p \in InFlight /\ HasNew(req[p]) /\ req'[p].new_jwt = req[p].new_jwt
              \/ p \in Requests /\ StoresJwt(p) /\ req'[p].new_jwt = req[p].new_jwt
         /\ req'[p].new_refresh # None =>
              \/ p \in InFlight /\ req'[p].new_refresh = req[p].new_refresh
              \/ p \in Requests /\ StoresRefresh(p)
<1>1. CASE p \in InFlight /\ req'[p] = req[p]
  BY <1>1 DEF HasNew
<1>2. ASSUME NEW b \in Browsers, NEW kind \in Kinds, Begins(p, b, kind)
      PROVE  req'[p].new_refresh = None /\ req'[p].pc \notin {"rotate", "store_refresh"}
  BY <1>2 DEF Begins, FirstStep
<1>3. CASE p \in Requests /\ (Goes(p) \/ Generates(p) \/ RevokesJwt(p) \/ RevokesRefresh(p))
  <2>1. p \in InFlight /\ req'[p].new_refresh = req[p].new_refresh
    BY <1>3 DEF Goes, Generates, RevokesJwt, RevokesRefresh, MovesTo, Moves
  <2>2. InPlace(req[p])
    BY <2>1 DEF HoldInv
  <2>3. CASE Generates(p)
    BY <2>1, <2>2, <2>3 DEF HasNew, Generates, InPlace
  <2>4. CASE Goes(p) \/ RevokesJwt(p) \/ RevokesRefresh(p)
    <3>1. req'[p].new_jwt = req[p].new_jwt
      BY <2>4 DEF Goes, RevokesJwt, RevokesRefresh, MovesTo
    <3>2. HasNew(req[p])' => HasNew(req[p])
      BY <2>1, <2>2, <2>4 DEF HasNew, Goes, RevokesJwt, RevokesRefresh, MovesTo, InPlace
    <3> QED
      BY <2>1, <3>1, <3>2
  <2> QED
    BY <1>3, <2>3, <2>4
<1>4. CASE p \in Requests /\ StoresJwt(p)
  BY <1>4 DEF StoresJwt, MovesTo, Moves
<1>5. CASE p \in Requests /\ StoresRefresh(p)
  BY <1>5 DEF StoresRefresh, Moves, HasNew
<1> QED
  BY <1>1, <1>2, <1>3, <1>4, <1>5, OneMoves DEF HasNew

-----------------------------------------------------------------------------
(* Whose a token is *)

\* A token in a jar was there before, or comes from a request that had it stored and
\* is now gone.
LEMMA JarTokens ==
  ASSUME Effect, HoldInv, NEW b \in Browsers
  PROVE  /\ cookies'[b].jwt \notin {cookies[b].jwt, None} =>
              \E r \in InFlight : /\ Answers(r) /\ req[r].browser = b /\ HasNew(req[r])
                                  /\ cookies'[b].jwt = req[r].new_jwt
         /\ cookies'[b].refresh \notin {cookies[b].refresh, None} =>
              \E r \in InFlight : /\ Answers(r) /\ req[r].browser = b
                                  /\ cookies'[b].refresh = req[r].new_refresh
<1>1. CASE cookies'[b] = cookies[b]
  BY <1>1
<1>2. ASSUME NEW r \in Requests, Answers(r), req[r].browser = b,
             cookies'[b] = SetCookies(cookies[b], req[r])
      PROVE  /\ r \in InFlight
             /\ cookies'[b].jwt \notin {cookies[b].jwt, None} =>
                  HasNew(req[r]) /\ cookies'[b].jwt = req[r].new_jwt
             /\ cookies'[b].refresh \notin {cookies[b].refresh, None} =>
                  cookies'[b].refresh = req[r].new_refresh
  <2>1. r \in InFlight /\ cookies[b] \in Jar
    BY <1>2, HasTypes DEF Answers, Returns
  <2> QED
    BY <1>2, <2>1, AnswersBring
<1> QED
  BY <1>1, <1>2, JarsChange

LEMMA JarsApartStep ==
  ASSUME HoldInv, OwnerInv, Effect
  PROVE  JarsApart'
<1>1. JarsApart /\ \A r \in InFlight : NewJwtIsSecret(r) /\ NewRefreshIsSecret(r)
  BY DEF OwnerInv
<1>2. CASE cookies' = cookies
  BY <1>1, <1>2 DEF JarsApart
<1>3. ASSUME NEW r \in Requests, Answers(r)
      PROVE  JarsApart'
  <2>1. r \in InFlight /\ \A b \in Browsers \ {req[r].browser} : cookies'[b] = cookies[b]
    BY <1>3 DEF Answers, Returns
  <2>2. cookies'[req[r].browser] = SetCookies(cookies[req[r].browser], req[r])
    BY <1>3 DEF Answers
  <2>3. ASSUME NEW b \in Browsers, b = req[r].browser, NEW c \in Browsers, c # b
        PROVE  /\ cookies'[b].jwt = cookies'[c].jwt => cookies'[b].jwt = None
               /\ cookies'[b].refresh = cookies'[c].refresh => cookies'[b].refresh = None
    <3>1. cookies'[c] = cookies[c] /\ cookies[b] \in Jar
      BY <2>1, <2>3, HasTypes
    <3>2. /\ cookies'[b].jwt \notin {cookies[b].jwt, None} =>
               HasNew(req[r]) /\ cookies'[b].jwt = req[r].new_jwt
          /\ cookies'[b].refresh \notin {cookies[b].refresh, None} =>
               cookies'[b].refresh = req[r].new_refresh
      BY <2>1, <2>2, <2>3, <3>1, AnswersBring
    <3>3. HasNew(req[r]) => cookies[c].jwt # req[r].new_jwt
      BY <1>1, <2>1 DEF NewJwtIsSecret
    <3>4. req[r].new_refresh # None => cookies[c].refresh # req[r].new_refresh
      BY <1>1, <2>1 DEF NewRefreshIsSecret
    <3>5. /\ cookies[b].jwt = cookies[c].jwt => cookies[b].jwt = None
          /\ cookies[b].refresh = cookies[c].refresh => cookies[b].refresh = None
      BY <1>1, <2>3 DEF JarsApart
    <3> QED
      BY <3>1, <3>2, <3>3, <3>4, <3>5
  <2>4. ASSUME NEW b \in Browsers, NEW c \in Browsers, c # b
        PROVE  /\ cookies'[b].jwt = cookies'[c].jwt => cookies'[b].jwt = None
               /\ cookies'[b].refresh = cookies'[c].refresh => cookies'[b].refresh = None
    <3>1. CASE b = req[r].browser
      BY <2>3, <2>4, <3>1
    <3>2. CASE c = req[r].browser
      BY <2>3, <2>4, <3>2
    <3>3. CASE b # req[r].browser /\ c # req[r].browser
      BY <1>1, <2>1, <2>4, <3>3 DEF JarsApart
    <3> QED
      BY <3>1, <3>2, <3>3
  <2> QED
    BY <2>4 DEF JarsApart
<1>4. (\E r \in Requests : Answers(r)) \/ cookies' = cookies
  BY DEF Effect, Begins, Goes, Leaves, Generates, StoresJwt, StoresRefresh,
         RevokesJwt, RevokesRefresh, Waits, browsing
<1> QED
  BY <1>2, <1>3, <1>4

LEMMA SentByOwnerStep ==
  ASSUME HoldInv, OwnerInv, Effect
  PROVE  SentByOwner'
<1>1. /\ JarsApart /\ SentByOwner
      /\ \A r \in InFlight : NewJwtIsSecret(r) /\ NewRefreshIsSecret(r)
  BY DEF OwnerInv
<1> SUFFICES ASSUME NEW b \in Browsers, NEW p \in InFlight'
             PROVE  /\ req'[p].jwt = cookies'[b].jwt /\ req'[p].jwt # None =>
                         req'[p].browser = b
                    /\ req'[p].refresh = cookies'[b].refresh /\ req'[p].refresh # None =>
                         req'[p].browser = b
  BY DEF SentByOwner
<1>2. CASE p \in InFlight /\ Keeps(p)
  <2>1. /\ req[p].jwt = cookies[b].jwt /\ req[p].jwt # None => req[p].browser = b
        /\ req[p].refresh = cookies[b].refresh /\ req[p].refresh # None => req[p].browser = b
    BY <1>1, <1>2 DEF SentByOwner
  <2>2. req[p].jwt = cookies'[b].jwt /\ req[p].jwt # None => req[p].jwt = cookies[b].jwt
    BY <1>1, <1>2, JarTokens DEF NewJwtIsSecret
  <2>3. req[p].refresh = cookies'[b].refresh /\ req[p].refresh # None =>
          req[p].refresh = cookies[b].refresh
    BY <1>1, <1>2, JarTokens DEF NewRefreshIsSecret
  <2> QED
    BY <1>2, <2>1, <2>2, <2>3 DEF Keeps
<1>3. ASSUME NEW c \in Browsers, NEW kind \in Kinds, Begins(p, c, kind)
      PROVE  /\ req'[p].jwt = cookies'[b].jwt /\ req'[p].jwt # None => req'[p].browser = b
             /\ req'[p].refresh = cookies'[b].refresh /\ req'[p].refresh # None =>
                  req'[p].browser = b
  BY <1>1, <1>3 DEF Begins, JarsApart
<1> QED
  BY <1>2, <1>3, SentWith

LEMMA NewJwtStep ==
  ASSUME HoldInv, OwnerInv, Effect, Types, NEW p \in InFlight'
  PROVE  NewJwtIsSecret(p)'
<1>1. \A r \in InFlight : NewJwtIsSecret(r) /\ HoldsRows(req[r])
  BY DEF OwnerInv, HoldInv
<1>2. /\ \A b \in Browsers : cookies[b].jwt \in DOMAIN jwt_tokens \cup {None}
      /\ None \notin DOMAIN jwt_tokens
  BY Bounds DEF HoldInv, TypeOK, Types, Tables, IsTable
<1> SUFFICES ASSUME HasNew(req[p])'
             PROVE  NewJwtIsSecret(p)'
  BY DEF NewJwtIsSecret
<1>3. PICK new : new = req'[p].new_jwt
  OBVIOUS
\* No jar and no other request has it before the step, and it is not revoked after it.
<1>4. /\ ~jwt_tokens'[new].revoked /\ new # None
      /\ \A b \in Browsers : cookies[b].jwt # new
      /\ \A q \in InFlight : req[q].jwt # new
      /\ \A q \in InFlight \ {p} : HasNew(req[q]) => req[q].new_jwt # new
      /\ \A q \in InFlight' \ {p} : StoresJwt(q) => req[q].new_jwt # new
  <2>1. CASE p \in InFlight /\ HasNew(req[p]) /\ req'[p].new_jwt = req[p].new_jwt
    <3>1. /\ new \in DOMAIN jwt_tokens /\ ~jwt_tokens[new].revoked
          /\ \A b \in Browsers : cookies[b].jwt # new
          /\ \A q \in InFlight : req[q].jwt # new
          /\ \A q \in InFlight \ {p} : HasNew(req[q]) => req[q].new_jwt # new
      BY <1>1, <1>3, <2>1 DEF NewJwtIsSecret, HoldsRows
    <3>2. \A r : RevokesJwt(r) => r \in InFlight
      BY DEF RevokesJwt, MovesTo, Moves
    <3>3. ~jwt_tokens'[new].revoked
      BY <3>1, <3>2, OnlyRevoked
    <3>4. \A q : StoresJwt(q) => req[q].new_jwt \notin DOMAIN jwt_tokens
      BY DEF StoresJwt, JwtAdded
    <3> QED
      BY <1>2, <3>1, <3>3, <3>4
  <2>2. CASE StoresJwt(p) /\ req'[p].new_jwt = req[p].new_jwt
    <3>1. /\ p \in InFlight /\ new \notin DOMAIN jwt_tokens /\ req[p].pc = "store_jwt"
          /\ jwt_tokens'[new] = [revoked |-> FALSE, session |-> req[p].session]
      BY <1>3, <2>2 DEF StoresJwt, JwtAdded, MovesTo, Moves
    <3>2. new # None
      BY <1>1, <1>3, <2>2, <3>1, Bounds DEF HoldsRows
    <3>3. ASSUME NEW q \in InFlight' \ {p}
          PROVE  ~StoresJwt(q)
      BY <2>2, <3>3 DEF StoresJwt, MovesTo, Moves
    <3> QED
      BY <1>1, <1>2, <3>1, <3>2, <3>3 DEF HoldsRows
  <2> QED
    BY <2>1, <2>2, NewTokens
<1>5. ASSUME NEW b \in Browsers
      PROVE  cookies'[b].jwt # new
  <2> SUFFICES ASSUME cookies'[b].jwt = new
               PROVE  FALSE
    OBVIOUS
  <2>1. PICK r \in InFlight : /\ Answers(r) /\ HasNew(req[r])
                              /\ cookies'[b].jwt = req[r].new_jwt
    BY <1>4, JarTokens
  <2>2. r # p
    BY <2>1 DEF Answers, Returns
  <2> QED
    BY <1>4, <2>1, <2>2
<1>6. ASSUME NEW q \in InFlight'
      PROVE  req'[q].jwt # new
  <2>1. CASE q \in InFlight /\ Keeps(q)
    BY <1>4, <2>1 DEF Keeps
  <2>2. ASSUME NEW b \in Browsers, NEW kind \in Kinds, Begins(q, b, kind)
        PROVE  req'[q].jwt # new
    BY <1>4, <2>2 DEF Begins
  <2> QED
    BY <2>1, <2>2, SentWith
<1>7. ASSUME NEW q \in InFlight' \ {p}, HasNew(req[q])'
      PROVE  req'[q].new_jwt # new
  <2>1. q \in InFlight'
    OBVIOUS
  <2> QED
    BY <1>4, <1>7, <2>1, NewTokens
<1> QED
  BY <1>3, <1>4, <1>5, <1>6, <1>7 DEF NewJwtIsSecret

LEMMA NewRefreshStep ==
  ASSUME HoldInv, OwnerInv, Effect, Types, NEW p \in InFlight'
  PROVE  NewRefreshIsSecret(p)'
<1>1. \A r \in InFlight : NewRefreshIsSecret(r) /\ HoldsRows(req[r])
  BY DEF OwnerInv, HoldInv
<1>2. /\ \A b \in Browsers : cookies[b].refresh \in DOMAIN refresh_tokens \cup {None}
      /\ None \notin DOMAIN refresh_tokens
  BY Bounds DEF HoldInv, TypeOK, Types, Tables, IsTable
<1> SUFFICES ASSUME req'[p].new_refresh # None
             PROVE  NewRefreshIsSecret(p)'
  BY DEF NewRefreshIsSecret
<1>3. PICK new : new = req'[p].new_refresh
  OBVIOUS
<1>4. /\ ~refresh_tokens'[new].revoked /\ new # None
      /\ \A b \in Browsers : cookies[b].refresh # new
      /\ \A q \in InFlight : req[q].refresh # new
      /\ \A q \in InFlight \ {p} : req[q].new_refresh # new
      /\ \A q \in InFlight' \ {p} : StoresRefresh(q) => req'[q].new_refresh # new
  <2>1. CASE p \in InFlight /\ req'[p].new_refresh = req[p].new_refresh
    <3>1. /\ new \in DOMAIN refresh_tokens /\ ~refresh_tokens[new].revoked
          /\ \A b \in Browsers : cookies[b].refresh # new
          /\ \A q \in InFlight : req[q].refresh # new
          /\ \A q \in InFlight \ {p} : req[q].new_refresh # new
      BY <1>1, <1>3, <2>1 DEF NewRefreshIsSecret, HoldsRows
    <3>2. \A r : RevokesRefresh(r) => r \in InFlight
      BY DEF RevokesRefresh, MovesTo, Moves
    <3>3. ~refresh_tokens'[new].revoked
      BY <3>1, <3>2, OnlyRevoked
    <3>4. \A q : StoresRefresh(q) => req'[q].new_refresh \notin DOMAIN refresh_tokens
      BY DEF StoresRefresh, RefreshAdded
    <3> QED
      BY <1>2, <3>1, <3>3, <3>4
  <2>2. CASE StoresRefresh(p)
    <3>1. /\ p \in InFlight /\ new \notin DOMAIN refresh_tokens /\ new # None
          /\ refresh_tokens'[new] =
               [expires_at |-> now + RefreshLife, revoked |-> FALSE, session |-> req[p].session]
      BY <1>3, <2>2, Bounds DEF StoresRefresh, RefreshAdded, Moves
    <3>2. ASSUME NEW q \in InFlight' \ {p}
          PROVE  ~StoresRefresh(q)
      BY <2>2, <3>2 DEF StoresRefresh, Moves
    <3> QED
      BY <1>1, <1>2, <3>1, <3>2 DEF HoldsRows
  <2> QED
    BY <2>1, <2>2, NewTokens
<1>5. ASSUME NEW b \in Browsers
      PROVE  cookies'[b].refresh # new
  <2> SUFFICES ASSUME cookies'[b].refresh = new
               PROVE  FALSE
    OBVIOUS
  <2>1. PICK r \in InFlight : Answers(r) /\ cookies'[b].refresh = req[r].new_refresh
    BY <1>4, JarTokens
  <2>2. r # p
    BY <2>1 DEF Answers, Returns
  <2> QED
    BY <1>4, <2>1, <2>2
<1>6. ASSUME NEW q \in InFlight'
      PROVE  req'[q].refresh # new
  <2>1. CASE q \in InFlight /\ Keeps(q)
    BY <1>4, <2>1 DEF Keeps
  <2>2. ASSUME NEW b \in Browsers, NEW kind \in Kinds, Begins(q, b, kind)
        PROVE  req'[q].refresh # new
    BY <1>4, <2>2 DEF Begins
  <2> QED
    BY <2>1, <2>2, SentWith
<1>7. ASSUME NEW q \in InFlight' \ {p}
      PROVE  req'[q].new_refresh # new
  <2>1. q \in InFlight'
    OBVIOUS
  <2> QED
    BY <1>4, <1>7, <2>1, NewTokens
<1> QED
  BY <1>3, <1>4, <1>5, <1>6, <1>7 DEF NewRefreshIsSecret

LEMMA OwnerStep ==
  ASSUME HoldInv, OwnerInv, [Next]_vars
  PROVE  OwnerInv'
<1>1. Effect /\ Types
  BY Steps, HasTypes
<1> QED
  BY <1>1, JarsApartStep, SentByOwnerStep, NewJwtStep, NewRefreshStep DEF OwnerInv

-----------------------------------------------------------------------------
(* Which tokens a browser is left with *)

\* A request that will replace a browser's token does so, or something has failed,
\* or it has dropped its new tokens.
LEMMA ReplacerStays ==
  ASSUME HoldInv, Effect, Only({"overlap"})', NEW r \in InFlight, WillReplace(req[r])
  PROVE  \/ r \in InFlight' /\ Keeps(r) /\ WillReplace(req[r])'
         \/ Answers(r)
<1>1. InPlace(req[r])
  BY DEF HoldInv
<1>2. req[r].pc \in {"store_refresh", "answer"}
  BY DEF WillReplace
<1>3. CASE r \in InFlight' /\ req'[r] = req[r]
  BY <1>3 DEF WillReplace, Keeps
<1>4. CASE StoresRefresh(r)
  <2>1. req'[r].new_refresh # None
    BY <1>4, Bounds DEF StoresRefresh, RefreshAdded
  <2> QED
    BY <1>4, <2>1 DEF StoresRefresh, Moves, WillReplace
<1>5. \A p : (\E b, kind : Begins(p, b, kind)) => p # r
  BY DEF Begins
<1>6. ~Goes(r) /\ ~Generates(r) /\ ~StoresJwt(r) /\ ~RevokesJwt(r) /\ ~RevokesRefresh(r)
  BY <1>2 DEF Goes, Generates, StoresJwt, RevokesJwt, RevokesRefresh
<1>7. CASE r \in InFlight'
  BY <1>3, <1>4, <1>5, <1>6, <1>7, OneMoves
<1>8. CASE r \notin InFlight'
  BY <1>2, <1>8, StaysOrAnswers DEF Only
<1> QED
  BY <1>7, <1>8

LEMMA ReplacedStep ==
  ASSUME HoldInv, OwnerInv, RevokedIsReplaced, [Next]_vars
  PROVE  RevokedIsReplaced'
<1>1. Effect /\ Types /\ Grow
  BY Steps, HasTypes, Growing
<1>2. SentByOwner /\ \A r \in InFlight : NewRefreshIsSecret(r)
  BY DEF OwnerInv
<1> SUFFICES ASSUME Only({"overlap"})', NEW b \in Browsers, cookies'[b].refresh # None,
                    refresh_tokens'[cookies'[b].refresh].revoked
             PROVE  \E r \in InFlight' : req'[r].browser = b /\ WillReplace(req[r])'
  BY DEF RevokedIsReplaced
<1>3. Only({"overlap"})
  BY <1>1 DEF Only, Grow
<1>4. cookies[b].refresh \in DOMAIN refresh_tokens \cup {None} /\ cookies[b] \in Jar
  BY HasTypes DEF HoldInv, TypeOK
<1>5. ASSUME NEW r \in InFlight
      PROVE  req[r].new_refresh # None =>
               /\ req[r].new_refresh \in DOMAIN refresh_tokens
               /\ ~refresh_tokens[req[r].new_refresh].revoked
               /\ \A p \in InFlight : req[p].refresh # req[r].new_refresh
  BY <1>2 DEF NewRefreshIsSecret, HoldInv, HoldsRows
\* An answer does not bring a token that is revoked.
<1>6. cookies'[b].refresh = cookies[b].refresh
  <2> SUFFICES ASSUME cookies'[b].refresh # cookies[b].refresh
               PROVE  FALSE
    OBVIOUS
  <2>1. PICK r \in InFlight : Answers(r) /\ cookies'[b].refresh = req[r].new_refresh
    BY <1>1, JarTokens
  <2>2. refresh_tokens' = refresh_tokens
    BY <2>1 DEF Answers, tokens
  <2> QED
    BY <1>5, <2>1, <2>2
<1>7. cookies[b].refresh # None /\ cookies[b].refresh \in DOMAIN refresh_tokens
  BY <1>4, <1>6
<1>8. CASE ~refresh_tokens[cookies[b].refresh].revoked
  <2>1. PICK r \in Requests : RevokesRefresh(r) /\ req[r].refresh = cookies[b].refresh
    BY <1>1, <1>6, <1>7, <1>8, OnlyRevoked
  <2>2. r \in InFlight /\ Keeps(r) /\ r \in InFlight' /\ InPlace(req[r])
    BY <2>1 DEF RevokesRefresh, MovesTo, Moves, HoldInv
  <2>3. req[r].browser = b
    BY <1>2, <1>7, <2>1, <2>2 DEF SentByOwner
  <2>4. WillReplace(req[r])'
    BY <1>7, <2>1, <2>2 DEF WillReplace, RevokesRefresh, MovesTo, Keeps, InPlace
  <2> QED
    BY <2>2, <2>3, <2>4 DEF Keeps
<1>9. CASE refresh_tokens[cookies[b].refresh].revoked
  <2>1. PICK r \in InFlight : req[r].browser = b /\ WillReplace(req[r])
    BY <1>3, <1>7, <1>9 DEF RevokedIsReplaced
  <2>2. ~Answers(r)
    <3> SUFFICES ASSUME Answers(r)
                 PROVE  FALSE
      OBVIOUS
    <3>1. /\ cookies'[b] = SetCookies(cookies[b], req[r])
          /\ req[r].pc = "answer" /\ InPlace(req[r])
          /\ req[r].kind \in AllKinds
      BY <2>1, HasTypes DEF Answers, HoldInv, RequestState
    <3>2. ~(req[r].kind = "api" /\ req[r].new_refresh # None)
      BY DEF Answers, Only
    <3>3. CASE req[r].kind = "logout"
      BY <1>4, <1>6, <1>7, <2>1, <3>1, <3>3, AnswersBring DEF WillReplace, InPlace
    <3>4. CASE req[r].kind # "logout"
      <4>1. req[r].new_refresh # None /\ req[r].kind \in {"login", "page"}
        BY <2>1, <3>1, <3>2, <3>4 DEF WillReplace, AllKinds
      <4>2. cookies'[b].refresh = req[r].new_refresh
        BY <1>4, <3>1, <4>1, AnswersBring
      <4>3. cookies[b].refresh # req[r].new_refresh
        BY <1>2, <4>1 DEF NewRefreshIsSecret
      <4> QED
        BY <1>6, <4>2, <4>3
    <3> QED
      BY <3>3, <3>4
  <2>3. r \in InFlight' /\ Keeps(r) /\ WillReplace(req[r])'
    BY <1>1, <2>1, <2>2, ReplacerStays
  <2> QED
    BY <2>1, <2>3 DEF Keeps
<1> QED
  BY <1>8, <1>9

LEMMA RemovedStep ==
  ASSUME HoldInv, OwnerInv, RevokedIsRemoved, [Next]_vars
  PROVE  RevokedIsRemoved'
<1>1. Effect /\ Types /\ Grow
  BY Steps, HasTypes, Growing
<1>2. SentByOwner /\ \A r \in InFlight : NewJwtIsSecret(r)
  BY DEF OwnerInv
<1> SUFFICES ASSUME Only({"overlap", "dropped"})', NEW b \in Browsers, cookies'[b].jwt # None,
                    jwt_tokens'[cookies'[b].jwt].revoked
             PROVE  \E r \in InFlight' : req'[r].browser = b /\ WillRemove(req[r])'
  BY DEF RevokedIsRemoved
<1>3. Only({"overlap", "dropped"}) /\ "failure" \notin troubles'
  BY <1>1 DEF Only, Grow
<1>4. cookies[b].jwt \in DOMAIN jwt_tokens \cup {None} /\ cookies[b] \in Jar
  BY HasTypes DEF HoldInv, TypeOK
<1>5. cookies'[b].jwt = cookies[b].jwt
  <2> SUFFICES ASSUME cookies'[b].jwt # cookies[b].jwt
               PROVE  FALSE
    OBVIOUS
  <2>1. PICK r \in InFlight : /\ Answers(r) /\ HasNew(req[r])
                              /\ cookies'[b].jwt = req[r].new_jwt
    BY <1>1, JarTokens
  <2>2. jwt_tokens' = jwt_tokens
    BY <2>1 DEF Answers, tokens
  <2> QED
    BY <1>2, <2>1, <2>2 DEF NewJwtIsSecret
<1>6. cookies[b].jwt # None /\ cookies[b].jwt \in DOMAIN jwt_tokens
  BY <1>4, <1>5
<1>7. CASE ~jwt_tokens[cookies[b].jwt].revoked
  <2>1. PICK r \in Requests : RevokesJwt(r) /\ req[r].jwt = cookies[b].jwt
    BY <1>1, <1>5, <1>6, <1>7, OnlyRevoked
  <2>2. /\ r \in InFlight /\ Keeps(r) /\ r \in InFlight' /\ InPlace(req[r])
        /\ req[r].pc = "revoke_jwt" /\ req'[r].pc = "revoke_refresh"
    BY <2>1 DEF RevokesJwt, MovesTo, Moves, HoldInv
  <2>3. req[r].browser = b
    BY <1>2, <1>6, <2>1, <2>2 DEF SentByOwner
  <2>4. WillRemove(req[r])'
    BY <1>6, <2>1, <2>2 DEF WillRemove, Keeps, InPlace
  <2> QED
    BY <2>2, <2>3, <2>4 DEF Keeps
<1>8. CASE jwt_tokens[cookies[b].jwt].revoked
  <2>1. PICK r \in InFlight : req[r].browser = b /\ WillRemove(req[r])
    BY <1>3, <1>6, <1>8 DEF RevokedIsRemoved
  <2>2. ~Answers(r)
    <3> SUFFICES ASSUME Answers(r)
                 PROVE  FALSE
      OBVIOUS
    <3>1. cookies'[b] = SetCookies(cookies[b], req[r])
      BY <2>1 DEF Answers
    <3> QED
      BY <1>4, <1>5, <1>6, <2>1, <3>1, AnswersBring DEF WillRemove
  <2>3. r \in InFlight' /\ Keeps(r) /\ WillRemove(req[r])'
    <3>1. req[r].pc \in {"revoke_refresh", "answer"}
      BY <2>1 DEF WillRemove
    <3>2. CASE r \in InFlight' /\ req'[r] = req[r]
      BY <2>1, <3>2 DEF WillRemove, Keeps
    <3>3. CASE RevokesRefresh(r)
      <4>1. r \in InFlight' /\ Keeps(r) /\ req'[r].pc = "answer"
        BY <3>1, <3>3 DEF RevokesRefresh, MovesTo, Moves
      <4> QED
        BY <2>1, <4>1 DEF WillRemove, Keeps
    <3>4. \A p : (\E c, kind : Begins(p, c, kind)) => p # r
      BY DEF Begins
    <3>5. ~Goes(r) /\ ~Generates(r) /\ ~StoresJwt(r) /\ ~RevokesJwt(r) /\ ~StoresRefresh(r)
      BY <3>1 DEF Goes, Generates, StoresJwt, RevokesJwt, StoresRefresh
    <3>6. CASE r \in InFlight'
      BY <1>1, <3>2, <3>3, <3>4, <3>5, <3>6, OneMoves
    <3>7. r \in InFlight'
      BY <1>1, <1>3, <2>2, <3>1, StaysOrAnswers
    <3> QED
      BY <3>6, <3>7
  <2> QED
    BY <2>1, <2>3 DEF Keeps
<1> QED
  BY <1>7, <1>8

JarInv == OwnerInv /\ RevokedIsReplaced /\ RevokedIsRemoved

LEMMA AlwaysJar == Spec => [](HoldInv /\ JarInv)
<1>1. Init => HoldInv /\ JarInv
  <2> SUFFICES ASSUME Init
               PROVE  HoldInv /\ JarInv
    OBVIOUS
  <2>1. InFlight = {}
    BY DEF Init, NoRows, InFlight
  <2>2. \A b \in Browsers : cookies[b].jwt = None /\ cookies[b].refresh = None
    BY DEF Init
  <2> QED
    BY <2>1, <2>2, InitHold DEF JarInv, OwnerInv, JarsApart, SentByOwner, RevokedIsReplaced,
       RevokedIsRemoved
<1>2. HoldInv /\ JarInv /\ [Next]_vars => (HoldInv /\ JarInv)'
  BY HoldStep, OwnerStep, ReplacedStep, RemovedStep DEF JarInv
<1> QED
  BY <1>1, <1>2, PTL DEF Spec

\* Unless something fails or new tokens are dropped, rotation in the extractor leaves
\* every browser that waits for no answer with a refresh token that is not revoked,
\* in whatever order its requests run and their Set-Cookie headers come.
THEOREM RotationKeepsJarsLive == Spec => []JarIsLive
<1>1. HoldInv /\ JarInv => JarIsLive
  <2> SUFFICES ASSUME HoldInv, JarInv, Only({"overlap"}), NEW b \in Browsers, Quiet(b),
                      cookies[b].refresh # None
               PROVE  ~refresh_tokens[cookies[b].refresh].revoked
    BY DEF JarIsLive, RefreshTokensLive
  <2> QED
    BY DEF JarInv, RevokedIsReplaced, Quiet
<1> QED
  BY <1>1, AlwaysJar, PTL

\* Unless an answer is lost or a statement fails, whom verify_auth calls authenticated
\* is_jwt_revoked does not turn away.
THEOREM VerifiedAreLetIn == Spec => []VerifiedIsLetIn
<1>1. HoldInv /\ JarInv => VerifiedIsLetIn
  <2> SUFFICES ASSUME HoldInv, JarInv, Only({"overlap", "dropped"}), NEW b \in Browsers,
                      Quiet(b), VerifyAuth(b)
               PROVE  ~Revoked(cookies[b].jwt)
    BY DEF VerifiedIsLetIn
  <2>1. cookies[b].jwt # None /\ cookies[b].jwt \in DOMAIN jwt_tokens
    BY DEF VerifyAuth, Unexpired, HoldInv, TypeOK
  <2> QED
    BY <2>1 DEF JarInv, RevokedIsRemoved, Quiet, Revoked
<1> QED
  BY <1>1, AlwaysJar, PTL

-----------------------------------------------------------------------------
(* Requests that come one by one *)

LEMMA OneByOneStep ==
  ASSUME OneByOne, Effect, Grow
  PROVE  OneByOne'
<1> SUFFICES ASSUME "overlap" \notin troubles', NEW p \in InFlight', NEW q \in InFlight'
             PROVE  p = q
  BY DEF OneByOne
<1>1. \A a, b \in InFlight : a = b
  BY DEF OneByOne, Grow
<1>2. ASSUME NEW r \in Requests, NEW b \in Browsers, NEW kind \in Kinds, Begins(r, b, kind)
      PROVE  p = q
  <2>1. InFlight = {}
    BY <1>2 DEF Begins
  <2> QED
    BY <1>2, <2>1 DEF Begins
<1>3. ASSUME NEW r \in Requests, Goes(r) \/ Generates(r) \/ StoresJwt(r) \/ StoresRefresh(r)
               \/ RevokesJwt(r) \/ RevokesRefresh(r) \/ Leaves(r) \/ Answers(r)
      PROVE  InFlight' \subseteq InFlight
  BY <1>3 DEF Goes, Leaves, Generates, StoresJwt, StoresRefresh, RevokesJwt, RevokesRefresh,
              Answers, MovesTo, Moves, Returns
<1>4. Waits => InFlight' = InFlight
  BY DEF Waits, InFlight
<1> QED
  BY <1>1, <1>2, <1>3, <1>4 DEF Effect

\* A row that works after a step worked before it, or is the one row just stored.
LEMMA WorkedBefore ==
  ASSUME Effect, Grow, NEW t \in DOMAIN refresh_tokens', NEW s, Works(t, s)'
  PROVE  \/ t \in DOMAIN refresh_tokens /\ Works(t, s)
         \/ \E r \in Requests : /\ StoresRefresh(r) /\ t = req'[r].new_refresh
                                /\ s = req[r].session
<1>1. CASE t \in DOMAIN refresh_tokens
  BY <1>1 DEF Works, Grow
<1>2. CASE t \notin DOMAIN refresh_tokens
  <2>1. PICK r \in Requests : StoresRefresh(r) /\ t = req'[r].new_refresh
    BY <1>2, NewRows
  <2>2. refresh_tokens'[t].session = req[r].session
    BY <2>1 DEF StoresRefresh, RefreshAdded
  <2> QED
    BY <2>1, <2>2 DEF Works
<1> QED
  BY <1>1, <1>2

LEMMA WorksBeforeStep ==
  ASSUME HoldInv, OneByOne, OneWorks, \A r \in InFlight : WorksBefore(req[r]),
         Effect, Grow, Only({"dropped"}), Only({"dropped"})', NEW p \in InFlight'
  PROVE  WorksBefore(req[p])'
<1>1. \A q, r \in InFlight : q = r
  BY DEF OneByOne, Only
<1>2. CASE p \in InFlight /\ req'[p] = req[p]
  <2>1. WorksBefore(req[p])
    BY <1>2
  <2>2. ASSUME NEW r \in Requests
        PROVE  ~StoresRefresh(r)
    <3> SUFFICES ASSUME StoresRefresh(r)
                 PROVE  FALSE
      OBVIOUS
    <3>1. r \in InFlight /\ req'[r].pc # req[r].pc
      BY DEF StoresRefresh, Moves
    <3> QED
      BY <1>1, <1>2, <3>1
  <2>3. \A t \in DOMAIN refresh_tokens' : \A s :
          Works(t, s)' => t \in DOMAIN refresh_tokens /\ Works(t, s)
    BY <2>2, WorkedBefore
  <2> QED
    BY <1>2, <2>1, <2>3 DEF WorksBefore
<1>3. ASSUME NEW b \in Browsers, NEW kind \in Kinds, Begins(p, b, kind)
      PROVE  WorksBefore(req[p])'
  <2>1. req'[p].pc \in {"generate", "store_jwt", "rotate", "store_refresh"} =>
          req'[p].pc = "generate" /\ req'[p].session = logins + 1
    BY <1>3 DEF Begins, FirstStep
  <2>2. logins \in Nat /\ refresh_tokens' = refresh_tokens
    BY <1>3, HasTypes, Bounds DEF Types, Begins, tokens
  <2>3. \A t \in DOMAIN refresh_tokens :
          refresh_tokens[t].session \in Nat /\ refresh_tokens[t].session <= logins
    BY HasTypes, Bounds DEF HoldInv, SessionsBegun
  <2>4. \A t \in DOMAIN refresh_tokens : refresh_tokens[t].session # logins + 1
    BY <2>2, <2>3
  <2> QED
    BY <2>1, <2>2, <2>4 DEF WorksBefore, Works
<1>4. CASE Goes(p)
  <2>1. /\ p \in InFlight /\ Keeps(p) /\ refresh_tokens' = refresh_tokens
        /\ req[p].pc \in {"decode", "revoked", "find"} /\ InPlace(req[p]) /\ InSession(req[p])
    BY <1>4 DEF Goes, MovesTo, Moves, tokens, HoldInv
  <2>2. \/ req'[p].pc \notin {"generate", "store_jwt", "rotate", "store_refresh"}
        \/ req'[p].pc = "generate" /\ ValidRefresh(req[p].refresh)
    BY <1>4 DEF Goes, MovesTo
  <2>3. CASE req'[p].pc = "generate" /\ ValidRefresh(req[p].refresh)
    <3>1. req[p].refresh \in DOMAIN refresh_tokens /\ req[p].refresh # None
      BY <2>3, Bounds, HasTypes DEF ValidRefresh, Types, Tables, IsTable
    <3>2. req[p].kind # "login" /\ Works(req[p].refresh, req[p].session)
      BY <2>1, <2>3, <3>1 DEF InPlace, InSession, ValidRefresh, Works
    <3>3. req[p].session \in Sessions
      BY <3>1, <3>2, HasTypes DEF Works
    <3> QED
      BY <2>1, <2>3, <3>1, <3>2, <3>3 DEF WorksBefore, OneWorks, Works, Keeps
  <2> QED
    BY <2>2, <2>3 DEF WorksBefore
<1>5. CASE Generates(p) \/ StoresJwt(p)
  <2>1. /\ p \in InFlight /\ Keeps(p) /\ refresh_tokens' = refresh_tokens
        /\ req[p].pc \in {"generate", "store_jwt"} /\ WorksBefore(req[p])
        /\ \/ req'[p].pc \in {"store_jwt", "rotate"}
           \/ req'[p].pc = "store_refresh" /\ req[p].kind = "login"
    BY <1>5 DEF Generates, StoresJwt, MovesTo, Moves, tokens
  <2> QED
    BY <2>1 DEF WorksBefore, Works, Keeps
<1>6. CASE StoresRefresh(p) \/ RevokesJwt(p)
  <2>1. req'[p].pc \in {"answer", "revoke_refresh"}
    BY <1>6 DEF StoresRefresh, RevokesJwt, MovesTo
  <2> QED
    BY <2>1 DEF WorksBefore
<1>7. CASE RevokesRefresh(p)
  <2>1. CASE req'[p].pc = "answer"
    BY <2>1 DEF WorksBefore
  <2>2. CASE req[p].pc = "rotate" /\ req'[p].pc = "store_refresh"
    <3>1. p \in InFlight /\ Keeps(p) /\ WorksBefore(req[p]) /\ "failure" \notin troubles'
      BY <1>7 DEF RevokesRefresh, MovesTo, Moves, Only
    <3>2. RefreshRevoked(req[p].refresh)
      BY <1>7, <3>1 DEF RevokesRefresh
    <3>3. DOMAIN refresh_tokens' = DOMAIN refresh_tokens
      BY <3>2 DEF RefreshRevoked
    <3>4. ASSUME NEW t \in DOMAIN refresh_tokens
          PROVE  ~Works(t, req[p].session)'
      <4>1. CASE t = req[p].refresh
        BY <3>2, <4>1 DEF RefreshRevoked, Works
      <4>2. CASE t # req[p].refresh
        BY <2>2, <3>1, <3>2, <4>2 DEF RefreshRevoked, Works, WorksBefore, Keeps
      <4> QED
        BY <4>1, <4>2
    <3> QED
      BY <2>2, <3>1, <3>3, <3>4 DEF WorksBefore, Works, Keeps
  <2> QED
    BY <1>7, <2>1, <2>2 DEF RevokesRefresh, MovesTo
<1> QED
  BY <1>2, <1>3, <1>4, <1>5, <1>6, <1>7, OneMoves

LEMMA OneWorksStep ==
  ASSUME HoldInv, OneByOne, OneWorksInv, [Next]_vars
  PROVE  OneByOne' /\ OneWorksInv'
<1>1. Effect /\ Grow
  BY Steps, Growing
<1>2. OneByOne'
  BY <1>1, OneByOneStep
<1> SUFFICES ASSUME Only({"dropped"})'
             PROVE  (OneWorks /\ \A r \in InFlight : WorksBefore(req[r]))'
  BY <1>2 DEF OneWorksInv
<1>3. Only({"dropped"}) /\ OneWorks /\ \A r \in InFlight : WorksBefore(req[r])
  BY <1>1 DEF OneWorksInv, Only, Grow
<1>4. \A p \in InFlight' : WorksBefore(req[p])'
  BY <1>1, <1>3, WorksBeforeStep
<1>5. \A t \in DOMAIN refresh_tokens' : \A s : Works(t, s)' =>
        \/ t \in DOMAIN refresh_tokens /\ Works(t, s)
        \/ \E r \in Requests : /\ StoresRefresh(r) /\ t = req'[r].new_refresh
                               /\ s = req[r].session
  BY <1>1, WorkedBefore
\* Just before a row is stored no row of its session works.
<1>6. ASSUME NEW r \in Requests, StoresRefresh(r), NEW u \in DOMAIN refresh_tokens
      PROVE  ~Works(u, req[r].session)
  <2>1. r \in InFlight /\ req[r].pc = "store_refresh"
    BY <1>6 DEF StoresRefresh, Moves
  <2> QED
    BY <1>3, <2>1 DEF WorksBefore
<1>7. ASSUME NEW q, NEW r, StoresRefresh(q), StoresRefresh(r)
      PROVE  q = r
  BY <1>7 DEF StoresRefresh, Moves
<1>8. OneWorks'
  <2> SUFFICES ASSUME NEW t \in DOMAIN refresh_tokens', NEW u \in DOMAIN refresh_tokens',
                      NEW s \in Sessions, Works(t, s)', Works(u, s)'
               PROVE  t = u
    BY DEF OneWorks
  <2> QED
    BY <1>3, <1>5, <1>6, <1>7 DEF OneWorks
<1> QED
  BY <1>4, <1>8

LEMMA AlwaysOneWorks == Spec => [](HoldInv /\ OneByOne /\ OneWorksInv)
<1>1. Init => HoldInv /\ OneByOne /\ OneWorksInv
  <2> SUFFICES ASSUME Init
               PROVE  HoldInv /\ OneByOne /\ OneWorksInv
    OBVIOUS
  <2>1. InFlight = {} /\ DOMAIN refresh_tokens = {}
    BY DEF Init, NoRows, InFlight
  <2> QED
    BY <2>1, InitHold DEF OneByOne, OneWorksInv, OneWorks
<1>2. /\ HoldInv /\ OneByOne /\ OneWorksInv /\ [Next]_vars
      => (HoldInv /\ OneByOne /\ OneWorksInv)'
  BY HoldStep, OneWorksStep
<1> QED
  BY <1>1, <1>2, PTL DEF Spec

\* When nothing fails and requests come one by one, revoke_refresh_token before
\* store_refresh_token leaves a session one refresh token that works, however often
\* it is refreshed.
THEOREM OneRefreshTokenWorks == Spec => []OneRefreshTokenPerSession
<1>1. HoldInv /\ OneByOne /\ OneWorksInv => OneRefreshTokenPerSession
  <2> SUFFICES ASSUME HoldInv, OneWorks, NEW t \in DOMAIN refresh_tokens,
                      NEW u \in DOMAIN refresh_tokens,
                      ~refresh_tokens[t].revoked, ~refresh_tokens[u].revoked,
                      refresh_tokens[t].session = refresh_tokens[u].session
               PROVE  t = u
    BY DEF OneWorksInv, OneRefreshTokenPerSession
  <2>1. refresh_tokens[t].session \in Sessions
    BY HasTypes
  <2> QED
    BY <2>1 DEF OneWorks, Works
<1> QED
  BY <1>1, AlwaysOneWorks, PTL

-----------------------------------------------------------------------------
(* What a logout comes to *)

\* The last layer of the invariant, with what it rests on.  Nothing has gone wrong
\* so far, nor does it in this step.
Orderly ==
  /\ HoldInv /\ InOrder /\ \A q, r \in InFlight : q = r
  /\ Effect /\ Grow /\ Only({}) /\ Only({})' /\ Types'

LEMMA JarRows ==
  ASSUME HoldInv, Grow, NEW b \in Browsers, cookies[b].refresh # None
  PROVE  /\ cookies[b].refresh \in DOMAIN refresh_tokens /\ SessionOf(b) \in Sessions
         /\ SessionOf(b) <= logins
         /\ cookies'[b] = cookies[b] => SessionOf(b)' = SessionOf(b)
<1>1. cookies[b].refresh \in DOMAIN refresh_tokens
  BY DEF HoldInv, TypeOK
<1>2. refresh_tokens[cookies[b].refresh].session \in Sessions
  BY <1>1, HasTypes
<1>3. refresh_tokens[cookies[b].refresh].session <= logins
  BY <1>1 DEF HoldInv, SessionsBegun
<1> QED
  BY <1>1, <1>2, <1>3 DEF SessionOf, Grow

\* The session of a request that refreshes it is that of its browser, or new.
LEMMA RequestsSession ==
  ASSUME HoldInv, InOrder, NEW r \in InFlight, req[r].kind # "login", req[r].refresh # None
  PROVE  /\ req[r].browser \in Browsers /\ cookies[req[r].browser].refresh # None
         /\ req[r].session = SessionOf(req[r].browser)
         /\ req[r].session \notin ended
<1>1. req[r].browser \in Browsers
  BY HasTypes DEF RequestState
<1>2. InSession(req[r]) /\ LeavesBehind(req[r])
  BY DEF HoldInv, InOrder
<1>3. req[r].session = SessionOf(req[r].browser) /\ cookies[req[r].browser].refresh # None
  BY <1>2 DEF InSession, LeavesBehind, SessionOf
<1> QED
  BY <1>1, <1>3 DEF InOrder, OwnSession

LEMMA NewStays ==
  ASSUME Orderly, NEW r \in InFlight, ~Answers(r)
  PROVE  /\ HasNew(req[r]) => /\ r \in InFlight' /\ Keeps(r) /\ HasNew(req[r])'
                              /\ req'[r].new_jwt = req[r].new_jwt
         /\ req[r].new_refresh # None => /\ r \in InFlight' /\ Keeps(r)
                                         /\ req'[r].new_refresh = req[r].new_refresh
<1>1. InPlace(req[r]) /\ "failure" \notin troubles' /\ Effect
  BY DEF Orderly, HoldInv, Only
<1>2. req[r].new_refresh # None => HasNew(req[r])
  BY <1>1 DEF InPlace, HasNew
<1> SUFFICES ASSUME HasNew(req[r])
             PROVE  /\ r \in InFlight' /\ Keeps(r) /\ HasNew(req[r])'
                    /\ req'[r].new_jwt = req[r].new_jwt
                    /\ req[r].new_refresh # None => req'[r].new_refresh = req[r].new_refresh
  BY <1>2
<1>3. req[r].pc \in {"rotate", "store_refresh", "answer"}
  BY DEF HasNew
<1>4. CASE r \in InFlight' /\ req'[r] = req[r]
  BY <1>4 DEF HasNew, Keeps
<1>5. CASE StoresRefresh(r)
  <2>1. req'[r].new_refresh # None /\ req[r].new_refresh = None
    BY <1>1, <1>5, Bounds DEF StoresRefresh, RefreshAdded, InPlace
  <2> QED
    BY <1>5, <2>1 DEF StoresRefresh, Moves, HasNew
<1>6. CASE RevokesRefresh(r)
  <2>1. req[r].pc = "rotate" /\ MovesTo(r, "store_refresh")
    BY <1>3, <1>6 DEF RevokesRefresh
  <2> QED
    BY <2>1 DEF MovesTo, Moves, HasNew
<1>7. \A b, kind : ~Begins(r, b, kind)
  BY DEF Begins
<1>8. ~Goes(r) /\ ~Generates(r) /\ ~StoresJwt(r) /\ ~RevokesJwt(r)
  BY <1>3 DEF Goes, Generates, StoresJwt, RevokesJwt
<1>9. r \in InFlight'
  BY <1>1, <1>3, StaysOrAnswers
<1> QED
  BY <1>1, <1>4, <1>5, <1>6, <1>7, <1>8, <1>9, OneMoves

\* No answer comes: the jars and the ended sessions are as they were.
LEMMA NoAnswer ==
  ASSUME Effect, \A r \in Requests : ~Answers(r)
  PROVE  cookies' = cookies /\ ended' = ended
BY DEF Effect, Begins, Goes, Leaves, Generates, StoresJwt, StoresRefresh,
       RevokesJwt, RevokesRefresh, Waits, browsing

\* An answer: it is the only request, and what it changes is its browser's jar.
AnswersAlone(r) ==
  /\ r \in InFlight /\ InFlight = {r} /\ InFlight' = {} /\ req[r].pc = "answer"
  /\ req[r].browser \in Browsers /\ UNCHANGED <<tokens, logins, now>>
  /\ \A c \in Browsers : c # req[r].browser => cookies'[c] = cookies[c]
  /\ ended' = IF req[r].kind = "logout" /\ req[r].session # 0
              THEN ended \cup {req[r].session} ELSE ended
  /\ LET b == req[r].browser IN
       \/ /\ req[r].kind = "logout" /\ cookies'[b].refresh = None
          /\ req[r].new_refresh = None
       \/ /\ req[r].kind \in {"login", "page"} /\ req[r].new_refresh # None
          /\ cookies'[b].jwt = req[r].new_jwt /\ cookies'[b].refresh = req[r].new_refresh
       \/ /\ req[r].kind # "logout" /\ req[r].new_refresh = None
          /\ cookies'[b] = cookies[b]

LEMMA AnswerAlone ==
  ASSUME Orderly, NEW r \in Requests, Answers(r)
  PROVE  AnswersAlone(r)
<1>1. /\ r \in InFlight /\ InFlight = {r} /\ InFlight' = {} /\ req[r].pc = "answer"
      /\ UNCHANGED <<tokens, logins, now>>
  BY DEF Orderly, Answers, Returns
<1>2. req[r] \in RequestState /\ InPlace(req[r]) /\ LeavesBehind(req[r])
  BY <1>1, HasTypes DEF Orderly, HoldInv, InOrder
<1>3. req[r].browser \in Browsers /\ req[r].kind \in AllKinds
  BY <1>2 DEF RequestState
<1> DEFINE b == req[r].browser
<1>4. cookies[b] \in Jar /\ cookies'[b] = SetCookies(cookies[b], req[r])
  BY <1>3, HasTypes DEF Orderly, Answers
<1>5. ~(req[r].kind = "api" /\ req[r].new_refresh # None)
  BY DEF Orderly, Answers, Only
<1>6. CASE req[r].kind = "logout"
  <2>1. cookies'[b].refresh = None /\ req[r].new_refresh = None
    BY <1>1, <1>2, <1>4, <1>6, AnswersBring DEF Orderly, LeavesBehind, InPlace
  <2> QED
    BY <1>1, <1>3, <1>6, <2>1 DEF AnswersAlone, Answers
<1>7. CASE req[r].kind \in {"login", "page"} /\ req[r].new_refresh # None
  <2>1. cookies'[b].jwt = req[r].new_jwt /\ cookies'[b].refresh = req[r].new_refresh
    BY <1>1, <1>4, <1>7, AnswersBring DEF Orderly
  <2> QED
    BY <1>1, <1>3, <1>7, <2>1 DEF AnswersAlone, Answers
<1>8. CASE req[r].kind # "logout" /\ req[r].new_refresh = None
  <2>1. cookies'[b] = cookies[b]
    BY <1>1, <1>4, <1>8, AnswersBring DEF Orderly
  <2> QED
    BY <1>1, <1>3, <1>8, <2>1 DEF AnswersAlone, Answers
<1> QED
  BY <1>3, <1>5, <1>6, <1>7, <1>8 DEF AllKinds

\* The new refresh token of a request belongs to the session of the request.
LEMMA NewSession ==
  ASSUME HoldInv, NEW r \in InFlight, req[r].new_refresh # None
  PROVE  /\ req[r].new_refresh \in DOMAIN refresh_tokens
         /\ refresh_tokens[req[r].new_refresh].session = req[r].session
BY DEF HoldInv, HoldsRows, InSession

LEMMA OwnSessionStep ==
  ASSUME Orderly
  PROVE  OwnSession'
<1>1. HoldInv /\ Grow /\ Effect /\ OwnSession /\ InOrder
  BY DEF Orderly, InOrder
<1>2. ASSUME NEW r \in Requests, Answers(r)
      PROVE  OwnSession'
  <2>1. AnswersAlone(r) /\ LeavesBehind(req[r]) /\ SessionIsNew(req[r]) /\ InSession(req[r])
    BY <1>1, <1>2, AnswerAlone DEF InOrder, AnswersAlone, HoldInv
  <2>2. r \in InFlight /\ refresh_tokens' = refresh_tokens
    BY <2>1 DEF AnswersAlone, tokens
  <2>0. PICK b \in Browsers : b = req[r].browser
    BY <2>1 DEF AnswersAlone
  <2>3. \A c \in Browsers : c # b => cookies'[c] = cookies[c]
    BY <2>1, <2>0 DEF AnswersAlone
  <2>4. ASSUME NEW c \in Browsers, c # b, cookies[c].refresh # None
        PROVE  SessionOf(c)' = SessionOf(c)
    BY <2>2, <2>3, <2>4 DEF SessionOf
\* The session of an ended request is that of its browser.
  <2>5. CASE req[r].kind = "logout"
    <3>1. cookies'[b].refresh = None
      BY <2>1, <2>5, <2>0 DEF AnswersAlone
    <3>2. ASSUME NEW c \in Browsers, cookies'[c].refresh # None
          PROVE  SessionOf(c)' \notin ended'
      <4>1. c # b /\ cookies[c].refresh # None /\ cookies'[c] = cookies[c]
        BY <2>3, <3>1, <3>2
      <4>2. SessionOf(c)' = SessionOf(c) /\ SessionOf(c) \notin ended
        BY <1>1, <2>4, <4>1 DEF OwnSession
      <4>3. CASE req[r].refresh = None
        <5>1. req[r].session = 0
          BY <2>1, <2>5, <4>3 DEF InSession
        <5> QED
          BY <2>1, <4>2, <5>1 DEF AnswersAlone
      <4>4. CASE req[r].refresh # None
        <5>1. req[r].session = SessionOf(b) /\ cookies[b].refresh # None
          BY <1>1, <2>2, <2>5, <2>0, <4>4, RequestsSession
        <5>2. SessionOf(c) # req[r].session
          BY <1>1, <2>3, <4>1, <5>1 DEF OwnSession
        <5> QED
          BY <2>1, <4>2, <5>2 DEF AnswersAlone
      <4> QED
        BY <4>3, <4>4
    <3>3. ASSUME NEW c \in Browsers, NEW d \in Browsers, cookies'[c].refresh # None,
                 cookies'[d].refresh # None, SessionOf(c)' = SessionOf(d)'
          PROVE  c = d
      <4>1. c # b /\ d # b /\ cookies[c].refresh # None /\ cookies[d].refresh # None
        BY <2>3, <3>1, <3>3
      <4> QED
        BY <1>1, <2>4, <3>3, <4>1 DEF OwnSession
    <3> QED
      BY <3>2, <3>3 DEF OwnSession
  <2>6. CASE /\ req[r].kind \in {"login", "page"} /\ req[r].new_refresh # None
             /\ cookies'[b].refresh = req[r].new_refresh
    <3>1. SessionOf(b)' = req[r].session
      BY <1>1, <2>2, <2>6, NewSession DEF SessionOf
    <3>2. /\ req[r].session \notin ended
          /\ \A c \in Browsers : c # b /\ cookies[c].refresh # None =>
               SessionOf(c) # req[r].session
      <4>1. CASE req[r].kind = "login"
        BY <2>1, <4>1 DEF SessionIsNew
      <4>2. CASE req[r].kind = "page"
        <5>1. req[r].refresh # None
          BY <2>1, <2>6, <4>2 DEF LeavesBehind, LeftJwt, Rotated
        <5>2. /\ req[r].session = SessionOf(b) /\ cookies[b].refresh # None
              /\ req[r].session \notin ended
          BY <1>1, <2>2, <2>0, <4>2, <5>1, RequestsSession
        <5> QED
          BY <1>1, <2>3, <5>2 DEF OwnSession
      <4> QED
        BY <2>6, <4>1, <4>2
    <3>3. ended' = ended
      BY <2>1, <2>6 DEF AnswersAlone
    <3>4. ASSUME NEW c \in Browsers, cookies'[c].refresh # None
          PROVE  /\ SessionOf(c)' \notin ended'
                 /\ c # b => /\ SessionOf(c)' = SessionOf(c) /\ cookies[c].refresh # None
                             /\ SessionOf(c)' # SessionOf(b)'
      <4>1. CASE c = b
        BY <3>1, <3>2, <3>3, <4>1
      <4>2. CASE c # b
        <5>1. cookies[c].refresh # None
          BY <2>3, <3>4, <4>2
        <5> QED
          BY <1>1, <2>4, <3>1, <3>2, <3>3, <4>2, <5>1 DEF OwnSession
      <4> QED
        BY <4>1, <4>2
    <3>5. ASSUME NEW c \in Browsers, NEW d \in Browsers, cookies'[c].refresh # None,
                 cookies'[d].refresh # None, SessionOf(c)' = SessionOf(d)'
          PROVE  c = d
      <4>1. CASE c = b \/ d = b
        BY <3>4, <3>5, <4>1
      <4>2. CASE c # b /\ d # b
        BY <1>1, <3>4, <3>5, <4>2 DEF OwnSession
      <4> QED
        BY <4>1, <4>2
    <3> QED
      BY <3>4, <3>5 DEF OwnSession
  <2>7. CASE req[r].kind # "logout" /\ cookies'[b] = cookies[b]
    <3>1. \A c \in Browsers : cookies'[c] = cookies[c]
      BY <2>3, <2>7
    <3>2. ended' = ended
      BY <2>1, <2>7 DEF AnswersAlone
    <3> QED
      BY <1>1, <2>2, <3>1, <3>2 DEF OwnSession, SessionOf
  <2> QED
    BY <2>1, <2>5, <2>6, <2>7, <2>0 DEF AnswersAlone
<1>3. CASE \A r \in Requests : ~Answers(r)
  <2>1. cookies' = cookies /\ ended' = ended
    BY <1>1, <1>3, NoAnswer
  <2>2. \A c \in Browsers : cookies[c].refresh # None => SessionOf(c)' = SessionOf(c)
    BY <1>1, <2>1, JarRows
  <2> QED
    BY <1>1, <2>1, <2>2 DEF OwnSession
<1> QED
  BY <1>2, <1>3

LEMMA EndedStep ==
  ASSUME Orderly
  PROVE  EndedIsDead'
<1>1. HoldInv /\ Grow /\ Effect /\ EndedIsDead /\ AcceptsItsOwn /\ InOrder /\ Types'
  BY DEF Orderly, InOrder
<1>2. /\ \A t \in DOMAIN jwt_tokens : DeadJwt(t) => DeadJwt(t)'
      /\ \A t \in DOMAIN refresh_tokens : DeadRefresh(t) => DeadRefresh(t)'
  BY <1>1, DeadStays
<1>3. CASE \A r \in Requests : ~Answers(r)
  <2>1. ended' = ended
    BY <1>1, <1>3, NoAnswer
  <2>2. ASSUME NEW r \in InFlight, req[r].pc \in Refreshing
        PROVE  req[r].session \notin ended
    <3>1. InSession(req[r]) /\ SessionIsNew(req[r])
      BY <1>1 DEF HoldInv, InOrder
    <3>2. CASE req[r].kind = "login"
      BY <3>1, <3>2 DEF SessionIsNew
    <3>3. CASE req[r].kind # "login"
      <4>1. req[r].refresh # None
        BY <2>2, <3>1, <3>3 DEF InSession
      <4> QED
        BY <1>1, <3>3, <4>1, RequestsSession
    <3> QED
      BY <3>2, <3>3
  <2>3. ASSUME NEW t \in DOMAIN jwt_tokens', jwt_tokens'[t].session \in ended'
        PROVE  DeadJwt(t)'
    <3>1. CASE t \in DOMAIN jwt_tokens
      BY <1>1, <1>2, <2>1, <2>3, <3>1 DEF EndedIsDead, Grow
    <3>2. CASE t \notin DOMAIN jwt_tokens
      <4>1. PICK r \in Requests : StoresJwt(r) /\ t = req[r].new_jwt
        BY <1>1, <3>2, NewRows
      <4>2. r \in InFlight /\ req[r].pc \in Refreshing /\ jwt_tokens'[t].session = req[r].session
        BY <4>1 DEF StoresJwt, JwtAdded, MovesTo, Moves, Refreshing
      <4> QED
        BY <2>1, <2>2, <2>3, <4>2
    <3> QED
      BY <3>1, <3>2
  <2>4. ASSUME NEW t \in DOMAIN refresh_tokens', refresh_tokens'[t].session \in ended'
        PROVE  DeadRefresh(t)'
    <3>1. CASE t \in DOMAIN refresh_tokens
      BY <1>1, <1>2, <2>1, <2>4, <3>1 DEF EndedIsDead, Grow
    <3>2. CASE t \notin DOMAIN refresh_tokens
      <4>1. PICK r \in Requests : StoresRefresh(r) /\ t = req'[r].new_refresh
        BY <1>1, <3>2, NewRows
      <4>2. /\ r \in InFlight /\ req[r].pc \in Refreshing
            /\ refresh_tokens'[t].session = req[r].session
        BY <4>1 DEF StoresRefresh, RefreshAdded, Moves, Refreshing
      <4> QED
        BY <2>1, <2>2, <2>4, <4>2
    <3> QED
      BY <3>1, <3>2
  <2> QED
    BY <2>3, <2>4 DEF EndedIsDead
<1>4. ASSUME NEW r \in Requests, Answers(r)
      PROVE  EndedIsDead'
  <2>1. AnswersAlone(r) /\ LeavesBehind(req[r]) /\ InSession(req[r]) /\ InPlace(req[r])
    BY <1>1, <1>4, AnswerAlone DEF InOrder, AnswersAlone, HoldInv
  <2>2. r \in InFlight /\ InFlight = {r} /\ UNCHANGED tokens
    BY <2>1 DEF AnswersAlone
  <2>3. CASE ended' = ended
    BY <1>1, <1>2, <2>2, <2>3 DEF EndedIsDead, tokens
  <2>4. CASE /\ req[r].kind = "logout" /\ req[r].session # 0
             /\ ended' = ended \cup {req[r].session}
    <3>1. req[r].refresh # None /\ req[r].new_refresh = None /\ req[r].pc = "answer"
      BY <2>1, <2>4 DEF InSession, InPlace, AnswersAlone
    <3>2. ~HasNew(req[r])
      BY <3>1 DEF HasNew
    <3>3. PICK b \in Browsers : b = req[r].browser
      BY <1>1, <2>2, <3>1, <2>4, RequestsSession
    <3>4. cookies[b].refresh # None /\ req[r].session = SessionOf(b)
      BY <1>1, <2>2, <2>4, <3>1, <3>3, RequestsSession
    <3>5. ASSUME NEW t \in DOMAIN jwt_tokens, jwt_tokens[t].session = req[r].session
          PROVE  DeadJwt(t)
      <4>1. DeadJwt(t) \/ t = cookies[b].jwt
        BY <1>1, <2>2, <3>2, <3>4, <3>5 DEF AcceptsItsOwn
      <4>2. t # None
        BY Bounds, HasTypes, <1>1 DEF Types, Tables, IsTable
      <4> QED
        BY <2>1, <2>4, <3>1, <3>3, <4>1, <4>2 DEF LeavesBehind, LeftJwt, LoggedOut
    <3>6. ASSUME NEW t \in DOMAIN refresh_tokens, refresh_tokens[t].session = req[r].session
          PROVE  DeadRefresh(t)
      <4>1. t # None
        BY Bounds, HasTypes, <1>1 DEF Types, Tables, IsTable
      <4>2. refresh_tokens[t].revoked \/ t = cookies[b].refresh
        BY <1>1, <2>2, <3>1, <3>4, <3>6, <4>1 DEF AcceptsItsOwn
      <4> QED
        BY <2>1, <2>4, <3>1, <3>3, <4>1, <4>2 DEF LeavesBehind, DeadRefresh, LeftJwt, LoggedOut
    <3> QED
      BY <1>1, <1>2, <2>2, <2>4, <3>5, <3>6 DEF EndedIsDead, tokens
  <2> QED
    BY <2>1, <2>3, <2>4 DEF AnswersAlone
<1> QED
  BY <1>3, <1>4

\* What is still accepted of the session of b besides the tokens in its jar.
BringsJwt(b, t) == \E r \in InFlight :
  req[r].browser = b /\ HasNew(req[r]) /\ req[r].new_jwt = t
BringsRefresh(b, t) == \E r \in InFlight :
  req[r].browser = b /\ req[r].new_refresh = t

LEMMA BringsStays ==
  ASSUME Orderly, \A r \in Requests : ~Answers(r), NEW b, NEW t
  PROVE  /\ BringsJwt(b, t) => BringsJwt(b, t)'
         /\ BringsRefresh(b, t) /\ t # None => BringsRefresh(b, t)'
<1>1. \A r \in InFlight : r \in Requests
  BY HasTypes DEF Orderly, Types, Requesting, IsTable, InFlight
<1>2. ASSUME BringsJwt(b, t)
      PROVE  BringsJwt(b, t)'
  <2>1. PICK r \in InFlight : req[r].browser = b /\ HasNew(req[r]) /\ req[r].new_jwt = t
    BY <1>2 DEF BringsJwt
  <2>2. r \in InFlight' /\ Keeps(r) /\ HasNew(req[r])' /\ req'[r].new_jwt = req[r].new_jwt
    BY <1>1, <2>1, NewStays
  <2> QED
    BY <2>1, <2>2 DEF BringsJwt, Keeps
<1>3. ASSUME BringsRefresh(b, t), t # None
      PROVE  BringsRefresh(b, t)'
  <2>1. PICK r \in InFlight : req[r].browser = b /\ req[r].new_refresh = t
    BY <1>3 DEF BringsRefresh
  <2>2. r \in InFlight' /\ Keeps(r) /\ req'[r].new_refresh = req[r].new_refresh
    BY <1>1, <1>3, <2>1, NewStays
  <2> QED
    BY <2>1, <2>2 DEF BringsRefresh, Keeps
<1> QED
  BY <1>2, <1>3

\* Who stores a row of the session of a browser is a request of the browser.
LEMMA StoresForItself ==
  ASSUME HoldInv, InOrder, NEW b \in Browsers, cookies[b].refresh # None,
         NEW r \in InFlight, req[r].pc \in Refreshing, req[r].session = SessionOf(b)
  PROVE  req[r].browser = b
<1>1. InSession(req[r]) /\ SessionIsNew(req[r]) /\ OwnSession
  BY DEF HoldInv, InOrder
<1>2. req[r].kind # "login"
  BY <1>1 DEF SessionIsNew
<1>3. req[r].refresh # None
  BY <1>1, <1>2 DEF InSession
<1>4. PICK c \in Browsers : c = req[r].browser
  BY <1>2, <1>3, RequestsSession
<1>5. cookies[c].refresh # None /\ req[r].session = SessionOf(c)
  BY <1>2, <1>3, <1>4, RequestsSession
<1> QED
  BY <1>1, <1>4, <1>5 DEF OwnSession

LEMMA AcceptsStep ==
  ASSUME Orderly
  PROVE  AcceptsItsOwn'
<1>1. HoldInv /\ Grow /\ Effect /\ AcceptsItsOwn /\ InOrder /\ Types' /\ Types
  BY HasTypes DEF Orderly, InOrder
<1>2. /\ \A t \in DOMAIN jwt_tokens : DeadJwt(t) => DeadJwt(t)'
      /\ None \notin DOMAIN refresh_tokens /\ None \notin DOMAIN jwt_tokens
  BY <1>1, DeadStays, Bounds DEF Types, Tables, IsTable
<1> SUFFICES ASSUME NEW b \in Browsers, cookies'[b].refresh # None
             PROVE  /\ \A t \in DOMAIN jwt_tokens' :
                         jwt_tokens'[t].session = SessionOf(b)' =>
                           \/ DeadJwt(t)' \/ t = cookies'[b].jwt \/ BringsJwt(b, t)'
                    /\ \A t \in DOMAIN refresh_tokens' :
                         refresh_tokens'[t].session = SessionOf(b)' =>
                           \/ refresh_tokens'[t].revoked \/ t = cookies'[b].refresh
                           \/ BringsRefresh(b, t)'
  BY DEF AcceptsItsOwn, BringsJwt, BringsRefresh
<1>3. cookies[b].refresh # None =>
        /\ \A t \in DOMAIN jwt_tokens : jwt_tokens[t].session = SessionOf(b) =>
             DeadJwt(t) \/ t = cookies[b].jwt \/ BringsJwt(b, t)
        /\ \A t \in DOMAIN refresh_tokens : refresh_tokens[t].session = SessionOf(b) =>
             \/ refresh_tokens[t].revoked \/ t = cookies[b].refresh
             \/ BringsRefresh(b, t)
  BY <1>1 DEF AcceptsItsOwn, BringsJwt, BringsRefresh
<1>4. CASE \A r \in Requests : ~Answers(r)
  <2>1. cookies' = cookies /\ cookies[b].refresh # None
    BY <1>1, <1>4, NoAnswer
  <2>2. SessionOf(b)' = SessionOf(b)
    BY <1>1, <2>1, JarRows
  <2>3. ASSUME NEW t \in DOMAIN jwt_tokens', jwt_tokens'[t].session = SessionOf(b)
        PROVE  DeadJwt(t)' \/ t = cookies[b].jwt \/ BringsJwt(b, t)'
    <3>1. CASE t \in DOMAIN jwt_tokens
      <4>1. jwt_tokens[t].session = SessionOf(b)
        BY <1>1, <2>3, <3>1 DEF Grow
      <4> QED
        BY <1>2, <1>3, <1>4, <2>1, <3>1, <4>1, BringsStays
    <3>2. CASE t \notin DOMAIN jwt_tokens
      <4>1. PICK r \in Requests : StoresJwt(r) /\ t = req[r].new_jwt
        BY <1>1, <3>2, NewRows
      <4>2. /\ r \in InFlight /\ r \in InFlight' /\ req[r].pc \in Refreshing
            /\ jwt_tokens'[t].session = req[r].session
            /\ Keeps(r) /\ req'[r].new_jwt = t /\ HasNew(req[r])'
        BY <4>1 DEF StoresJwt, JwtAdded, MovesTo, Moves, Refreshing, HasNew
      <4>3. req[r].browser = b
        BY <1>1, <2>1, <2>3, <4>2, StoresForItself
      <4> QED
        BY <4>2, <4>3 DEF BringsJwt, Keeps
    <3> QED
      BY <3>1, <3>2
  <2>4. ASSUME NEW t \in DOMAIN refresh_tokens', refresh_tokens'[t].session = SessionOf(b)
        PROVE  \/ refresh_tokens'[t].revoked \/ t = cookies[b].refresh
               \/ BringsRefresh(b, t)'
    <3>1. CASE t \in DOMAIN refresh_tokens
      <4>1. /\ refresh_tokens[t].session = SessionOf(b) /\ t # None
            /\ refresh_tokens[t].revoked => refresh_tokens'[t].revoked
        BY <1>1, <1>2, <2>4, <3>1 DEF Grow
      <4> QED
        BY <1>3, <1>4, <2>1, <3>1, <4>1, BringsStays
    <3>2. CASE t \notin DOMAIN refresh_tokens
      <4>1. PICK r \in Requests : StoresRefresh(r) /\ t = req'[r].new_refresh
        BY <1>1, <3>2, NewRows
      <4>2. /\ r \in InFlight /\ r \in InFlight' /\ req[r].pc \in Refreshing
            /\ refresh_tokens'[t].session = req[r].session /\ Keeps(r)
        BY <4>1 DEF StoresRefresh, RefreshAdded, Moves, Refreshing
      <4>3. req[r].browser = b
        BY <1>1, <2>1, <2>4, <4>2, StoresForItself
      <4> QED
        BY <4>1, <4>2, <4>3 DEF BringsRefresh, Keeps
    <3> QED
      BY <3>1, <3>2
  <2> QED
    BY <2>1, <2>2, <2>3, <2>4
<1>5. ASSUME NEW r \in Requests, Answers(r)
      PROVE  /\ \A t \in DOMAIN jwt_tokens' :
                  jwt_tokens'[t].session = SessionOf(b)' =>
                    \/ DeadJwt(t)' \/ t = cookies'[b].jwt
             /\ \A t \in DOMAIN refresh_tokens' :
                  refresh_tokens'[t].session = SessionOf(b)' =>
                    \/ refresh_tokens'[t].revoked \/ t = cookies'[b].refresh
  <2>1. AnswersAlone(r) /\ Orderly
    BY <1>5, AnswerAlone
  <2>2. /\ InFlight = {r} /\ UNCHANGED tokens /\ r \in InFlight /\ req[r].pc = "answer"
        /\ req[r].browser \in Browsers
    BY <2>1 DEF AnswersAlone
  <2>3. LeavesBehind(req[r]) /\ SessionIsNew(req[r]) /\ InSession(req[r]) /\ InPlace(req[r])
    BY <1>1, <2>2 DEF InOrder, HoldInv
\* A browser whose jar stays: what the request brings is not for it.
  <2>4. CASE cookies'[b] = cookies[b] /\ (req[r].browser # b \/ req[r].new_refresh = None)
    <3>1. SessionOf(b)' = SessionOf(b) /\ cookies[b].refresh # None
      BY <1>1, <2>4, JarRows
    <3>2. \A t : ~BringsJwt(b, t)
      BY <2>2, <2>4 DEF BringsJwt, HasNew
    <3>3. \A t : t # None => ~BringsRefresh(b, t)
      BY <2>2, <2>4 DEF BringsRefresh
    <3> QED
      BY <1>2, <1>3, <2>2, <2>4, <3>1, <3>2, <3>3 DEF tokens
  <2>5. CASE /\ req[r].browser = b /\ req[r].kind \in {"login", "page"}
             /\ req[r].new_refresh # None /\ cookies'[b].jwt = req[r].new_jwt
             /\ cookies'[b].refresh = req[r].new_refresh
    <3>1. SessionOf(b)' = req[r].session
      BY <1>1, <2>2, <2>5, NewSession DEF SessionOf, tokens
    <3>2. CASE req[r].kind = "login"
      BY <2>2, <2>3, <2>5, <3>1, <3>2 DEF SessionIsNew, tokens
    <3>3. CASE req[r].kind = "page"
      <4>1. /\ req[r].refresh # None /\ refresh_tokens[req[r].refresh].revoked
            /\ req[r].jwt = None \/ DeadJwt(req[r].jwt)
            /\ req[r].jwt = cookies[b].jwt /\ req[r].refresh = cookies[b].refresh
        BY <2>3, <2>5, <3>3 DEF LeavesBehind, LeftJwt, Rotated
      <4>2. req[r].session = SessionOf(b)
        BY <1>1, <2>2, <2>5, <3>3, <4>1, RequestsSession
      <4>3. ASSUME NEW t \in DOMAIN jwt_tokens, jwt_tokens[t].session = SessionOf(b)
            PROVE  DeadJwt(t) \/ t = req[r].new_jwt
        <5>1. BringsJwt(b, t) => t = req[r].new_jwt
          BY <2>2 DEF BringsJwt
        <5> QED
          BY <1>2, <1>3, <4>1, <4>3, <5>1
      <4>4. ASSUME NEW t \in DOMAIN refresh_tokens, refresh_tokens[t].session = SessionOf(b)
            PROVE  refresh_tokens[t].revoked \/ t = req[r].new_refresh
        <5>1. BringsRefresh(b, t) => t = req[r].new_refresh
          BY <2>2 DEF BringsRefresh
        <5> QED
          BY <1>3, <4>1, <4>4, <5>1
      <4> QED
        BY <1>2, <2>2, <2>5, <3>1, <4>2, <4>3, <4>4 DEF tokens
    <3> QED
      BY <2>5, <3>2, <3>3
  <2> QED
    BY <1>5, <2>1, <2>4, <2>5 DEF AnswersAlone
<1> QED
  BY <1>4, <1>5

\* What a request was sent with and left behind it leaves behind after the step.
LEMMA LeftStays ==
  ASSUME Orderly, cookies' = cookies, NEW p \in InFlight, Keeps(p),
         \/ LeftJwt(req[p])' => LeftJwt(req[p])
         \/ req[p].jwt = None \/ \E t : t = req[p].jwt /\ DeadJwt(t)',
         \/ Rotated(req[p])' => Rotated(req[p])
         \/ req[p].refresh # None /\ refresh_tokens'[req[p].refresh].revoked,
         \/ LoggedOut(req[p])' => LoggedOut(req[p])
         \/ req[p].refresh = None \/ refresh_tokens'[req[p].refresh].revoked
  PROVE  LeavesBehind(req[p])'
<1>1. HoldInv /\ Grow /\ LeavesBehind(req[p]) /\ HoldsRows(req[p]) /\ Types'
  BY DEF Orderly, InOrder, HoldInv
<1>2. PICK q : q = req[p]
  OBVIOUS
<1>3. /\ q.jwt = cookies'[q.browser].jwt /\ q.refresh = cookies'[q.browser].refresh
      /\ req'[p].jwt = q.jwt /\ req'[p].refresh = q.refresh /\ req'[p].browser = q.browser
  BY <1>1, <1>2 DEF LeavesBehind, Keeps
<1>4. DeadJwt(q.jwt) /\ q.jwt # None => DeadJwt(q.jwt)'
  BY <1>1, <1>2, DeadStays DEF HoldsRows
<1>5. q.refresh # None /\ refresh_tokens[q.refresh].revoked => refresh_tokens'[q.refresh].revoked
  BY <1>1, <1>2 DEF HoldsRows, Grow
<1>6. LeftJwt(req[p])' => q.jwt = None \/ DeadJwt(q.jwt)'
  <2>1. LeftJwt(req[p]) => q.jwt = None \/ DeadJwt(q.jwt)
    BY <1>1, <1>2 DEF LeavesBehind
  <2>2. \/ LeftJwt(req[p])' => LeftJwt(req[p])
        \/ q.jwt = None \/ DeadJwt(q.jwt)'
    BY <1>2
  <2> QED
    BY <1>4, <2>1, <2>2
<1>7. Rotated(req[p])' => q.refresh # None /\ refresh_tokens'[q.refresh].revoked
  BY <1>1, <1>2, <1>5 DEF LeavesBehind
<1>8. LoggedOut(req[p])' => q.refresh = None \/ refresh_tokens'[q.refresh].revoked
  BY <1>1, <1>2, <1>5 DEF LeavesBehind
<1>9. LeftJwt(req[p])' => req'[p].jwt = None \/ DeadJwt(req[p].jwt)'
  BY <1>3, <1>6 DEF DeadJwt
<1> QED
  BY <1>3, <1>7, <1>8, <1>9 DEF LeavesBehind

LEMMA LeavesBehindStep ==
  ASSUME Orderly, cookies' = cookies, NEW p \in InFlight'
  PROVE  LeavesBehind(req[p])'
<1>1. HoldInv /\ Grow /\ Effect /\ InOrder /\ "failure" \notin troubles'
  BY DEF Orderly, Only
<1>2. None \notin DOMAIN refresh_tokens /\ None \notin DOMAIN jwt_tokens
  BY <1>1, HasTypes, Bounds DEF Types, Tables, IsTable
<1>3. p \in InFlight => InPlace(req[p]) /\ InSession(req[p]) /\ HoldsRows(req[p])
  BY <1>1 DEF HoldInv
<1>4. ASSUME NEW b \in Browsers, NEW kind \in Kinds, Begins(p, b, kind)
      PROVE  LeavesBehind(req[p])'
  BY <1>4 DEF Begins, FirstStep, LeavesBehind, LeftJwt, Rotated, LoggedOut, Refreshing
<1>5. CASE p \in InFlight /\ req'[p] = req[p]
  BY <1>5, LeftStays DEF Keeps, LeftJwt, Rotated, LoggedOut
<1>6. CASE Goes(p)
  <2>1. /\ p \in InFlight /\ Keeps(p) /\ req'[p].new_refresh = req[p].new_refresh
        /\ UNCHANGED <<tokens, now>> /\ req[p].kind # "logout"
    BY <1>3, <1>6 DEF Goes, MovesTo, Moves, InPlace
  <2>2. /\ Rotated(req[p])' => Rotated(req[p])
        /\ LoggedOut(req[p])' => LoggedOut(req[p])
    BY <1>6, <2>1 DEF Goes, MovesTo, Keeps, Rotated, LoggedOut
  <2>3. CASE req[p].pc = "decode" /\ ~Unexpired(req[p].jwt)
    <3>1. req[p].jwt = None \/ now > req[p].jwt + JwtLife
      <4>1. now \in Nat /\ JwtLife \in Nat /\ (req[p].jwt # None => req[p].jwt \in Nat)
        BY <1>1, <1>3, <2>1, HasTypes, Bounds DEF Types, Tables, IsTable, HoldsRows
      <4> QED
        BY <2>3, <4>1 DEF Unexpired
    <3>2. req[p].jwt = None \/ \E t : t = req[p].jwt /\ DeadJwt(t)'
      BY <2>1, <3>1 DEF DeadJwt, tokens
    <3> QED
      BY <2>1, <2>2, <3>2, LeftStays
  <2>4. CASE ~(req[p].pc = "decode" /\ ~Unexpired(req[p].jwt))
    <3>1. LeftJwt(req[p])' => LeftJwt(req[p])
      BY <1>6, <2>1, <2>4 DEF Goes, MovesTo, Keeps, LeftJwt, Refreshing
    <3> QED
      BY <2>1, <2>2, <3>1, LeftStays
  <2> QED
    BY <2>3, <2>4
<1>7. CASE Generates(p) \/ StoresJwt(p)
  <2>1. /\ p \in InFlight /\ Keeps(p) /\ req'[p].new_refresh = req[p].new_refresh
        /\ req[p].pc \in {"generate", "store_jwt"}
        /\ \/ req'[p].pc \in {"store_jwt", "rotate"}
           \/ req'[p].pc = "store_refresh" /\ req[p].kind = "login"
    BY <1>7 DEF Generates, StoresJwt, MovesTo, Moves
  <2>2. /\ LeftJwt(req[p])' => LeftJwt(req[p])
        /\ Rotated(req[p])' => Rotated(req[p])
        /\ LoggedOut(req[p])' => LoggedOut(req[p])
    BY <2>1 DEF Keeps, LeftJwt, Rotated, LoggedOut, Refreshing
  <2> QED
    BY <2>1, <2>2, LeftStays
<1>8. CASE StoresRefresh(p)
  <2>1. /\ p \in InFlight /\ Keeps(p) /\ req[p].pc = "store_refresh"
        /\ req[p].kind # "logout"
    BY <1>3, <1>8 DEF StoresRefresh, Moves, InPlace
  <2>2. /\ LeftJwt(req[p])' => LeftJwt(req[p])
        /\ Rotated(req[p])' => Rotated(req[p])
        /\ LoggedOut(req[p])' => LoggedOut(req[p])
    BY <2>1 DEF Keeps, LeftJwt, Rotated, LoggedOut, Refreshing
  <2> QED
    BY <2>1, <2>2, LeftStays
<1>9. CASE RevokesJwt(p)
  <2>1. /\ p \in InFlight /\ Keeps(p) /\ req'[p].new_refresh = req[p].new_refresh
        /\ req[p].pc = "revoke_jwt" /\ req'[p].pc = "revoke_refresh"
        /\ JwtRevoked(req[p].jwt)
    BY <1>1, <1>9 DEF RevokesJwt, MovesTo, Moves
  <2>2. /\ Rotated(req[p])' => Rotated(req[p])
        /\ LoggedOut(req[p])' => LoggedOut(req[p])
    BY <2>1 DEF Keeps, Rotated, LoggedOut
  <2>3. req[p].jwt = None \/ \E t : t = req[p].jwt /\ DeadJwt(t)'
    BY <1>3, <2>1 DEF HoldsRows, JwtRevoked, DeadJwt
  <2> QED
    BY <2>1, <2>2, <2>3, LeftStays
<1>10. CASE RevokesRefresh(p)
  <2>1. /\ p \in InFlight /\ Keeps(p) /\ req'[p].new_refresh = req[p].new_refresh
        /\ \/ req[p].pc = "rotate" /\ req'[p].pc = "store_refresh" /\ req[p].kind # "logout"
           \/ req[p].pc = "revoke_refresh" /\ req'[p].pc = "answer"
        /\ RefreshRevoked(req[p].refresh)
    BY <1>1, <1>3, <1>10 DEF RevokesRefresh, MovesTo, Moves, InPlace
  <2>2. LeftJwt(req[p])' => LeftJwt(req[p])
    BY <2>1 DEF Keeps, LeftJwt, Refreshing
  <2>3. req[p].refresh = None \/ refresh_tokens'[req[p].refresh].revoked
    BY <1>3, <2>1 DEF HoldsRows, RefreshRevoked
  <2>4. \/ Rotated(req[p])' => Rotated(req[p])
        \/ req[p].refresh # None /\ refresh_tokens'[req[p].refresh].revoked
    <3>1. CASE req[p].pc = "rotate"
      <4>1. req[p].refresh # None
        BY <1>3, <2>1, <3>1 DEF InSession, InPlace, Refreshing
      <4> QED
        BY <2>3, <4>1
    <3>2. CASE req[p].pc = "revoke_refresh"
      BY <2>1, <3>2 DEF Keeps, Rotated
    <3> QED
      BY <2>1, <3>1, <3>2
  <2> QED
    BY <2>1, <2>2, <2>3, <2>4, LeftStays
<1> QED
  BY <1>1, <1>4, <1>5, <1>6, <1>7, <1>8, <1>9, <1>10, OneMoves

LEMMA SessionIsNewStep ==
  ASSUME Orderly, cookies' = cookies, ended' = ended, \A r \in Requests : ~Answers(r),
         NEW p \in InFlight'
  PROVE  SessionIsNew(req[p])'
<1>1. HoldInv /\ Grow /\ Effect /\ InOrder /\ \A q, r \in InFlight : q = r
  BY DEF Orderly
<1>2. None \notin DOMAIN refresh_tokens
  BY <1>1, HasTypes, Bounds DEF Types, Tables, IsTable
<1>3. \A b \in Browsers : cookies[b].refresh # None =>
        SessionOf(b)' = SessionOf(b) /\ SessionOf(b) \in Nat /\ SessionOf(b) <= logins
  BY <1>1, JarRows, Bounds
<1> SUFFICES ASSUME req'[p].kind = "login"
             PROVE  SessionIsNew(req[p])'
  BY DEF SessionIsNew
<1>4. PICK s : s = req'[p].session
  OBVIOUS
<1>5. ASSUME p \in InFlight, Keeps(p)
      PROVE  SessionIsNew(req[p])'
  <2>1. /\ SessionIsNew(req[p]) /\ req[p].kind = "login" /\ req[p].session = s
        /\ p \in Requests /\ InFlight = {p}
    <3>1. SessionIsNew(req[p]) /\ InFlight = {p}
      BY <1>1, <1>5 DEF InOrder
    <3>2. p \in Requests
      BY <1>1, <1>5, HasTypes DEF Types, Requesting, IsTable, InFlight
    <3> QED
      BY <1>4, <1>5, <3>1, <3>2 DEF Keeps
  <2>2. s \notin ended' /\ \A b \in Browsers : cookies'[b].refresh # None => SessionOf(b)' # s
    BY <1>3, <2>1 DEF SessionIsNew
  <2>3. ASSUME NEW t \in DOMAIN jwt_tokens', jwt_tokens'[t].session = s
        PROVE  HasNew(req[p])' /\ t = req'[p].new_jwt
    <3>1. CASE t \in DOMAIN jwt_tokens
      <4>1. HasNew(req[p]) /\ t = req[p].new_jwt
        BY <1>1, <2>1, <2>3, <3>1 DEF SessionIsNew, Grow
      <4> QED
        BY <1>5, <2>1, <4>1, NewStays
    <3>2. CASE t \notin DOMAIN jwt_tokens
      <4>1. PICK r \in Requests : StoresJwt(r) /\ t = req[r].new_jwt
        BY <1>1, <3>2, NewRows
      <4>2. r = p
        BY <2>1, <4>1 DEF StoresJwt, MovesTo, Moves
      <4> QED
        BY <4>1, <4>2 DEF StoresJwt, MovesTo, Moves, HasNew
    <3> QED
      BY <3>1, <3>2
  <2>4. ASSUME NEW t \in DOMAIN refresh_tokens', refresh_tokens'[t].session = s
        PROVE  t = req'[p].new_refresh
    <3>1. CASE t \in DOMAIN refresh_tokens
      <4>1. t = req[p].new_refresh /\ t # None
        BY <1>1, <1>2, <2>1, <2>4, <3>1 DEF SessionIsNew, Grow
      <4> QED
        BY <1>5, <2>1, <4>1, NewStays
    <3>2. CASE t \notin DOMAIN refresh_tokens
      <4>1. PICK r \in Requests : StoresRefresh(r) /\ t = req'[r].new_refresh
        BY <1>1, <3>2, NewRows
      <4>2. r = p
        BY <2>1, <4>1 DEF StoresRefresh, Moves
      <4> QED
        BY <4>1, <4>2
    <3> QED
      BY <3>1, <3>2
  <2> QED
    BY <1>4, <2>2, <2>3, <2>4 DEF SessionIsNew
<1>6. ASSUME NEW b \in Browsers, NEW kind \in Kinds, Begins(p, b, kind)
      PROVE  SessionIsNew(req[p])'
  <2>1. /\ s = logins + 1 /\ UNCHANGED tokens /\ logins \in Nat
    BY <1>1, <1>4, <1>6, HasTypes, Bounds DEF Begins, Types
  <2>2. \A u \in Nat : u <= logins => u # s
    BY <2>1
  <2>3. s \notin ended'
    <3>1. \A u \in ended : u \in Nat /\ u <= logins
      BY <1>1, HasTypes, Bounds DEF HoldInv, SessionsBegun, Types
    <3> QED
      BY <2>2, <3>1
  <2>4. \A b2 \in Browsers : cookies'[b2].refresh # None => SessionOf(b2)' # s
    BY <1>3, <2>2
  <2>5. \A t \in DOMAIN jwt_tokens' : jwt_tokens'[t].session # s
    <3>1. \A t \in DOMAIN jwt_tokens :
            jwt_tokens[t].session \in Nat /\ jwt_tokens[t].session <= logins
      BY <1>1, HasTypes, Bounds DEF HoldInv, SessionsBegun
    <3> QED
      BY <2>1, <2>2, <3>1 DEF tokens
  <2>6. \A t \in DOMAIN refresh_tokens' : refresh_tokens'[t].session # s
    <3>1. \A t \in DOMAIN refresh_tokens :
            refresh_tokens[t].session \in Nat /\ refresh_tokens[t].session <= logins
      BY <1>1, HasTypes, Bounds DEF HoldInv, SessionsBegun
    <3> QED
      BY <2>1, <2>2, <3>1 DEF tokens
  <2> QED
    BY <1>4, <2>3, <2>4, <2>5, <2>6 DEF SessionIsNew
<1> QED
  BY <1>1, <1>5, <1>6, SentWith

LEMMA LogoutStep ==
  ASSUME HoldInv, OneByOne, LogoutInv, [Next]_vars
  PROVE  LogoutInv'
<1>1. Effect /\ Grow /\ Types'
  BY Steps, Growing
<1> SUFFICES ASSUME Only({})'
             PROVE  InOrder'
  BY DEF LogoutInv
<1>2. Only({}) /\ "overlap" \notin troubles
  BY <1>1 DEF Only, Grow
<1>3. Orderly
  BY <1>1, <1>2 DEF Orderly, LogoutInv, OneByOne
<1>4. OwnSession' /\ EndedIsDead' /\ AcceptsItsOwn'
  BY <1>3, OwnSessionStep, EndedStep, AcceptsStep
<1>5. ASSUME NEW p \in InFlight'
      PROVE  LeavesBehind(req[p])' /\ SessionIsNew(req[p])'
  <2>1. \A r \in Requests : ~Answers(r)
    BY <1>3, <1>5, AnswerAlone DEF AnswersAlone
  <2>2. cookies' = cookies /\ ended' = ended
    BY <1>1, <2>1, NoAnswer
  <2> QED
    BY <1>3, <2>1, <2>2, LeavesBehindStep, SessionIsNewStep
<1> QED
  BY <1>4, <1>5 DEF InOrder

LEMMA AlwaysLogout == Spec => [](HoldInv /\ OneByOne /\ LogoutInv)
<1>1. Init => HoldInv /\ OneByOne /\ LogoutInv
  <2> SUFFICES ASSUME Init
               PROVE  HoldInv /\ OneByOne /\ InOrder
    BY DEF LogoutInv
  <2>1. InFlight = {} /\ DOMAIN jwt_tokens = {} /\ DOMAIN refresh_tokens = {}
    BY DEF Init, NoRows, InFlight
  <2>2. \A b \in Browsers : cookies[b].refresh = None
    BY DEF Init
  <2> QED
    BY <2>1, <2>2, InitHold DEF OneByOne, InOrder, OwnSession, EndedIsDead, AcceptsItsOwn
<1>2. /\ HoldInv /\ OneByOne /\ LogoutInv /\ [Next]_vars
      => (HoldInv /\ OneByOne /\ LogoutInv)'
  <2> SUFFICES ASSUME HoldInv, OneByOne, LogoutInv, [Next]_vars
               PROVE  (HoldInv /\ OneByOne /\ LogoutInv)'
    OBVIOUS
  <2>1. OneByOne'
    BY Steps, Growing, OneByOneStep
  <2> QED
    BY <2>1, HoldStep, LogoutStep
<1> QED
  BY <1>1, <1>2, PTL DEF Spec

\* When requests come one by one and nothing fails, the logout handler ends a session:
\* once it has answered, neither a JWT nor a refresh token of that session is accepted,
\* those that rotation replaced earlier included.
THEOREM LogoutIsFinal == Spec => []LogoutEndsSession
<1>1. HoldInv /\ OneByOne /\ LogoutInv => LogoutEndsSession
  <2> SUFFICES ASSUME HoldInv, EndedIsDead
               PROVE  EndedSessionsAreOver
    BY DEF LogoutInv, InOrder, LogoutEndsSession
  <2> QED
    BY DEF EndedIsDead, DeadJwt, DeadRefresh, EndedSessionsAreOver
<1> QED
  BY <1>1, AlwaysLogout, PTL
=============================================================================
