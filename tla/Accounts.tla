------------------------------- MODULE Accounts -------------------------------
(***************************************************************************)
(* The table user: setup_first_user, login, the refresh in the extractor,  *)
(* get_current_user and update_user of handlers/auth.rs, statement by      *)
(* statement, with the tokens that name a user by email.                   *)
(*                                                                         *)
(* A token is its claims; how tokens are stored, rotated and revoked is in *)
(* Session.  The rate limiter in front of setup_first_user and login, the  *)
(* connections and the columns name, address and tax_id are left out.      *)
(***************************************************************************)
EXTENDS Integers, FiniteSets

CONSTANTS
  Requests,   \* concurrent requests
  MaxUsers,   \* bound on the AUTOINCREMENT ids of user
  MaxTokens,  \* bound on the tokens that are good at a time
  Emails, Passwords,
  None

ASSUME BoundsAssumption == MaxUsers \in Nat /\ MaxTokens \in Nat
ASSUME RequestsAssumption == IsFiniteSet(Requests)
ASSUME NoneAssumption == None \notin Passwords

UserIds == 1 .. MaxUsers

VARIABLES
  user,      \* table user
  nextUser,  \* its AUTOINCREMENT counter
  tokens,    \* the JWTs that a client may send: their claims
  req,       \* the requests in flight, with their local variables
  given,     \* history: the emails that a user has given up
  knew       \* history: whose password a request that changes one has sent

vars == <<user, nextUser, tokens, req, given, knew>>

Init ==
  /\ user = [u \in {} |-> 0] /\ nextUser = 1
  /\ tokens = {}
  /\ req = [r \in {} |-> 0]
  /\ given = {}
  /\ knew = [r \in {} |-> {}]

InFlight == DOMAIN req
At(r, pc) == r \in InFlight /\ req[r].pc = pc
Return(r) == req' = [q \in InFlight \ {r} |-> req[q]]

Enter(r, q) ==
  /\ r \notin InFlight
  /\ req' = [p \in InFlight \cup {r} |-> IF p = r THEN q ELSE req[p]]

Claims == [user_id : UserIds, email : Emails]
NamedBy(email) == {u \in DOMAIN user : user[u].email = email}

\* The requests that change a password.  With every step the history takes up the
\* users that have, by then, the password such a request has sent as the current.
Changing ==
  {r \in InFlight : req[r].pc \in {"current", "update"} /\ req[r].new_password # None}

Remember ==
  knew' = [r \in Changing' |->
    {u \in DOMAIN user' : user'[u].password = req'[r].current_password}
      \cup IF r \in Changing THEN knew[r] ELSE {}]

-----------------------------------------------------------------------------
(* Setup *)

\* The answer of user_exists not looked at.
CheckSetup_Bug(r, email, password) ==
  /\ Enter(r, [pc |-> "insert", email |-> email, password |-> password])
  /\ UNCHANGED <<user, nextUser, tokens, given>> /\ Remember

\* user_exists; while bcrypt hashes the password other requests go on.
CheckSetup(r, email, password) ==
  /\ DOMAIN user = {}
  /\ Enter(r, [pc |-> "insert", email |-> email, password |-> password])
  /\ UNCHANGED <<user, nextUser, tokens, given>> /\ Remember

\* The INSERT, which only the unique email can refuse.  Two tokens are stored
\* next, each of which may fail: the user is there all the same.
InsertUser(r) ==
  LET q == req[r] IN
  /\ At(r, "insert")
  /\ IF NamedBy(q.email) = {}
       THEN /\ nextUser \in UserIds
            /\ user' = [u \in DOMAIN user \cup {nextUser} |->
                 IF u # nextUser THEN user[u]
                 ELSE [email |-> q.email, password |-> q.password]]
            /\ nextUser' = nextUser + 1
            /\ req' = [req EXCEPT ![r] =
                 [pc |-> "issue", claims |-> [user_id |-> nextUser, email |-> q.email]]]
       ELSE Return(r) /\ UNCHANGED <<user, nextUser>>
  /\ UNCHANGED <<tokens, given>> /\ Remember

-----------------------------------------------------------------------------
(* Tokens *)

\* get_user_by_email and the password in login.
Login(r, email, password) ==
  /\ \E u \in NamedBy(email) :
       /\ user[u].password = password
       /\ Enter(r, [pc |-> "issue", claims |-> [user_id |-> u, email |-> email]])
  /\ UNCHANGED <<user, nextUser, tokens, given>> /\ Remember

\* get_user_by_id in the extractor: a refresh token belongs to a user's id.
Refresh(r, u) ==
  /\ u \in DOMAIN user
  /\ Enter(r, [pc |-> "issue", claims |-> [user_id |-> u, email |-> user[u].email]])
  /\ UNCHANGED <<user, nextUser, tokens, given>> /\ Remember

\* generate_jwt and store_jwt: the claims are those read before.
Issue(r) ==
  /\ At(r, "issue")
  /\ tokens' = tokens \cup {req[r].claims} /\ Cardinality(tokens') =< MaxTokens
  /\ Return(r)
  /\ UNCHANGED <<user, nextUser, given>> /\ Remember

\* A token expires, or a logout revokes it.
Expire(token) ==
  /\ token \in tokens
  /\ tokens' = tokens \ {token}
  /\ UNCHANGED <<user, nextUser, req, given>> /\ Remember

-----------------------------------------------------------------------------
(* Profile *)

\* A PUT of the profile: the extractor lets the token in and keeps its email.
PutProfile(r, token, email, current, new) ==
  /\ token \in tokens
  /\ Enter(r, [pc |-> "current", claims |-> token, email |-> email,
               current_password |-> current, new_password |-> new])
  /\ UNCHANGED <<user, nextUser, tokens, given>> /\ Remember

\* The only user there is taken for the current one.
FindCurrent_Bug(email) == DOMAIN user

\* get_user_by_email; a GET of the profile is this statement alone.
FindCurrent(email) == NamedBy(email)

\* update_user reads the row of its token's email; a new password needs the
\* current one.
ReadCurrent(r) ==
  LET q == req[r] IN
  /\ At(r, "current")
  /\ \/ \E u \in FindCurrent(q.claims.email) :
          /\ q.new_password # None => q.current_password = user[u].password
          /\ req' = [req EXCEPT ![r] =
               [pc |-> "update", claims |-> q.claims, email |-> q.email,
                current_user |-> u, password |-> user[u].password,
                current_password |-> q.current_password, new_password |-> q.new_password]]
     \/ Return(r)
  /\ UNCHANGED <<user, nextUser, tokens, given>> /\ Remember

\* A password that was not sent written all the same.
Updated_NullBug(row, q) == [email |-> q.email, password |-> q.new_password]

\* The whole row written back.
Updated_Bug(row, q) ==
  [email |-> q.email,
   password |-> IF q.new_password = None THEN q.password ELSE q.new_password]

\* The UPDATE leaves the password alone when there is no new one.
Updated(row, q) ==
  [email |-> q.email,
   password |-> IF q.new_password = None THEN row.password ELSE q.new_password]

\* The email not UNIQUE.
UpdateUser_Bug(r) ==
  LET q == req[r] IN
  /\ At(r, "update")
  /\ user' = [user EXCEPT ![q.current_user] = Updated(@, q)]
  /\ given' = given \cup ({user[q.current_user].email} \ {q.email})
  /\ Return(r)
  /\ UNCHANGED <<nextUser, tokens>> /\ Remember

\* The UPDATE by the email of the token.
UpdateUser_EmailBug(r) ==
  LET q == req[r] IN
  /\ At(r, "update")
  /\ \E u \in NamedBy(q.claims.email) :
       /\ NamedBy(q.email) \subseteq {u}
       /\ user' = [user EXCEPT ![u] = Updated(@, q)]
       /\ given' = given \cup ({user[u].email} \ {q.email})
  /\ Return(r)
  /\ UNCHANGED <<nextUser, tokens>> /\ Remember

\* The UPDATE by id, which the unique email may refuse.
UpdateUser(r) ==
  LET q == req[r] IN
  /\ At(r, "update")
  /\ IF NamedBy(q.email) \subseteq {q.current_user}
       THEN /\ user' = [user EXCEPT ![q.current_user] = Updated(@, q)]
            /\ given' = given \cup ({user[q.current_user].email} \ {q.email})
       ELSE UNCHANGED <<user, given>>
  /\ Return(r)
  /\ UNCHANGED <<nextUser, tokens>> /\ Remember

\* A statement fails or the client hangs up.
Abort(r) ==
  /\ r \in InFlight
  /\ Return(r)
  /\ UNCHANGED <<user, nextUser, tokens, given>> /\ Remember

-----------------------------------------------------------------------------
Account(r) ==
  \/ \E e \in Emails, p \in Passwords : CheckSetup(r, e, p)
  \/ \E e \in Emails, p \in Passwords : Login(r, e, p)
  \/ InsertUser(r)
  \/ \E u \in UserIds : Refresh(r, u)
  \/ Issue(r)

\* Without a new password the current one is not looked at.
Profile(r) ==
  \/ \E t \in tokens, e \in Emails : PutProfile(r, t, e, None, None)
  \/ \E t \in tokens, e \in Emails, p \in Passwords \cup {None}, n \in Passwords :
       PutProfile(r, t, e, p, n)
  \/ ReadCurrent(r)
  \/ UpdateUser(r)

Next ==
  \/ \E r \in Requests : Account(r) \/ Profile(r) \/ Abort(r)
  \/ \E t \in tokens : Expire(t)

Spec == Init /\ [][Next]_vars

-----------------------------------------------------------------------------
(* Properties *)

Local ==
  [pc : {"insert"}, email : Emails, password : Passwords]
    \cup [pc : {"issue"}, claims : Claims]
    \cup [pc : {"current"}, claims : Claims, email : Emails,
          current_password : Passwords \cup {None}, new_password : Passwords \cup {None}]
    \cup [pc : {"update"}, claims : Claims, email : Emails, current_user : UserIds,
          password : Passwords, current_password : Passwords \cup {None},
          new_password : Passwords \cup {None}]

\* The types: a row of user always has a password that somebody chose, and the
\* ids are those that AUTOINCREMENT has given out.
TypeOK ==
  /\ nextUser \in 1 .. MaxUsers + 1
  /\ DOMAIN user = 1 .. nextUser - 1
  /\ user \in [DOMAIN user -> [email : Emails, password : Passwords]]
  /\ tokens \subseteq Claims
  /\ InFlight \subseteq Requests
  /\ \A r \in InFlight : req[r] \in Local
  /\ given \subseteq Emails
  /\ knew \in [Changing -> SUBSET UserIds]

SettingUp == {r \in InFlight : req[r].pc = "insert"}

\* However many set-ups overlap, there are never more accounts than requests
\* that were past user_exists at one time: once the last of them has done its
\* INSERT, setup_first_user makes no other account.
UsersBounded ==
  Cardinality(DOMAIN user) + Cardinality(SettingUp) =< Cardinality(Requests)

\* As long as no account has given the email up, the email in a token finds the
\* account the token was issued for, and no other.
TokenFindsItsUser ==
  \A t \in tokens : t.email \notin given => NamedBy(t.email) = {t.user_id}

\* update_user changes the account that the token was issued for, unless the
\* email in the token was given up: then another account may have taken it.
ActsForItself ==
  \A r \in InFlight :
    At(r, "update") /\ req[r].current_user # req[r].claims.user_id
      => req[r].claims.email \in given

\* A password changes only by the UPDATE of a request that asked for that very
\* password: an edit of the profile that read the row before another request
\* changed the password does not bring the old one back.
PasswordChangesPersist ==
  [][\A u \in DOMAIN user : user'[u].password # user[u].password =>
       \E r \in InFlight :
         /\ At(r, "update") /\ r \notin DOMAIN req'
         /\ req[r].current_user = u
         /\ req[r].new_password = user'[u].password]_vars

\* Whoever changes a password has sent the one that this very account had, if not
\* at the UPDATE then at some moment since the request began: neither another
\* change that overtakes it, nor an email that passes to another account between
\* the check and the UPDATE, makes an account take a password from somebody who
\* never knew its own.
ChangedByOneWhoKnew ==
  [][\A u \in DOMAIN user : user'[u].password # user[u].password =>
       \E r \in Changing :
         /\ At(r, "update") /\ r \notin DOMAIN req'
         /\ u \in knew[r]]_vars

\* handlers/auth.rs:267: "Setup first admin user - only works when no users
\* exist".
AtMostOneUser == Cardinality(DOMAIN user) =< 1
=============================================================================
