---------------------------- MODULE AccountsProofs ----------------------------
(***************************************************************************)
(* Accounts for any number of requests, users and tokens: the types, the   *)
(* bound on the accounts that overlapping set-ups make, whom a token       *)
(* stands for, and by whom a password is changed.                          *)
(***************************************************************************)
EXTENDS Accounts, FiniteSetTheorems, TLAPS

-----------------------------------------------------------------------------
(* The inductive invariant *)

\* The column email is UNIQUE.
EmailsUnique ==
  \A u, v \in DOMAIN user : user[u].email = user[v].email => u = v

\* Claims find the user they were made for, until that user gives the email up.
Finds(t) == t.email \notin given => NamedBy(t.email) = {t.user_id}

\* The requests that hold claims, from before the token is stored to the end of an
\* update.
Claiming == {r \in InFlight : req[r].pc \in {"issue", "current", "update"}}

ClaimsFindUsers ==
  /\ \A t \in tokens : Finds(t)
  /\ \A r \in Claiming : Finds(req[r].claims)

\* A row of user is never removed.
UpdatesFindRow == \A r \in InFlight : At(r, "update") => req[r].current_user \in DOMAIN user

\* A request that has been let past the check of the current password knew that of
\* the account it is about to change.
CheckedKnew ==
  \A r \in Changing : At(r, "update") => req[r].current_user \in knew[r]

AccountsInv ==
  /\ TypeOK /\ EmailsUnique /\ ClaimsFindUsers /\ UpdatesFindRow /\ CheckedKnew
  /\ ActsForItself /\ UsersBounded

-----------------------------------------------------------------------------
(* What the steps do to the requests *)

\* What a request holds in each of its states.
LEMMA Locals ==
  ASSUME TypeOK, NEW r \in InFlight
  PROVE  /\ req[r].pc \in {"insert", "issue", "current", "update"}
         /\ req[r].pc = "insert" => req[r].email \in Emails /\ req[r].password \in Passwords
         /\ req[r].pc \in {"issue", "current", "update"} => req[r].claims \in Claims
         /\ req[r].pc \in {"current", "update"} =>
              /\ req[r].email \in Emails
              /\ req[r].current_password \in Passwords \cup {None}
              /\ req[r].new_password \in Passwords \cup {None}
         /\ req[r].pc = "update" => req[r].current_user \in UserIds
BY DEF TypeOK, Local

LEMMA Returns ==
  ASSUME NEW r, Return(r)
  PROVE  InFlight' = InFlight \ {r} /\ \A q \in InFlight' : req'[q] = req[q]
BY DEF Return, InFlight

LEMMA Enters ==
  ASSUME NEW r, NEW q, Enter(r, q)
  PROVE  /\ r \notin InFlight /\ InFlight' = InFlight \cup {r} /\ req'[r] = q
         /\ \A p \in InFlight : req'[p] = req[p]
BY DEF Enter, InFlight

LEMMA Moves ==
  ASSUME NEW r \in InFlight, NEW q, req' = [req EXCEPT ![r] = q]
  PROVE  /\ InFlight' = InFlight /\ req'[r] = q
         /\ \A p \in InFlight \ {r} : req'[p] = req[p]
BY DEF InFlight

-----------------------------------------------------------------------------
(* Types *)

ReqTyped == InFlight \subseteq Requests /\ \A r \in InFlight : req[r] \in Local

\* The types without the history of what requests knew.
Typed ==
  /\ nextUser \in 1 .. MaxUsers + 1
  /\ DOMAIN user = 1 .. nextUser - 1
  /\ user \in [DOMAIN user -> [email : Emails, password : Passwords]]
  /\ tokens \subseteq Claims
  /\ ReqTyped
  /\ given \subseteq Emails

\* A step of one request leaves the requests well typed.
LEMMA ReqTypedNext ==
  ASSUME ReqTyped, NEW r \in Requests
  PROVE  /\ Return(r) => ReqTyped'
         /\ \A q \in Local : Enter(r, q) => ReqTyped'
         /\ \A q \in Local : r \in InFlight /\ req' = [req EXCEPT ![r] = q] => ReqTyped'
<1>1. Return(r) => ReqTyped'
  BY Returns DEF ReqTyped
<1>2. ASSUME NEW q \in Local, Enter(r, q) PROVE ReqTyped'
  BY <1>2, Enters DEF ReqTyped
<1>3. ASSUME NEW q \in Local, r \in InFlight, req' = [req EXCEPT ![r] = q]
      PROVE  ReqTyped'
  <2>1. InFlight' = InFlight /\ req'[r] = q /\ \A p \in InFlight \ {r} : req'[p] = req[p]
    BY <1>3, Moves
  <2> QED
    BY <1>3, <2>1 DEF ReqTyped
<1> QED
  BY <1>1, <1>2, <1>3

LEMMA TypeInit == Init => TypeOK
BY BoundsAssumption DEF Init, TypeOK, InFlight, UserIds, Changing

LEMMA Rows ==
  ASSUME TypeOK, NEW u \in DOMAIN user
  PROVE  u \in UserIds /\ user[u].email \in Emails /\ user[u].password \in Passwords
<1>1. u \in UserIds
  BY BoundsAssumption DEF TypeOK, UserIds
<1> QED
  BY <1>1 DEF TypeOK

LEMMA TypeInsertUser ==
  ASSUME TypeOK, NEW r \in Requests, InsertUser(r)
  PROVE  Typed'
<1>1. ReqTyped /\ r \in InFlight /\ req[r].email \in Emails /\ req[r].password \in Passwords
  BY Locals DEF InsertUser, At, TypeOK, ReqTyped
<1>2. CASE NamedBy(req[r].email) = {}
  <2>1. /\ nextUser \in UserIds /\ nextUser' = nextUser + 1
        /\ user' = [u \in DOMAIN user \cup {nextUser} |->
             IF u # nextUser THEN user[u]
             ELSE [email |-> req[r].email, password |-> req[r].password]]
        /\ UNCHANGED <<tokens, given>>
    BY <1>2 DEF InsertUser
  <2>2. nextUser' \in 1 .. MaxUsers + 1 /\ DOMAIN user' = 1 .. nextUser' - 1
    BY <2>1, BoundsAssumption DEF TypeOK, UserIds
  <2>3. user' \in [DOMAIN user' -> [email : Emails, password : Passwords]]
    BY <1>1, <2>1 DEF TypeOK
  <2>4. [pc |-> "issue", claims |-> [user_id |-> nextUser, email |-> req[r].email]] \in Local
    BY <1>1, <2>1 DEF Local, Claims
  <2>5. ReqTyped'
    BY <1>1, <1>2, <2>4, ReqTypedNext DEF InsertUser
  <2> QED
    BY <2>1, <2>2, <2>3, <2>5 DEF TypeOK, Typed
<1>3. CASE NamedBy(req[r].email) # {}
  <2>1. ReqTyped'
    BY <1>1, <1>3, ReqTypedNext DEF InsertUser
  <2> QED
    BY <1>3, <2>1 DEF InsertUser, TypeOK, Typed
<1> QED
  BY <1>2, <1>3

LEMMA TypeUpdateUser ==
  ASSUME TypeOK, UpdatesFindRow, NEW r \in Requests, UpdateUser(r)
  PROVE  Typed'
<1>1. /\ ReqTyped /\ r \in InFlight /\ req[r].email \in Emails
      /\ req[r].new_password \in Passwords \cup {None}
      /\ req[r].current_user \in DOMAIN user
  BY Locals DEF UpdateUser, At, TypeOK, ReqTyped, UpdatesFindRow
<1>2. ReqTyped'
  BY <1>1, ReqTypedNext DEF UpdateUser
<1>3. /\ user' \in [DOMAIN user' -> [email : Emails, password : Passwords]]
      /\ DOMAIN user' = DOMAIN user
  <2>1. UNCHANGED user \/ user' = [user EXCEPT ![req[r].current_user] =
                                     Updated(user[req[r].current_user], req[r])]
    BY DEF UpdateUser
  <2>2. user \in [DOMAIN user -> [email : Emails, password : Passwords]]
    BY DEF TypeOK
  <2>3. Updated(user[req[r].current_user], req[r]) \in [email : Emails, password : Passwords]
    BY <1>1, <2>2 DEF Updated
  <2> QED
    BY <2>1, <2>2, <2>3
<1>4. given' \subseteq Emails
  BY <1>1 DEF UpdateUser, TypeOK
<1> QED
  BY <1>2, <1>3, <1>4 DEF UpdateUser, TypeOK, Typed

\* The steps that touch neither the table nor the emails given up.
LEMMA TypeRequest ==
  ASSUME TypeOK, ReqTyped', tokens' \subseteq Claims, UNCHANGED <<user, nextUser, given>>
  PROVE  Typed'
BY DEF TypeOK, Typed

\* Every step but a stutter takes up what its requests knew.
LEMMA Remembers ==
  ASSUME [Next]_vars
  PROVE  Remember \/ UNCHANGED vars
BY DEF Next, Account, Profile, CheckSetup, InsertUser, Login, Refresh, Issue, Expire,
       PutProfile, ReadCurrent, UpdateUser, Abort

LEMMA KnewTyped ==
  ASSUME TypeOK, [Next]_vars, Typed'
  PROVE  knew' \in [Changing' -> SUBSET UserIds]
<1>1. DOMAIN user' \subseteq UserIds
  BY BoundsAssumption DEF Typed, UserIds
<1>2. CASE Remember
  BY <1>1, <1>2 DEF Remember, TypeOK
<1>3. CASE UNCHANGED vars
  BY <1>3 DEF vars, TypeOK, Changing, InFlight
<1> QED
  BY <1>2, <1>3, Remembers

LEMMA TypeNext == TypeOK /\ UpdatesFindRow /\ [Next]_vars => TypeOK'
<1> SUFFICES ASSUME TypeOK, UpdatesFindRow, [Next]_vars PROVE TypeOK'
  OBVIOUS
<1>1. ReqTyped /\ tokens \subseteq Claims
  BY DEF ReqTyped, TypeOK
<1>2. ASSUME NEW r \in Requests, NEW e \in Emails, NEW p \in Passwords,
             CheckSetup(r, e, p)
      PROVE  Typed'
  <2>1. [pc |-> "insert", email |-> e, password |-> p] \in Local
    BY DEF Local
  <2> QED
    BY <1>1, <1>2, <2>1, ReqTypedNext, TypeRequest DEF CheckSetup
<1>3. ASSUME NEW r \in Requests, NEW e \in Emails, NEW p \in Passwords, Login(r, e, p)
      PROVE  Typed'
  <2>1. PICK u \in NamedBy(e) :
          Enter(r, [pc |-> "issue", claims |-> [user_id |-> u, email |-> e]])
    BY <1>3 DEF Login
  <2>2. u \in UserIds
    BY Rows DEF NamedBy
  <2>3. [pc |-> "issue", claims |-> [user_id |-> u, email |-> e]] \in Local
    BY <2>2 DEF Local, Claims
  <2> QED
    BY <1>1, <1>3, <2>1, <2>3, ReqTypedNext, TypeRequest DEF Login
<1>4. ASSUME NEW r \in Requests, NEW u \in UserIds, Refresh(r, u) PROVE Typed'
  <2>1. user[u].email \in Emails
    BY <1>4 DEF Refresh, TypeOK
  <2>2. [pc |-> "issue", claims |-> [user_id |-> u, email |-> user[u].email]] \in Local
    BY <2>1 DEF Local, Claims
  <2> QED
    BY <1>1, <1>4, <2>2, ReqTypedNext, TypeRequest DEF Refresh
<1>5. ASSUME NEW r \in Requests, Issue(r) PROVE Typed'
  <2>1. tokens' \subseteq Claims
    BY <1>1, <1>5, Locals DEF Issue, At
  <2> QED
    BY <1>1, <1>5, <2>1, ReqTypedNext, TypeRequest DEF Issue
<1>6. ASSUME NEW r \in Requests, NEW t \in tokens, NEW e \in Emails,
             NEW p \in Passwords \cup {None}, NEW n \in Passwords \cup {None},
             PutProfile(r, t, e, p, n)
      PROVE  Typed'
  <2>1. [pc |-> "current", claims |-> t, email |-> e,
         current_password |-> p, new_password |-> n] \in Local
    BY <1>1 DEF Local
  <2> QED
    BY <1>1, <1>6, <2>1, ReqTypedNext, TypeRequest DEF PutProfile
<1>7. ASSUME NEW r \in Requests, ReadCurrent(r) PROVE Typed'
  <2>1. CASE Return(r)
    BY <1>1, <1>7, <2>1, ReqTypedNext, TypeRequest DEF ReadCurrent
  <2>2. CASE ~Return(r)
    <3>1. PICK u \in NamedBy(req[r].claims.email) :
            req' = [req EXCEPT ![r] =
              [pc |-> "update", claims |-> req[r].claims, email |-> req[r].email,
               current_user |-> u, password |-> user[u].password,
               current_password |-> req[r].current_password,
               new_password |-> req[r].new_password]]
      BY <1>7, <2>2 DEF ReadCurrent, FindCurrent
    <3>2. /\ r \in InFlight /\ req[r].claims \in Claims /\ req[r].email \in Emails
          /\ req[r].current_password \in Passwords \cup {None}
          /\ req[r].new_password \in Passwords \cup {None}
      BY <1>7, Locals DEF ReadCurrent, At
    <3>3. u \in UserIds /\ user[u].password \in Passwords
      BY Rows DEF NamedBy
    <3>4. [pc |-> "update", claims |-> req[r].claims, email |-> req[r].email,
           current_user |-> u, password |-> user[u].password,
           current_password |-> req[r].current_password,
           new_password |-> req[r].new_password] \in Local
      BY <3>2, <3>3 DEF Local
    <3> QED
      BY <1>1, <1>7, <3>1, <3>2, <3>4, ReqTypedNext, TypeRequest DEF ReadCurrent
  <2> QED
    BY <2>1, <2>2
<1>8. ASSUME NEW r \in Requests, Abort(r) PROVE Typed'
  BY <1>1, <1>8, ReqTypedNext, TypeRequest DEF Abort
<1>9. ASSUME NEW t \in tokens, Expire(t) PROVE Typed'
  <2>1. ReqTyped'
    BY <1>1, <1>9 DEF Expire, ReqTyped, InFlight
  <2> QED
    BY <1>1, <1>9, <2>1, TypeRequest DEF Expire
<1>10. ASSUME UNCHANGED vars PROVE Typed'
  <2>1. ReqTyped'
    BY <1>1, <1>10 DEF vars, ReqTyped, InFlight
  <2> QED
    BY <1>1, <1>10, <2>1, TypeRequest DEF vars
<1>11. ASSUME NEW r \in Requests, Account(r) PROVE Typed'
  BY <1>2, <1>3, <1>4, <1>5, <1>11, TypeInsertUser DEF Account
<1>12. ASSUME NEW r \in Requests, Profile(r) PROVE Typed'
  BY <1>6, <1>7, <1>12, TypeUpdateUser DEF Profile
<1>13. Typed'
  BY <1>8, <1>9, <1>10, <1>11, <1>12 DEF Next
<1> QED
  BY <1>13, KnewTyped DEF Typed, ReqTyped, TypeOK

-----------------------------------------------------------------------------
(* What the steps do to the table *)

\* The INSERT that succeeds.
InsertsUser(r) ==
  /\ At(r, "insert") /\ NamedBy(req[r].email) = {} /\ nextUser \notin DOMAIN user
  /\ DOMAIN user' = DOMAIN user \cup {nextUser} /\ nextUser' = nextUser + 1
  /\ \A u \in DOMAIN user : user'[u] = user[u]
  /\ user'[nextUser].email = req[r].email
  /\ InFlight' = InFlight /\ req'[r].pc = "issue"
  /\ req'[r].claims = [user_id |-> nextUser, email |-> req[r].email]
  /\ \A q \in InFlight \ {r} : req'[q] = req[q]
  /\ UNCHANGED <<tokens, given>>

LEMMA InsertUserCases ==
  ASSUME TypeOK, NEW r \in Requests, InsertUser(r)
  PROVE  \/ InsertsUser(r)
         \/ Return(r) /\ UNCHANGED <<user, nextUser, tokens, given>>
<1>1. CASE NamedBy(req[r].email) = {}
  <2>1. /\ r \in InFlight /\ nextUser \in Nat
        /\ DOMAIN user = 1 .. nextUser - 1
    BY DEF InsertUser, At, TypeOK
  <2>2. /\ DOMAIN user' = DOMAIN user \cup {nextUser}
        /\ \A u \in DOMAIN user : user'[u] = user[u]
        /\ user'[nextUser].email = req[r].email
        /\ nextUser \notin DOMAIN user /\ nextUser' = nextUser + 1
    BY <1>1, <2>1 DEF InsertUser
  <2> DEFINE q == [pc |-> "issue",
                   claims |-> [user_id |-> nextUser, email |-> req[r].email]]
  <2>3. req' = [req EXCEPT ![r] = q]
    BY <1>1 DEF InsertUser
  <2>4. q.pc = "issue" /\ q.claims = [user_id |-> nextUser, email |-> req[r].email]
    OBVIOUS
  <2> HIDE DEF q
  <2>5. /\ InFlight' = InFlight /\ req'[r] = q
        /\ \A p \in InFlight \ {r} : req'[p] = req[p]
    BY <2>1, <2>3, Moves
  <2> QED
    BY <1>1, <2>2, <2>4, <2>5 DEF InsertUser, InsertsUser
<1>2. CASE NamedBy(req[r].email) # {}
  BY <1>2 DEF InsertUser
<1> QED
  BY <1>1, <1>2

\* The UPDATE that succeeds.
UpdatesUser(r) ==
  /\ At(r, "update") /\ req[r].current_user \in DOMAIN user
  /\ NamedBy(req[r].email) \subseteq {req[r].current_user}
  /\ DOMAIN user' = DOMAIN user
  /\ \A u \in DOMAIN user \ {req[r].current_user} : user'[u] = user[u]
  /\ user'[req[r].current_user].email = req[r].email
  /\ user'[req[r].current_user].password =
       IF req[r].new_password = None THEN user[req[r].current_user].password
       ELSE req[r].new_password
  /\ given' = given \cup ({user[req[r].current_user].email} \ {req[r].email})
  /\ Return(r)
  /\ UNCHANGED <<nextUser, tokens>>

LEMMA UpdateUserCases ==
  ASSUME TypeOK, UpdatesFindRow, NEW r \in Requests, UpdateUser(r)
  PROVE  \/ UpdatesUser(r)
         \/ Return(r) /\ UNCHANGED <<user, nextUser, tokens, given>>
<1>1. r \in InFlight /\ req[r].current_user \in DOMAIN user
  BY DEF UpdateUser, At, UpdatesFindRow
<1>2. CASE NamedBy(req[r].email) \subseteq {req[r].current_user}
  <2>1. /\ user' = [user EXCEPT ![req[r].current_user] = Updated(@, req[r])]
        /\ given' = given \cup ({user[req[r].current_user].email} \ {req[r].email})
    BY <1>2 DEF UpdateUser
  <2>2. user'[req[r].current_user] = Updated(user[req[r].current_user], req[r])
    BY <1>1, <2>1
  <2>3. /\ user'[req[r].current_user].email = req[r].email
        /\ user'[req[r].current_user].password =
             IF req[r].new_password = None THEN user[req[r].current_user].password
             ELSE req[r].new_password
    BY <2>2 DEF Updated
  <2>4. /\ DOMAIN user' = DOMAIN user
        /\ \A u \in DOMAIN user \ {req[r].current_user} : user'[u] = user[u]
    BY <2>1
  <2> QED
    BY <1>1, <1>2, <2>1, <2>3, <2>4 DEF UpdateUser, UpdatesUser
<1>3. CASE ~(NamedBy(req[r].email) \subseteq {req[r].current_user})
  BY <1>3 DEF UpdateUser
<1> QED
  BY <1>2, <1>3

\* Only these two statements write to the table.
LEMMA TableSteps ==
  ASSUME TypeOK, UpdatesFindRow, [Next]_vars
  PROVE  \/ \E r \in Requests : InsertsUser(r)
         \/ \E r \in Requests : UpdatesUser(r)
         \/ UNCHANGED <<user, nextUser, given>>
BY InsertUserCases, UpdateUserCases
   DEF Next, Account, Profile, CheckSetup, Login, Refresh, Issue, Expire, PutProfile,
       ReadCurrent, Abort, vars

\* Emails stay unique, no row goes away, and no email given up is forgotten.
LEMMA TableNext ==
  ASSUME TypeOK, UpdatesFindRow, EmailsUnique, [Next]_vars
  PROVE  EmailsUnique' /\ DOMAIN user \subseteq DOMAIN user' /\ given \subseteq given'
<1>1. ASSUME NEW r \in Requests, InsertsUser(r)
      PROVE  EmailsUnique' /\ DOMAIN user \subseteq DOMAIN user' /\ given \subseteq given'
  BY <1>1 DEF InsertsUser, EmailsUnique, NamedBy
<1>2. ASSUME NEW r \in Requests, UpdatesUser(r)
      PROVE  EmailsUnique' /\ DOMAIN user \subseteq DOMAIN user' /\ given \subseteq given'
  BY <1>2 DEF UpdatesUser, EmailsUnique, NamedBy
<1>3. CASE UNCHANGED <<user, nextUser, given>>
  BY <1>3 DEF EmailsUnique
<1> QED
  BY <1>1, <1>2, <1>3, TableSteps

\* Claims that find their user go on to find it.
LEMMA FindsStays ==
  ASSUME TypeOK, UpdatesFindRow, EmailsUnique, [Next]_vars, NEW t, Finds(t)
  PROVE  Finds(t)'
<1> SUFFICES ASSUME t.email \notin given' PROVE NamedBy(t.email)' = {t.user_id}
  BY DEF Finds
<1> PICK e, v : e = t.email /\ v = t.user_id
  OBVIOUS
<1>1. NamedBy(e) = {v} /\ e \notin given'
  BY TableNext DEF Finds
<1>2. ASSUME NEW r \in Requests, InsertsUser(r) PROVE NamedBy(e)' = {v}
  <2>1. req[r].email # e
    BY <1>1, <1>2 DEF InsertsUser
  <2> QED
    BY <1>1, <1>2, <2>1 DEF InsertsUser, NamedBy
<1>3. ASSUME NEW r \in Requests, UpdatesUser(r) PROVE NamedBy(e)' = {v}
  <2>1. CASE req[r].email = e
    <3>1. req[r].current_user = v
      BY <1>1, <1>3, <2>1 DEF UpdatesUser
    <3> QED
      BY <1>1, <1>3, <2>1, <3>1 DEF UpdatesUser, NamedBy
  <2>2. CASE req[r].email # e
    <3>1. user[req[r].current_user].email # e
      BY <1>1, <1>3, <2>2 DEF UpdatesUser
    <3> QED
      BY <1>1, <1>3, <2>2, <3>1 DEF UpdatesUser, NamedBy
  <2> QED
    BY <2>1, <2>2
<1>4. CASE UNCHANGED <<user, nextUser, given>>
  BY <1>1, <1>4 DEF NamedBy
<1> QED
  BY <1>2, <1>3, <1>4, TableSteps

-----------------------------------------------------------------------------
(* Whom a token stands for *)

\* Where a request can be after a step: where it was, at the INSERT of a set-up
\* that found no user, with claims fresh from the table, with those of a token, or
\* past the read of its profile.
SetsUp(r) == req'[r].pc = "insert" /\ DOMAIN user = {} /\ UNCHANGED user
HasFresh(r) == req'[r].pc = "issue" /\ \E t : t = req'[r].claims /\ Finds(t)'
HasToken(r) == req'[r].pc = "current" /\ req'[r].claims \in tokens
HasRead(r) ==
  /\ r \in Claiming /\ req'[r].pc = "update" /\ req'[r].claims = req[r].claims
  /\ req'[r].current_user \in NamedBy(req[r].claims.email)
  /\ req'[r].new_password # None =>
       req'[r].current_password = user[req'[r].current_user].password
  /\ UNCHANGED user

RequestGoesOn(r) ==
  \/ r \in InFlight /\ req'[r] = req[r]
  \/ SetsUp(r) \/ HasFresh(r) \/ HasToken(r) \/ HasRead(r)

\* The claims of a user as it is in the table find it.
LEMMA FreshFinds ==
  ASSUME EmailsUnique, NEW u \in DOMAIN user, NEW t,
         t.user_id = u, t.email = user[u].email
  PROVE  Finds(t)
BY DEF EmailsUnique, Finds, NamedBy

LEMMA RequestsGoOn ==
  ASSUME TypeOK, UpdatesFindRow, EmailsUnique, [Next]_vars
  PROVE  /\ \A r \in InFlight' : RequestGoesOn(r)
         /\ \A t \in tokens' : t \in tokens \/ \E r \in Claiming : t = req[r].claims
<1> DEFINE Goal == /\ \A r \in InFlight' : RequestGoesOn(r)
                   /\ \A t \in tokens' : t \in tokens \/ \E r \in Claiming : t = req[r].claims
<1>1. ASSUME NEW r, Return(r), UNCHANGED tokens PROVE Goal
  BY <1>1, Returns DEF RequestGoesOn
<1>2. ASSUME NEW r \in Requests, InsertUser(r) PROVE Goal
  <2>1. CASE InsertsUser(r)
    <3>1. PICK t : t = [user_id |-> nextUser, email |-> req[r].email]
      OBVIOUS
    <3>2. NamedBy(t.email)' = {nextUser}
      BY <2>1, <3>1 DEF InsertsUser, NamedBy
    <3>3. HasFresh(r)
      BY <2>1, <3>1, <3>2 DEF InsertsUser, HasFresh, Finds
    <3> QED
      BY <2>1, <3>3 DEF InsertsUser, RequestGoesOn
  <2> QED
    BY <1>1, <1>2, <2>1, InsertUserCases
<1>3. ASSUME NEW r \in Requests, NEW e \in Emails, NEW p \in Passwords,
             CheckSetup(r, e, p)
      PROVE  Goal
  BY <1>3, Enters DEF CheckSetup, RequestGoesOn, SetsUp
<1>4. ASSUME NEW r \in Requests, NEW u \in DOMAIN user, NEW e, e = user[u].email,
             Enter(r, [pc |-> "issue", claims |-> [user_id |-> u, email |-> e]]),
             UNCHANGED <<user, tokens, given>>
      PROVE  Goal
  <2>1. PICK t : t = [user_id |-> u, email |-> e]
    OBVIOUS
  <2>2. Finds(t)
    BY <1>4, <2>1, FreshFinds
  <2>3. Finds(t)'
    BY <1>4, <2>2 DEF Finds, NamedBy
  <2>4. /\ InFlight' = InFlight \cup {r} /\ req'[r] = [pc |-> "issue", claims |-> t]
        /\ \A q \in InFlight : req'[q] = req[q]
    BY <1>4, <2>1, Enters
  <2>5. HasFresh(r)
    BY <2>3, <2>4 DEF HasFresh
  <2> QED
    BY <1>4, <2>4, <2>5 DEF RequestGoesOn
<1>5. ASSUME NEW r \in Requests, NEW e \in Emails, NEW p \in Passwords, Login(r, e, p)
      PROVE  Goal
  <2>1. PICK u \in DOMAIN user :
          /\ e = user[u].email
          /\ Enter(r, [pc |-> "issue", claims |-> [user_id |-> u, email |-> e]])
    BY <1>5 DEF Login, NamedBy
  <2> QED
    BY <1>4, <1>5, <2>1 DEF Login
<1>6. ASSUME NEW r \in Requests, NEW u \in UserIds, Refresh(r, u) PROVE Goal
  BY <1>4, <1>6 DEF Refresh
<1>7. ASSUME NEW r \in Requests, Issue(r) PROVE Goal
  <2>1. /\ \A q \in InFlight' : q \in InFlight /\ req'[q] = req[q]
        /\ r \in Claiming
    BY <1>7, Returns DEF Issue, At, Claiming
  <2> QED
    BY <1>7, <2>1 DEF Issue, RequestGoesOn
<1>8. ASSUME NEW r \in Requests, NEW t \in tokens, NEW e \in Emails,
             NEW p \in Passwords \cup {None}, NEW n \in Passwords \cup {None},
             PutProfile(r, t, e, p, n)
      PROVE  Goal
  <2>1. /\ InFlight' = InFlight \cup {r}
        /\ req'[r] = [pc |-> "current", claims |-> t, email |-> e,
                      current_password |-> p, new_password |-> n]
        /\ \A q \in InFlight : req'[q] = req[q]
    BY <1>8, Enters DEF PutProfile
  <2>2. HasToken(r)
    BY <2>1 DEF HasToken
  <2> QED
    BY <1>8, <2>1, <2>2 DEF PutProfile, RequestGoesOn
<1>9. ASSUME NEW r \in Requests, ReadCurrent(r), ~Return(r) PROVE Goal
  <2> DEFINE q(u) ==
        [pc |-> "update", claims |-> req[r].claims, email |-> req[r].email,
         current_user |-> u, password |-> user[u].password,
         current_password |-> req[r].current_password,
         new_password |-> req[r].new_password]
  <2>1. PICK u \in NamedBy(req[r].claims.email) :
          /\ req[r].new_password # None => req[r].current_password = user[u].password
          /\ req' = [req EXCEPT ![r] = q(u)]
    BY <1>9 DEF ReadCurrent, FindCurrent
  <2>2. r \in InFlight /\ r \in Claiming
    BY <1>9 DEF ReadCurrent, At, Claiming
  <2>3. /\ InFlight' = InFlight /\ \A p \in InFlight \ {r} : req'[p] = req[p]
        /\ req'[r] = q(u)
    BY <2>1, <2>2, Moves
  <2>4. HasRead(r)
    BY <1>9, <2>1, <2>2, <2>3 DEF HasRead, ReadCurrent
  <2> QED
    BY <1>9, <2>3, <2>4 DEF ReadCurrent, RequestGoesOn
<1>10. ASSUME NEW r \in Requests, UpdateUser(r) \/ Abort(r) \/ (ReadCurrent(r) /\ Return(r))
       PROVE  Goal
  BY <1>1, <1>10 DEF UpdateUser, Abort, ReadCurrent
<1>11. CASE UNCHANGED req /\ tokens' \subseteq tokens
  BY <1>11 DEF RequestGoesOn, InFlight
<1> QED
  BY <1>2, <1>3, <1>5, <1>6, <1>7, <1>8, <1>9, <1>10, <1>11
     DEF Next, Account, Profile, Expire, vars

LEMMA ClaimsNext ==
  ASSUME TypeOK, UpdatesFindRow, EmailsUnique, ClaimsFindUsers, [Next]_vars
  PROVE  ClaimsFindUsers'
<1>1. \A t : Finds(t) => Finds(t)'
  BY FindsStays
<1>2. ASSUME NEW t \in tokens' PROVE Finds(t)'
  BY <1>1, RequestsGoOn DEF ClaimsFindUsers
<1>3. ASSUME NEW r \in Claiming', NEW t, t = req'[r].claims PROVE Finds(t)'
  <2>1. /\ r \in InFlight' /\ req'[r].pc \in {"issue", "current", "update"}
        /\ RequestGoesOn(r)
    BY <1>3, RequestsGoOn DEF Claiming
  <2>2. \/ r \in Claiming /\ t = req[r].claims
        \/ t \in tokens
        \/ Finds(t)'
    BY <1>3, <2>1 DEF RequestGoesOn, SetsUp, HasFresh, HasToken, HasRead, Claiming
  <2> QED
    BY <1>1, <2>2 DEF ClaimsFindUsers
<1> QED
  BY <1>2, <1>3 DEF ClaimsFindUsers, Finds, NamedBy

LEMMA UpdatesNext ==
  ASSUME TypeOK, UpdatesFindRow, EmailsUnique, ClaimsFindUsers, ActsForItself, [Next]_vars
  PROVE  UpdatesFindRow' /\ ActsForItself'
<1>1. DOMAIN user \subseteq DOMAIN user' /\ given \subseteq given'
  BY TableNext
<1>2. ASSUME NEW r \in InFlight', req'[r].pc = "update"
      PROVE  /\ req'[r].current_user \in DOMAIN user'
             /\ req'[r].current_user # req'[r].claims.user_id
                  => req'[r].claims.email \in given'
  <2>1. RequestGoesOn(r)
    BY RequestsGoOn
  <2>2. CASE r \in InFlight /\ req'[r] = req[r]
    BY <1>1, <1>2, <2>2 DEF At, UpdatesFindRow, ActsForItself
  <2>3. CASE HasRead(r)
    <3>1. PICK u, t : /\ u = req'[r].current_user /\ t = req[r].claims
                      /\ u \in NamedBy(t.email) /\ t = req'[r].claims
      BY <2>3 DEF HasRead
    <3>2. Finds(t)
      BY <2>3, <3>1 DEF HasRead, ClaimsFindUsers
    <3> QED
      BY <1>1, <3>1, <3>2 DEF Finds, NamedBy
  <2> QED
    BY <1>2, <2>1, <2>2, <2>3 DEF RequestGoesOn, SetsUp, HasFresh, HasToken
<1> QED
  BY <1>2 DEF UpdatesFindRow, ActsForItself, At

\* A request past the check knew the password then, and is known to have known it.
LEMMA KnewNext ==
  ASSUME TypeOK, UpdatesFindRow, EmailsUnique, CheckedKnew, [Next]_vars
  PROVE  CheckedKnew'
<1> SUFFICES ASSUME NEW r \in Changing', req'[r].pc = "update"
             PROVE  req'[r].current_user \in knew'[r]
  BY DEF CheckedKnew, At
<1>1. CASE UNCHANGED vars
  BY <1>1 DEF vars, CheckedKnew, Changing, InFlight, At
<1>2. CASE Remember
  <2>1. /\ {u \in DOMAIN user' : user'[u].password = req'[r].current_password}
              \subseteq knew'[r]
        /\ r \in Changing => knew[r] \subseteq knew'[r]
    BY <1>2 DEF Remember
  <2>2. r \in InFlight' /\ req'[r].new_password # None /\ RequestGoesOn(r)
    BY RequestsGoOn DEF Changing
  <2>3. CASE r \in InFlight /\ req'[r] = req[r]
    BY <2>1, <2>2, <2>3 DEF CheckedKnew, Changing, At
  <2>4. CASE HasRead(r)
    BY <2>1, <2>2, <2>4 DEF HasRead, NamedBy
  <2> QED
    BY <2>2, <2>3, <2>4 DEF RequestGoesOn, SetsUp, HasFresh, HasToken
<1> QED
  BY <1>1, <1>2, Remembers

-----------------------------------------------------------------------------
(* How many accounts overlapping set-ups make *)

LEMMA SetupsFinite ==
  ASSUME TypeOK
  PROVE  /\ IsFiniteSet(SettingUp) /\ Cardinality(SettingUp) \in Nat
         /\ IsFiniteSet(DOMAIN user) /\ Cardinality(DOMAIN user) \in Nat
<1>1. IsFiniteSet(SettingUp)
  BY RequestsAssumption, FS_Subset DEF TypeOK, SettingUp
<1>2. IsFiniteSet(DOMAIN user)
  <2>1. nextUser - 1 \in Int /\ DOMAIN user = 1 .. nextUser - 1
    BY BoundsAssumption DEF TypeOK
  <2> QED
    BY <2>1, FS_Interval
<1> QED
  BY <1>1, <1>2, FS_CardinalityType

\* A request that enters at the INSERT was told that there is no user; one that
\* leaves it makes at most one.
LEMMA UsersNext ==
  ASSUME TypeOK, TypeOK', UpdatesFindRow, EmailsUnique, UsersBounded, [Next]_vars
  PROVE  UsersBounded'
<1>1. /\ IsFiniteSet(SettingUp) /\ Cardinality(SettingUp) \in Nat
      /\ IsFiniteSet(DOMAIN user) /\ Cardinality(DOMAIN user) \in Nat
  BY SetupsFinite
<1>2. ASSUME SettingUp' \subseteq SettingUp, DOMAIN user' = DOMAIN user
      PROVE  UsersBounded'
  <2>1. /\ Cardinality(SettingUp') \in Nat
        /\ Cardinality(SettingUp') <= Cardinality(SettingUp)
    BY <1>1, <1>2, FS_Subset, FS_CardinalityType
  <2>2. Cardinality(DOMAIN user') + Cardinality(SettingUp')
          <= Cardinality(DOMAIN user) + Cardinality(SettingUp)
    BY <1>1, <1>2, <2>1
  <2>3. Cardinality(Requests) \in Nat
    BY RequestsAssumption, FS_CardinalityType
  <2> QED
    BY <1>1, <1>2, <2>1, <2>2, <2>3 DEF UsersBounded
<1>3. CASE DOMAIN user = {} /\ UNCHANGED user
  <2>1. DOMAIN user' = {} /\ Cardinality(DOMAIN user') = 0
    BY <1>3, FS_EmptySet
  <2>2. SettingUp' \subseteq Requests
    BY DEF TypeOK, SettingUp
  <2>3. Cardinality(SettingUp') \in Nat /\ Cardinality(SettingUp') <= Cardinality(Requests)
    BY <2>2, RequestsAssumption, FS_Subset, FS_CardinalityType
  <2>4. Cardinality(Requests) \in Nat
    BY RequestsAssumption, FS_CardinalityType
  <2> QED
    BY <2>1, <2>3, <2>4 DEF UsersBounded
<1>4. ASSUME NEW r \in Requests, InsertsUser(r) PROVE UsersBounded'
  <2>1. /\ DOMAIN user' = DOMAIN user \cup {nextUser} /\ nextUser \notin DOMAIN user
        /\ r \in SettingUp /\ SettingUp' = SettingUp \ {r}
    BY <1>4 DEF InsertsUser, At, SettingUp
  <2>2. Cardinality(DOMAIN user \cup {nextUser}) = Cardinality(DOMAIN user) + 1
    BY <1>1, <2>1, FS_AddElement
  <2>3. Cardinality(SettingUp \ {r}) = Cardinality(SettingUp) - 1
    BY <1>1, <2>1, FS_RemoveElement
  <2>4. /\ Cardinality(DOMAIN user') = Cardinality(DOMAIN user) + 1
        /\ Cardinality(SettingUp') = Cardinality(SettingUp) - 1
    BY <2>1, <2>2, <2>3, Zenon
  <2> QED
    BY <1>1, <2>4 DEF UsersBounded
<1>5. ASSUME NEW r \in Requests, UpdatesUser(r) PROVE UsersBounded'
  <2>1. SettingUp' \subseteq SettingUp
    BY <1>5, Returns DEF UpdatesUser, SettingUp
  <2> QED
    BY <1>2, <1>5, <2>1 DEF UpdatesUser
<1>6. CASE UNCHANGED user /\ DOMAIN user # {}
  <2>1. SettingUp' \subseteq SettingUp
    BY <1>6, RequestsGoOn DEF SettingUp, RequestGoesOn, SetsUp, HasFresh, HasToken, HasRead
  <2> QED
    BY <1>2, <1>6, <2>1
<1> QED
  BY <1>3, <1>4, <1>5, <1>6, TableSteps

-----------------------------------------------------------------------------
(* The theorems *)

LEMMA AccountsInit == Init => AccountsInv
<1> SUFFICES ASSUME Init PROVE AccountsInv
  OBVIOUS
<1>1. DOMAIN user = {} /\ tokens = {} /\ InFlight = {} /\ SettingUp = {} /\ Claiming = {}
  BY DEF Init, InFlight, SettingUp, Claiming
<1>2. UsersBounded
  <2>1. Cardinality(DOMAIN user) = 0 /\ Cardinality(SettingUp) = 0
    BY <1>1, FS_EmptySet
  <2>2. Cardinality(Requests) \in Nat
    BY RequestsAssumption, FS_CardinalityType
  <2> QED
    BY <2>1, <2>2 DEF UsersBounded
<1> QED
  BY <1>1, <1>2, TypeInit
     DEF AccountsInv, EmailsUnique, ClaimsFindUsers, UpdatesFindRow, CheckedKnew,
         ActsForItself, Changing

LEMMA AccountsNext == AccountsInv /\ [Next]_vars => AccountsInv'
<1> SUFFICES ASSUME AccountsInv, [Next]_vars PROVE AccountsInv'
  OBVIOUS
<1>1. TypeOK'
  BY TypeNext DEF AccountsInv
<1> QED
  BY <1>1, TableNext, ClaimsNext, UpdatesNext, KnewNext, UsersNext DEF AccountsInv

LEMMA AccountsInvariant == Spec => []AccountsInv
BY AccountsInit, AccountsNext, PTL DEF Spec

\* Every row, token and request is well typed, and ids are given out in order.
THEOREM TypeCorrect == Spec => []TypeOK
BY AccountsInvariant, PTL DEF AccountsInv

\* However many set-ups overlap, they make no more accounts than there were
\* requests past user_exists at one time.
THEOREM AccountsAreBounded == Spec => []UsersBounded
BY AccountsInvariant, PTL DEF AccountsInv

\* The email in a token finds the account it was issued for, and no other, as long
\* as no account has given that email up.
THEOREM TokensFindTheirUser == Spec => []TokenFindsItsUser
<1>1. AccountsInv => TokenFindsItsUser
  BY DEF AccountsInv, ClaimsFindUsers, Finds, TokenFindsItsUser
<1> QED
  BY <1>1, AccountsInvariant, PTL

\* update_user changes the account its token was issued for, or one that took the
\* email after that account gave it up.
THEOREM UpdatesActForThemselves == Spec => []ActsForItself
BY AccountsInvariant, PTL DEF AccountsInv

\* A password changes only to one that a request under way asked for: no edit of
\* the profile brings an old one back.
THEOREM PasswordsPersist == Spec => PasswordChangesPersist
<1>1. ASSUME AccountsInv, [Next]_vars, NEW u \in DOMAIN user,
             user'[u].password # user[u].password
      PROVE  \E r \in InFlight :
               /\ At(r, "update") /\ r \notin DOMAIN req'
               /\ req[r].current_user = u
               /\ req[r].new_password = user'[u].password
  <2>1. ASSUME NEW r \in Requests, UpdatesUser(r)
        PROVE  /\ r \in InFlight /\ At(r, "update") /\ r \notin DOMAIN req'
               /\ req[r].current_user = u
               /\ req[r].new_password = user'[u].password
    <3>1. req[r].current_user = u
      BY <1>1, <2>1 DEF UpdatesUser
    <3>2. r \notin DOMAIN req'
      BY <2>1, Returns DEF UpdatesUser, InFlight
    <3> QED
      BY <1>1, <2>1, <3>1, <3>2 DEF UpdatesUser, At
  <2>2. \E r \in Requests : UpdatesUser(r)
    BY <1>1, TableSteps DEF AccountsInv, InsertsUser
  <2> QED
    BY <2>1, <2>2
<1>2. AccountsInv /\ [Next]_vars =>
        [\A u \in DOMAIN user : user'[u].password # user[u].password =>
           \E r \in InFlight :
             /\ At(r, "update") /\ r \notin DOMAIN req'
             /\ req[r].current_user = u
             /\ req[r].new_password = user'[u].password]_vars
  BY <1>1
<1> QED
  BY <1>2, AccountsInvariant, PTL DEF Spec, PasswordChangesPersist

\* Whoever changes the password of an account has sent one that this account had at
\* some moment since the request began.
THEOREM ChangersKnew == Spec => ChangedByOneWhoKnew
<1>1. ASSUME AccountsInv, [Next]_vars, NEW u \in DOMAIN user,
             user'[u].password # user[u].password
      PROVE  \E r \in Changing :
               At(r, "update") /\ r \notin DOMAIN req' /\ u \in knew[r]
  <2>1. ASSUME NEW r \in Requests, UpdatesUser(r)
        PROVE  /\ r \in Changing /\ At(r, "update") /\ r \notin DOMAIN req'
               /\ u \in knew[r]
    <3>1. req[r].current_user = u /\ At(r, "update") /\ req[r].new_password # None
      BY <1>1, <2>1 DEF UpdatesUser
    <3>2. r \notin DOMAIN req'
      BY <2>1, Returns DEF UpdatesUser, InFlight
    <3> QED
      BY <1>1, <3>1, <3>2 DEF AccountsInv, CheckedKnew, Changing, At
  <2>2. \E r \in Requests : UpdatesUser(r)
    BY <1>1, TableSteps DEF AccountsInv, InsertsUser
  <2> QED
    BY <2>1, <2>2
<1>2. AccountsInv /\ [Next]_vars =>
        [\A u \in DOMAIN user : user'[u].password # user[u].password =>
           \E r \in Changing :
             /\ At(r, "update") /\ r \notin DOMAIN req'
             /\ u \in knew[r]]_vars
  BY <1>1
<1> QED
  BY <1>2, AccountsInvariant, PTL DEF Spec, ChangedByOneWhoKnew
=============================================================================
