----------------------------- MODULE OfficeProofs -----------------------------
(***************************************************************************)
(* Office for any number of requests, rows and connections: the types with *)
(* the bound of the pool, the references between the tables, what the      *)
(* invoice page finds, and where the pool can come to a stop.  That every  *)
(* request ends is a matter of fairness, left to TLC.                      *)
(***************************************************************************)
EXTENDS Office, FiniteSetTheorems, TLAPS

-----------------------------------------------------------------------------
(* The inductive invariant *)

Fields == {"kind", "pc", "id", "row", "seconds", "found"}
IsRequest(q) == DOMAIN q = Fields

\* The body of a POST or a PUT of an invoice has been parsed.
BodiesFit ==
  \A r \in InFlight :
    req[r].kind \in {"create_invoice", "update_invoice"} => req[r].row \in InvoiceRow

\* Only a request with a second statement before it asks for a second connection.
SecondsFit ==
  \A r \in InFlight :
    /\ req[r].seconds <= Seconds(req[r].kind)
    /\ req[r].pc \in {"second?", "second"} => req[r].seconds > 0

\* The customer of the invoice that a page has read was there once; when it was
\* gone at the second statement it is gone for good.
PagesKnow ==
  \A r \in InFlight : req[r].pc \in {"customer", "done"} =>
    /\ req[r].row.customer_id \in drawn
    /\ req[r].pc = "done" /\ ~req[r].found => req[r].row.customer_id \notin customers

OfficeInv ==
  /\ TypeOK /\ ReferencesHold
  /\ \A r \in InFlight : IsRequest(req[r])
  /\ BodiesFit /\ SecondsFit /\ PagesKnow

-----------------------------------------------------------------------------
(* What a step does to a request *)

Same(r) ==
  /\ r \in InFlight /\ IsRequest(req'[r])
  /\ req'[r].kind = req[r].kind /\ req'[r].id = req[r].id

Starts(r) ==
  /\ IsRequest(req'[r])
  /\ req'[r].kind \in Kinds /\ req'[r].pc = "auth?"
  /\ req'[r].id \in CustomerIds \cup InvoiceIds \cup {None}
  /\ req'[r].kind \in {"create_invoice", "update_invoice"} => req'[r].row \in InvoiceRow
  /\ req'[r].seconds = Seconds(req'[r].kind)

\* From one state to another, with nothing else changed.
Proceeds(r) ==
  /\ Same(r) /\ req'[r].row = req[r].row
  /\ req'[r].seconds = req[r].seconds /\ req'[r].found = req[r].found
  /\ \/ req[r].pc = "auth" /\ req'[r].pc = "conn?"
     \/ req[r].pc = "conn" /\ req'[r].pc = "second?" /\ req[r].seconds > 0
     \/ req[r].pc = "conn" /\ req'[r].pc = "reread"

Grants(r) ==
  /\ Same(r) /\ req'[r].row = req[r].row
  /\ req'[r].seconds = req[r].seconds /\ req'[r].found = req[r].found
  /\ req[r].pc \in WaitingAt /\ req'[r].pc = Granted(req[r].pc)

FinishesSecond(r) ==
  /\ Same(r) /\ req'[r].row = req[r].row /\ req'[r].found = req[r].found
  /\ req[r].pc = "second" /\ req'[r].pc = "conn" /\ req'[r].seconds = req[r].seconds - 1

LoadsInvoice(r) ==
  /\ Same(r) /\ req'[r].seconds = req[r].seconds
  /\ req[r].kind = "view_invoice"
  /\ req[r].pc = "conn" /\ req'[r].pc = "customer"
  /\ req[r].id \in DOMAIN invoices /\ req'[r].row = invoices[req[r].id]

LooksForCustomer(r) ==
  /\ Same(r) /\ req'[r].row = req[r].row /\ req'[r].seconds = req[r].seconds
  /\ req[r].pc = "customer" /\ req'[r].pc = "done"
  /\ req'[r].found <=> req[r].row.customer_id \in customers

GoesOn(r) ==
  \/ r \in InFlight /\ req'[r] = req[r]
  \/ Starts(r) \/ Proceeds(r) \/ FinishesSecond(r)
  \/ LoadsInvoice(r) \/ LooksForCustomer(r)

\* A step that hands out no connection, and one that does.
AllGoOn == \A r \in InFlight' : GoesOn(r)

GrantsOne(r) ==
  /\ Grants(r) /\ InUse < MaxSize /\ InFlight' = InFlight
  /\ \A p \in InFlight \ {r} : req'[p] = req[p]
  /\ UNCHANGED <<customers, invoices, drawn>>

LEMMA Returns ==
  ASSUME NEW r, Return(r)
  PROVE  AllGoOn
BY DEF Return, InFlight, AllGoOn, GoesOn

LEMMA Moves ==
  ASSUME NEW r \in InFlight, IsRequest(req[r]), NEW pc, GoTo(r, pc)
  PROVE  /\ InFlight' = InFlight /\ Same(r) /\ req'[r].row = req[r].row
         /\ req'[r].seconds = req[r].seconds /\ req'[r].found = req[r].found
         /\ req'[r].pc = pc
         /\ \A p \in InFlight \ {r} : req'[p] = req[p]
BY DEF GoTo, InFlight, IsRequest, Fields, Same

LEMMA Starting ==
  ASSUME NEW r, NEW kind \in Kinds, NEW id \in CustomerIds \cup InvoiceIds \cup {None},
         NEW row, kind \in {"create_invoice", "update_invoice"} => row \in InvoiceRow,
         Begin(r, kind, id, row)
  PROVE  AllGoOn
<1>1. Starts(r)
  BY DEF Begin, Starts, InFlight, IsRequest, Fields
<1>2. \A p \in InFlight' \ {r} : p \in InFlight /\ req'[p] = req[p]
  BY DEF Begin, InFlight
<1> QED
  BY <1>1, <1>2 DEF AllGoOn, GoesOn

LEMMA RequestsGoOn ==
  ASSUME OfficeInv, [Next]_vars
  PROVE  AllGoOn \/ \E r \in Requests : GrantsOne(r)
<1>1. CASE UNCHANGED vars
  BY <1>1 DEF vars, AllGoOn, GoesOn, InFlight
<1>2. ASSUME NEW r \in Requests, Calls(r) PROVE AllGoOn
  <2>1. ASSUME NEW kind \in {"read", "setup", "create_customer"}, Begin(r, kind, None, None)
        PROVE  AllGoOn
    BY <2>1, Starting DEF Kinds
  <2>2. ASSUME NEW kind \in {"update_customer", "delete_customer"}, NEW c \in CustomerIds,
               Begin(r, kind, c, None)
        PROVE  AllGoOn
    BY <2>2, Starting DEF Kinds
  <2>3. ASSUME NEW kind \in {"delete_invoice", "view_invoice"}, NEW i \in InvoiceIds,
               Begin(r, kind, i, None)
        PROVE  AllGoOn
    BY <2>3, Starting DEF Kinds
  <2>4. ASSUME NEW kind \in {"create_invoice", "update_invoice"}, NEW i \in InvoiceIds,
               NEW row \in InvoiceRow, Begin(r, kind, i, row)
        PROVE  AllGoOn
    BY <2>4, Starting DEF Kinds
  <2> QED
    BY <1>2, <2>1, <2>2, <2>3, <2>4 DEF Calls
<1>3. ASSUME NEW r \in Requests, Wait(r) PROVE AllGoOn \/ GrantsOne(r)
  <2>1. CASE TimeOut(r)
    BY <2>1, Returns DEF TimeOut
  <2>2. CASE Get(r)
    <3>1. r \in InFlight /\ IsRequest(req[r]) /\ GoTo(r, Granted(req[r].pc))
      BY <2>2 DEF Get, Waiting, OfficeInv
    <3>2. PICK pc : pc = Granted(req[r].pc) /\ GoTo(r, pc)
      BY <3>1
    <3>3. /\ InFlight' = InFlight /\ Same(r) /\ req'[r].row = req[r].row
          /\ req'[r].seconds = req[r].seconds /\ req'[r].found = req[r].found
          /\ req'[r].pc = pc
          /\ \A p \in InFlight \ {r} : req'[p] = req[p]
      BY <3>1, <3>2, Moves
    <3> QED
      BY <1>3, <2>2, <3>2, <3>3 DEF Wait, Get, Waiting, GrantsOne, Grants
  <2> QED
    BY <1>3, <2>1, <2>2 DEF Wait
<1>4. ASSUME NEW r \in InFlight, NEW pc \in {"conn?", "second?", "reread"}, GoTo(r, pc),
             \/ req[r].pc = "auth" /\ pc = "conn?"
             \/ req[r].pc = "conn" /\ pc = "second?" /\ req[r].seconds > 0
             \/ req[r].pc = "conn" /\ pc = "reread"
      PROVE  AllGoOn
  <2>1. /\ InFlight' = InFlight /\ Same(r) /\ req'[r].row = req[r].row
        /\ req'[r].seconds = req[r].seconds /\ req'[r].found = req[r].found
        /\ req'[r].pc = pc
        /\ \A p \in InFlight \ {r} : req'[p] = req[p]
    BY <1>4, Moves DEF OfficeInv
  <2>2. Proceeds(r)
    BY <1>4, <2>1 DEF Proceeds
  <2> QED
    BY <2>1, <2>2 DEF AllGoOn, GoesOn
<1>5. ASSUME NEW r \in Requests, Second(r) PROVE AllGoOn
  <2>1. CASE ~Return(r)
    <3>1. r \in InFlight /\ IsRequest(req[r]) /\ req[r].pc = "second"
      BY <1>5 DEF Second, At, OfficeInv
    <3>2. /\ InFlight' = InFlight /\ \A p \in InFlight \ {r} : req'[p] = req[p]
          /\ req'[r] = [req[r] EXCEPT !.pc = "conn", !.seconds = @ - 1]
      BY <1>5, <2>1, <3>1 DEF Second, InFlight
    <3>3. FinishesSecond(r)
      BY <3>1, <3>2 DEF FinishesSecond, Same, IsRequest, Fields
    <3> QED
      BY <3>2, <3>3 DEF AllGoOn, GoesOn
  <2> QED
    BY <2>1, Returns
<1>6. ASSUME NEW r \in Requests, FindInvoice(r) PROVE AllGoOn
  <2>1. CASE ~Return(r)
    <3>1. /\ r \in InFlight /\ IsRequest(req[r]) /\ req[r].pc = "conn"
          /\ req[r].kind = "view_invoice" /\ req[r].id \in DOMAIN invoices
      BY <1>6, <2>1 DEF FindInvoice, Runs, At, OfficeInv
    <3>2. /\ InFlight' = InFlight /\ \A p \in InFlight \ {r} : req'[p] = req[p]
          /\ req'[r] = [req[r] EXCEPT !.row = invoices[req[r].id], !.pc = "customer"]
      BY <1>6, <3>1 DEF FindInvoice, InFlight
    <3>3. LoadsInvoice(r)
      BY <3>1, <3>2 DEF LoadsInvoice, Same, IsRequest, Fields
    <3> QED
      BY <3>2, <3>3 DEF AllGoOn, GoesOn
  <2> QED
    BY <2>1, Returns
<1>7. ASSUME NEW r \in Requests, FindCustomer(r) PROVE AllGoOn
  <2>1. r \in InFlight /\ IsRequest(req[r]) /\ req[r].pc = "customer"
    BY <1>7 DEF FindCustomer, At, OfficeInv
  <2>2. /\ InFlight' = InFlight /\ \A p \in InFlight \ {r} : req'[p] = req[p]
        /\ req'[r] = [req[r] EXCEPT !.found = req[r].row.customer_id \in customers,
                                    !.pc = "done"]
    BY <1>7, <2>1 DEF FindCustomer, InFlight
  <2>3. LooksForCustomer(r)
    BY <2>1, <2>2 DEF LooksForCustomer, Same, IsRequest, Fields
  <2> QED
    BY <2>2, <2>3 DEF AllGoOn, GoesOn
<1>8. ASSUME NEW r \in Requests, Authenticate(r) \/ AskSecond(r) \/ UpdateCustomer(r)
                                   \/ UpdateInvoice(r)
      PROVE  AllGoOn
  <2>1. CASE ~Return(r)
    <3>1. PICK pc \in {"conn?", "second?", "reread"} :
            /\ GoTo(r, pc) /\ r \in InFlight
            /\ \/ req[r].pc = "auth" /\ pc = "conn?"
               \/ req[r].pc = "conn" /\ pc = "second?" /\ req[r].seconds > 0
               \/ req[r].pc = "conn" /\ pc = "reread"
      BY <1>8, <2>1 DEF Authenticate, AskSecond, UpdateCustomer, UpdateInvoice, Runs, At
    <3> QED
      BY <1>4, <3>1
  <2> QED
    BY <2>1, Returns
<1>9. ASSUME NEW r \in Requests,
             \/ ReadOrSetUp(r) \/ CreateCustomer(r) \/ DeleteCustomer(r)
             \/ CreateInvoice(r) \/ Reread(r) \/ DeleteInvoice(r) \/ Arrive(r) \/ Abort(r)
      PROVE  AllGoOn
  BY <1>9, Returns
     DEF ReadOrSetUp, CreateCustomer, DeleteCustomer, CreateInvoice, Reread,
         DeleteInvoice, Arrive, Abort
<1> QED
  BY <1>1, <1>2, <1>3, <1>5, <1>6, <1>7, <1>8, <1>9 DEF Next, Statement

-----------------------------------------------------------------------------
(* Connections *)

LEMMA HoldingFinite ==
  ASSUME InFlight \subseteq Requests, NEW n
  PROVE  IsFiniteSet(Holding(n)) /\ Cardinality(Holding(n)) \in Nat
<1>1. Holding(n) \subseteq Requests
  BY DEF Holding
<1> QED
  BY <1>1, RequestsAssumption, FS_Subset, FS_CardinalityType

\* No step but the grant of a connection takes one.
LEMMA NoneTaken ==
  ASSUME InFlight \subseteq Requests, AllGoOn, NEW n \in {1, 2}
  PROVE  /\ Holding(n)' \subseteq Holding(n)
         /\ Cardinality(Holding(n)') <= Cardinality(Holding(n))
         /\ Cardinality(Holding(n)') \in Nat
<1>1. ASSUME NEW r \in InFlight', HeldAt(req'[r].pc) >= n
      PROVE  r \in InFlight /\ HeldAt(req[r].pc) >= n
  BY <1>1 DEF AllGoOn, GoesOn, Starts, Proceeds, FinishesSecond, LoadsInvoice,
              LooksForCustomer, Same, HeldAt
<1>2. Holding(n)' \subseteq Holding(n)
  BY <1>1 DEF Holding
<1> QED
  BY <1>2, HoldingFinite, FS_Subset, FS_CardinalityType

LEMMA AtMostOneMore ==
  ASSUME NEW S, IsFiniteSet(S), NEW x
  PROVE  Cardinality(S \cup {x}) \in Nat /\ Cardinality(S \cup {x}) <= Cardinality(S) + 1
<1>1. Cardinality(S) \in Nat
  BY FS_CardinalityType
<1>2. CASE x \in S
  <2>1. S \cup {x} = S
    BY <1>2
  <2> QED
    BY <1>1, <2>1
<1>3. CASE x \notin S
  BY <1>1, <1>3, FS_AddElement
<1> QED
  BY <1>2, <1>3

\* A grant takes one connection.
LEMMA OneTaken ==
  ASSUME InFlight \subseteq Requests, NEW r, GrantsOne(r)
  PROVE  InUse' <= InUse + 1
<1>1. /\ InFlight' = InFlight /\ r \in InFlight
      /\ \A p \in InFlight \ {r} : req'[p] = req[p]
  BY DEF GrantsOne, Grants, Same
<1>2. /\ IsFiniteSet(Holding(1)) /\ Cardinality(Holding(1)) \in Nat
      /\ IsFiniteSet(Holding(2)) /\ Cardinality(Holding(2)) \in Nat
  BY HoldingFinite
<1>3. CASE req[r].pc = "second?"
  <2>1. Holding(1)' = Holding(1)
    BY <1>1, <1>3 DEF GrantsOne, Grants, Granted, Holding, HeldAt
  <2>2. Holding(2)' = Holding(2) \cup {r}
    BY <1>1, <1>3 DEF GrantsOne, Grants, Granted, Holding, HeldAt
  <2>3. /\ Cardinality(Holding(2)') <= Cardinality(Holding(2)) + 1
        /\ Cardinality(Holding(2)') \in Nat
    BY <1>2, <2>2, AtMostOneMore
  <2> QED
    BY <1>2, <2>1, <2>3 DEF InUse
<1>4. CASE req[r].pc \in {"auth?", "conn?"}
  <2>1. Holding(1)' = Holding(1) \cup {r}
    BY <1>1, <1>4 DEF GrantsOne, Grants, Granted, Holding, HeldAt
  <2>2. Holding(2)' = Holding(2)
    BY <1>1, <1>4 DEF GrantsOne, Grants, Granted, Holding, HeldAt
  <2>3. /\ Cardinality(Holding(1)') <= Cardinality(Holding(1)) + 1
        /\ Cardinality(Holding(1)') \in Nat
    BY <1>2, <2>1, AtMostOneMore
  <2> QED
    BY <1>2, <2>2, <2>3 DEF InUse
<1> QED
  BY <1>3, <1>4 DEF GrantsOne, Grants, WaitingAt

LEMMA PoolNext ==
  ASSUME OfficeInv, [Next]_vars
  PROVE  InUse' <= MaxSize
<1>1. /\ InFlight \subseteq Requests /\ InUse <= MaxSize
      /\ Cardinality(Holding(1)) \in Nat /\ Cardinality(Holding(2)) \in Nat
  BY HoldingFinite DEF OfficeInv, TypeOK
<1>2. CASE AllGoOn
  <2>1. /\ Cardinality(Holding(1)') <= Cardinality(Holding(1))
        /\ Cardinality(Holding(2)') <= Cardinality(Holding(2))
        /\ Cardinality(Holding(1)') \in Nat /\ Cardinality(Holding(2)') \in Nat
    BY <1>1, <1>2, NoneTaken
  <2> QED
    BY <1>1, <2>1, MaxSizeAssumption DEF InUse
<1>3. ASSUME NEW r \in Requests, GrantsOne(r) PROVE InUse' <= MaxSize
  <2>1. /\ InUse' <= InUse + 1 /\ InUse < MaxSize /\ InUse \in Nat
    BY <1>1, <1>3, OneTaken DEF GrantsOne, InUse
  <2>2. InUse' \in Nat
    <3>1. InFlight' \subseteq Requests
      BY <1>1, <1>3 DEF GrantsOne
    <3>2. \A n : Holding(n)' \subseteq Requests
      BY <3>1 DEF Holding
    <3> QED
      BY <3>2, RequestsAssumption, FS_Subset, FS_CardinalityType DEF InUse
  <2> QED
    BY <2>1, <2>2, MaxSizeAssumption
<1> QED
  BY <1>2, <1>3, RequestsGoOn

-----------------------------------------------------------------------------
(* Requests *)

LEMMA Granting ==
  ASSUME NEW r, GrantsOne(r)
  PROVE  \A p \in InFlight' : p = r \/ GoesOn(p)
BY DEF GrantsOne, GoesOn

LEMMA InFlightNext ==
  ASSUME InFlight \subseteq Requests, [Next]_vars
  PROVE  InFlight' \subseteq Requests
<1>1. ASSUME NEW r \in Requests, Calls(r) \/ Wait(r) \/ Statement(r) \/ Abort(r)
      PROVE  InFlight' \subseteq InFlight \cup {r}
  BY <1>1 DEF Calls, Begin, Wait, Get, TimeOut, Statement, Authenticate, AskSecond,
              Second, ReadOrSetUp, CreateCustomer, UpdateCustomer, DeleteCustomer,
              CreateInvoice, UpdateInvoice, Reread, DeleteInvoice, FindInvoice,
              FindCustomer, Arrive, Abort, Return, GoTo, InFlight
<1> QED
  BY <1>1 DEF Next, vars, InFlight

\* The parts of the invariant that look at one request at a time.
LEMMA RequestsNext ==
  ASSUME OfficeInv, [Next]_vars, NEW r \in InFlight'
  PROVE  /\ IsRequest(req'[r])
         /\ \A f \in DOMAIN RequestState : req'[r][f] \in RequestState[f]
         /\ req'[r].kind \in {"create_invoice", "update_invoice"} =>
              req'[r].row \in InvoiceRow
         /\ req'[r].seconds <= Seconds(req'[r].kind)
         /\ req'[r].pc \in {"second?", "second"} => req'[r].seconds > 0
<1> DEFINE Fit(q) == /\ q.kind \in RequestState.kind /\ q.pc \in RequestState.pc
                     /\ q.id \in RequestState.id /\ q.seconds \in RequestState.seconds
<1>1. ASSUME NEW q, Fit(q)
      PROVE  \A f \in DOMAIN RequestState : q[f] \in RequestState[f]
  BY <1>1 DEF RequestState
<1>2. ASSUME NEW p \in InFlight
      PROVE  /\ IsRequest(req[p]) /\ Fit(req[p])
             /\ req[p].kind \in {"create_invoice", "update_invoice"} =>
                  req[p].row \in InvoiceRow
             /\ req[p].seconds <= Seconds(req[p].kind)
             /\ req[p].pc \in {"second?", "second"} => req[p].seconds > 0
  BY <1>2 DEF OfficeInv, TypeOK, RequestState, BodiesFit, SecondsFit
<1>3. GoesOn(r) \/ GrantsOne(r)
  BY RequestsGoOn, Granting DEF AllGoOn
<1>4. CASE r \in InFlight /\ req'[r] = req[r]
  BY <1>1, <1>2, <1>4
<1>5. CASE Starts(r)
  <2>1. Fit(req'[r]) /\ Seconds(req'[r].kind) \in Nat
    BY <1>5 DEF Starts, RequestState, Seconds, WaitingAt
  <2> QED
    BY <1>1, <1>5, <2>1 DEF Starts
<1>6. CASE Proceeds(r) \/ Grants(r)
  <2>1. Fit(req'[r])
    BY <1>2, <1>6 DEF Proceeds, Grants, Same, RequestState, WaitingAt, Granted
  <2> QED
    BY <1>1, <1>2, <1>6, <2>1 DEF Proceeds, Grants, Same, WaitingAt, Granted
<1>7. CASE FinishesSecond(r)
  <2>1. Fit(req'[r]) /\ req[r].seconds \in 0 .. 2 /\ Seconds(req[r].kind) \in Nat
    BY <1>2, <1>7 DEF FinishesSecond, Same, RequestState, Seconds
  <2> QED
    BY <1>1, <1>2, <1>7, <2>1 DEF FinishesSecond, Same
<1>8. CASE LoadsInvoice(r)
  <2>1. Fit(req'[r])
    BY <1>2, <1>8 DEF LoadsInvoice, Same, RequestState
  <2> QED
    BY <1>1, <1>2, <1>8, <2>1 DEF LoadsInvoice, Same
<1>9. CASE LooksForCustomer(r)
  <2>1. Fit(req'[r])
    BY <1>2, <1>9 DEF LooksForCustomer, Same, RequestState
  <2> QED
    BY <1>1, <1>2, <1>9, <2>1 DEF LooksForCustomer, Same
<1> QED
  BY <1>3, <1>4, <1>5, <1>6, <1>7, <1>8, <1>9 DEF GoesOn, GrantsOne

-----------------------------------------------------------------------------
(* Tables *)

TablesFit ==
  /\ customers \subseteq drawn \cap CustomerIds
  /\ DOMAIN invoices \subseteq drawn \cap InvoiceIds
  /\ \A i \in DOMAIN invoices : invoices[i].customer_id \in CustomerIds
  /\ drawn \subseteq CustomerIds \cup InvoiceIds

\* What is drawn and not there stays away.
NothingComesBack ==
  /\ drawn \subseteq drawn'
  /\ \A c \in drawn : c \notin customers => c \notin customers'
  /\ \A i \in drawn : i \notin DOMAIN invoices => i \notin DOMAIN invoices'

\* The rows the foreign key looks at: an invoice of the state after a step is one
\* of the state before it, or belongs to a customer of the state before it.
LEMMA TablesNext ==
  ASSUME TablesFit, ReferencesHold, BodiesFit, [Next]_vars
  PROVE  TablesFit' /\ ReferencesHold' /\ NothingComesBack
<1> DEFINE Goal == TablesFit' /\ ReferencesHold' /\ NothingComesBack
<1>1. ASSUME NEW r \in Requests, CreateCustomer(r) PROVE Goal
  BY <1>1 DEF CreateCustomer, TablesFit, ReferencesHold, NothingComesBack
<1>2. ASSUME NEW r \in Requests, DeleteCustomer(r) PROVE Goal
  <2>1. /\ \A i \in DOMAIN invoices : invoices[i].customer_id \in customers'
        /\ customers' \subseteq customers /\ UNCHANGED <<invoices, drawn>>
    BY <1>2 DEF DeleteCustomer, InvoicesOf, ReferencesHold
  <2> QED
    BY <2>1 DEF TablesFit, ReferencesHold, NothingComesBack
<1>3. ASSUME NEW r \in Requests, CreateInvoice(r) PROVE Goal
  <2>1. CASE UNCHANGED <<invoices, drawn>>
    BY <1>3, <2>1 DEF CreateInvoice, TablesFit, ReferencesHold, NothingComesBack
  <2>2. CASE ~UNCHANGED <<invoices, drawn>>
    <3>1. PICK i \in InvoiceIds \ drawn :
            /\ req[r].row.customer_id \in customers
            /\ invoices' = [j \in DOMAIN invoices \cup {i} |->
                              IF j = i THEN req[r].row ELSE invoices[j]]
            /\ drawn' = drawn \cup {i}
      BY <1>3, <2>2 DEF CreateInvoice
    <3>2. /\ DOMAIN invoices' = DOMAIN invoices \cup {i}
          /\ \A j \in DOMAIN invoices' :
               \/ invoices'[j].customer_id = req[r].row.customer_id
               \/ j \in DOMAIN invoices /\ invoices'[j] = invoices[j]
      BY <3>1
    <3> QED
      BY <1>3, <3>1, <3>2 DEF CreateInvoice, TablesFit, ReferencesHold, NothingComesBack
  <2> QED
    BY <2>1, <2>2
<1>4. ASSUME NEW r \in Requests, UpdateInvoice(r) PROVE Goal
  <2>1. CASE UNCHANGED invoices
    BY <1>4, <2>1 DEF UpdateInvoice, TablesFit, ReferencesHold, NothingComesBack
  <2>2. CASE ~UNCHANGED invoices
    <3>1. /\ req[r].row.customer_id \in customers /\ req[r].row \in InvoiceRow
          /\ req[r].id \in DOMAIN invoices
          /\ invoices' = [invoices EXCEPT ![req[r].id] = req[r].row]
      BY <1>4, <2>2 DEF UpdateInvoice, Runs, At, BodiesFit
    <3>2. /\ DOMAIN invoices' = DOMAIN invoices
          /\ \A j \in DOMAIN invoices :
               \/ invoices'[j].customer_id = req[r].row.customer_id
               \/ invoices'[j] = invoices[j]
      BY <3>1
    <3> QED
      BY <1>4, <3>1, <3>2 DEF UpdateInvoice, TablesFit, ReferencesHold, NothingComesBack
  <2> QED
    BY <2>1, <2>2
<1>5. ASSUME NEW r \in Requests, DeleteInvoice(r) PROVE Goal
  <2>1. /\ DOMAIN invoices' \subseteq DOMAIN invoices
        /\ \A j \in DOMAIN invoices' : invoices'[j] = invoices[j]
        /\ UNCHANGED <<customers, drawn>>
    BY <1>5 DEF DeleteInvoice
  <2> QED
    BY <2>1 DEF TablesFit, ReferencesHold, NothingComesBack
<1>6. CASE UNCHANGED <<customers, invoices, drawn>>
  BY <1>6 DEF TablesFit, ReferencesHold, NothingComesBack
<1> QED
  BY <1>1, <1>2, <1>3, <1>4, <1>5, <1>6
     DEF Next, Calls, Begin, Wait, Statement, Authenticate, AskSecond, Second,
         ReadOrSetUp, UpdateCustomer, Reread, FindInvoice, FindCustomer, Arrive, Abort, vars

\* A customer that a page did not find is gone for good.
LEMMA PagesNext ==
  ASSUME OfficeInv, [Next]_vars, TablesFit, NothingComesBack
  PROVE  PagesKnow'
<1> SUFFICES ASSUME NEW r \in InFlight', req'[r].pc \in {"customer", "done"}
             PROVE  /\ req'[r].row.customer_id \in drawn'
                    /\ req'[r].pc = "done" /\ ~req'[r].found =>
                         req'[r].row.customer_id \notin customers'
  BY DEF PagesKnow
<1>1. /\ GoesOn(r) \/ GrantsOne(r)
      /\ drawn \subseteq drawn'
      /\ \A c \in drawn : c \notin customers => c \notin customers'
  BY RequestsGoOn, Granting DEF AllGoOn, NothingComesBack
<1>2. CASE r \in InFlight /\ req'[r] = req[r]
  BY <1>1, <1>2 DEF OfficeInv, PagesKnow
<1>3. CASE LoadsInvoice(r)
  BY <1>1, <1>3 DEF LoadsInvoice, OfficeInv, ReferencesHold, TablesFit
<1>4. CASE LooksForCustomer(r)
  <2>1. /\ req'[r].row = req[r].row /\ req[r].row.customer_id \in drawn
        /\ req'[r].found <=> req[r].row.customer_id \in customers
    BY <1>4 DEF LooksForCustomer, Same, OfficeInv, PagesKnow
  <2> QED
    BY <1>1, <2>1
<1> QED
  BY <1>1, <1>2, <1>3, <1>4
     DEF GoesOn, GrantsOne, Grants, Granted, WaitingAt, Starts, Proceeds, FinishesSecond

-----------------------------------------------------------------------------
(* The theorems *)

LEMMA OfficeInit == Init => OfficeInv
<1> SUFFICES ASSUME Init PROVE OfficeInv
  OBVIOUS
<1>1. customers = {} /\ drawn = {} /\ InFlight = {} /\ DOMAIN invoices = {}
  BY DEF Init, InFlight
<1>2. InUse <= MaxSize
  <2>1. Holding(1) = {} /\ Holding(2) = {}
    BY <1>1 DEF Holding
  <2> QED
    BY <2>1, FS_EmptySet, MaxSizeAssumption DEF InUse
<1> QED
  BY <1>1, <1>2 DEF OfficeInv, TypeOK, ReferencesHold, BodiesFit, SecondsFit, PagesKnow

LEMMA OfficeNext == OfficeInv /\ [Next]_vars => OfficeInv'
<1> SUFFICES ASSUME OfficeInv, [Next]_vars PROVE OfficeInv'
  OBVIOUS
<1>1. TablesFit /\ ReferencesHold /\ BodiesFit /\ InFlight \subseteq Requests
  BY DEF OfficeInv, TypeOK, TablesFit
<1>2. TablesFit' /\ ReferencesHold' /\ NothingComesBack
  BY <1>1, TablesNext
<1>3. PagesKnow'
  BY <1>1, <1>2, PagesNext
<1>4. InFlight' \subseteq Requests /\ InUse' <= MaxSize
  BY <1>1, InFlightNext, PoolNext
<1>5. TypeOK'
  BY <1>2, <1>4, RequestsNext DEF TypeOK, TablesFit, RequestState
<1>6. /\ \A r \in InFlight' : IsRequest(req'[r])
      /\ BodiesFit' /\ SecondsFit'
  BY RequestsNext DEF BodiesFit, SecondsFit
<1> QED
  BY <1>2, <1>3, <1>5, <1>6 DEF OfficeInv, IsRequest

LEMMA OfficeInvariant == Spec => []OfficeInv
BY OfficeInit, OfficeNext, PTL DEF Spec

\* The tables hold rows of their schema under ids that were drawn, and no more
\* connections are out than the pool has, whoever waits, gives up or hangs up.
THEOREM TypeCorrect == Spec => []TypeOK
BY OfficeInvariant, PTL DEF OfficeInv

\* No invoice is left without its customer, in whatever order a customer is
\* deleted and invoices are created for it or moved to it.
THEOREM ReferencesAlwaysHold == Spec => []ReferencesHold
BY OfficeInvariant, PTL DEF OfficeInv

\* The invoice page, which reads the invoice and later its customer, misses the
\* customer only when the invoice is by then deleted or somebody else's.
THEOREM PagesMissForCause == Spec => []MissingForCause
<1>1. OfficeInv => MissingForCause
  BY DEF OfficeInv, PagesKnow, ReferencesHold, MissingForCause, At
<1> QED
  BY <1>1, OfficeInvariant, PTL

\* What was deleted does not come back with a PUT that was on its way.
THEOREM NothingIsRevived == Spec => DeletedStaysDeleted
<1>1. OfficeInv /\ [Next]_vars =>
        [/\ \A i \in (drawn \cap InvoiceIds) \ DOMAIN invoices : i \notin DOMAIN invoices'
         /\ \A c \in (drawn \cap CustomerIds) \ customers : c \notin customers']_vars
  <2> SUFFICES ASSUME OfficeInv, [Next]_vars
               PROVE  /\ \A i \in (drawn \cap InvoiceIds) \ DOMAIN invoices :
                            i \notin DOMAIN invoices'
                      /\ \A c \in (drawn \cap CustomerIds) \ customers : c \notin customers'
    OBVIOUS
  <2>1. NothingComesBack
    BY TablesNext DEF OfficeInv, TypeOK, TablesFit
  <2> QED
    BY <2>1 DEF NothingComesBack
<1> QED
  BY <1>1, OfficeInvariant, PTL DEF Spec, DeletedStaysDeleted

\* The pool comes to a stop only when handlers that want a second connection hold
\* every connection there is.
THEOREM OnlyNestedRequestsBlock == Spec => []OnlyNestedBlock
<1>1. OfficeInv => OnlyNestedBlock
  <2> SUFFICES ASSUME OfficeInv, Blocked
               PROVE  /\ Cardinality(Holding(1)) = MaxSize
                      /\ \A r \in Holding(1) : At(r, "second?") /\ Seconds(req[r].kind) > 0
    BY DEF OnlyNestedBlock
  <2>1. \A r \in Holding(1) : r \in InFlight /\ req[r].pc = "second?"
    BY DEF Blocked, Waiting, WaitingAt, Holding, HeldAt
  <2>2. Holding(2) = {}
    <3>1. Holding(2) \subseteq Holding(1)
      BY DEF Holding, HeldAt
    <3> QED
      BY <2>1, <3>1 DEF Holding, HeldAt
  <2>3. Cardinality(Holding(1)) = MaxSize
    <3>1. Cardinality(Holding(1)) \in Nat /\ InUse <= MaxSize /\ InUse >= MaxSize
      BY HoldingFinite DEF OfficeInv, TypeOK, Blocked
    <3> QED
      BY <2>2, <3>1, FS_EmptySet, MaxSizeAssumption DEF InUse
  <2>4. \A r \in Holding(1) : Seconds(req[r].kind) > 0
    <3>1. ASSUME NEW r \in Holding(1) PROVE Seconds(req[r].kind) > 0
      <4>1. req[r].seconds > 0 /\ req[r].seconds <= Seconds(req[r].kind)
        BY <2>1, <3>1 DEF OfficeInv, SecondsFit
      <4>2. req[r].seconds \in 0 .. 2 /\ Seconds(req[r].kind) \in Nat
        BY <2>1, <3>1 DEF OfficeInv, TypeOK, RequestState, Seconds
      <4> QED
        BY <4>1, <4>2
    <3> QED
      BY <3>1
  <2> QED
    BY <2>1, <2>3, <2>4 DEF At
<1> QED
  BY <1>1, OfficeInvariant, PTL
=============================================================================
