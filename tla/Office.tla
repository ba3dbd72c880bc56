-------------------------------- MODULE Office --------------------------------
(***************************************************************************)
(* The administrator's side: the generic handlers of handlers/crud.rs over *)
(* the tables customer and invoices, the invoice page, and what all of     *)
(* them need first, a connection of the pool.                              *)
(*                                                                         *)
(* One action is one wait for a connection or one statement.  Of the       *)
(* columns only the one the foreign key looks at is here, so the handlers  *)
(* list and read_one are one kind, "read", and a PUT of a customer changes *)
(* nothing it shows.                                                       *)
(* setup_first_user is here for its connections alone; what it writes is   *)
(* in Accounts.                                                            *)
(***************************************************************************)
EXTENDS ConnPool, Integers

CONSTANTS
  CustomerIds, InvoiceIds,  \* the UUIDs insert draws, each at most once
  Failures,                 \* TRUE: a statement may fail, a client may hang up
  None

ASSUME IdsAssumption == CustomerIds \cap InvoiceIds = {}

VARIABLES
  customers,  \* ids in table customer
  invoices,   \* table invoices
  drawn       \* UUIDs drawn so far

vars == <<customers, invoices, drawn, req>>

Kinds == {"create_customer", "update_customer", "delete_customer", "create_invoice",
          "update_invoice", "delete_invoice", "read", "view_invoice", "setup"}

InvoiceRow == [customer_id : CustomerIds]

InvoicesOf(c) == {i \in DOMAIN invoices : invoices[i].customer_id = c}

Init ==
  /\ customers = {} /\ invoices = [i \in {} |-> 0]
  /\ drawn = {}
  /\ req = [r \in {} |-> 0]

-----------------------------------------------------------------------------
(* From the extractor to the handler *)

\* How often a handler asks for a second connection while it holds its own:
\* view_invoice_handler for get_user_by_email, setup_first_user for store_jwt
\* and store_refresh_token.
Seconds(kind) ==
  CASE kind = "view_invoice" -> 1 [] kind = "setup" -> 2 [] OTHER -> 0

\* A client asks for id, with row in the body of a PUT or a POST.
Begin(r, kind, id, row) ==
  /\ r \notin InFlight
  /\ req' = [q \in InFlight \cup {r} |->
       IF q # r THEN req[q]
       ELSE [kind |-> kind, pc |-> "auth?", id |-> id, row |-> row,
             seconds |-> Seconds(kind), found |-> FALSE]]
  /\ UNCHANGED <<customers, invoices, drawn>>

\* is_jwt_revoked in the extractor, or user_exists in setup_first_user: the
\* request is refused or goes on, and the connection goes back.
Authenticate(r) ==
  /\ At(r, "auth")
  /\ Return(r) \/ GoTo(r, "conn?")
  /\ UNCHANGED <<customers, invoices, drawn>>

\* The statement on the second connection, which goes back after it: no such
\* user, or a token not stored, ends the request.
Second(r) ==
  /\ At(r, "second")
  /\ \/ Return(r)
     \/ req' = [req EXCEPT ![r] =
          [@ EXCEPT !.pc = "conn", !.seconds = req[r].seconds - 1]]
  /\ UNCHANGED <<customers, invoices, drawn>>

\* The invoice page asks before its own first statement, the set-up after its
\* only one, the INSERT into user.
AskSecond(r) ==
  /\ At(r, "conn")
  /\ req[r].seconds > 0
  /\ GoTo(r, "second?")
  /\ UNCHANGED <<customers, invoices, drawn>>

Runs(r, kind) == At(r, "conn") /\ req[r].kind = kind /\ req[r].seconds = 0

-----------------------------------------------------------------------------
(* The handlers' statements *)

\* A SELECT; for a set-up, its end.
ReadOrSetUp(r) ==
  /\ Runs(r, "read") \/ Runs(r, "setup")
  /\ Return(r)
  /\ UNCHANGED <<customers, invoices, drawn>>

\* An INSERT may fail, as any write of two at a time.
CreateCustomer(r) ==
  /\ Runs(r, "create_customer")
  /\ \/ \E c \in CustomerIds \ drawn :
          customers' = customers \cup {c} /\ drawn' = drawn \cup {c}
     \/ UNCHANGED <<customers, drawn>>
  /\ Return(r)
  /\ UNCHANGED invoices

\* The UPDATE of the columns left out here: no row, 404.
UpdateCustomer(r) ==
  /\ Runs(r, "update_customer")
  /\ IF req[r].id \in customers THEN GoTo(r, "reread") ELSE Return(r)
  /\ UNCHANGED <<customers, invoices, drawn>>

\* A customer deleted with invoices.
DeleteCustomer_Bug(r) ==
  /\ Runs(r, "delete_customer")
  /\ customers' = customers \ {req[r].id}
  /\ Return(r)
  /\ UNCHANGED <<invoices, drawn>>

\* Refused by the foreign key of invoices: the handler answers 500.
DeleteCustomer(r) ==
  /\ Runs(r, "delete_customer")
  /\ customers' = IF InvoicesOf(req[r].id) = {} THEN customers \ {req[r].id}
                  ELSE customers
  /\ Return(r)
  /\ UNCHANGED <<invoices, drawn>>

\* The customer not looked at.
CreateInvoice_NoKeyBug(r) ==
  /\ Runs(r, "create_invoice")
  /\ \E i \in InvoiceIds \ drawn :
       /\ invoices' = [j \in DOMAIN invoices \cup {i} |->
                         IF j = i THEN req[r].row ELSE invoices[j]]
       /\ drawn' = drawn \cup {i}
  /\ Return(r)
  /\ UNCHANGED customers

\* The id taken from the payload.
CreateInvoice_IdBug(r) ==
  /\ Runs(r, "create_invoice")
  /\ req[r].row.customer_id \in customers
  /\ invoices' = [j \in DOMAIN invoices \cup {req[r].id} |->
                    IF j = req[r].id THEN req[r].row ELSE invoices[j]]
  /\ Return(r)
  /\ UNCHANGED <<customers, drawn>>

\* insert overwrites the payload's id with a fresh one; the foreign key refuses
\* a customer that is not there.
CreateInvoice(r) ==
  /\ Runs(r, "create_invoice")
  /\ \/ /\ req[r].row.customer_id \in customers
        /\ \E i \in InvoiceIds \ drawn :
             /\ invoices' = [j \in DOMAIN invoices \cup {i} |->
                               IF j = i THEN req[r].row ELSE invoices[j]]
             /\ drawn' = drawn \cup {i}
     \/ UNCHANGED <<invoices, drawn>>
  /\ Return(r)
  /\ UNCHANGED customers

\* A row that is not there inserted.
UpdateInvoice_Bug(r) ==
  /\ Runs(r, "update_invoice")
  /\ IF req[r].row.customer_id \in customers /\ req[r].id \in drawn
       THEN /\ invoices' = [j \in DOMAIN invoices \cup {req[r].id} |->
                              IF j = req[r].id THEN req[r].row ELSE invoices[j]]
            /\ GoTo(r, "reread")
       ELSE Return(r) /\ UNCHANGED invoices
  /\ UNCHANGED <<customers, drawn>>

\* No row: 404.  A customer that is not there: the foreign key, 500.
UpdateInvoice(r) ==
  LET q == req[r] IN
  /\ Runs(r, "update_invoice")
  /\ IF q.id \in DOMAIN invoices /\ q.row.customer_id \in customers
       THEN /\ invoices' = [invoices EXCEPT ![q.id] = q.row]
            /\ GoTo(r, "reread")
       ELSE Return(r) /\ UNCHANGED invoices
  /\ UNCHANGED <<customers, drawn>>

\* The answer is the row as it is by now, or 404 when it has been deleted.
Reread(r) ==
  /\ At(r, "reread")
  /\ Return(r)
  /\ UNCHANGED <<customers, invoices, drawn>>

DeleteInvoice(r) ==
  /\ Runs(r, "delete_invoice")
  /\ invoices' = [j \in DOMAIN invoices \ {req[r].id} |-> invoices[j]]
  /\ Return(r)
  /\ UNCHANGED <<customers, drawn>>

\* view_invoice_handler: the invoice, then its customer.
FindInvoice(r) ==
  LET q == req[r] IN
  /\ Runs(r, "view_invoice")
  /\ IF q.id \in DOMAIN invoices
       THEN req' = [req EXCEPT ![r] = [q EXCEPT !.row = invoices[q.id],
                                                !.pc = "customer"]]
       ELSE Return(r)
  /\ UNCHANGED <<customers, invoices, drawn>>

FindCustomer(r) ==
  /\ At(r, "customer")
  /\ req' = [req EXCEPT ![r] =
       [@ EXCEPT !.found = req[r].row.customer_id \in customers, !.pc = "done"]]
  /\ UNCHANGED <<customers, invoices, drawn>>

\* The page, or "not found", arrives.
Arrive(r) ==
  /\ At(r, "done")
  /\ Return(r)
  /\ UNCHANGED <<customers, invoices, drawn>>

\* The client hangs up, or a statement fails.
Abort(r) ==
  /\ Failures
  /\ r \in InFlight
  /\ Return(r)
  /\ UNCHANGED <<customers, invoices, drawn>>

-----------------------------------------------------------------------------
Wait(r) == (Get(r) \/ TimeOut(r)) /\ UNCHANGED <<customers, invoices, drawn>>

Statement(r) ==
  \/ Authenticate(r) \/ AskSecond(r) \/ Second(r) \/ ReadOrSetUp(r)
  \/ CreateCustomer(r) \/ UpdateCustomer(r) \/ DeleteCustomer(r)
  \/ CreateInvoice(r) \/ UpdateInvoice(r) \/ Reread(r) \/ DeleteInvoice(r)
  \/ FindInvoice(r) \/ FindCustomer(r) \/ Arrive(r)

\* What each kind of request carries.
Calls(r) ==
  \/ \E kind \in {"read", "setup", "create_customer"} : Begin(r, kind, None, None)
  \/ \E kind \in {"update_customer", "delete_customer"}, c \in CustomerIds :
       Begin(r, kind, c, None)
  \/ \E kind \in {"delete_invoice", "view_invoice"}, i \in InvoiceIds :
       Begin(r, kind, i, None)
  \/ \E kind \in {"create_invoice", "update_invoice"}, i \in InvoiceIds,
        row \in InvoiceRow : Begin(r, kind, i, row)

Next == \E r \in Requests : Calls(r) \/ Wait(r) \/ Statement(r) \/ Abort(r)

\* Tokio runs every task that can run, a statement returns, and bb8 hands out a
\* free connection or gives up; nothing is assumed of clients.
Spec ==
  /\ Init /\ [][Next]_vars
  /\ \A r \in Requests : WF_vars(Wait(r)) /\ WF_vars(Statement(r))

-----------------------------------------------------------------------------
(* Properties *)

RequestState ==
  [kind |-> Kinds, pc |-> WaitingAt \cup {"auth", "conn", "second", "reread",
                                      "customer", "done"},
   id |-> CustomerIds \cup InvoiceIds \cup {None}, seconds |-> 0 .. 2]

\* The tables hold rows of their schema under ids that insert has drawn, and no
\* more connections are out than the pool has.
TypeOK ==
  /\ customers \subseteq drawn \cap CustomerIds
  /\ DOMAIN invoices \subseteq drawn \cap InvoiceIds
  /\ \A i \in DOMAIN invoices : invoices[i].customer_id \in CustomerIds
  /\ drawn \subseteq CustomerIds \cup InvoiceIds
  /\ InFlight \subseteq Requests
  /\ \A r \in InFlight : \A f \in DOMAIN RequestState : req[r][f] \in RequestState[f]
  /\ InUse <= MaxSize

\* No invoice is left without its customer, in whatever order a customer is
\* deleted and invoices are created for it or moved to it.
ReferencesHold ==
  \A i \in DOMAIN invoices : invoices[i].customer_id \in customers

\* What was deleted does not come back: a PUT on its way when the row goes does
\* not create it again.
DeletedStaysDeleted ==
  [][/\ \A i \in (drawn \cap InvoiceIds) \ DOMAIN invoices : i \notin DOMAIN invoices'
     /\ \A c \in (drawn \cap CustomerIds) \ customers : c \notin customers']_vars

\* The invoice page reads the invoice first and the customer later: it misses
\* the customer only when the invoice is, by then, deleted or somebody else's.
MissingForCause ==
  \A r \in InFlight : At(r, "done") /\ ~req[r].found =>
    ~(/\ req[r].id \in DOMAIN invoices
      /\ invoices[req[r].id].customer_id = req[r].row.customer_id)

\* The pool comes to a stop only through handlers that ask for a second
\* connection, and only when every connection is held by one of them: one less,
\* and somebody can go on.
OnlyNestedBlock ==
  Blocked =>
    /\ Cardinality(Holding(1)) = MaxSize
    /\ \A r \in Holding(1) : At(r, "second?") /\ Seconds(req[r].kind) > 0

\* Every request ends, with an answer or with an error: the time limit of the
\* pool undoes the circle of those that wait for one another.
EveryRequestEnds == \A r \in Requests : r \in InFlight ~> r \notin InFlight
=============================================================================
