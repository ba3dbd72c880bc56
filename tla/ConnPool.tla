------------------------------- MODULE ConnPool -------------------------------
(***************************************************************************)
(* The pool of db.rs.  A handler that calls pool.get() waits until one of  *)
(* MaxSize connections is free, or bb8 gives up after its time limit; the  *)
(* connection goes back when the variable that holds it leaves its scope.  *)
(* So what a request holds follows from where it is, its pc.               *)
(***************************************************************************)
EXTENDS Naturals, FiniteSets

CONSTANTS
  Requests,  \* concurrent requests
  MaxSize    \* connections of the pool

ASSUME MaxSizeAssumption == MaxSize \in Nat \ {0}
ASSUME RequestsAssumption == IsFiniteSet(Requests)

VARIABLE req  \* the requests in flight

InFlight == DOMAIN req
At(r, pc) == r \in InFlight /\ req[r].pc = pc
GoTo(r, pc) == req' = [req EXCEPT ![r].pc = pc]
Return(r) == req' = [q \in InFlight \ {r} |-> req[q]]

\* Waiting for a connection: for the extractor's statement, for the handler's
\* own, and for a second one while the handler holds its own.
WaitingAt == {"auth?", "conn?", "second?"}
Waiting(r) == r \in InFlight /\ req[r].pc \in WaitingAt

Granted(pc) ==
  CASE pc = "auth?" -> "auth" [] pc = "conn?" -> "conn" [] pc = "second?" -> "second"

\* The extractor's connection kept for the handler.
HeldAt_Bug(pc) ==
  CASE pc \in {"auth?", "done"} -> 0 [] pc = "second" -> 2 [] OTHER -> 1

\* Between "conn" and the end of the handler its own connection is held.
HeldAt(pc) ==
  CASE pc \in {"auth?", "conn?", "done"} -> 0 [] pc = "second" -> 2 [] OTHER -> 1

Holding(n) == {r \in InFlight : HeldAt(req[r].pc) >= n}
InUse == Cardinality(Holding(1)) + Cardinality(Holding(2))

Get(r) ==
  /\ Waiting(r)
  /\ InUse < MaxSize
  /\ GoTo(r, Granted(req[r].pc))

\* No limit on the wait for the second connection.
TimeOut_Bug(r) == Waiting(r) /\ InUse >= MaxSize /\ ~At(r, "second?") /\ Return(r)

\* The limit passes while no connection is free; the handler answers 500 (the
\* extractor: to the login page).
TimeOut(r) == Waiting(r) /\ InUse >= MaxSize /\ Return(r)

\* Nobody who holds a connection can go on.
Blocked == InUse >= MaxSize /\ \A r \in Holding(1) : Waiting(r)
=============================================================================
