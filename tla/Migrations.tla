------------------------------ MODULE Migrations ------------------------------
(***************************************************************************)
(* The tables as the migrations of 2026-05-02 leave them: a contract used  *)
(* to have one signature, and gets one slot to hold it.  Each operator     *)
(* below is one statement of those scripts; the diesel tool runs them      *)
(* before the server is started, so together they are an initial state.    *)
(*                                                                         *)
(* The program that filled the old tables is not in the repository.  Its   *)
(* unique index allowed one signature per contract; taken from it is that  *)
(* a contract was signed when it had one.                                  *)
(***************************************************************************)
EXTENDS ContractSigning, Functions

\* A signature older than the column content_hash has its DEFAULT, '', which is
\* the hash of no text.
NoHash == [sha256 |-> None]

\* The columns ADDed to contracts come with their DEFAULTs.
AddSignatureFields(old) ==
  [c \in DOMAIN old |->
     [content |-> old[c].content, expires_at |-> old[c].expires_at,
      status |-> old[c].status, required_signatures |-> 1,
      completed_signatures |-> 0, final_hash |-> None]]

\* Every slot left open.
CreateSlots_OpenBug(old, place) ==
  [s \in 1 .. Cardinality(DOMAIN old) |->
     [contract_id |-> CHOOSE c \in DOMAIN old : place[c] = s, is_filled |-> FALSE]]

\* Step 1: a slot for every contract, filled when the contract is signed; place
\* is the order in which the SELECT returns the contracts.
CreateSlots(old, place) ==
  [s \in 1 .. Cardinality(DOMAIN old) |->
     LET c == CHOOSE d \in DOMAIN old : place[d] = s
     IN  [contract_id |-> c, is_filled |-> old[c].status = "signed"]]

\* Step 2: a signature goes into the slot of its contract.
LinkSignatures(oldSignatures, place) ==
  [s \in {place[c] : c \in DOMAIN oldSignatures} |->
     LET c == CHOOSE d \in DOMAIN oldSignatures : place[d] = s
     IN  [id |-> oldSignatures[c].id, contract_id |-> c,
          content_hash |-> oldSignatures[c].content_hash]]

\* Step 3: a signed contract has its one signature.  Step 4 is a comment: it
\* leaves final_hash NULL.
CountOldSignatures(rows) ==
  [c \in DOMAIN rows |->
     [rows[c] EXCEPT !.completed_signatures =
        IF rows[c].status = "signed" THEN 1 ELSE 0]]

\* The orders in which ids can be given to the members of S.
Numberings(S) == Bijection(S, 1 .. Cardinality(S))

OldRow == [content : Contents, expires_at : Times \cup {None},
           status : {"pending", "signed"}]

MigratedInit ==
  \E olds \in SUBSET ContractIds :
    /\ IsFiniteSet(olds) /\ Cardinality(olds) <= MaxSlots
    /\ \E old \in [olds -> OldRow] :
         LET closed == {c \in olds : old[c].status = "signed"} IN
         \E hashed \in SUBSET closed, place \in Numberings(olds),
            order \in Numberings(closed) :
           /\ contracts = CountOldSignatures(AddSignatureFields(old))
           /\ slots = CreateSlots(old, place)
           /\ signatures = LinkSignatures(
                [c \in closed |->
                   [id |-> order[c],
                    content_hash |-> IF c \in hashed
                                     THEN hash_content(old[c].content) ELSE NoHash]],
                place)
           /\ issued = olds
           /\ nextSlot = Cardinality(olds) + 1
           /\ now = 0
           /\ req = NoRows
=============================================================================
