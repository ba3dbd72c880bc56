---------------------------- MODULE ContractPages ----------------------------
(***************************************************************************)
(* The pages a party opens: view_contract_for_signing,                     *)
(* contract_signed_success, verify_contract and download_proof (which      *)
(* calls it), over the tables of ContractSigning as the migrations left    *)
(* them.  A page is put together from several statements, between which    *)
(* signing, deletion and edits go on: it may describe a state that never   *)
(* was.  A page writes nothing, so one page at a time shows all that any   *)
(* number of them can.                                                     *)
(***************************************************************************)
EXTENDS Migrations

VARIABLES
  page,    \* the page under way, with what its handler has read so far
  edited,  \* history: the contracts an administrator has PUT
  legacy   \* history: the contracts signed before the slots

pageVars == <<vars, page, edited, legacy>>

Kinds == {"view", "signed", "verify"}

NoPage == [pc |-> "closed"]

PagesInit ==
  /\ MigratedInit
  /\ page = NoPage
  /\ edited = {}
  /\ legacy = {c \in DOMAIN contracts : contracts[c].status = "signed"}

\* The order of the statements turned round.
NextRead_Bug(pc) ==
  CASE pc = "target" -> "signatures" [] pc = "signatures" -> "slots" [] OTHER -> "shown"

\* Every handler reads the slots before the signatures.
NextRead(pc) ==
  CASE pc = "target" -> "slots" [] pc = "slots" -> "signatures" [] OTHER -> "shown"

\* The columns of the contract that the templates use.
Columns(row) ==
  [content |-> row.content, status |-> row.status,
   completed_signatures |-> row.completed_signatures, final_hash |-> row.final_hash]

\* The signatures taken newest first.
FinalHashValidOn_Bug(p) ==
  LET rows == DOMAIN p.signatures
      oldest == CHOOSE s \in rows :
                  \A t \in rows : p.signatures[s].id <= p.signatures[t].id IN
  /\ p.row.final_hash # None
  /\ p.row.status = "signed"
  /\ p.row.final_hash = generate_final_hash(p.row.content, rows \ {oldest}, oldest)

\* The text as it was read first, the signatures as they were read last.
FinalHashValidOn(p) ==
  LET rows == DOMAIN p.signatures
      newest == CHOOSE s \in rows :
                  \A t \in rows : p.signatures[t].id <= p.signatures[s].id IN
  /\ p.row.final_hash # None
  /\ p.row.status = "signed"
  /\ p.row.final_hash = generate_final_hash(p.row.content, rows \ {newest}, newest)

TamperedOn(p) ==
  {s \in DOMAIN p.signatures :
     hash_content(p.row.content) # p.signatures[s].content_hash}

\* What the template is given.  Only the proof page comes to a verdict on the
\* final hash and on each signature.
Template(p) ==
  [pc |-> "shown", kind |-> p.kind, contract_id |-> p.contract_id,
   fully_signed |-> p.row.status = "signed",
   progress_completed |-> p.row.completed_signatures,
   slots |-> p.slots, filled |-> p.filled, signatures |-> DOMAIN p.signatures,
   final_hash_valid |-> p.kind = "verify" /\ FinalHashValidOn(p),
   tampered |-> IF p.kind = "verify" THEN TamperedOn(p) ELSE {},
   edited |-> p.edited]

GoOn(p) ==
  IF NextRead(p.pc) = "shown" THEN Template(p) ELSE [p EXCEPT !.pc = NextRead(@)]

\* The first statement after the customer gate, which has read the contract.
\* Only contract_signed_success looks its signature up at once.  found and
\* edited are history.
Open(kind, c, code) ==
  LET p == [pc |-> "target", kind |-> kind, contract_id |-> c, code |-> code,
            row |-> Columns(contracts[c]), slots |-> {}, filled |-> {},
            signatures |-> NoRows,
            found |-> code \in SignaturesOf(c), edited |-> c \in edited] IN
  /\ page = NoPage
  /\ c \in DOMAIN contracts
  /\ page' = IF kind = "signed" THEN p ELSE GoOn(p)
  /\ UNCHANGED <<vars, edited, legacy>>

\* A verification code is random and belongs to one signature: it is here the
\* slot of that signature, and any slot may be asked for.
ReadTarget ==
  /\ page.pc = "target"
  /\ page' = IF page.code \in SignaturesOf(page.contract_id)
             THEN GoOn(page) ELSE [page EXCEPT !.pc = "missing"]
  /\ UNCHANGED <<vars, edited, legacy>>

ReadSlots ==
  LET rows == SlotsOf(page.contract_id) IN
  /\ page.pc = "slots"
  /\ page' = GoOn([page EXCEPT !.slots = rows,
                              !.filled = {s \in rows : slots[s].is_filled}])
  /\ UNCHANGED <<vars, edited, legacy>>

\* The proof page finds its signature among those it has read.
ReadSignatures ==
  LET rows == SignaturesOf(page.contract_id) IN
  /\ page.pc = "signatures"
  /\ page' = IF page.kind = "verify" /\ page.code \notin rows
             THEN [page EXCEPT !.pc = "missing"]
             ELSE GoOn([page EXCEPT !.signatures = [s \in rows |-> signatures[s]]])
  /\ UNCHANGED <<vars, edited, legacy>>

\* The reader goes away, at the end or before it.
Leave ==
  /\ page # NoPage
  /\ page' = NoPage
  /\ UNCHANGED <<vars, edited, legacy>>

PageStep == ReadTarget \/ ReadSlots \/ ReadSignatures \/ Leave

\* What goes on beside the page.  New contracts have no expiry date: no page
\* looks at the date but to print it.
TablesNext ==
  \/ \E c \in ContractIds, n \in SlotIds, text \in Contents :
       CreateContract(c, n, text, None)
  \/ \E c \in ContractIds : DeleteContract(c)
  \/ \E r \in Requests, c \in ContractIds, s \in SlotIds : Begin(r, c, s)
  \/ \E r \in Requests : Step(r) \/ Abort(r)

PagesNext ==
  \/ TablesNext /\ UNCHANGED <<page, edited, legacy>>
  \/ \E c \in ContractIds, p \in Payloads :
       /\ UpdateContract(c, p)
       /\ edited' = edited \cup {c}
       /\ UNCHANGED <<page, legacy>>
  \/ \E c \in ContractIds :
       \/ Open("view", c, None)
       \/ \E kind \in Kinds \ {"view"}, code \in SlotIds : Open(kind, c, code)
  \/ PageStep

PagesSpec == PagesInit /\ [][PagesNext]_pageVars

-----------------------------------------------------------------------------
(* Properties *)

Shown == page.pc = "shown"

\* A page shows no slot as filled without the signature in it, and never counts
\* more signatures than it shows filled slots, although contract, slots and
\* signatures were read one after the other while parties signed.
PageIsBacked ==
  Shown =>
    /\ page.filled \subseteq page.signatures
    /\ ~page.edited => page.progress_completed <= Cardinality(page.filled)

\* A page that calls a contract fully signed shows every slot filled and signed,
\* for a contract signed before the slots too.
SignedPageIsComplete ==
  Shown /\ page.fully_signed /\ ~page.edited =>
    page.slots # {} /\ page.filled = page.slots /\ page.signatures = page.slots

\* The proof page of a contract signed under this schema finds the final hash
\* valid and flags nobody, whatever is signed, deleted or PUT while it is read.
\* For one signed earlier the verdict is always negative: it has no final hash.
SignedPageVerifies ==
  Shown /\ page.kind = "verify" /\ page.fully_signed /\ ~page.edited =>
    IF page.contract_id \in legacy THEN ~page.final_hash_valid
    ELSE page.final_hash_valid /\ page.tampered = {}

\* A verification code that was good when the page was asked for is found: the
\* link a party was given is never answered "not found".
CodeStaysGood == page.pc = "missing" => ~page.found
=============================================================================
