--------------------------- MODULE ContractSigning ---------------------------
(***************************************************************************)
(* The life of a contract: handlers/contracts.rs over the three tables     *)
(* contracts, contract_signature_slots and contract_signatures.            *)
(*                                                                         *)
(* A table is a function whose DOMAIN is the set of its rows' keys.  One   *)
(* action is one statement that SQLite executes, or one transaction; the   *)
(* handler sign_contract has no transaction, so its five statements are    *)
(* five actions, between which other requests run and the request itself   *)
(* may end.  A request holds in req what the handler keeps in its local    *)
(* variables: the contract as it was when verify_customer_uuid read it.    *)
(*                                                                         *)
(* Left out: the customer gate and the rate limiter in front of            *)
(* sign_contract (a request they refuse touches none of these tables), and *)
(* the columns no statement here reads back.                               *)
(*                                                                         *)
(* An operator whose name ends in Bug is a wrong version of the definition *)
(* below it: nothing uses it, and it is there to show that a property      *)
(* would notice.                                                           *)
(***************************************************************************)
EXTENDS Integers, FiniteSets

CONSTANTS
  ContractIds,  \* the UUIDs create_contract draws, each at most once
  MaxSlots,     \* bound on the AUTOINCREMENT ids of contract_signature_slots
  Contents,     \* contract texts
  Requests,     \* concurrent sign_contract calls
  MaxTime,      \* bound on the clock
  Payloads,     \* bodies an administrator may PUT
  Failures,     \* TRUE: a statement may fail, a client may hang up
  None          \* SQL NULL and Rust None

SlotIds == 1 .. MaxSlots
Times == 0 .. MaxTime

\* "pending" and "signed" are what the handlers write; "other" is any other
\* text an administrator puts into the column.
Statuses == {"pending", "signed", "other"}

\* The columns of a contract that the handlers read back.  An expires_at that
\* does not parse as a date never closes a contract: it is None here.
ContractRow(hashes) ==
  [content : Contents, expires_at : Times \cup {None}, status : Statuses,
   required_signatures : Int, completed_signatures : Int,
   final_hash : hashes \cup {None}]

\* The column takes the text itself.
hash_content_Bug(text) == text

\* SHA-256, collision free.
hash_content(text) == [sha256 |-> text]

\* The final hash covers the text and, for every signature in table order, the
\* columns signature_hash, signed_at and content_hash.  A row of
\* contract_signatures never changes and idx_slot_signature makes slot_id a key
\* of it, so slot_id stands for the three columns; the rows loaded from the
\* table come in the order of their ids, so their set determines their order;
\* the signer's own columns are pushed last.
generate_final_hash(content, existing, last) ==
  [content |-> content, existing |-> existing, last |-> last]

FinalHashes == [content : Contents, existing : SUBSET SlotIds, last : SlotIds]

ASSUME BoundsAssumption == MaxSlots \in Nat /\ MaxTime \in Nat
ASSUME FiniteAssumption == IsFiniteSet(Requests)
ASSUME NoneAssumption == None \notin Int /\ None \notin FinalHashes
ASSUME PayloadAssumption == Payloads \subseteq ContractRow(FinalHashes)
ASSUME FailuresAssumption == Failures \in BOOLEAN

VARIABLES
  contracts,   \* table contracts
  issued,      \* contract UUIDs drawn so far
  slots,       \* table contract_signature_slots
  nextSlot,    \* its AUTOINCREMENT counter
  signatures,  \* table contract_signatures, by its unique column slot_id
  now,         \* Utc::now()
  req          \* the sign_contract calls in flight, with their local variables

vars == <<contracts, issued, slots, nextSlot, signatures, now, req>>
tables == <<contracts, issued, slots, nextSlot, signatures>>

-----------------------------------------------------------------------------
(* Queries *)

NoRows == [k \in {} |-> k]

SlotsOf(c) == {s \in DOMAIN slots : slots[s].contract_id = c}
SignaturesOf(c) == {s \in DOMAIN signatures : signatures[s].contract_id = c}

Expired(expires_at) == expires_at # None /\ now > expires_at

\* The own signature counted twice.
IsFullySigned_Bug(q) == q.completed_signatures + 2 >= q.required_signatures

\* The handler's arithmetic on its snapshot: does this signature complete the
\* contract?
IsFullySigned(q) == q.completed_signatures + 1 >= q.required_signatures

-----------------------------------------------------------------------------
(* Administrator's handlers: one transaction or statement each *)

Init ==
  /\ contracts = NoRows /\ issued = {}
  /\ slots = NoRows /\ nextSlot = 1
  /\ signatures = NoRows
  /\ now = 0
  /\ req = NoRows

\* create_contract: one transaction inserts the contract and its n >= 1 slots.
CreateContract(c, n, text, expires_at) ==
  LET new == nextSlot .. nextSlot + n - 1 IN
  /\ c \notin issued
  /\ new \subseteq SlotIds
  /\ issued' = issued \cup {c}
  /\ contracts' = [d \in DOMAIN contracts \cup {c} |->
       IF d # c THEN contracts[d]
       ELSE [content |-> text, expires_at |-> expires_at, status |-> "pending",
             required_signatures |-> n, completed_signatures |-> 0,
             final_hash |-> None]]
  /\ slots' = [s \in DOMAIN slots \cup new |->
       IF s \notin new THEN slots[s]
       ELSE [contract_id |-> c, is_filled |-> FALSE]]
  /\ nextSlot' = nextSlot + n
  /\ UNCHANGED <<signatures, now, req>>

\* update_contract: AsChangeset skips a column whose payload field is None.
UpdateContract(c, p) ==
  /\ c \in DOMAIN contracts
  /\ contracts' = [contracts EXCEPT ![c] =
       [p EXCEPT !.expires_at = IF @ = None THEN contracts[c].expires_at ELSE @,
                 !.final_hash = IF @ = None THEN contracts[c].final_hash ELSE @]]
  /\ UNCHANGED <<issued, slots, nextSlot, signatures, now, req>>

\* A contract deleted whatever has been signed.
DeleteContract_Bug(c) ==
  /\ c \in DOMAIN contracts
  /\ contracts' = [d \in DOMAIN contracts \ {c} |-> contracts[d]]
  /\ slots' = [s \in DOMAIN slots \ SlotsOf(c) |-> slots[s]]
  /\ signatures' = [s \in DOMAIN signatures \ SlotsOf(c) |-> signatures[s]]
  /\ UNCHANGED <<issued, nextSlot, now, req>>

\* delete_contract: the foreign key of contract_signatures refuses a contract
\* that has a signature; the one of contract_signature_slots cascades.
DeleteContract(c) ==
  /\ c \in DOMAIN contracts
  /\ SignaturesOf(c) = {}
  /\ contracts' = [d \in DOMAIN contracts \ {c} |-> contracts[d]]
  /\ slots' = [s \in DOMAIN slots \ SlotsOf(c) |-> slots[s]]
  /\ UNCHANGED <<issued, nextSlot, signatures, now, req>>

-----------------------------------------------------------------------------
(* sign_contract, statement by statement *)

InFlight == DOMAIN req
At(r, pc) == r \in InFlight /\ req[r].pc = pc
GoTo(r, pc) == req' = [req EXCEPT ![r].pc = pc]
Return(r) == req' = [q \in InFlight \ {r} |-> req[q]]

\* verify_customer_uuid lets the request in and hands it the contract row; the
\* slot id is whatever the client sent.
Begin(r, c, s) ==
  /\ r \notin InFlight
  /\ c \in DOMAIN contracts
  /\ req' = [q \in InFlight \cup {r} |->
       IF q # r THEN req[q]
       ELSE [pc |-> "slot", contract_id |-> c, slot_id |-> s,
             content |-> contracts[c].content,
             status |-> contracts[c].status,
             expires_at |-> contracts[c].expires_at,
             required_signatures |-> contracts[c].required_signatures,
             completed_signatures |-> contracts[c].completed_signatures,
             existing |-> {}]]
  /\ UNCHANGED <<tables, now>>

\* The slot looked up without its contract.
MaySign_AnySlotBug(q) ==
  /\ q.slot_id \in DOMAIN slots /\ ~slots[q.slot_id].is_filled
  /\ q.status = "pending" /\ ~Expired(q.expires_at)

\* The expiry date forgotten.
MaySign_NoExpiryBug(q) ==
  /\ q.slot_id \in SlotsOf(q.contract_id) /\ ~slots[q.slot_id].is_filled
  /\ q.status = "pending"

\* The checks after the slot is read: it belongs to the contract and is not
\* filled (the row of now), the contract is pending and has not expired (the
\* snapshot).
MaySign(q) ==
  /\ q.slot_id \in SlotsOf(q.contract_id)
  /\ ~slots[q.slot_id].is_filled
  /\ q.status = "pending"
  /\ ~Expired(q.expires_at)

LoadSlot(r) ==
  /\ At(r, "slot")
  /\ IF MaySign(req[r])
       THEN GoTo(r, IF IsFullySigned(req[r]) THEN "load" ELSE "insert")
       ELSE Return(r)
  /\ UNCHANGED <<tables, now>>

\* The existing rows loaded after the own one was inserted.
LoadSignatures_Bug(r) ==
  /\ At(r, "load")
  /\ req' = [req EXCEPT ![r] =
       [@ EXCEPT !.existing = SignaturesOf(req[r].contract_id) \cup {req[r].slot_id},
                 !.pc = "insert"]]
  /\ UNCHANGED <<tables, now>>

\* Only the request that believes it is the last one loads the others' rows.
LoadSignatures(r) ==
  /\ At(r, "load")
  /\ req' = [req EXCEPT ![r] =
       [@ EXCEPT !.existing = SignaturesOf(req[r].contract_id),
                 !.pc = "insert"]]
  /\ UNCHANGED <<tables, now>>

\* An upsert in place of the INSERT.
InsertSignature_Bug(r) ==
  LET q == req[r] IN
  /\ At(r, "insert")
  /\ q.contract_id \in DOMAIN contracts
  /\ signatures' = [s \in DOMAIN signatures \cup {q.slot_id} |->
       IF s # q.slot_id THEN signatures[s]
       ELSE [id |-> Cardinality(DOMAIN signatures) + 1,
             contract_id |-> q.contract_id,
             content_hash |-> hash_content(q.content)]]
  /\ GoTo(r, "fill")
  /\ UNCHANGED <<contracts, issued, slots, nextSlot, now>>

\* The INSERT fails on idx_slot_signature, or on the foreign key when the
\* contract is gone; the error is returned.
InsertSignature(r) ==
  LET q == req[r] IN
  /\ At(r, "insert")
  /\ IF q.contract_id \in DOMAIN contracts /\ q.slot_id \notin DOMAIN signatures
       THEN /\ signatures' = [s \in DOMAIN signatures \cup {q.slot_id} |->
                 IF s # q.slot_id THEN signatures[s]
                 ELSE [id |-> Cardinality(DOMAIN signatures) + 1,
                       contract_id |-> q.contract_id,
                       content_hash |-> hash_content(q.content)]]
            /\ GoTo(r, "fill")
       ELSE Return(r) /\ UNCHANGED signatures
  /\ UNCHANGED <<contracts, issued, slots, nextSlot, now>>

\* Every slot of the contract filled.
FillSlot_AllBug(r) ==
  /\ At(r, "fill")
  /\ slots' = [s \in DOMAIN slots |->
       IF s \in SlotsOf(req[r].contract_id)
       THEN [slots[s] EXCEPT !.is_filled = TRUE] ELSE slots[s]]
  /\ GoTo(r, "count")
  /\ UNCHANGED <<contracts, issued, nextSlot, signatures, now>>

\* The handler returns when the slot is filled.
FillSlot_ReturnBug(r) ==
  /\ At(r, "fill")
  /\ slots' = [slots EXCEPT ![req[r].slot_id].is_filled = TRUE]
  /\ Return(r)
  /\ UNCHANGED <<contracts, issued, nextSlot, signatures, now>>

FillSlot(r) ==
  /\ At(r, "fill")
  /\ slots' = [s \in DOMAIN slots |->
       IF s = req[r].slot_id THEN [slots[s] EXCEPT !.is_filled = TRUE]
       ELSE slots[s]]
  /\ GoTo(r, "count")
  /\ UNCHANGED <<contracts, issued, nextSlot, signatures, now>>

\* The rows counted after the INSERT, and the own one added again.
CountedRow_CountBug(row, q) ==
  [row EXCEPT
     !.completed_signatures = Cardinality(SignaturesOf(q.contract_id)) + 1,
     !.status = IF IsFullySigned(q) THEN "signed" ELSE "pending",
     !.final_hash = IF IsFullySigned(q)
                    THEN generate_final_hash(q.content, q.existing, q.slot_id)
                    ELSE None]

\* The own signature not counted.
CountedRow_NoCountBug(row, q) ==
  [row EXCEPT
     !.completed_signatures = q.completed_signatures,
     !.status = IF IsFullySigned(q) THEN "signed" ELSE "pending"]

\* The final hash left for later.
CountedRow_NoHashBug(row, q) ==
  [row EXCEPT
     !.completed_signatures = q.completed_signatures + 1,
     !.status = IF IsFullySigned(q) THEN "signed" ELSE "pending"]

\* The last UPDATE writes the snapshot's count plus one, whatever the row holds
\* by now, and with it the status and the final hash (NULL when not complete).
CountedRow(row, q) ==
  [row EXCEPT
     !.completed_signatures = q.completed_signatures + 1,
     !.status = IF IsFullySigned(q) THEN "signed" ELSE "pending",
     !.final_hash = IF IsFullySigned(q)
                    THEN generate_final_hash(q.content, q.existing, q.slot_id)
                    ELSE None]

CountSignature(r) ==
  /\ At(r, "count")
  /\ contracts' = [c \in DOMAIN contracts |->
       IF c = req[r].contract_id THEN CountedRow(contracts[c], req[r])
       ELSE contracts[c]]
  /\ Return(r)
  /\ UNCHANGED <<issued, slots, nextSlot, signatures, now>>

\* A statement returns an error (SQLITE_BUSY, a lost connection), the client
\* hangs up and axum drops the future, or the process stops: what the request
\* has written stays, what it had left to do is never done.
Abort(r) ==
  /\ Failures
  /\ r \in InFlight
  /\ Return(r)
  /\ UNCHANGED <<tables, now>>

Tick ==
  /\ now < MaxTime
  /\ now' = now + 1
  /\ UNCHANGED <<tables, req>>

-----------------------------------------------------------------------------
Step(r) ==
  \/ LoadSlot(r) \/ LoadSignatures(r)
  \/ InsertSignature(r) \/ FillSlot(r) \/ CountSignature(r)

\* Everything except update_contract, which no page of the dashboard calls.
SigningNext ==
  \/ \E c \in ContractIds, n \in SlotIds, text \in Contents,
        e \in Times \cup {None} : CreateContract(c, n, text, e)
  \/ \E c \in ContractIds : DeleteContract(c)
  \/ \E r \in Requests, c \in ContractIds, s \in SlotIds : Begin(r, c, s)
  \/ \E r \in Requests : Step(r) \/ Abort(r)
  \/ Tick

Next ==
  \/ SigningNext
  \/ \E c \in ContractIds, p \in Payloads : UpdateContract(c, p)

SigningSpec == Init /\ [][SigningNext]_vars

\* Tokio runs every task that can run, and a statement returns: a request that
\* is let in goes on until it returns.
FairSigningSpec == SigningSpec /\ \A r \in Requests : WF_vars(Step(r))

Spec == Init /\ [][Next]_vars

-----------------------------------------------------------------------------
(* What verify_contract computes for the proof page *)

\* The row with the highest id, the last one the query returns.
Newest(rows) ==
  CHOOSE s \in rows : \A t \in rows : signatures[t].id <= signatures[s].id

\* The page is about one of the signatures: it is not shown when there is none.
FinalHashValid(c) ==
  LET rows == SignaturesOf(c)
      row == contracts[c] IN
  /\ row.final_hash # None
  /\ row.status = "signed"
  /\ rows # {}
  /\ row.final_hash =
       generate_final_hash(row.content, rows \ {Newest(rows)}, Newest(rows))

Tampered(s) ==
  signatures[s].content_hash #
    hash_content(contracts[signatures[s].contract_id].content)

-----------------------------------------------------------------------------
(* Properties *)

RequestState ==
  [pc : {"slot", "load", "insert", "fill", "count"},
   contract_id : ContractIds, slot_id : SlotIds,
   content : Contents, status : Statuses, expires_at : Times \cup {None},
   required_signatures : Int, completed_signatures : Int,
   existing : SUBSET SlotIds]

SlotRow == [contract_id : ContractIds, is_filled : BOOLEAN]

\* A signature older than the column content_hash has the hash of nothing.
SignatureRow ==
  [id : Nat, contract_id : ContractIds, content_hash : [sha256 : Contents \cup {None}]]

IsTable(table, Keys, Rows) ==
  /\ table = [k \in DOMAIN table |-> table[k]]
  /\ DOMAIN table \subseteq Keys
  /\ \A k \in DOMAIN table : table[k] \in Rows

\* Every table holds rows of its schema, and no id is ahead of its counter.
TypeOK ==
  /\ IsTable(contracts, issued, ContractRow(FinalHashes))
  /\ issued \subseteq ContractIds
  /\ nextSlot \in 1 .. MaxSlots + 1
  /\ IsTable(slots, 1 .. nextSlot - 1, SlotRow)
  /\ IsTable(signatures, SlotIds, SignatureRow)
  /\ now \in Times
  /\ IsTable(req, Requests, RequestState)

\* No slot outlives its contract, and a signature stands in a slot of the very
\* contract it names.  The schema enforces only half of it: slot_id carries no
\* foreign key, so the second half rests on LoadSlot's filter and on the foreign
\* key that keeps a contract with signatures from being deleted.
ReferentialIntegrity ==
  /\ \A s \in DOMAIN slots : slots[s].contract_id \in DOMAIN contracts
  /\ \A s \in DOMAIN signatures :
       /\ s \in DOMAIN slots
       /\ signatures[s].contract_id = slots[s].contract_id

\* A slot is shown as filled only when a signature stands in it.
FilledHasSignature ==
  \A s \in DOMAIN slots : slots[s].is_filled => s \in DOMAIN signatures

\* Once written, a signature is neither removed nor replaced, and its slot, once
\* filled, is never opened again.
SignaturesPersist ==
  [][/\ \A s \in DOMAIN signatures :
          s \in DOMAIN signatures' /\ signatures'[s] = signatures[s]
     /\ \A s \in DOMAIN slots \cap DOMAIN slots' :
          slots[s].is_filled => slots'[s].is_filled]_vars

\* The filled slots whose request is over, counted or not.
Working(r) == r \in InFlight /\ req[r].pc \in {"fill", "count"}
AtWork(s) == \E r \in Requests : Working(r) /\ req[r].slot_id = s
Settled(c) == {s \in SlotsOf(c) : slots[s].is_filled /\ ~AtWork(s)}

\* However requests interleave and wherever they stop, the count shown for a
\* contract is never above the number of its filled slots whose request is over:
\* lost updates and failures only lose counts.
CountNeverAhead ==
  \A c \in DOMAIN contracts :
    contracts[c].completed_signatures <= Cardinality(Settled(c))

\* "signed" means that every slot of the contract holds a signature, that every
\* one of them is shown as filled, and that no request is still at work on it.
SignedMeansAllSigned ==
  \A c \in DOMAIN contracts : contracts[c].status = "signed" =>
    /\ SlotsOf(c) # {}
    /\ \A s \in SlotsOf(c) : s \in DOMAIN signatures /\ slots[s].is_filled
    /\ \A r \in InFlight :
         req[r].contract_id = c => req[r].pc \notin {"fill", "count"}

\* A contract that is signed stays as it is: a request that read it while it was
\* still pending cannot write to it any more.
SignedIsFinal ==
  [][\A c \in DOMAIN contracts : contracts[c].status = "signed" =>
       /\ c \in DOMAIN contracts'
       /\ contracts'[c] = contracts[c]
       /\ SignaturesOf(c)' = SignaturesOf(c)
       /\ \A s \in SignaturesOf(c) : signatures'[s] = signatures[s]]_vars

\* The proof page of a signed contract finds the final hash valid and no
\* signature tampered with: the request that completed the contract had loaded
\* exactly the other signatures.
FinalProofHolds ==
  \A c \in DOMAIN contracts : contracts[c].status = "signed" =>
    FinalHashValid(c) /\ \A s \in SignaturesOf(c) : ~Tampered(s)

\* Past its expiry date a contract is closed once the requests that passed the
\* check in time are over: it stays closed, and nothing is signed any more.
Closed(c) ==
  /\ Expired(contracts[c].expires_at)
  /\ \A r \in InFlight : req[r].contract_id = c => req[r].pc = "slot"

ExpiryCloses ==
  [][\A c \in DOMAIN contracts \cap DOMAIN contracts' : Closed(c) =>
       Closed(c)' /\ SignaturesOf(c)' = SignaturesOf(c)]_vars

\* What a party sees of a contract.
PhaseOf(c) ==
  IF c \notin issued THEN "absent"
  ELSE IF c \notin DOMAIN contracts THEN "withdrawn"
  ELSE contracts[c].status

\* The service keeps its promise to the parties.
Promise == INSTANCE SigningPromise WITH
  phase <- [c \in ContractIds |-> PhaseOf(c)],
  parties <- [c \in ContractIds |-> SlotsOf(c)],
  signedBy <- [c \in ContractIds |-> SignaturesOf(c)]

KeepsPromise == Promise!Spec

\* With no request at work on it, a contract's count and its filled slots are
\* its signatures, and it is signed exactly when there are as many as slots.
Quiet(c) == \A r \in InFlight : req[r].contract_id # c

CountTracksSignatures ==
  \A c \in DOMAIN contracts : Quiet(c) =>
    /\ contracts[c].completed_signatures = Cardinality(SignaturesOf(c))
    /\ {s \in SlotsOf(c) : slots[s].is_filled} = SignaturesOf(c)
    /\ contracts[c].status = "signed" <=> SignaturesOf(c) = SlotsOf(c)

\* The final hash "is created when the last signature is added" (crypto.rs:121):
\* with every slot signed and nobody at work, there is one.
FinalHashOnceAllSigned ==
  \A c \in DOMAIN contracts :
    Quiet(c) /\ SignaturesOf(c) = SlotsOf(c) => contracts[c].final_hash # None

\* A contract whose last slot is signed becomes signed.
LastSignatureCompletes ==
  \A c \in ContractIds :
    (c \in DOMAIN contracts /\ SignaturesOf(c) = SlotsOf(c))
      ~> (c \in DOMAIN contracts /\ contracts[c].status = "signed")

\* The valid final hash "provides a single immutable proof that all parties
\* signed the same version of the contract" (contract_proof.html:484).
FinalHashProvesOneVersion ==
  \A c \in DOMAIN contracts :
    FinalHashValid(c) =>
      \A s, t \in SignaturesOf(c) :
        signatures[s].content_hash = signatures[t].content_hash
=============================================================================
