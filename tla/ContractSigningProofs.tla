------------------------ MODULE ContractSigningProofs ------------------------
(***************************************************************************)
(* Proofs about ContractSigning, for every value of its constants.         *)
(***************************************************************************)
EXTENDS ContractSigningInv, FiniteSetTheorems, TLAPS

LEMMA SlotIdsFinite == IsFiniteSet(SlotIds)
BY FS_Interval, BoundsAssumption DEF SlotIds

-----------------------------------------------------------------------------
(* Type correctness *)

LEMMA TypeInit == Init => TypeOK
BY BoundsAssumption DEF Init, TypeOK, IsTable, NoRows, Times

\* An UPDATE of one row.
LEMMA RowReplaced ==
  ASSUME NEW table, NEW Keys, NEW Rows, IsTable(table, Keys, Rows),
         NEW k \in DOMAIN table, NEW row \in Rows
  PROVE  IsTable([table EXCEPT ![k] = row], Keys, Rows)
BY DEF IsTable

LEMMA TypeCreateContract ==
  ASSUME TypeOK, NEW c \in ContractIds, NEW n \in SlotIds, NEW text \in Contents,
         NEW e \in Times \cup {None}, CreateContract(c, n, text, e)
  PROVE  TypeOK'
<1> DEFINE new == nextSlot .. nextSlot + n - 1
<1>1. n \in Nat \ {0} /\ nextSlot \in Nat \ {0} /\ nextSlot + n - 1 \in new
      /\ nextSlot + n \in 1 .. MaxSlots + 1
  BY BoundsAssumption DEF CreateContract, SlotIds, TypeOK
<1>2. IsTable(contracts', issued', ContractRow(FinalHashes))
  BY DEF CreateContract, TypeOK, IsTable, ContractRow, Statuses, SlotIds
<1>3. IsTable(slots', 1 .. nextSlot' - 1, SlotRow)
  BY <1>1 DEF CreateContract, TypeOK, IsTable, SlotRow
<1>4. /\ issued' \subseteq ContractIds
      /\ nextSlot' \in 1 .. MaxSlots + 1
      /\ UNCHANGED <<signatures, now, req>>
  BY <1>1 DEF CreateContract, TypeOK
<1> QED
  BY <1>2, <1>3, <1>4 DEF TypeOK

LEMMA TypeUpdateContract ==
  ASSUME TypeOK, NEW c \in ContractIds, NEW p \in Payloads, UpdateContract(c, p)
  PROVE  TypeOK'
<1> DEFINE e == IF p.expires_at = None THEN contracts[c].expires_at
                ELSE p.expires_at
           h == IF p.final_hash = None THEN contracts[c].final_hash
                ELSE p.final_hash
           row == [p EXCEPT !.expires_at = e, !.final_hash = h]
<1>a. p \in ContractRow(FinalHashes) /\ contracts[c] \in ContractRow(FinalHashes)
  BY PayloadAssumption DEF UpdateContract, TypeOK, IsTable
<1>b. e \in Times \cup {None} /\ h \in FinalHashes \cup {None}
  BY <1>a DEF ContractRow
<1>c. contracts' = [contracts EXCEPT ![c] = row]
  BY DEF UpdateContract
<1>d. row \in ContractRow(FinalHashes)
  <2> HIDE DEF e, h
  <2> QED BY <1>a, <1>b DEF ContractRow
<1> HIDE DEF row
<1>1. IsTable(contracts', issued', ContractRow(FinalHashes))
  <2>1. IsTable(contracts, issued, ContractRow(FinalHashes))
        /\ c \in DOMAIN contracts /\ issued' = issued
    BY DEF UpdateContract, TypeOK
  <2> QED
    BY <1>c, <1>d, <2>1, RowReplaced
<1> QED
  BY <1>1 DEF UpdateContract, TypeOK

LEMMA TypeDeleteContract ==
  ASSUME TypeOK, NEW c \in ContractIds, DeleteContract(c)
  PROVE  TypeOK'
BY DEF DeleteContract, TypeOK, IsTable

LEMMA TypeBegin ==
  ASSUME TypeOK, NEW r \in Requests, NEW c \in ContractIds, NEW s \in SlotIds,
         Begin(r, c, s)
  PROVE  TypeOK'
<1>1. IsTable(req', Requests, RequestState)
  BY DEF Begin, TypeOK, IsTable, InFlight, RequestState, ContractRow
<1> QED
  BY <1>1 DEF Begin, tables, TypeOK

\* The request's own moves keep its record well formed.
LEMMA TypeMove ==
  ASSUME TypeOK, NEW r \in InFlight
  PROVE  /\ Return(r) => IsTable(req', Requests, RequestState)
         /\ \A pc \in {"slot", "load", "insert", "fill", "count"} :
              GoTo(r, pc) => IsTable(req', Requests, RequestState)
<1>1. Return(r) => IsTable(req', Requests, RequestState)
  BY DEF TypeOK, IsTable, InFlight, Return
<1>2. ASSUME NEW pc \in {"slot", "load", "insert", "fill", "count"}, GoTo(r, pc)
      PROVE  IsTable(req', Requests, RequestState)
  <2>1. [req[r] EXCEPT !.pc = pc] \in RequestState
    BY DEF TypeOK, IsTable, InFlight, RequestState
  <2> QED
    BY <1>2, <2>1 DEF TypeOK, IsTable, GoTo
<1> QED
  BY <1>1, <1>2

LEMMA TypeStep ==
  ASSUME TypeOK, NEW r \in Requests, Step(r) \/ Abort(r)
  PROVE  TypeOK'
<1>1. CASE LoadSlot(r)
  BY <1>1, TypeMove DEF LoadSlot, At, tables, TypeOK
<1>2. CASE LoadSignatures(r)
  <2>1. SignaturesOf(req[r].contract_id) \subseteq SlotIds
    BY DEF SignaturesOf, TypeOK, IsTable
  <2>2. req[r] \in RequestState
    BY <1>2 DEF LoadSignatures, At, InFlight, TypeOK, IsTable
  <2>3. IsTable(req', Requests, RequestState)
    <3> DEFINE loaded == [req[r] EXCEPT !.existing = SignaturesOf(req[r].contract_id),
                                        !.pc = "insert"]
    <3>1. req' = [req EXCEPT ![r] = loaded]
      BY <1>2 DEF LoadSignatures
    <3>2. loaded \in RequestState
      BY <2>1, <2>2 DEF RequestState
    <3>3. IsTable(req, Requests, RequestState) /\ r \in DOMAIN req
      BY <1>2 DEF LoadSignatures, At, InFlight, TypeOK
    <3> HIDE DEF loaded
    <3> QED
      BY <3>1, <3>2, <3>3, RowReplaced
  <2> QED
    BY <1>2, <2>3 DEF LoadSignatures, tables, TypeOK
<1>3. CASE InsertSignature(r)
  <2>1. Cardinality(DOMAIN signatures) + 1 \in Nat
    BY SlotIdsFinite, FS_Subset, FS_CardinalityType DEF TypeOK, IsTable
  <2>2. req[r] \in RequestState
    BY <1>3 DEF InsertSignature, At, InFlight, TypeOK, IsTable
  <2>3. IsTable(signatures', SlotIds, SignatureRow)
    BY <1>3, <2>1, <2>2
       DEF InsertSignature, TypeOK, IsTable, SignatureRow, RequestState,
           hash_content
  <2>4. IsTable(req', Requests, RequestState)
    BY <1>3, TypeMove DEF InsertSignature, At
  <2> QED
    BY <1>3, <2>3, <2>4 DEF InsertSignature, TypeOK
<1>4. CASE FillSlot(r)
  <2>1. IsTable(slots', 1 .. nextSlot - 1, SlotRow)
    <3>1. \A s \in DOMAIN slots : [slots[s] EXCEPT !.is_filled = TRUE] \in SlotRow
      BY DEF TypeOK, IsTable, SlotRow
    <3> QED
      BY <1>4, <3>1 DEF FillSlot, TypeOK, IsTable
  <2> QED
    BY <1>4, <2>1, TypeMove DEF FillSlot, At, TypeOK
<1>5. CASE CountSignature(r)
  <2>1. req[r] \in RequestState
    BY <1>5 DEF CountSignature, At, InFlight, TypeOK, IsTable
  <2>2. generate_final_hash(req[r].content, req[r].existing, req[r].slot_id)
          \in FinalHashes
    BY <2>1 DEF generate_final_hash, FinalHashes, RequestState
  <2>3. \A row \in ContractRow(FinalHashes) :
          CountedRow(row, req[r]) \in ContractRow(FinalHashes)
    <3> TAKE row \in ContractRow(FinalHashes)
    <3> DEFINE hash == CountedRow(row, req[r]).final_hash
               status == CountedRow(row, req[r]).status
    <3>1. hash \in FinalHashes \cup {None} /\ status \in Statuses
      BY <2>2 DEF CountedRow, ContractRow, Statuses
    <3>2. CountedRow(row, req[r]) =
            [row EXCEPT !.completed_signatures = req[r].completed_signatures + 1,
                        !.status = status, !.final_hash = hash]
      BY DEF CountedRow, ContractRow
    <3>3. req[r].completed_signatures + 1 \in Int
      BY <2>1 DEF RequestState
    <3> HIDE DEF hash, status
    <3> QED
      BY <3>1, <3>2, <3>3 DEF ContractRow
  <2>4. IsTable(contracts', issued, ContractRow(FinalHashes))
    BY <1>5, <2>3 DEF CountSignature, TypeOK, IsTable
  <2> QED
    BY <1>5, <2>4, TypeMove DEF CountSignature, At, TypeOK
<1>6. CASE Abort(r)
  BY <1>6, TypeMove DEF Abort, tables, TypeOK
<1> QED
  BY <1>1, <1>2, <1>3, <1>4, <1>5, <1>6 DEF Step

LEMMA TypeNext == TypeOK /\ [Next]_vars => TypeOK'
<1> SUFFICES ASSUME TypeOK, [Next]_vars PROVE TypeOK'
  OBVIOUS
<1>1. CASE Tick
  BY <1>1, BoundsAssumption DEF Tick, tables, TypeOK, Times
<1>2. CASE UNCHANGED vars
  BY <1>2 DEF vars, TypeOK
<1> QED
  BY <1>1, <1>2, TypeCreateContract, TypeUpdateContract, TypeDeleteContract,
     TypeBegin, TypeStep DEF Next, SigningNext

\* Every reachable state is well typed, whatever administrators send and
\* wherever requests stop.
THEOREM TypeCorrect == Spec => []TypeOK
BY TypeInit, TypeNext, PTL DEF Spec

-----------------------------------------------------------------------------
(* Referential integrity, with edits *)

LEMMA StructureInit == Init => StructureInv
<1> SUFFICES ASSUME Init PROVE StructureInv
  OBVIOUS
<1>1. /\ DOMAIN contracts = {} /\ DOMAIN slots = {}
      /\ DOMAIN signatures = {} /\ DOMAIN req = {}
  BY DEF Init, NoRows
<1> QED
  BY <1>1, TypeInit
     DEF StructureInv, ReferentialIntegrity, FilledHasSignature, RequestsKnow,
         OneWorkerPerSlot, InFlight

LEMMA StructureCreateContract ==
  ASSUME StructureInv, NEW c \in ContractIds, NEW n \in SlotIds,
         NEW text \in Contents, NEW e \in Times \cup {None},
         CreateContract(c, n, text, e)
  PROVE  StructureInv'
<1> DEFINE new == nextSlot .. nextSlot + n - 1
<1> USE DEF StructureInv
<1>1. DOMAIN slots \cap new = {} /\ c \notin DOMAIN contracts
  BY DEF TypeOK, IsTable, CreateContract
<1>2. /\ DOMAIN contracts' = DOMAIN contracts \cup {c}
      /\ DOMAIN slots' = DOMAIN slots \cup new
      /\ \A s \in DOMAIN slots : slots'[s] = slots[s]
      /\ \A s \in new : slots'[s] = [contract_id |-> c, is_filled |-> FALSE]
      /\ issued' = issued \cup {c}
      /\ UNCHANGED <<signatures, now, req>>
  BY <1>1 DEF CreateContract
<1>3. TypeOK'
  BY TypeCreateContract
<1>4. ReferentialIntegrity' /\ FilledHasSignature'
  BY <1>1, <1>2 DEF ReferentialIntegrity, FilledHasSignature
<1>5. c \notin issued
  BY DEF CreateContract
<1>6. RequestsKnow'
  BY <1>1, <1>2, <1>5
     DEF RequestsKnow, SlotsOf, SignaturesOf, Working, InFlight, ReferentialIntegrity
<1>7. OneWorkerPerSlot'
  BY <1>2 DEF OneWorkerPerSlot, Working, InFlight
<1> QED
  BY <1>3, <1>4, <1>6, <1>7

LEMMA StructureUpdateContract ==
  ASSUME StructureInv, NEW c \in ContractIds, NEW p \in Payloads,
         UpdateContract(c, p)
  PROVE  StructureInv'
<1> USE DEF StructureInv
<1>1. /\ DOMAIN contracts' = DOMAIN contracts
      /\ UNCHANGED <<issued, slots, signatures, now, req>>
  BY DEF UpdateContract
<1>2. TypeOK'
  BY TypeUpdateContract
<1> QED
  BY <1>1, <1>2
     DEF ReferentialIntegrity, FilledHasSignature, RequestsKnow, OneWorkerPerSlot,
         SlotsOf, SignaturesOf, Working, InFlight

LEMMA StructureDeleteContract ==
  ASSUME StructureInv, NEW c \in ContractIds, DeleteContract(c)
  PROVE  StructureInv'
<1> USE DEF StructureInv
<1>1. /\ DOMAIN contracts' = DOMAIN contracts \ {c}
      /\ DOMAIN slots' = DOMAIN slots \ SlotsOf(c)
      /\ \A s \in DOMAIN slots' : slots'[s] = slots[s]
      /\ UNCHANGED <<issued, signatures, now, req>>
      /\ \A s \in DOMAIN signatures : signatures[s].contract_id # c
  BY DEF DeleteContract, SignaturesOf
<1>2. TypeOK'
  BY TypeDeleteContract
<1>3. ReferentialIntegrity' /\ FilledHasSignature'
  BY <1>1 DEF ReferentialIntegrity, FilledHasSignature, SlotsOf
<1>4. RequestsKnow'
  BY <1>1
     DEF RequestsKnow, ReferentialIntegrity, SlotsOf, SignaturesOf, Working, InFlight
<1>5. OneWorkerPerSlot'
  BY <1>1 DEF OneWorkerPerSlot, Working, InFlight
<1> QED
  BY <1>2, <1>3, <1>4, <1>5

LEMMA StructureBegin ==
  ASSUME StructureInv, NEW r \in Requests, NEW c \in ContractIds,
         NEW s \in SlotIds, Begin(r, c, s)
  PROVE  StructureInv'
<1> USE DEF StructureInv
<1>1. /\ InFlight' = InFlight \cup {r} /\ r \notin InFlight
      /\ \A t \in InFlight : req'[t] = req[t]
      /\ req'[r].pc = "slot" /\ req'[r].contract_id \in DOMAIN contracts
      /\ UNCHANGED <<tables, now>>
  BY DEF Begin, InFlight
<1>2. TypeOK'
  BY TypeBegin
<1>3. DOMAIN contracts \subseteq issued
  BY DEF TypeOK, IsTable
<1>4. RequestsKnow' /\ OneWorkerPerSlot'
  BY <1>1, <1>3
     DEF RequestsKnow, OneWorkerPerSlot, SlotsOf, SignaturesOf, Working, tables
<1> QED
  BY <1>1, <1>2, <1>4 DEF ReferentialIntegrity, FilledHasSignature, tables

\* What Return and GoTo do to the other requests.
LEMMA Moves ==
  ASSUME TypeOK, NEW r \in InFlight
  PROVE  /\ Return(r) => /\ InFlight' = InFlight \ {r}
                         /\ \A t \in InFlight' : req'[t] = req[t]
         /\ \A pc \in {"load", "insert", "fill", "count"} : GoTo(r, pc) =>
              /\ InFlight' = InFlight
              /\ req'[r] = [req[r] EXCEPT !.pc = pc] /\ req'[r].pc = pc
              /\ \A t \in InFlight \ {r} : req'[t] = req[t]
BY DEF Return, GoTo, InFlight, TypeOK, IsTable, RequestState

\* A request that only moves on, and not into the statements that write, leaves
\* the structure alone.
LEMMA StructureRead ==
  ASSUME StructureInv, NEW r \in InFlight, TypeOK', UNCHANGED tables,
         \/ Return(r)
         \/ /\ InFlight' = InFlight
            /\ \A t \in InFlight \ {r} : req'[t] = req[t]
            /\ req'[r].contract_id = req[r].contract_id
            /\ req'[r].slot_id = req[r].slot_id
            /\ req'[r].pc \in {"load", "insert"}
            /\ req[r].contract_id \in DOMAIN contracts =>
                 req[r].slot_id \in SlotsOf(req[r].contract_id)
  PROVE  StructureInv'
<1> USE DEF StructureInv
<1>1. ReferentialIntegrity' /\ FilledHasSignature'
  BY DEF ReferentialIntegrity, FilledHasSignature, tables
<1>2. /\ SignaturesOf(req[r].contract_id)' = SignaturesOf(req[r].contract_id)'
      /\ \A c : SlotsOf(c)' = SlotsOf(c) /\ SignaturesOf(c)' = SignaturesOf(c)
  BY DEF SlotsOf, SignaturesOf, tables
<1>3. CASE Return(r)
  <2>1. InFlight' = InFlight \ {r} /\ \A t \in InFlight' : req'[t] = req[t]
    BY <1>3, Moves
  <2> QED
    BY <1>1, <1>2, <2>1 DEF RequestsKnow, OneWorkerPerSlot, Working, tables
<1>4. CASE ~Return(r)
  BY <1>1, <1>2, <1>4 DEF RequestsKnow, OneWorkerPerSlot, Working, tables
<1> QED
  BY <1>3, <1>4

LEMMA StructureLoadSlot ==
  ASSUME StructureInv, NEW r \in Requests, LoadSlot(r)
  PROVE  StructureInv'
<1>1. TypeOK' /\ r \in InFlight /\ UNCHANGED tables /\ TypeOK
  BY TypeStep DEF LoadSlot, At, tables, Step, StructureInv
<1>2. CASE MaySign(req[r])
  <2> DEFINE pc == IF IsFullySigned(req[r]) THEN "load" ELSE "insert"
  <2>1. GoTo(r, pc) /\ pc \in {"load", "insert"}
    BY <1>2 DEF LoadSlot
  <2>2. req[r] \in RequestState
    BY <1>1 DEF TypeOK, IsTable, InFlight
  <2>3. req'[r] = [req[r] EXCEPT !.pc = pc] /\ InFlight' = InFlight
        /\ \A t \in InFlight \ {r} : req'[t] = req[t]
    BY <1>1, <2>1, Moves
  <2>4. req[r].slot_id \in SlotsOf(req[r].contract_id)
    BY <1>2 DEF MaySign
  <2> HIDE DEF pc
  <2>5. /\ req'[r].contract_id = req[r].contract_id
        /\ req'[r].slot_id = req[r].slot_id /\ req'[r].pc = pc
    BY <2>2, <2>3 DEF RequestState
  <2> QED
    BY <1>1, <2>1, <2>3, <2>4, <2>5, StructureRead
<1>3. CASE ~MaySign(req[r])
  BY <1>1, <1>3, StructureRead DEF LoadSlot
<1> QED
  BY <1>2, <1>3

LEMMA StructureLoadSignatures ==
  ASSUME StructureInv, NEW r \in Requests, LoadSignatures(r)
  PROVE  StructureInv'
<1>1. TypeOK' /\ r \in InFlight /\ UNCHANGED tables /\ req[r].pc = "load"
  BY TypeStep DEF LoadSignatures, At, tables, Step, StructureInv
<1>2. req[r] \in RequestState
  BY <1>1 DEF StructureInv, TypeOK, IsTable, InFlight
<1>3. /\ InFlight' = InFlight
      /\ \A t \in InFlight \ {r} : req'[t] = req[t]
      /\ req'[r].contract_id = req[r].contract_id
      /\ req'[r].slot_id = req[r].slot_id
      /\ req'[r].pc = "insert"
  BY <1>1, <1>2 DEF LoadSignatures, InFlight, RequestState
<1>4. req[r].contract_id \in DOMAIN contracts =>
        req[r].slot_id \in SlotsOf(req[r].contract_id)
  BY <1>1 DEF StructureInv, RequestsKnow
<1> QED
  BY <1>1, <1>3, <1>4, StructureRead

\* The INSERT succeeds: what r and the tables look like after it.
Inserts(r) ==
  /\ r \in InFlight /\ req[r].pc = "insert" /\ InFlight' = InFlight
  /\ req'[r] = [req[r] EXCEPT !.pc = "fill"] /\ req'[r].pc = "fill"
  /\ req'[r].slot_id = req[r].slot_id /\ req'[r].contract_id = req[r].contract_id
  /\ \A t \in InFlight \ {r} : req'[t] = req[t]
  /\ DOMAIN signatures' = DOMAIN signatures \cup {req[r].slot_id}
  /\ \A t \in DOMAIN signatures : signatures'[t] = signatures[t]
  /\ signatures'[req[r].slot_id] = [id |-> Cardinality(DOMAIN signatures) + 1,
                         contract_id |-> req[r].contract_id,
                         content_hash |-> hash_content(req[r].content)]
  /\ UNCHANGED <<contracts, issued, slots, nextSlot, now>>

LEMMA InsertEffect ==
  ASSUME TypeOK, NEW r \in Requests, InsertSignature(r),
         req[r].contract_id \in DOMAIN contracts,
         req[r].slot_id \notin DOMAIN signatures
  PROVE  Inserts(r)
<1>1. r \in InFlight /\ req[r].pc = "insert" /\ req[r] \in RequestState
  BY DEF InsertSignature, At, TypeOK, IsTable, InFlight
<1>2. GoTo(r, "fill")
  BY DEF InsertSignature
<1>3. /\ req'[r] = [req[r] EXCEPT !.pc = "fill"] /\ InFlight' = InFlight
      /\ \A t \in InFlight \ {r} : req'[t] = req[t]
  BY <1>1, <1>2, Moves
<1> QED
  BY <1>1, <1>3 DEF Inserts, InsertSignature, RequestState

LEMMA StructureInsertSignature ==
  ASSUME StructureInv, NEW r \in Requests, InsertSignature(r)
  PROVE  StructureInv'
<1> USE DEF StructureInv
<1>1. TypeOK' /\ r \in InFlight /\ req[r].pc = "insert"
  BY TypeStep DEF InsertSignature, At, Step
<1>2. CASE ~(/\ req[r].contract_id \in DOMAIN contracts
             /\ req[r].slot_id \notin DOMAIN signatures)
  BY <1>1, <1>2, StructureRead DEF InsertSignature, tables
<1>3. CASE /\ req[r].contract_id \in DOMAIN contracts
           /\ req[r].slot_id \notin DOMAIN signatures
  <2> DEFINE s == req[r].slot_id
  <2>0. Inserts(r)
    BY <1>3, InsertEffect
  <2>1. s \in DOMAIN slots /\ slots[s].contract_id = req[r].contract_id
    BY <1>1, <1>3 DEF RequestsKnow, SlotsOf
  <2>2. ReferentialIntegrity' /\ FilledHasSignature'
    BY <1>3, <2>1, <2>0 DEF Inserts, ReferentialIntegrity, FilledHasSignature
  <2>3. \A t \in InFlight : Working(t) => req[t].slot_id # s
    BY <1>3 DEF RequestsKnow, SignaturesOf
  <2>4. /\ InFlight' = InFlight /\ Working(r)' /\ ~Working(r)
        /\ \A t \in InFlight \ {r} : req'[t] = req[t] /\ (Working(t)' <=> Working(t))
    BY <2>0 DEF Inserts, Working
  <2>5. OneWorkerPerSlot'
    <3> SUFFICES ASSUME NEW t \in InFlight', NEW u \in InFlight',
                        Working(t)', Working(u)', req'[t].slot_id = req'[u].slot_id
                 PROVE  t = u
      BY DEF OneWorkerPerSlot
    <3>1. req'[r].slot_id = s
      BY <2>0 DEF Inserts
    <3> QED
      BY <2>3, <2>4, <3>1 DEF OneWorkerPerSlot
  <2>6. /\ \A c : SlotsOf(c)' = SlotsOf(c)
        /\ \A c : SignaturesOf(c) \subseteq SignaturesOf(c)'
        /\ s \in SignaturesOf(req[r].contract_id)' /\ req'[r].slot_id = s
    BY <1>3, <2>0 DEF Inserts, SlotsOf, SignaturesOf
  <2>7. RequestsKnow'
    <3> SUFFICES ASSUME NEW t \in InFlight'
                 PROVE  (/\ req[t].contract_id \in issued
                         /\ req[t].pc # "slot" /\ req[t].contract_id \in DOMAIN contracts =>
                              req[t].slot_id \in SlotsOf(req[t].contract_id)
                         /\ Working(t) => req[t].slot_id \in SignaturesOf(req[t].contract_id)
                         /\ req[t].pc = "count" => slots[req[t].slot_id].is_filled)'
      BY DEF RequestsKnow
    <3>1. UNCHANGED <<contracts, issued, slots>>
      BY <2>0 DEF Inserts
    <3>2. CASE t = r
      BY <1>1, <2>0, <2>1, <2>6, <3>1, <3>2 DEF Inserts, RequestsKnow, SlotsOf
    <3>3. CASE t # r
      BY <2>4, <2>6, <3>1, <3>3 DEF RequestsKnow
    <3> QED
      BY <3>2, <3>3
  <2> QED
    BY <1>1, <2>2, <2>5, <2>7
<1> QED
  BY <1>2, <1>3

\* What FillSlot does.
Fills(r) ==
  /\ r \in InFlight /\ Working(r) /\ InFlight' = InFlight
  /\ req[r].slot_id \in DOMAIN slots /\ DOMAIN slots' = DOMAIN slots
  /\ \A t \in DOMAIN slots : slots'[t].contract_id = slots[t].contract_id
  /\ \A t \in DOMAIN slots \ {req[r].slot_id} : slots'[t] = slots[t]
  /\ slots'[req[r].slot_id].is_filled
  /\ req'[r] = [req[r] EXCEPT !.pc = "count"] /\ req'[r].pc = "count"
  /\ req'[r].slot_id = req[r].slot_id /\ req'[r].contract_id = req[r].contract_id
  /\ \A t \in InFlight \ {r} : req'[t] = req[t]
  /\ UNCHANGED <<contracts, issued, nextSlot, signatures, now>>

LEMMA FillEffect ==
  ASSUME StructureInv, NEW r \in Requests, FillSlot(r)
  PROVE  Fills(r)
<1>1. r \in InFlight /\ req[r].pc = "fill" /\ req[r] \in RequestState /\ TypeOK
  BY DEF FillSlot, At, TypeOK, IsTable, InFlight, StructureInv
<1>2. /\ req'[r] = [req[r] EXCEPT !.pc = "count"] /\ InFlight' = InFlight
      /\ \A t \in InFlight \ {r} : req'[t] = req[t]
  BY <1>1, Moves DEF FillSlot
<1>3. Working(r) /\ req[r].slot_id \in DOMAIN slots
  BY <1>1 DEF Working, StructureInv, RequestsKnow, SignaturesOf, ReferentialIntegrity
<1>4. \A t \in DOMAIN slots : slots[t] \in SlotRow
  BY <1>1 DEF TypeOK, IsTable
<1>5. /\ DOMAIN slots' = DOMAIN slots
      /\ \A t \in DOMAIN slots \ {req[r].slot_id} : slots'[t] = slots[t]
      /\ \A t \in DOMAIN slots : slots'[t].contract_id = slots[t].contract_id
      /\ slots'[req[r].slot_id].is_filled
  BY <1>3, <1>4 DEF FillSlot, SlotRow
<1> QED
  BY <1>1, <1>2, <1>3, <1>5 DEF Fills, FillSlot, RequestState

LEMMA StructureFillSlot ==
  ASSUME StructureInv, NEW r \in Requests, FillSlot(r)
  PROVE  StructureInv'
<1>0. Fills(r)
  BY FillEffect
<1>1. TypeOK'
  BY TypeStep DEF Step, StructureInv
<1>2. req[r].slot_id \in DOMAIN signatures
  BY <1>0 DEF Fills, StructureInv, RequestsKnow, SignaturesOf
<1>3. ReferentialIntegrity' /\ FilledHasSignature'
  BY <1>2, <1>0 DEF Fills, StructureInv, ReferentialIntegrity, FilledHasSignature
<1>4. /\ InFlight' = InFlight /\ UNCHANGED <<contracts, issued>>
      /\ \A t \in InFlight :
           /\ Working(t)' <=> Working(t)
           /\ req'[t].slot_id = req[t].slot_id
           /\ req'[t].contract_id = req[t].contract_id
           /\ req'[t].pc = "count" => req[t].pc = "count" \/ t = r
           /\ req[t].pc = "slot" => req'[t].pc = "slot"
  BY <1>0 DEF Fills, Working
<1>5. \A c : SlotsOf(c)' = SlotsOf(c) /\ SignaturesOf(c)' = SignaturesOf(c)
  BY <1>0 DEF Fills, SlotsOf, SignaturesOf
<1>6. \A t \in InFlight' : req'[t].pc = "count" => slots'[req'[t].slot_id].is_filled
  <2>1. \A t \in InFlight : req[t].pc = "count" =>
          req[t].slot_id \in DOMAIN slots /\ slots[req[t].slot_id].is_filled
    BY DEF StructureInv, RequestsKnow, Working, SignaturesOf, ReferentialIntegrity
  <2> QED
    BY <1>0, <1>4, <2>1 DEF Fills
<1>7. RequestsKnow'
  <2>1. \A t \in InFlight' : req'[t].pc # "slot" => req[t].pc # "slot"
    BY <1>4
  <2> QED
    BY <1>4, <1>5, <1>6, <2>1 DEF StructureInv, RequestsKnow
<1>8. OneWorkerPerSlot'
  BY <1>4 DEF StructureInv, OneWorkerPerSlot
<1> QED
  BY <1>1, <1>3, <1>7, <1>8 DEF StructureInv

\* What CountSignature does.
Counts(r) ==
  /\ r \in InFlight /\ Working(r) /\ InFlight' = InFlight \ {r}
  /\ \A t \in InFlight' : req'[t] = req[t]
  /\ req[r].contract_id \in DOMAIN contracts /\ DOMAIN contracts' = DOMAIN contracts
  /\ \A d \in DOMAIN contracts \ {req[r].contract_id} : contracts'[d] = contracts[d]
  /\ contracts'[req[r].contract_id] =
         CountedRow(contracts[req[r].contract_id], req[r])
  /\ UNCHANGED <<issued, slots, nextSlot, signatures, now>>

LEMMA CountEffect ==
  ASSUME StructureInv, NEW r \in Requests, CountSignature(r)
  PROVE  Counts(r)
<1>1. r \in InFlight /\ Working(r) /\ TypeOK
  BY DEF CountSignature, At, Working, StructureInv
<1>2. InFlight' = InFlight \ {r} /\ \A t \in InFlight' : req'[t] = req[t]
  BY <1>1, Moves DEF CountSignature
<1>3. req[r].contract_id \in DOMAIN contracts
  BY <1>1 DEF StructureInv, RequestsKnow, SignaturesOf, ReferentialIntegrity
<1> QED
  BY <1>1, <1>2, <1>3 DEF Counts, CountSignature

LEMMA StructureCountSignature ==
  ASSUME StructureInv, NEW r \in Requests, CountSignature(r)
  PROVE  StructureInv'
<1>0. Counts(r)
  BY CountEffect
<1>1. TypeOK'
  BY TypeStep DEF Step, StructureInv
<1>2. ReferentialIntegrity' /\ FilledHasSignature'
  BY <1>0 DEF Counts, StructureInv, ReferentialIntegrity, FilledHasSignature
<1>3. RequestsKnow' /\ OneWorkerPerSlot'
  BY <1>0 DEF Counts, StructureInv, RequestsKnow, OneWorkerPerSlot, SlotsOf, SignaturesOf, Working
<1> QED
  BY <1>1, <1>2, <1>3 DEF StructureInv

LEMMA StructureNext == StructureInv /\ [Next]_vars => StructureInv'
<1> SUFFICES ASSUME StructureInv, [Next]_vars PROVE StructureInv'
  OBVIOUS
<1>1. CASE Tick \/ UNCHANGED vars
  <2>1. TypeOK'
    BY TypeNext, <1>1 DEF StructureInv
  <2>2. UNCHANGED <<tables, req>>
    BY <1>1 DEF Tick, vars, tables
  <2> QED
    BY <2>1, <2>2
       DEF StructureInv, ReferentialIntegrity, FilledHasSignature, RequestsKnow,
           OneWorkerPerSlot, SlotsOf, SignaturesOf, Working, InFlight, tables
<1>2. ASSUME NEW r \in Requests, Abort(r) PROVE StructureInv'
  BY <1>2, StructureRead, TypeStep DEF Abort, tables, StructureInv
<1>3. ASSUME NEW r \in Requests, Step(r) PROVE StructureInv'
  BY <1>3, StructureLoadSlot, StructureLoadSignatures, StructureInsertSignature,
     StructureFillSlot, StructureCountSignature DEF Step
<1> QED
  BY <1>1, <1>2, <1>3, StructureCreateContract, StructureUpdateContract,
     StructureDeleteContract, StructureBegin DEF Next, SigningNext

LEMMA StructureInvariant == Spec => []StructureInv
BY StructureInit, StructureNext, PTL DEF Spec

\* Whatever administrators edit and wherever requests stop, no slot outlives its
\* contract and every signature stands in a slot of the contract it names.
THEOREM IntegrityHolds == Spec => []ReferentialIntegrity
BY StructureInvariant, PTL DEF StructureInv

\* ... and a filled slot holds a signature.
THEOREM FilledSlotsHoldSignatures == Spec => []FilledHasSignature
BY StructureInvariant, PTL DEF StructureInv

-----------------------------------------------------------------------------
(* Counting, without edits *)

SlotSetsFinite ==
  \A c : /\ IsFiniteSet(SlotsOf(c)) /\ Cardinality(SlotsOf(c)) \in Nat
         /\ IsFiniteSet(Settled(c)) /\ Cardinality(Settled(c)) \in Nat
         /\ Settled(c) \subseteq SlotsOf(c)

LEMMA FiniteSlots == TypeOK => SlotSetsFinite
<1> SUFFICES ASSUME TypeOK, NEW c
             PROVE  /\ IsFiniteSet(SlotsOf(c)) /\ Cardinality(SlotsOf(c)) \in Nat
                    /\ IsFiniteSet(Settled(c)) /\ Cardinality(Settled(c)) \in Nat
                    /\ Settled(c) \subseteq SlotsOf(c)
  BY DEF SlotSetsFinite
<1>1. SlotsOf(c) \subseteq SlotIds
  BY BoundsAssumption DEF TypeOK, IsTable, SlotsOf, SlotIds
<1>2. Settled(c) \subseteq SlotsOf(c)
  BY DEF Settled
<1> QED
  BY <1>1, <1>2, SlotIdsFinite, FS_Subset, FS_CardinalityType

\* The same of the next state.
LEMMA FiniteSlotsNext == TypeOK' => SlotSetsFinite'
BY FiniteSlots, PTL

\* A settled slot stays settled.
LEMMA SettledGrows ==
  ASSUME StructureInv, [SigningNext]_vars, NEW d
  PROVE  Settled(d) \subseteq Settled(d)'
<1>1. ASSUME UNCHANGED slots, \A s : AtWork(s)' => AtWork(s)
      PROVE  Settled(d) \subseteq Settled(d)'
  BY <1>1 DEF Settled, SlotsOf
<1>2. CASE Tick \/ UNCHANGED vars
  BY <1>1, <1>2 DEF Tick, tables, vars, AtWork, Working, InFlight
<1>3. ASSUME NEW c \in ContractIds, NEW n \in SlotIds, NEW text \in Contents,
             NEW e \in Times \cup {None}, CreateContract(c, n, text, e)
      PROVE  Settled(d) \subseteq Settled(d)'
  <2>1. \A s : AtWork(s)' <=> AtWork(s)
    BY <1>3 DEF CreateContract, AtWork, Working, InFlight
  <2>2. (nextSlot .. nextSlot + n - 1) \cap DOMAIN slots = {}
    BY DEF StructureInv, TypeOK, IsTable
  <2>3. \A s \in DOMAIN slots : s \in DOMAIN slots' /\ slots'[s] = slots[s]
    BY <1>3, <2>2 DEF CreateContract
  <2> QED
    BY <2>1, <2>3 DEF Settled, SlotsOf
<1>4. ASSUME NEW c \in ContractIds, DeleteContract(c)
      PROVE  Settled(d) \subseteq Settled(d)'
  <2>1. \A s : AtWork(s)' <=> AtWork(s)
    BY <1>4 DEF DeleteContract, AtWork, Working, InFlight
  <2>2. \A s \in SlotsOf(c) : ~slots[s].is_filled
    BY <1>4 DEF DeleteContract, StructureInv, FilledHasSignature,
                ReferentialIntegrity, SlotsOf, SignaturesOf
  <2>3. \A s \in DOMAIN slots \ SlotsOf(c) :
          s \in DOMAIN slots' /\ slots'[s] = slots[s]
    BY <1>4 DEF DeleteContract
  <2> QED
    BY <2>1, <2>2, <2>3 DEF Settled, SlotsOf
<1>5. ASSUME NEW r \in Requests, NEW c \in ContractIds, NEW s \in SlotIds,
             Begin(r, c, s)
      PROVE  Settled(d) \subseteq Settled(d)'
  <2>1. InFlight' = InFlight \cup {r} /\ r \notin InFlight /\ req'[r].pc = "slot"
        /\ \A t \in InFlight : req'[t] = req[t]
    BY <1>5 DEF Begin, InFlight
  <2> QED
    BY <1>1, <1>5, <2>1 DEF Begin, tables, AtWork, Working
<1>6. ASSUME NEW r \in Requests, Step(r) \/ Abort(r)
      PROVE  Settled(d) \subseteq Settled(d)'
  <2>0. r \in InFlight /\ TypeOK /\ req[r] \in RequestState
    BY <1>6 DEF Step, LoadSlot, LoadSignatures, InsertSignature, FillSlot,
                CountSignature, Abort, At, StructureInv, TypeOK, IsTable, InFlight
  <2>1. ASSUME Return(r), UNCHANGED slots
        PROVE  Settled(d) \subseteq Settled(d)'
    BY <1>1, <2>0, <2>1, Moves DEF AtWork, Working
  <2>2. CASE LoadSlot(r)
    <3>1. CASE MaySign(req[r])
      <4>1. PICK pc \in {"load", "insert"} : GoTo(r, pc)
        BY <2>2, <3>1 DEF LoadSlot
      <4> QED
        BY <1>1, <2>0, <2>2, <4>1, Moves DEF LoadSlot, tables, AtWork, Working
    <3> QED
      BY <2>1, <2>2, <3>1 DEF LoadSlot, tables
  <2>3. CASE LoadSignatures(r)
    <3>1. InFlight' = InFlight /\ req'[r].pc = "insert"
          /\ \A t \in InFlight \ {r} : req'[t] = req[t]
      BY <2>0, <2>3 DEF LoadSignatures, InFlight, RequestState
    <3> QED
      BY <1>1, <2>3, <3>1 DEF LoadSignatures, tables, AtWork, Working
  <2>4. CASE InsertSignature(r)
    <3>1. CASE /\ req[r].contract_id \in DOMAIN contracts
               /\ req[r].slot_id \notin DOMAIN signatures
      <4>1. Inserts(r)
        BY <2>0, <2>4, <3>1, InsertEffect
      <4>2. \A s : AtWork(s)' => AtWork(s) \/ s = req[r].slot_id
        <5>1. InFlight' = InFlight /\ \A t \in InFlight \ {r} : req'[t] = req[t]
          BY <4>1 DEF Inserts
        <5>2. req'[r].slot_id = req[r].slot_id
          BY <4>1 DEF Inserts
        <5> QED
          BY <5>1, <5>2 DEF AtWork, Working
      <4>3. req[r].slot_id \in DOMAIN slots => ~slots[req[r].slot_id].is_filled
        BY <3>1 DEF StructureInv, FilledHasSignature
      <4> QED
        BY <4>1, <4>2, <4>3 DEF Inserts, Settled, SlotsOf
    <3> QED
      BY <2>1, <2>4, <3>1 DEF InsertSignature
  <2>5. CASE FillSlot(r)
    <3>1. Fills(r)
      BY <2>5, FillEffect
    <3>2. \A s : AtWork(s)' <=> AtWork(s)
      <4>1. \A t : /\ Working(t)' <=> Working(t)
                   /\ Working(t) => req'[t].slot_id = req[t].slot_id
        BY <3>1 DEF Fills, Working
      <4> QED
        BY <4>1 DEF AtWork
    <3>3. AtWork(req[r].slot_id)
      BY <3>1 DEF Fills, AtWork
    <3> QED
      BY <3>1, <3>2, <3>3 DEF Fills, Settled, SlotsOf
  <2>6. CASE CountSignature(r)
    BY <2>1, <2>6 DEF CountSignature
  <2>7. CASE Abort(r)
    BY <2>1, <2>7 DEF Abort, tables
  <2> QED
    BY <1>6, <2>2, <2>3, <2>4, <2>5, <2>6, <2>7 DEF Step
<1> QED
  BY <1>2, <1>3, <1>4, <1>5, <1>6 DEF SigningNext

LEMMA CountGrows ==
  ASSUME StructureInv, StructureInv', [SigningNext]_vars, NEW d
  PROVE  Cardinality(Settled(d)) <= Cardinality(Settled(d)')
<1>1. Settled(d) \subseteq Settled(d)' /\ IsFiniteSet(Settled(d)')
  BY FiniteSlotsNext, SettledGrows DEF StructureInv, SlotSetsFinite
<1> QED
  BY <1>1, FS_Subset

\* A request in flight that keeps its snapshot, or one that has just read it.
KeepsSnapshot(t) ==
  /\ t \in InFlight
  /\ req'[t].contract_id = req[t].contract_id
  /\ req'[t].required_signatures = req[t].required_signatures
  /\ req'[t].completed_signatures = req[t].completed_signatures
  /\ req'[t].content = req[t].content
  /\ req'[t].expires_at = req[t].expires_at

ReadsSnapshot(t) ==
  LET c == req'[t].contract_id IN
  /\ c \in DOMAIN contracts
  /\ req'[t].required_signatures = contracts[c].required_signatures
  /\ req'[t].completed_signatures = contracts[c].completed_signatures
  /\ req'[t].content = contracts[c].content
  /\ req'[t].expires_at = contracts[c].expires_at

\* Only Begin makes a snapshot, and no step changes one.
LEMMA SnapshotsKept ==
  ASSUME TypeOK, [SigningNext]_vars
  PROVE  \A t \in InFlight' : KeepsSnapshot(t) \/ ReadsSnapshot(t)
<1>1. \A t \in InFlight : req[t] \in RequestState
  BY DEF TypeOK, IsTable, InFlight
<1>2. CASE UNCHANGED req
  BY <1>2 DEF InFlight, KeepsSnapshot
<1>3. ASSUME NEW r \in Requests, NEW c \in ContractIds, NEW s \in SlotIds,
             Begin(r, c, s)
      PROVE  \A t \in InFlight' : KeepsSnapshot(t) \/ ReadsSnapshot(t)
  <2>1. ReadsSnapshot(r) /\ \A t \in InFlight' \ {r} : KeepsSnapshot(t)
    BY <1>3 DEF Begin, InFlight, KeepsSnapshot, ReadsSnapshot
  <2> QED
    BY <2>1
<1>4. ASSUME NEW r \in Requests, Step(r) \/ Abort(r)
      PROVE  \A t \in InFlight' : KeepsSnapshot(t)
  <2>1. r \in InFlight
    BY <1>4 DEF Step, LoadSlot, LoadSignatures, InsertSignature, FillSlot,
                CountSignature, Abort, At
  <2>2. \/ Return(r)
        \/ LoadSignatures(r)
        \/ \E pc \in {"load", "insert", "fill", "count"} : GoTo(r, pc)
    BY <1>4 DEF Step, LoadSlot, InsertSignature, FillSlot, CountSignature, Abort
  <2>3. CASE Return(r)
    BY <2>1, <2>3, Moves DEF KeepsSnapshot
  <2>4. CASE LoadSignatures(r)
    BY <1>1, <2>1, <2>4 DEF LoadSignatures, KeepsSnapshot, InFlight, RequestState
  <2>5. ASSUME NEW pc \in {"load", "insert", "fill", "count"}, GoTo(r, pc)
        PROVE  \A t \in InFlight' : KeepsSnapshot(t)
    <3>1. /\ InFlight' = InFlight /\ req'[r] = [req[r] EXCEPT !.pc = pc]
          /\ \A t \in InFlight \ {r} : req'[t] = req[t]
      BY <2>1, <2>5, Moves
    <3>2. KeepsSnapshot(r)
      BY <1>1, <2>1, <3>1 DEF KeepsSnapshot, RequestState
    <3> QED
      BY <3>1, <3>2 DEF KeepsSnapshot
  <2> QED
    BY <2>2, <2>3, <2>4, <2>5
<1> QED
  BY <1>2, <1>3, <1>4
     DEF SigningNext, CreateContract, DeleteContract, Tick, vars

\* A contract that is there before and after a step keeps its slots, and its row
\* unless the step is the last UPDATE of a request for it.
LEMMA ContractKept ==
  ASSUME StructureInv, [SigningNext]_vars,
         NEW c \in DOMAIN contracts, c \in DOMAIN contracts'
  PROVE  /\ SlotsOf(c)' = SlotsOf(c)
         /\ \/ contracts'[c] = contracts[c]
            \/ \E r \in Requests : CountSignature(r) /\ req[r].contract_id = c
<1> USE DEF StructureInv
<1>1. CASE UNCHANGED <<contracts, slots>>
  BY <1>1 DEF SlotsOf
<1>2. ASSUME NEW d \in ContractIds, NEW n \in SlotIds, NEW text \in Contents,
             NEW e \in Times \cup {None}, CreateContract(d, n, text, e)
      PROVE  SlotsOf(c)' = SlotsOf(c) /\ contracts'[c] = contracts[c]
  <2> DEFINE new == nextSlot .. nextSlot + n - 1
  <2>1. DOMAIN slots \cap new = {} /\ c # d
    BY <1>2 DEF TypeOK, IsTable, CreateContract
  <2> QED
    BY <1>2, <2>1 DEF CreateContract, SlotsOf
<1>3. ASSUME NEW d \in ContractIds, DeleteContract(d)
      PROVE  SlotsOf(c)' = SlotsOf(c) /\ contracts'[c] = contracts[c]
  BY <1>3 DEF DeleteContract, SlotsOf
<1>4. ASSUME NEW r \in Requests, FillSlot(r)
      PROVE  SlotsOf(c)' = SlotsOf(c) /\ contracts'[c] = contracts[c]
  <2>1. Fills(r)
    BY <1>4, FillEffect
  <2> QED
    BY <2>1 DEF Fills, SlotsOf
<1>5. ASSUME NEW r \in Requests, CountSignature(r)
      PROVE  /\ SlotsOf(c)' = SlotsOf(c)
             /\ contracts'[c] = contracts[c] \/ req[r].contract_id = c
  BY <1>5, CountEffect DEF Counts, SlotsOf
<1> QED
  BY <1>1, <1>2, <1>3, <1>4, <1>5
     DEF SigningNext, Step, Begin, LoadSlot, LoadSignatures, InsertSignature, Abort,
         Tick, tables, vars

\* A step that leaves the row of the contract as it is.
LEMMA CountingKept ==
  ASSUME StructureInv, StructureInv', [SigningNext]_vars,
         NEW c \in DOMAIN contracts, c \in DOMAIN contracts', CountingOn(c),
         contracts'[c] = contracts[c]
  PROVE  CountingOn(c)'
<1> USE DEF CountingOn, StructureInv
<1>1. /\ Cardinality(Settled(c)) <= Cardinality(Settled(c)')
      /\ Settled(c) \subseteq Settled(c)'
  BY CountGrows, SettledGrows
<1>2. /\ Cardinality(Settled(c)) \in Nat /\ Cardinality(Settled(c)') \in Nat
      /\ Settled(c)' \subseteq SlotsOf(c)' /\ SlotsOf(c)' = SlotsOf(c)
  BY FiniteSlots, FiniteSlotsNext, ContractKept DEF SlotSetsFinite
<1>3. /\ contracts[c].completed_signatures \in Int
      /\ \A t \in InFlight : req[t].completed_signatures \in Int
  BY DEF TypeOK, IsTable, ContractRow, RequestState, InFlight
<1>4. \A t \in InFlight' : req'[t].contract_id = c =>
        /\ req'[t].required_signatures = contracts[c].required_signatures
        /\ req'[t].content = contracts[c].content
        /\ req'[t].expires_at = contracts[c].expires_at
        /\ req'[t].completed_signatures <= Cardinality(Settled(c))
  <2> TAKE t \in InFlight'
  <2>1. CASE KeepsSnapshot(t)
    BY <2>1 DEF KeepsSnapshot, SnapshotsHold, CountsBehind
  <2>2. CASE ReadsSnapshot(t)
    BY <2>2 DEF ReadsSnapshot, SnapshotsHold, CountsBehind
  <2> QED
    BY <2>1, <2>2, SnapshotsKept
<1>5. \A t \in InFlight' : req'[t].completed_signatures \in Int
  BY DEF TypeOK, IsTable, RequestState, InFlight
<1>6. SnapshotsHold(c)'
  BY <1>2, <1>4 DEF SnapshotsHold
<1>7. CountsBehind(c)'
  BY <1>1, <1>2, <1>3, <1>4, <1>5 DEF CountsBehind
<1>8. SignedIsSettled(c)'
  BY <1>1, <1>2 DEF SignedIsSettled
<1> QED
  BY <1>6, <1>7, <1>8

\* A new contract has its slots and no request.
LEMMA CountingCreateContract ==
  ASSUME StructureInv, StructureInv', NEW c \in ContractIds, NEW n \in SlotIds,
         NEW text \in Contents, NEW e \in Times \cup {None},
         CreateContract(c, n, text, e)
  PROVE  CountingOn(c)'
<1> DEFINE new == nextSlot .. nextSlot + n - 1
<1> USE DEF CountingOn, StructureInv
<1>1. n \in Nat \ {0} /\ nextSlot \in Nat \ {0}
  BY DEF SlotIds, TypeOK
<1>2. DOMAIN slots \cap new = {} /\ c \notin DOMAIN contracts /\ c \notin issued
  BY DEF TypeOK, IsTable, CreateContract
<1>3. /\ contracts'[c].status = "pending"
      /\ contracts'[c].required_signatures = n
      /\ contracts'[c].completed_signatures = 0
      /\ UNCHANGED req
  BY <1>2 DEF CreateContract
<1>4. SlotsOf(c)' = new
  BY <1>2 DEF CreateContract, SlotsOf, ReferentialIntegrity
<1>5. Cardinality(new) = n /\ new # {}
  <2>1. PICK a \in Int, b \in Int : a = nextSlot /\ b = nextSlot + n - 1
    BY <1>1
  <2>2. Cardinality(a .. b) = IF a > b THEN 0 ELSE b - a + 1
    BY FS_Interval
  <2>3. new = a .. b /\ ~(a > b) /\ b - a + 1 = n /\ a \in a .. b
    BY <1>1, <2>1
  <2> QED
    BY <2>2, <2>3
<1>6. \A t \in InFlight' : req'[t].contract_id # c
  BY <1>2, <1>3 DEF RequestsKnow, InFlight
<1>7. Cardinality(Settled(c)') \in Nat
  BY FiniteSlotsNext DEF SlotSetsFinite
<1>8. SnapshotsHold(c)'
  BY <1>3, <1>4, <1>5, <1>6 DEF SnapshotsHold
<1>9. CountsBehind(c)'
  BY <1>3, <1>6, <1>7 DEF CountsBehind
<1>10. SignedIsSettled(c)'
  BY <1>3 DEF SignedIsSettled
<1> QED
  BY <1>8, <1>9, <1>10

\* The count a request writes is covered by what is settled when it is over.
LEMMA CountIsCovered ==
  ASSUME StructureInv, StructureInv', NEW r \in Requests, CountSignature(r),
         NEW c, c = req[r].contract_id, CountingOn(c), NEW s, s = req[r].slot_id
  PROVE  /\ s \in Settled(c)' /\ s \notin Settled(c)
         /\ req[r].completed_signatures + 1 <= Cardinality(Settled(c)')
         /\ req[r].required_signatures = Cardinality(SlotsOf(c))
<1>1. Counts(r)
  BY CountEffect
<1>2. s \in SlotsOf(c) /\ slots[s].is_filled
  BY <1>1 DEF Counts, StructureInv, RequestsKnow, CountSignature, At, Working
<1>3. AtWork(s) /\ s \notin Settled(c)
  BY <1>1 DEF Counts, AtWork, Settled
<1>4. ~AtWork(s)'
  BY <1>1 DEF Counts, AtWork, Working, StructureInv, OneWorkerPerSlot
<1>5. SlotsOf(c)' = SlotsOf(c) /\ slots' = slots
  BY <1>1 DEF Counts, SlotsOf
<1>6. s \in Settled(c)'
  BY <1>2, <1>4, <1>5 DEF Settled
<1>7. Settled(c) \cup {s} \subseteq Settled(c)'
  BY <1>6, SettledGrows DEF SigningNext, Step
<1>8. /\ IsFiniteSet(Settled(c)) /\ IsFiniteSet(Settled(c)')
      /\ Cardinality(Settled(c)) \in Nat /\ Cardinality(Settled(c)') \in Nat
  BY FiniteSlots, FiniteSlotsNext DEF StructureInv, SlotSetsFinite
<1>9. Cardinality(Settled(c)) + 1 <= Cardinality(Settled(c)')
  <2>1. Cardinality(Settled(c) \cup {s}) = Cardinality(Settled(c)) + 1
    BY <1>3, <1>8, FS_AddElement
  <2>2. Cardinality(Settled(c) \cup {s}) <= Cardinality(Settled(c)')
    BY <1>7, <1>8, FS_Subset
  <2> QED
    BY <2>1, <2>2
<1>10. req[r].completed_signatures <= Cardinality(Settled(c))
       /\ req[r].completed_signatures \in Int
  BY <1>1 DEF Counts, CountingOn, CountsBehind, StructureInv, TypeOK, IsTable,
              RequestState, InFlight
<1>11. req[r].required_signatures = Cardinality(SlotsOf(c))
  BY <1>1 DEF Counts, CountingOn, SnapshotsHold
<1> QED
  BY <1>3, <1>6, <1>8, <1>9, <1>10, <1>11

\* The last UPDATE of a request for the contract.
LEMMA CountingCountSignature ==
  ASSUME StructureInv, StructureInv', NEW r \in Requests, CountSignature(r),
         NEW c, c = req[r].contract_id, CountingOn(c)
  PROVE  CountingOn(c)'
<1> USE DEF CountingOn
<1>1. PICK s : s = req[r].slot_id
  OBVIOUS
<1>2. /\ req[r].completed_signatures + 1 <= Cardinality(Settled(c)')
      /\ req[r].required_signatures = Cardinality(SlotsOf(c))
  BY <1>1, CountIsCovered
<1>3. /\ InFlight' \subseteq InFlight /\ \A t \in InFlight' : req'[t] = req[t]
      /\ c \in DOMAIN contracts
      /\ contracts'[c] = CountedRow(contracts[c], req[r])
      /\ SlotsOf(c)' = SlotsOf(c)
  BY CountEffect DEF Counts, SlotsOf
<1>4. /\ Cardinality(Settled(c)) <= Cardinality(Settled(c)')
      /\ Cardinality(Settled(c)) \in Nat /\ Cardinality(Settled(c)') \in Nat
      /\ Settled(c)' \subseteq SlotsOf(c)'
      /\ IsFiniteSet(SlotsOf(c)) /\ Cardinality(SlotsOf(c)) \in Nat
  BY CountGrows, FiniteSlots, FiniteSlotsNext
     DEF SigningNext, Step, StructureInv, SlotSetsFinite
<1>5. /\ contracts[c] \in ContractRow(FinalHashes)
      /\ \A t \in InFlight : req[t].completed_signatures \in Int
      /\ req[r].completed_signatures \in Int
  BY <1>3, CountEffect
     DEF Counts, StructureInv, TypeOK, IsTable, RequestState, InFlight
<1>6. /\ contracts'[c].required_signatures = contracts[c].required_signatures
      /\ contracts'[c].content = contracts[c].content
      /\ contracts'[c].expires_at = contracts[c].expires_at
      /\ contracts'[c].completed_signatures = req[r].completed_signatures + 1
      /\ contracts'[c].status = IF IsFullySigned(req[r]) THEN "signed" ELSE "pending"
  BY <1>3, <1>5 DEF CountedRow, ContractRow
<1>7. SnapshotsHold(c)'
  BY <1>3, <1>6 DEF SnapshotsHold
<1>8. CountsBehind(c)'
  BY <1>2, <1>3, <1>4, <1>5, <1>6 DEF CountsBehind
<1>9. SignedIsSettled(c)'
  <2> SUFFICES ASSUME IsFullySigned(req[r]) PROVE Settled(c)' = SlotsOf(c)'
    BY <1>6 DEF SignedIsSettled
  <2>1. Cardinality(SlotsOf(c)) <= Cardinality(Settled(c)')
    BY <1>2, <1>4, <1>5 DEF IsFullySigned
  <2>2. Cardinality(SlotsOf(c)) = Cardinality(Settled(c)')
    BY <1>3, <1>4, <2>1, FS_Subset
  <2> QED
    BY <1>3, <1>4, <2>2, FS_Subset
<1> QED
  BY <1>7, <1>8, <1>9

\* One contract through one step.
LEMMA CountingOnNext ==
  ASSUME StructureInv, StructureInv', [SigningNext]_vars, NEW c \in DOMAIN contracts',
         c \in DOMAIN contracts => CountingOn(c)
  PROVE  CountingOn(c)'
<1>1. CASE c \in DOMAIN contracts
  BY <1>1, ContractKept, CountingKept, CountingCountSignature
<1>2. CASE c \notin DOMAIN contracts
  <2>1. PICK d \in ContractIds, n \in SlotIds, text \in Contents,
             e \in Times \cup {None} : CreateContract(d, n, text, e)
    <3>1. ASSUME NEW r \in Requests, CountSignature(r)
          PROVE  DOMAIN contracts' = DOMAIN contracts
      BY <3>1 DEF CountSignature
    <3> QED
      BY <1>2, <3>1
         DEF SigningNext, Step, DeleteContract, Begin, LoadSlot, LoadSignatures,
             InsertSignature, FillSlot, Abort, Tick, tables, vars
  <2>2. c = d
    BY <1>2, <2>1 DEF CreateContract
  <2> QED
    BY <2>1, <2>2, CountingCreateContract
<1> QED
  BY <1>1, <1>2

LEMMA CountingInit == Init => CountingInv
<1> SUFFICES ASSUME Init PROVE CountingInv
  OBVIOUS
<1>1. DOMAIN contracts = {}
  BY DEF Init, NoRows
<1> QED
  BY <1>1, StructureInit DEF CountingInv

LEMMA CountingNext == CountingInv /\ [SigningNext]_vars => CountingInv'
<1> SUFFICES ASSUME CountingInv, [SigningNext]_vars PROVE CountingInv'
  OBVIOUS
<1>1. StructureInv /\ StructureInv'
  BY StructureNext DEF CountingInv, Next
<1> QED
  BY <1>1, CountingOnNext DEF CountingInv

LEMMA CountingInvariant == SigningSpec => []CountingInv
BY CountingInit, CountingNext, PTL DEF SigningSpec

\* Without edits, the count of a contract is never ahead of what its signers have
\* finished, however requests interleave and wherever they stop.
THEOREM CountHolds == SigningSpec => []CountNeverAhead
<1>1. CountingInv => CountNeverAhead
  BY DEF CountingInv, CountingOn, CountsBehind, CountNeverAhead
<1> QED
  BY <1>1, CountingInvariant, PTL

\* A contract shown as signed is signed in every slot, and nobody is at work on
\* it.
THEOREM SignedHolds == SigningSpec => []SignedMeansAllSigned
<1>1. CountingInv => SignedMeansAllSigned
  <2> SUFFICES ASSUME CountingInv, NEW c \in DOMAIN contracts,
                      contracts[c].status = "signed"
               PROVE  /\ SlotsOf(c) # {}
                      /\ \A s \in SlotsOf(c) : s \in DOMAIN signatures /\ slots[s].is_filled
                      /\ \A r \in InFlight :
                           req[r].contract_id = c => req[r].pc \notin {"fill", "count"}
    BY DEF SignedMeansAllSigned
  <2>1. Settled(c) = SlotsOf(c) /\ SlotsOf(c) # {}
    BY DEF CountingInv, CountingOn, SignedIsSettled, SnapshotsHold
  <2>2. \A s \in SlotsOf(c) : slots[s].is_filled /\ s \in DOMAIN signatures
    BY <2>1 DEF Settled, SlotsOf, CountingInv, StructureInv, FilledHasSignature
  <2>3. ASSUME NEW r \in InFlight, req[r].contract_id = c, Working(r)
        PROVE  FALSE
    <3>1. req[r].slot_id \in SlotsOf(c)
      BY <2>3 DEF CountingInv, StructureInv, RequestsKnow, Working
    <3>2. r \in Requests
      BY DEF InFlight, CountingInv, StructureInv, TypeOK, IsTable
    <3> QED
      BY <2>1, <2>3, <3>1, <3>2 DEF Settled, AtWork
  <2> QED
    BY <2>1, <2>2, <2>3 DEF Working
<1> QED
  BY <1>1, CountingInvariant, PTL
=============================================================================
