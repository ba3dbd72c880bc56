------------------------- MODULE SigningOutcomeProofs -------------------------
(***************************************************************************)
(* What signing comes to, without edits: the proof of a signed contract    *)
(* verifies, signed and expired contracts are closed, ContractSigning      *)
(* implements SigningPromise, and requests that come one at a time are     *)
(* counted exactly.  All of it rests on CountingInv, proved in             *)
(* ContractSigningProofs.                                                  *)
(***************************************************************************)
EXTENDS ContractSigningProofs

-----------------------------------------------------------------------------
(* Consequences of the counting invariant *)

\* A settled slot holds a signature of its contract.
LEMMA SettledIsSigned ==
  ASSUME StructureInv, NEW c
  PROVE  Settled(c) \subseteq SignaturesOf(c) /\ SignaturesOf(c) \subseteq SlotsOf(c)
BY DEF StructureInv, FilledHasSignature, ReferentialIntegrity, Settled, SlotsOf,
       SignaturesOf

SettledSigned ==
  \A c : Settled(c) \subseteq SignaturesOf(c) /\ SignaturesOf(c) \subseteq SlotsOf(c)

LEMMA SettledIsSignedNext == StructureInv' => SettledSigned'
<1>1. StructureInv => SettledSigned
  BY SettledIsSigned DEF SettledSigned
<1> QED
  BY <1>1, PTL

\* Nobody can be at work on a signed contract, and it lacks no signature.
LEMMA SignedIsClosed ==
  ASSUME StructureInv, NEW c \in DOMAIN contracts, CountingOn(c),
         contracts[c].status = "signed"
  PROVE  /\ SlotsOf(c) # {} /\ SignaturesOf(c) = SlotsOf(c)
         /\ \A s \in SlotsOf(c) : slots[s].is_filled
         /\ \A r \in InFlight : Working(r) => req[r].contract_id # c
<1>1. Settled(c) = SlotsOf(c) /\ SlotsOf(c) # {}
  BY DEF CountingOn, SignedIsSettled, SnapshotsHold
<1>2. SignaturesOf(c) = SlotsOf(c) /\ \A s \in SlotsOf(c) : slots[s].is_filled
  BY <1>1, SettledIsSigned DEF Settled
<1>3. ASSUME NEW r \in InFlight, Working(r), req[r].contract_id = c PROVE FALSE
  <2>1. req[r].slot_id \in SlotsOf(c)
    BY <1>2, <1>3 DEF StructureInv, RequestsKnow
  <2>2. r \in Requests
    BY DEF InFlight, StructureInv, TypeOK, IsTable
  <2> QED
    BY <1>1, <1>3, <2>1, <2>2 DEF Settled, AtWork
<1> QED
  BY <1>1, <1>2, <1>3

\* The INSERT either fails and the request is over, or it adds one signature, in
\* a slot of the contract.
LEMMA InsertCases ==
  ASSUME StructureInv, NEW r \in Requests, InsertSignature(r)
  PROVE  \/ Return(r) /\ r \in InFlight /\ UNCHANGED <<tables, now>>
         \/ /\ Inserts(r)
            /\ req[r].contract_id \in DOMAIN contracts
            /\ req[r].slot_id \notin DOMAIN signatures
            /\ req[r].slot_id \in SlotsOf(req[r].contract_id)
<1>1. CASE ~(/\ req[r].contract_id \in DOMAIN contracts
             /\ req[r].slot_id \notin DOMAIN signatures)
  BY <1>1 DEF InsertSignature, At, tables
<1>2. CASE /\ req[r].contract_id \in DOMAIN contracts
           /\ req[r].slot_id \notin DOMAIN signatures
  <2>1. Inserts(r)
    BY <1>2, InsertEffect DEF StructureInv
  <2>2. req[r].slot_id \in SlotsOf(req[r].contract_id)
    BY <1>2, <2>1 DEF Inserts, StructureInv, RequestsKnow
  <2> QED
    BY <1>2, <2>1, <2>2
<1> QED
  BY <1>1, <1>2

\* A step that adds a signature is an INSERT that succeeds, edits or not.
LEMMA OnlyInsertSigns ==
  ASSUME StructureInv, [Next]_vars
  PROVE  \/ UNCHANGED signatures
         \/ \E r \in Requests :
              /\ InsertSignature(r) /\ Inserts(r)
              /\ req[r].contract_id \in DOMAIN contracts
              /\ req[r].slot_id \notin DOMAIN signatures
              /\ req[r].slot_id \in SlotsOf(req[r].contract_id)
<1>1. ASSUME NEW r \in Requests, InsertSignature(r)
      PROVE  \/ UNCHANGED signatures
             \/ /\ Inserts(r)
                /\ req[r].contract_id \in DOMAIN contracts
                /\ req[r].slot_id \notin DOMAIN signatures
                /\ req[r].slot_id \in SlotsOf(req[r].contract_id)
  BY <1>1, InsertCases DEF tables
<1> QED
  BY <1>1 DEF Next, SigningNext, Step, CreateContract, UpdateContract, DeleteContract,
              Begin, LoadSlot, LoadSignatures, FillSlot, CountSignature, Abort, Tick,
              tables, vars

\* Its contract is not signed.
LEMMA InsertFindsOpen ==
  ASSUME StructureInv, NEW c \in DOMAIN contracts, CountingOn(c),
         NEW s \in SlotsOf(c), s \notin DOMAIN signatures
  PROVE  contracts[c].status # "signed"
BY SignedIsClosed DEF SignaturesOf

\* The last UPDATE finds its contract pending.
LEMMA CountFindsPending ==
  ASSUME StructureInv, NEW r \in Requests, CountSignature(r),
         NEW c, c = req[r].contract_id, CountingOn(c)
  PROVE  /\ Counts(r)
         /\ contracts[c].status = "pending"
<1>1. Counts(r)
  BY CountEffect
<1>2. contracts[c].status \in {"pending", "signed"}
  BY <1>1 DEF Counts, CountingOn, SnapshotsHold
<1> QED
  BY <1>1, <1>2, SignedIsClosed DEF Counts

\* What the last UPDATE leaves in the row.
LEMMA CountedColumns ==
  ASSUME StructureInv, NEW r \in Requests, CountSignature(r),
         NEW c, c = req[r].contract_id
  PROVE  /\ contracts'[c].content = contracts[c].content
         /\ contracts'[c].expires_at = contracts[c].expires_at
         /\ contracts'[c].status = IF IsFullySigned(req[r]) THEN "signed" ELSE "pending"
         /\ IsFullySigned(req[r]) => contracts'[c].final_hash =
              generate_final_hash(req[r].content, req[r].existing, req[r].slot_id)
<1>1. Counts(r)
  BY CountEffect
<1>2. contracts[c] \in ContractRow(FinalHashes)
  BY <1>1 DEF Counts, StructureInv, TypeOK, IsTable
<1>3. contracts'[c] = CountedRow(contracts[c], req[r])
  BY <1>1 DEF Counts
<1> QED
  BY <1>2, <1>3 DEF CountedRow, ContractRow

-----------------------------------------------------------------------------
(* The proof of a signed contract *)

\* Each signature is numbered by those that there were, whatever administrators
\* edit.
LEMMA IdsNext == StructureInv /\ IdsInOrder /\ [Next]_vars => IdsInOrder'
<1> SUFFICES ASSUME StructureInv, IdsInOrder, [Next]_vars PROVE IdsInOrder'
  OBVIOUS
<1>1. CASE UNCHANGED signatures
  BY <1>1 DEF IdsInOrder
<1>2. ASSUME NEW r \in Requests, Inserts(r), req[r].slot_id \notin DOMAIN signatures
      PROVE  IdsInOrder'
  <2> DEFINE n == Cardinality(DOMAIN signatures)
  <2>1. PICK s : s = req[r].slot_id /\ s \notin DOMAIN signatures
    BY <1>2
  <2>2. /\ DOMAIN signatures' = DOMAIN signatures \cup {s}
        /\ \A t \in DOMAIN signatures : signatures'[t] = signatures[t]
        /\ signatures'[s].id = n + 1
    BY <1>2, <2>1 DEF Inserts
  <2>3. IsFiniteSet(DOMAIN signatures)
    BY SlotIdsFinite, FS_Subset DEF StructureInv, TypeOK, IsTable
  <2>4. n \in Nat /\ Cardinality(DOMAIN signatures') = n + 1
    BY <2>1, <2>2, <2>3, FS_AddElement, FS_CardinalityType
  <2>5. \A t \in DOMAIN signatures : signatures[t].id \in Nat /\ signatures[t].id <= n
    BY DEF StructureInv, TypeOK, IsTable, SignatureRow, IdsInOrder
  <2> HIDE DEF n
  <2> QED
    BY <2>2, <2>4, <2>5 DEF IdsInOrder
<1> QED
  BY <1>1, <1>2, OnlyInsertSigns

\* A request that takes over what it has loaded, one that loads all signatures
\* there are, or one that is not yet near its INSERT or not the last.
KeepsLoaded(t) ==
  /\ t \in InFlight
  /\ req'[t].contract_id = req[t].contract_id
  /\ req'[t].slot_id = req[t].slot_id
  /\ req'[t].existing = req[t].existing
  /\ req'[t].required_signatures = req[t].required_signatures
  /\ req'[t].completed_signatures = req[t].completed_signatures
  /\ req'[t].pc = "insert" => req[t].pc = "insert"
  /\ req'[t].pc \in {"fill", "count"} => req[t].pc \in {"fill", "count"}

LoadsAll(t) ==
  /\ req'[t].pc = "insert"
  /\ \A c : req'[t].contract_id = c => req'[t].existing = SignaturesOf(c)'

FarFromInsert(t) ==
  \/ req'[t].pc \in {"slot", "load"}
  \/ req'[t].pc = "insert" /\ ~IsFullySigned(req'[t])

\* The requests through a step that adds no signature.
LEMMA LoadedKept ==
  ASSUME StructureInv, [SigningNext]_vars, UNCHANGED signatures
  PROVE  \A t \in InFlight' : KeepsLoaded(t) \/ LoadsAll(t) \/ FarFromInsert(t)
<1>0. TypeOK /\ \A t \in InFlight : req[t] \in RequestState
  BY DEF StructureInv, TypeOK, IsTable, InFlight
<1>1. CASE UNCHANGED req
  BY <1>1 DEF InFlight, KeepsLoaded
<1>2. ASSUME NEW r \in InFlight, Return(r)
      PROVE  \A t \in InFlight' : KeepsLoaded(t)
  BY <1>0, <1>2, Moves DEF KeepsLoaded
<1>3. ASSUME NEW r \in Requests, NEW c \in ContractIds, NEW s \in SlotIds,
             Begin(r, c, s)
      PROVE  \A t \in InFlight' : KeepsLoaded(t) \/ FarFromInsert(t)
  <2>1. /\ req'[r].pc = "slot"
        /\ \A t \in InFlight' \ {r} : t \in InFlight /\ req'[t] = req[t]
    BY <1>3 DEF Begin, InFlight
  <2> QED
    BY <2>1 DEF KeepsLoaded, FarFromInsert
<1>4. ASSUME NEW r \in Requests, LoadSlot(r), MaySign(req[r])
      PROVE  \A t \in InFlight' : KeepsLoaded(t) \/ FarFromInsert(t)
  <2>1. PICK pc \in {"load", "insert"} :
          /\ GoTo(r, pc) /\ r \in InFlight
          /\ pc = "insert" => ~IsFullySigned(req[r])
    BY <1>4 DEF LoadSlot, At
  <2>2. /\ InFlight' = InFlight /\ req'[r] = [req[r] EXCEPT !.pc = pc]
        /\ \A t \in InFlight \ {r} : req'[t] = req[t]
    BY <1>0, <2>1, Moves
  <2>3. /\ req'[r].pc = pc
        /\ req'[r].completed_signatures = req[r].completed_signatures
        /\ req'[r].required_signatures = req[r].required_signatures
    BY <1>0, <2>1, <2>2 DEF RequestState
  <2>4. FarFromInsert(r)
    BY <2>1, <2>3 DEF FarFromInsert, IsFullySigned
  <2> QED
    BY <2>2, <2>4 DEF KeepsLoaded
<1>5. ASSUME NEW r \in Requests, LoadSignatures(r)
      PROVE  \A t \in InFlight' : KeepsLoaded(t) \/ LoadsAll(t)
  <2>1. /\ r \in InFlight /\ InFlight' = InFlight
        /\ \A t \in InFlight \ {r} : req'[t] = req[t]
    BY <1>5 DEF LoadSignatures, At, InFlight
  <2>2. /\ req'[r].pc = "insert" /\ req'[r].contract_id = req[r].contract_id
        /\ req'[r].existing = SignaturesOf(req[r].contract_id)
    BY <1>0, <1>5, <2>1 DEF LoadSignatures, RequestState, InFlight
  <2>3. LoadsAll(r)
    BY <2>2 DEF LoadsAll, SignaturesOf
  <2> QED
    BY <2>1, <2>3 DEF KeepsLoaded
<1>6. ASSUME NEW r \in Requests, FillSlot(r)
      PROVE  \A t \in InFlight' : KeepsLoaded(t)
  <2>1. Fills(r) /\ r \in InFlight /\ req[r] \in RequestState
    BY <1>0, <1>6, FillEffect DEF FillSlot, At
  <2>2. KeepsLoaded(r)
    BY <2>1 DEF Fills, KeepsLoaded, Working, RequestState
  <2>3. InFlight' = InFlight /\ \A t \in InFlight \ {r} : req'[t] = req[t]
    BY <2>1 DEF Fills
  <2> QED
    BY <2>2, <2>3 DEF KeepsLoaded
<1>7. ASSUME NEW r \in Requests, InsertSignature(r) PROVE Return(r) /\ r \in InFlight
  BY <1>7, InsertCases DEF Inserts
<1>8. ASSUME NEW r \in Requests, LoadSlot(r), ~MaySign(req[r])
      PROVE  Return(r) /\ r \in InFlight
  BY <1>8 DEF LoadSlot, At
<1>9. ASSUME NEW r \in Requests, CountSignature(r) \/ Abort(r)
      PROVE  Return(r) /\ r \in InFlight
  BY <1>9 DEF CountSignature, Abort, At
<1>10. ASSUME NEW r \in Requests, Step(r) \/ Abort(r)
       PROVE  \A t \in InFlight' : KeepsLoaded(t) \/ LoadsAll(t) \/ FarFromInsert(t)
  BY <1>2, <1>4, <1>5, <1>6, <1>7, <1>8, <1>9, <1>10 DEF Step
<1> QED
  BY <1>1, <1>3, <1>10 DEF SigningNext, CreateContract, DeleteContract, Tick, vars

\* The steps that add no signature and leave the row.
LEMMA ProofKept ==
  ASSUME StructureInv, StructureInv', [SigningNext]_vars, UNCHANGED signatures,
         NEW c \in DOMAIN contracts, c \in DOMAIN contracts', CountingOn(c)',
         ProofOn(c), contracts'[c] = contracts[c]
  PROVE  ProofOn(c)'
<1> USE DEF ProofOn
<1>1. SignaturesOf(c)' = SignaturesOf(c) /\ SlotsOf(c)' = SlotsOf(c)
  BY ContractKept DEF SignaturesOf
<1>2. \A existing, l : CompletedBy(c, existing, l) => CompletedBy(c, existing, l)'
  BY <1>1 DEF CompletedBy
<1>3. NothingTampered(c)'
  BY <1>1 DEF NothingTampered, Tampered, SignaturesOf
<1>4. SignedHasProof(c)'
  <2> SUFFICES ASSUME contracts[c].status = "signed"
               PROVE  \E l \in SlotIds :
                        /\ CompletedBy(c, SlotsOf(c) \ {l}, l)'
                        /\ contracts[c].final_hash =
                             generate_final_hash(contracts[c].content, SlotsOf(c) \ {l}, l)
    BY <1>1 DEF SignedHasProof
  <2>1. PICK l \in SlotIds :
          /\ CompletedBy(c, SlotsOf(c) \ {l}, l)
          /\ contracts[c].final_hash =
               generate_final_hash(contracts[c].content, SlotsOf(c) \ {l}, l)
    BY DEF SignedHasProof
  <2>2. CompletedBy(c, SlotsOf(c) \ {l}, l)'
    BY <1>1, <2>1 DEF CompletedBy
  <2> QED
    BY <2>1, <2>2
<1>5. LastLoadsTheOthers(c)'
  <2> SUFFICES ASSUME NEW t \in InFlight', req'[t].contract_id = c, IsFullySigned(req'[t])
               PROVE  /\ req'[t].pc = "insert" =>
                           /\ req'[t].existing \subseteq SignaturesOf(c)'
                           /\ req'[t].completed_signatures <= Cardinality(req'[t].existing)
                      /\ Working(t)' => CompletedBy(c, req[t].existing, req[t].slot_id)'
    BY DEF LastLoadsTheOthers, IsFullySigned, CompletedBy
  <2>1. CASE KeepsLoaded(t)
    <3>1. IsFullySigned(req[t]) /\ (Working(t)' => Working(t))
      BY <2>1 DEF KeepsLoaded, IsFullySigned, Working
    <3> QED
      BY <1>1, <2>1, <3>1 DEF KeepsLoaded, LastLoadsTheOthers, CompletedBy
  <2>2. CASE LoadsAll(t)
    <3>1. ~Working(t)'
      BY <2>2 DEF LoadsAll, Working
    <3>2. req'[t].completed_signatures <= Cardinality(SignaturesOf(c)')
      <4>1. /\ Settled(c)' \subseteq SignaturesOf(c)'
            /\ SignaturesOf(c)' \subseteq SlotsOf(c)'
        BY SettledIsSignedNext DEF SettledSigned
      <4>2. /\ IsFiniteSet(SlotsOf(c)') /\ Cardinality(Settled(c)') \in Nat
            /\ IsFiniteSet(Settled(c)')
        BY FiniteSlotsNext DEF StructureInv, SlotSetsFinite
      <4>3. /\ IsFiniteSet(SignaturesOf(c)') /\ Cardinality(SignaturesOf(c)') \in Nat
            /\ Cardinality(Settled(c)') <= Cardinality(SignaturesOf(c)')
        BY <4>1, <4>2, FS_Subset, FS_CardinalityType
      <4>4. /\ req'[t].completed_signatures <= Cardinality(Settled(c)')
            /\ req'[t].completed_signatures \in Int
        BY DEF CountingOn, CountsBehind, StructureInv, TypeOK, IsTable, RequestState,
               InFlight
      <4> QED
        BY <4>2, <4>3, <4>4
    <3> QED
      BY <2>2, <3>1, <3>2 DEF LoadsAll
  <2>3. CASE FarFromInsert(t)
    BY <2>3 DEF FarFromInsert, Working
  <2> QED
    BY <2>1, <2>2, <2>3, LoadedKept
<1> QED
  BY <1>3, <1>4, <1>5

\* The INSERT of a request that completes the contract is the newest row, and it
\* has loaded all the others: they are as many as it counted, one less than the
\* slots.
LEMMA ProofInsert ==
  ASSUME StructureInv, IdsInOrder, NEW r \in Requests, Inserts(r),
         req[r].slot_id \in SlotsOf(req[r].contract_id),
         req[r].slot_id \notin DOMAIN signatures,
         NEW c \in DOMAIN contracts, CountingOn(c), ProofOn(c)
  PROVE  ProofOn(c)'
<1> USE DEF ProofOn
<1>0. PICK d, s : d = req[r].contract_id /\ s = req[r].slot_id /\ s \in SlotsOf(d)
  OBVIOUS
<1> USE <1>0
<1> DEFINE n == Cardinality(DOMAIN signatures)
<1>1. /\ DOMAIN signatures' = DOMAIN signatures \cup {s} /\ s \notin DOMAIN signatures
      /\ \A t \in DOMAIN signatures : signatures'[t] = signatures[t]
      /\ signatures'[s].id = n + 1
      /\ signatures'[s].contract_id = d
      /\ signatures'[s].content_hash = hash_content(req[r].content)
      /\ UNCHANGED <<contracts, slots>>
      /\ SlotsOf(c)' = SlotsOf(c)
  BY DEF Inserts, SlotsOf
<1>2. /\ n \in Nat
      /\ \A t \in DOMAIN signatures : signatures[t].id \in Nat /\ signatures[t].id <= n
  <2>1. IsFiniteSet(DOMAIN signatures)
    BY SlotIdsFinite, FS_Subset DEF StructureInv, TypeOK, IsTable
  <2>2. n \in Nat
    BY <2>1, FS_CardinalityType
  <2>3. \A t \in DOMAIN signatures : signatures[t].id \in Nat
    BY DEF StructureInv, TypeOK, IsTable, SignatureRow
  <2> QED
    BY <2>2, <2>3 DEF IdsInOrder
<1> HIDE DEF n
<1>3. NothingTampered(c)'
  <2>1. d = c => req[r].content = contracts[c].content
    BY DEF Inserts, CountingOn, SnapshotsHold
  <2>2. ASSUME NEW t \in SignaturesOf(c)' PROVE ~Tampered(t)'
    <3>1. CASE t = s
      BY <1>1, <2>1, <2>2, <3>1 DEF Tampered, SignaturesOf
    <3>2. CASE t # s
      BY <1>1, <2>2, <3>2 DEF NothingTampered, Tampered, SignaturesOf
    <3> QED
      BY <3>1, <3>2
  <2> QED
    BY <2>2 DEF NothingTampered
<1>4. /\ SignaturesOf(c) \subseteq SignaturesOf(c)'
      /\ \A existing, l : CompletedBy(c, existing, l) => CompletedBy(c, existing, l)'
  BY <1>1, <1>2 DEF SignaturesOf, CompletedBy
<1>5. SignedHasProof(c)'
  <2> SUFFICES ASSUME contracts[c].status = "signed"
               PROVE  \E l \in SlotIds :
                        /\ CompletedBy(c, SlotsOf(c) \ {l}, l)'
                        /\ contracts[c].final_hash =
                             generate_final_hash(contracts[c].content, SlotsOf(c) \ {l}, l)
    BY <1>1 DEF SignedHasProof
  <2>1. PICK l, others :
          /\ l \in SlotIds
          /\ others = SlotsOf(c) \ {l} /\ CompletedBy(c, others, l)
          /\ contracts[c].final_hash =
               generate_final_hash(contracts[c].content, others, l)
    BY DEF SignedHasProof
  <2>2. CompletedBy(c, others, l)'
    BY <1>4, <2>1
  <2> QED
    BY <1>1, <2>1, <2>2 DEF CompletedBy
<1>6. LastLoadsTheOthers(c)'
  <2> SUFFICES ASSUME NEW t \in InFlight, req'[t].contract_id = c, IsFullySigned(req'[t])
               PROVE  /\ req'[t].pc = "insert" =>
                           /\ req'[t].existing \subseteq SignaturesOf(c)'
                           /\ req'[t].completed_signatures <= Cardinality(req'[t].existing)
                      /\ Working(t)' => CompletedBy(c, req[t].existing, req[t].slot_id)'
    BY DEF LastLoadsTheOthers, IsFullySigned, CompletedBy, Inserts
  <2>1. CASE t # r
    <3>1. req'[t] = req[t] /\ (Working(t)' => Working(t))
      BY <2>1 DEF Inserts, Working
    <3>2. PICK existing, l : existing = req[t].existing /\ l = req[t].slot_id
      OBVIOUS
    <3>3. Working(t) => CompletedBy(c, existing, l)
      BY <3>1, <3>2 DEF LastLoadsTheOthers
    <3>4. Working(t) => CompletedBy(c, existing, l)'
      BY <1>4, <3>3
    <3>5. req[t].pc = "insert" =>
            req[t].existing \subseteq SignaturesOf(c)
              /\ req[t].completed_signatures <= Cardinality(req[t].existing)
      BY <3>1 DEF LastLoadsTheOthers
    <3>6. Working(t)' => CompletedBy(c, req[t].existing, req[t].slot_id)'
      BY <3>1, <3>2, <3>4 DEF CompletedBy
    <3> QED
      BY <1>4, <3>1, <3>5, <3>6
  <2>2. CASE t = r
    <3>0. req[r] \in RequestState
      BY DEF Inserts, StructureInv, TypeOK, IsTable, InFlight
    <3>1. /\ req'[r].contract_id = d /\ req'[r].slot_id = s /\ req'[r].pc = "fill"
          /\ req'[r].existing = req[r].existing
          /\ IsFullySigned(req'[r]) => IsFullySigned(req[r])
      BY <3>0 DEF Inserts, IsFullySigned, RequestState
    <3>2. /\ d = c /\ IsFullySigned(req[r])
          /\ req[r].existing \subseteq SignaturesOf(c)
          /\ req[r].completed_signatures <= Cardinality(req[r].existing)
      BY <2>2, <3>1 DEF LastLoadsTheOthers, Inserts
    <3>3. req[r].existing = SlotsOf(c) \ {s}
      <4>1. /\ req[r].required_signatures = Cardinality(SlotsOf(c))
            /\ req[r].completed_signatures \in Int
        BY <3>0, <3>2 DEF CountingOn, SnapshotsHold, Inserts, RequestState
      <4>2. /\ IsFiniteSet(SlotsOf(c)) /\ Cardinality(SlotsOf(c)) \in Nat
            /\ IsFiniteSet(SlotsOf(c) \ {s})
            /\ Cardinality(SlotsOf(c) \ {s}) = Cardinality(SlotsOf(c)) - 1
        BY <3>2, FiniteSlots, FS_RemoveElement, FS_Subset
           DEF StructureInv, SlotSetsFinite
      <4>3. req[r].existing \subseteq SlotsOf(c) \ {s}
        BY <1>1, <3>2, SettledIsSigned DEF SignaturesOf
      <4>4. /\ Cardinality(req[r].existing) \in Nat
            /\ Cardinality(req[r].existing) <= Cardinality(SlotsOf(c) \ {s})
        BY <4>2, <4>3, FS_Subset, FS_CardinalityType
      <4>5. Cardinality(req[r].existing) = Cardinality(SlotsOf(c) \ {s})
        BY <3>2, <4>1, <4>2, <4>4 DEF IsFullySigned
      <4> QED
        BY <4>2, <4>3, <4>5, FS_Subset
    <3>4. \A u \in req[r].existing : u \in DOMAIN signatures /\ signatures[u].id < n + 1
      BY <1>2, <3>2 DEF SignaturesOf
    <3>5. CompletedBy(c, req[r].existing, req[r].slot_id)'
      BY <1>1, <3>1, <3>2, <3>3, <3>4 DEF CompletedBy, SignaturesOf
    <3> QED
      BY <2>2, <3>1, <3>2, <3>5
  <2> QED
    BY <2>1, <2>2
<1> QED
  BY <1>3, <1>5, <1>6

\* The last UPDATE writes the hash of what the request has loaded; its contract
\* was pending.
LEMMA ProofCount ==
  ASSUME StructureInv, NEW r \in Requests, CountSignature(r),
         NEW c, c = req[r].contract_id, CountingOn(c), ProofOn(c)
  PROVE  ProofOn(c)'
<1> USE DEF ProofOn
<1>0. PICK s, existing : s = req[r].slot_id /\ existing = req[r].existing
  OBVIOUS
<1>1. Counts(r) /\ contracts[c].status = "pending" /\ c \in DOMAIN contracts
  BY CountFindsPending DEF Counts
<1>2. /\ contracts'[c].content = contracts[c].content
      /\ contracts'[c].status = IF IsFullySigned(req[r]) THEN "signed" ELSE "pending"
      /\ IsFullySigned(req[r]) => contracts'[c].final_hash =
           generate_final_hash(contracts[c].content, existing, s)
  <2>1. req[r].content = contracts[c].content
    BY <1>1 DEF Counts, CountingOn, SnapshotsHold
  <2> QED
    BY <1>0, <2>1, CountedColumns
<1>3. /\ InFlight' \subseteq InFlight /\ \A t \in InFlight' : req'[t] = req[t]
      /\ UNCHANGED <<slots, signatures>>
  BY <1>1 DEF Counts
<1>4. /\ SlotsOf(c)' = SlotsOf(c) /\ SignaturesOf(c)' = SignaturesOf(c)
      /\ \A others, l : CompletedBy(c, others, l) => CompletedBy(c, others, l)'
  BY <1>3 DEF SlotsOf, SignaturesOf, CompletedBy
<1>5. NothingTampered(c)'
  BY <1>2, <1>3, <1>4 DEF NothingTampered, Tampered, SignaturesOf
<1>6. LastLoadsTheOthers(c)'
  BY <1>3, <1>4 DEF LastLoadsTheOthers, CompletedBy, Working, IsFullySigned
<1>7. SignedHasProof(c)'
  <2> SUFFICES ASSUME IsFullySigned(req[r])
               PROVE  \E l \in SlotIds :
                        /\ CompletedBy(c, SlotsOf(c) \ {l}, l)'
                        /\ contracts'[c].final_hash =
                             generate_final_hash(contracts'[c].content, SlotsOf(c) \ {l}, l)
    BY <1>2, <1>4 DEF SignedHasProof
  <2>1. CompletedBy(c, existing, s) /\ existing = SlotsOf(c) \ {s}
    BY <1>0, <1>1 DEF LastLoadsTheOthers, CompletedBy, Counts
  <2>2. s \in SlotIds
    BY <1>0, <1>1 DEF Counts, StructureInv, TypeOK, IsTable, RequestState, InFlight
  <2>3. CompletedBy(c, existing, s)'
    BY <1>4, <2>1
  <2>4. CompletedBy(c, SlotsOf(c) \ {s}, s)'
    BY <1>4, <2>1, <2>3 DEF CompletedBy
  <2> QED
    BY <1>2, <2>1, <2>2, <2>4
<1> QED
  BY <1>5, <1>6, <1>7

\* A contract that was not there before the step is new: pending, and without
\* requests or signatures.
LEMMA ProofOfNew ==
  ASSUME StructureInv, [SigningNext]_vars, NEW c \in DOMAIN contracts',
         c \notin DOMAIN contracts
  PROVE  ProofOn(c)'
<1>1. PICK d \in ContractIds, n \in SlotIds, text \in Contents,
           e \in Times \cup {None} : CreateContract(d, n, text, e)
  <2>1. ASSUME NEW r \in Requests, CountSignature(r)
        PROVE  DOMAIN contracts' = DOMAIN contracts
    BY <2>1 DEF CountSignature
  <2> QED
    BY <2>1
       DEF SigningNext, Step, DeleteContract, Begin, LoadSlot, LoadSignatures,
           InsertSignature, FillSlot, Abort, Tick, tables, vars
<1>2. /\ c \notin issued /\ contracts'[c].status = "pending"
      /\ UNCHANGED <<signatures, req>>
  BY <1>1 DEF CreateContract
<1>3. /\ \A t \in InFlight' : req'[t].contract_id # c
      /\ SignaturesOf(c)' = {}
  BY <1>2 DEF StructureInv, RequestsKnow, ReferentialIntegrity, InFlight, SignaturesOf
<1> QED
  BY <1>2, <1>3 DEF ProofOn, LastLoadsTheOthers, SignedHasProof, NothingTampered

\* One contract through one step.
LEMMA ProofOnNext ==
  ASSUME StructureInv, StructureInv', IdsInOrder, [SigningNext]_vars,
         NEW c \in DOMAIN contracts', CountingOn(c)',
         c \in DOMAIN contracts => CountingOn(c) /\ ProofOn(c)
  PROVE  ProofOn(c)'
<1> SUFFICES ASSUME c \in DOMAIN contracts PROVE ProofOn(c)'
  BY ProofOfNew
<1>1. ASSUME NEW r \in Requests, CountSignature(r), req[r].contract_id = c
      PROVE  ProofOn(c)'
  BY <1>1, ProofCount
<1>2. ASSUME NEW r \in Requests, Inserts(r),
             req[r].slot_id \in SlotsOf(req[r].contract_id),
             req[r].slot_id \notin DOMAIN signatures
      PROVE  ProofOn(c)'
  BY <1>2, ProofInsert
<1>3. CASE UNCHANGED signatures /\ contracts'[c] = contracts[c]
  BY <1>3, ProofKept
<1>4. UNCHANGED signatures \/ ProofOn(c)'
  BY <1>2, OnlyInsertSigns DEF Next
<1>5. contracts'[c] = contracts[c] \/ ProofOn(c)'
  BY <1>1, ContractKept
<1> QED
  BY <1>3, <1>4, <1>5

LEMMA ProofInit == Init => ProofInv
<1> SUFFICES ASSUME Init PROVE ProofInv
  OBVIOUS
<1>1. DOMAIN contracts = {} /\ DOMAIN signatures = {}
  BY DEF Init, NoRows
<1> QED
  BY <1>1, CountingInit DEF ProofInv, IdsInOrder

LEMMA ProofNext == ProofInv /\ [SigningNext]_vars => ProofInv'
<1> SUFFICES ASSUME ProofInv, [SigningNext]_vars PROVE ProofInv'
  OBVIOUS
<1>1. CountingInv /\ CountingInv'
  BY CountingNext DEF ProofInv
<1>2. IdsInOrder'
  BY <1>1, IdsNext DEF ProofInv, CountingInv, Next
<1> QED
  BY <1>1, <1>2, ProofOnNext DEF ProofInv, CountingInv

LEMMA ProofInvariant == SigningSpec => []ProofInv
BY ProofInit, ProofNext, PTL DEF SigningSpec

\* The newest row of a contract completed by l is l: no other has its id.
LEMMA NewestIsLast ==
  ASSUME StructureInv, NEW c, NEW l, CompletedBy(c, SlotsOf(c) \ {l}, l)
  PROVE  Newest(SignaturesOf(c)) = l /\ SignaturesOf(c) = SlotsOf(c)
<1>1. /\ l \in SignaturesOf(c) /\ SignaturesOf(c) = SlotsOf(c)
      /\ \A s \in SignaturesOf(c) : signatures[s].id \in Nat
      /\ \A s \in SignaturesOf(c) \ {l} : signatures[s].id < signatures[l].id
  <2>1. \A s \in SlotsOf(c) : s \in DOMAIN signatures
    BY DEF CompletedBy, SignaturesOf
  <2>2. SignaturesOf(c) = SlotsOf(c)
    BY <2>1 DEF StructureInv, ReferentialIntegrity, SignaturesOf, SlotsOf
  <2>3. \A s \in SignaturesOf(c) : signatures[s].id \in Nat
    BY DEF StructureInv, TypeOK, IsTable, SignaturesOf, SignatureRow
  <2> QED
    BY <2>2, <2>3 DEF CompletedBy
<1> DEFINE rows == SignaturesOf(c)
           Last(s) == \A t \in rows : signatures[t].id <= signatures[s].id
<1>2. Last(l) /\ \A s \in rows : Last(s) => s = l
  BY <1>1
<1>3. Newest(rows) \in rows /\ Last(Newest(rows))
  BY <1>1, <1>2 DEF Newest
<1> QED
  BY <1>1, <1>2, <1>3

\* The proof page of a signed contract finds the final hash valid and no
\* signature tampered with, wherever other requests stop or interleave.
THEOREM FinalProofCorrect == SigningSpec => []FinalProofHolds
<1>1. ProofInv => FinalProofHolds
  <2> SUFFICES ASSUME ProofInv, NEW c \in DOMAIN contracts,
                      contracts[c].status = "signed"
               PROVE  FinalHashValid(c) /\ \A s \in SignaturesOf(c) : ~Tampered(s)
    BY DEF FinalProofHolds
  <2>1. PICK l \in SlotIds :
          /\ CompletedBy(c, SlotsOf(c) \ {l}, l)
          /\ contracts[c].final_hash =
               generate_final_hash(contracts[c].content, SlotsOf(c) \ {l}, l)
    BY DEF ProofInv, ProofOn, SignedHasProof
  <2>2. Newest(SignaturesOf(c)) = l /\ SignaturesOf(c) = SlotsOf(c)
    BY <2>1, NewestIsLast DEF ProofInv, CountingInv
  <2>3. contracts[c].final_hash # None
    <3>1. SlotsOf(c) \subseteq SlotIds
      BY BoundsAssumption
         DEF ProofInv, CountingInv, StructureInv, TypeOK, IsTable, SlotsOf, SlotIds
    <3>2. contracts[c].content \in Contents
      BY DEF ProofInv, CountingInv, StructureInv, TypeOK, IsTable, ContractRow
    <3>3. contracts[c].final_hash \in FinalHashes
      BY <2>1, <3>1, <3>2 DEF generate_final_hash, FinalHashes
    <3> QED
      BY <3>3, NoneAssumption
  <2>4. FinalHashValid(c)
    BY <2>1, <2>2, <2>3 DEF FinalHashValid, CompletedBy
  <2>5. \A s \in SignaturesOf(c) : ~Tampered(s)
    BY DEF ProofInv, ProofOn, NothingTampered
  <2> QED
    BY <2>4, <2>5
<1> QED
  BY <1>1, ProofInvariant, PTL

-----------------------------------------------------------------------------
(* What a step may do to the signatures and to a contract *)

\* A signed contract is left alone by every step.
LEMMA SignedStays ==
  ASSUME StructureInv, [SigningNext]_vars, NEW c \in DOMAIN contracts, CountingOn(c),
         contracts[c].status = "signed"
  PROVE  c \in DOMAIN contracts' /\ contracts'[c] = contracts[c]
<1>1. /\ SignaturesOf(c) # {} /\ c \in issued
      /\ \A r \in InFlight : Working(r) => req[r].contract_id # c
  BY SignedIsClosed DEF StructureInv, TypeOK, IsTable
<1>2. ASSUME NEW d \in ContractIds, DeleteContract(d)
      PROVE  c \in DOMAIN contracts' /\ contracts'[c] = contracts[c]
  BY <1>1, <1>2 DEF DeleteContract
<1>3. ASSUME NEW r \in Requests, CountSignature(r)
      PROVE  c \in DOMAIN contracts' /\ contracts'[c] = contracts[c]
  <2>1. Counts(r)
    BY <1>3, CountEffect
  <2> QED
    BY <1>1, <2>1 DEF Counts
<1>4. ASSUME NEW d \in ContractIds, NEW n \in SlotIds, NEW text \in Contents,
             NEW e \in Times \cup {None}, CreateContract(d, n, text, e)
      PROVE  c \in DOMAIN contracts' /\ contracts'[c] = contracts[c]
  BY <1>1, <1>4 DEF CreateContract
<1>5. CASE UNCHANGED contracts
  BY <1>5
<1> QED
  BY <1>2, <1>3, <1>4, <1>5
     DEF SigningNext, Step, Begin, LoadSlot, LoadSignatures, InsertSignature, FillSlot,
         Abort, Tick, tables, vars

\* Nor does one sign it.
LEMMA SignedIsNotSigned ==
  ASSUME StructureInv, [SigningNext]_vars, NEW c \in DOMAIN contracts, CountingOn(c),
         contracts[c].status = "signed"
  PROVE  /\ SignaturesOf(c)' = SignaturesOf(c)
         /\ \A s \in SignaturesOf(c) : signatures'[s] = signatures[s]
<1>1. CASE UNCHANGED signatures
  BY <1>1 DEF SignaturesOf
<1>2. ASSUME NEW r \in Requests, Inserts(r),
             req[r].slot_id \notin DOMAIN signatures,
             req[r].slot_id \in SlotsOf(req[r].contract_id)
      PROVE  /\ SignaturesOf(c)' = SignaturesOf(c)
             /\ \A s \in SignaturesOf(c) : signatures'[s] = signatures[s]
  <2>1. req[r].contract_id # c
    BY <1>2, InsertFindsOpen
  <2> QED
    BY <1>2, <2>1 DEF Inserts, SignaturesOf
<1> QED
  BY <1>1, <1>2, OnlyInsertSigns DEF Next

\* Signed, a contract and its signatures stay as they are: a request that read it
\* while it was still pending cannot write to it any more.
THEOREM SignedNeverChanges == SigningSpec => SignedIsFinal
<1>1. CountingInv /\ [SigningNext]_vars =>
        [\A c \in DOMAIN contracts : contracts[c].status = "signed" =>
           /\ c \in DOMAIN contracts'
           /\ contracts'[c] = contracts[c]
           /\ SignaturesOf(c)' = SignaturesOf(c)
           /\ \A s \in SignaturesOf(c) : signatures'[s] = signatures[s]]_vars
  BY SignedStays, SignedIsNotSigned DEF CountingInv
<1> QED
  BY <1>1, CountingInvariant, PTL DEF SigningSpec, SignedIsFinal

\* The columns that no statement but update_contract writes.
LEMMA DatesStay ==
  ASSUME StructureInv, [SigningNext]_vars,
         NEW c \in DOMAIN contracts, c \in DOMAIN contracts'
  PROVE  contracts'[c].expires_at = contracts[c].expires_at
BY ContractKept, CountedColumns

\* The clock does not go back.
LEMMA ExpiredStays ==
  ASSUME TypeOK, [SigningNext]_vars, NEW e \in Times \cup {None}, Expired(e)
  PROVE  Expired(e)'
<1>1. now \in Int /\ e \in Int /\ now > e /\ e # None
  BY BoundsAssumption DEF TypeOK, Times, Expired
<1>2. now' \in Int /\ now' >= now
  <2>1. CASE Tick
    BY <1>1, <2>1 DEF Tick
  <2>2. CASE UNCHANGED now
    BY <1>1, <2>2
  <2> QED
    BY <2>1, <2>2
       DEF SigningNext, Step, CreateContract, DeleteContract, Begin, LoadSlot,
           LoadSignatures, InsertSignature, FillSlot, CountSignature, Abort, vars
<1> QED
  BY <1>1, <1>2 DEF Expired

\* A request on a closed contract is at its first check, which it does not pass.
LEMMA ClosedRequests ==
  ASSUME CountingInv, [SigningNext]_vars,
         NEW c \in DOMAIN contracts, Closed(c)
  PROVE  \A t \in InFlight' : req'[t].contract_id = c => req'[t].pc = "slot"
<1>1. /\ \A t \in InFlight : req[t].contract_id = c => req[t].pc = "slot"
      /\ Expired(contracts[c].expires_at)
      /\ TypeOK
  BY DEF Closed, CountingInv, StructureInv
<1>2. ASSUME NEW r \in Requests, NEW d \in ContractIds, NEW s \in SlotIds, Begin(r, d, s)
      PROVE  \A t \in InFlight' : req'[t].contract_id = c => req'[t].pc = "slot"
  BY <1>1, <1>2 DEF Begin, InFlight
<1>3. ASSUME NEW r \in InFlight, Return(r)
      PROVE  \A t \in InFlight' : req'[t].contract_id = c => req'[t].pc = "slot"
  <2>1. InFlight' \subseteq InFlight /\ \A t \in InFlight' : req'[t] = req[t]
    BY <1>1, <1>3, Moves
  <2> QED
    BY <1>1, <2>1
<1>4. ASSUME NEW r \in InFlight, NEW pc \in {"load", "insert", "fill", "count"},
             GoTo(r, pc), req[r].contract_id # c
      PROVE  \A t \in InFlight' : req'[t].contract_id = c => req'[t].pc = "slot"
  <2>1. /\ InFlight' = InFlight /\ req'[r] = [req[r] EXCEPT !.pc = pc]
        /\ \A t \in InFlight \ {r} : req'[t] = req[t]
    BY <1>1, <1>4, Moves
  <2>2. req'[r].contract_id # c
    BY <1>1, <1>4, <2>1 DEF TypeOK, IsTable, InFlight, RequestState
  <2> QED
    BY <1>1, <2>1, <2>2
<1>5. ASSUME NEW r \in Requests, LoadSlot(r)
      PROVE  \A t \in InFlight' : req'[t].contract_id = c => req'[t].pc = "slot"
  <2>1. CASE req[r].contract_id = c
    <3>1. req[r].expires_at = contracts[c].expires_at
      BY <1>5, <2>1 DEF LoadSlot, At, CountingInv, CountingOn, SnapshotsHold
    <3>2. ~MaySign(req[r])
      BY <1>1, <3>1 DEF MaySign
    <3> QED
      BY <1>3, <1>5, <3>2 DEF LoadSlot, At
  <2>2. CASE req[r].contract_id # c
    BY <1>3, <1>4, <1>5, <2>2 DEF LoadSlot, At
  <2> QED
    BY <2>1, <2>2
<1>6. ASSUME NEW r \in Requests, LoadSignatures(r)
      PROVE  \A t \in InFlight' : req'[t].contract_id = c => req'[t].pc = "slot"
  <2>1. r \in InFlight /\ req[r] \in RequestState /\ req[r].contract_id # c
    BY <1>1, <1>6 DEF LoadSignatures, At, TypeOK, IsTable, InFlight
  <2>2. /\ InFlight' = InFlight /\ \A t \in InFlight \ {r} : req'[t] = req[t]
        /\ req'[r].contract_id = req[r].contract_id
    BY <1>6, <2>1 DEF LoadSignatures, RequestState, InFlight
  <2> QED
    BY <1>1, <2>1, <2>2
<1>7. ASSUME NEW r \in Requests, InsertSignature(r) \/ FillSlot(r)
      PROVE  \A t \in InFlight' : req'[t].contract_id = c => req'[t].pc = "slot"
  BY <1>1, <1>3, <1>4, <1>7 DEF InsertSignature, FillSlot, At
<1>8. ASSUME NEW r \in Requests, CountSignature(r) \/ Abort(r)
      PROVE  \A t \in InFlight' : req'[t].contract_id = c => req'[t].pc = "slot"
  BY <1>3, <1>8 DEF CountSignature, Abort, At
<1>9. CASE UNCHANGED req
  BY <1>1, <1>9 DEF InFlight
<1> QED
  BY <1>2, <1>5, <1>6, <1>7, <1>8, <1>9
     DEF SigningNext, Step, CreateContract, DeleteContract, Tick, vars

\* Past its expiry date a contract is closed once the requests that passed the
\* check in time are over: it stays closed, and nothing is signed any more.
THEOREM ExpiredIsClosed == SigningSpec => ExpiryCloses
<1>1. ASSUME CountingInv, [SigningNext]_vars,
             NEW c \in DOMAIN contracts, c \in DOMAIN contracts', Closed(c)
      PROVE  Closed(c)' /\ SignaturesOf(c)' = SignaturesOf(c)
  <2>1. PICK e \in Times \cup {None} :
          e = contracts[c].expires_at /\ e = contracts'[c].expires_at
    BY <1>1, DatesStay DEF CountingInv, StructureInv, TypeOK, IsTable, ContractRow
  <2>2. Expired(e)
    BY <1>1, <2>1 DEF Closed
  <2>3. Expired(e)'
    BY <1>1, <2>2, ExpiredStays DEF CountingInv, StructureInv
  <2>4. Closed(c)'
    BY <1>1, <2>1, <2>3, ClosedRequests DEF Closed, Expired
  <2>5. ASSUME NEW r \in Requests, Inserts(r), req[r].slot_id \notin DOMAIN signatures
        PROVE  SignaturesOf(c)' = SignaturesOf(c)
    <3>1. req[r].contract_id # c
      BY <1>1, <2>5 DEF Inserts, Closed
    <3> QED
      BY <2>5, <3>1 DEF Inserts, SignaturesOf
  <2>6. UNCHANGED signatures => SignaturesOf(c)' = SignaturesOf(c)
    BY DEF SignaturesOf
  <2> QED
    BY <1>1, <2>4, <2>5, <2>6, OnlyInsertSigns DEF CountingInv, Next
<1>2. CountingInv /\ [SigningNext]_vars =>
        [\A c \in DOMAIN contracts \cap DOMAIN contracts' : Closed(c) =>
           Closed(c)' /\ SignaturesOf(c)' = SignaturesOf(c)]_vars
  BY <1>1
<1> QED
  BY <1>2, CountingInvariant, PTL DEF SigningSpec, ExpiryCloses

\* Whatever administrators edit, a step keeps every signature,
LEMMA SignaturesKept ==
  ASSUME StructureInv, [Next]_vars
  PROVE  \A s \in DOMAIN signatures :
           s \in DOMAIN signatures' /\ signatures'[s] = signatures[s]
BY OnlyInsertSigns DEF Inserts

\* removes slots only with their contract, and leaves them to their contract,
\* filled if they were,
LEMMA SlotsKept ==
  ASSUME StructureInv, [Next]_vars, NEW s \in DOMAIN slots
  PROVE  /\ s \in DOMAIN slots' =>
              /\ slots'[s].contract_id = slots[s].contract_id
              /\ slots[s].is_filled => slots'[s].is_filled
         /\ s \notin DOMAIN slots' =>
              \E c \in ContractIds : DeleteContract(c) /\ s \in SlotsOf(c)
<1>1. s \in 1 .. nextSlot - 1 /\ nextSlot \in Nat
  BY BoundsAssumption DEF StructureInv, TypeOK, IsTable
<1>2. ASSUME NEW c \in ContractIds, NEW n \in SlotIds, NEW text \in Contents,
             NEW e \in Times \cup {None}, CreateContract(c, n, text, e)
      PROVE  s \in DOMAIN slots' /\ slots'[s] = slots[s]
  BY <1>1, <1>2 DEF CreateContract
<1>3. ASSUME NEW r \in Requests, FillSlot(r)
      PROVE  /\ s \in DOMAIN slots' /\ slots'[s].contract_id = slots[s].contract_id
             /\ slots[s].is_filled => slots'[s].is_filled
  BY <1>3, FillEffect DEF Fills
<1>4. ASSUME NEW c \in ContractIds, DeleteContract(c)
      PROVE  s \in SlotsOf(c) \/ (s \in DOMAIN slots' /\ slots'[s] = slots[s])
  BY <1>4 DEF DeleteContract
<1>5. ASSUME NEW c \in ContractIds, DeleteContract(c), s \in SlotsOf(c)
      PROVE  s \notin DOMAIN slots'
  BY <1>5 DEF DeleteContract
<1> QED
  BY <1>2, <1>3, <1>4, <1>5
     DEF Next, SigningNext, Step, UpdateContract, Begin, LoadSlot, LoadSignatures,
         InsertSignature, CountSignature, Abort, Tick, tables, vars

\* and gives new ones to a new contract only.
LEMMA NewSlots ==
  ASSUME StructureInv, [Next]_vars, NEW s \in DOMAIN slots', s \notin DOMAIN slots
  PROVE  slots'[s].contract_id \notin issued
<1>1. ASSUME NEW r \in Requests, FillSlot(r) PROVE DOMAIN slots' = DOMAIN slots
  BY <1>1 DEF FillSlot
<1>2. ASSUME NEW c \in ContractIds, NEW n \in SlotIds, NEW text \in Contents,
             NEW e \in Times \cup {None}, CreateContract(c, n, text, e)
      PROVE  slots'[s].contract_id \notin issued
  BY <1>2 DEF CreateContract
<1>3. ASSUME NEW c \in ContractIds, DeleteContract(c)
      PROVE  DOMAIN slots' \subseteq DOMAIN slots
  BY <1>3 DEF DeleteContract
<1> QED
  BY <1>1, <1>2, <1>3
     DEF Next, SigningNext, Step, UpdateContract, Begin, LoadSlot, LoadSignatures,
         InsertSignature, CountSignature, Abort, Tick, tables, vars

\* A filled slot holds a signature, so its contract is not deleted.
LEMMA FilledKept ==
  ASSUME StructureInv, [Next]_vars, NEW s \in DOMAIN slots, slots[s].is_filled
  PROVE  s \in DOMAIN slots' /\ slots'[s].is_filled
<1>1. s \in DOMAIN signatures /\ s \in SignaturesOf(slots[s].contract_id)
  BY DEF StructureInv, FilledHasSignature, ReferentialIntegrity, SignaturesOf
<1>2. ~ \E c \in ContractIds : DeleteContract(c) /\ s \in SlotsOf(c)
  BY <1>1 DEF DeleteContract, SlotsOf
<1> QED
  BY <1>2, SlotsKept

\* Whatever administrators edit, a signature once written is neither removed nor
\* replaced, and its slot, once filled, is never opened again.
THEOREM SignaturesStay == Spec => SignaturesPersist
<1>1. StructureInv /\ [Next]_vars =>
        [/\ \A s \in DOMAIN signatures :
              s \in DOMAIN signatures' /\ signatures'[s] = signatures[s]
         /\ \A s \in DOMAIN slots \cap DOMAIN slots' :
              slots[s].is_filled => slots'[s].is_filled]_vars
  BY SignaturesKept, FilledKept
<1> QED
  BY <1>1, StructureInvariant, PTL DEF Spec, SignaturesPersist

-----------------------------------------------------------------------------
(* The promise to the parties *)

SeesTheSame(d) ==
  PhaseOf(d)' = PhaseOf(d) /\ SlotsOf(d)' = SlotsOf(d)
    /\ SignaturesOf(d)' = SignaturesOf(d)

LEMMA PromiseStutters ==
  ASSUME \A d \in ContractIds : SeesTheSame(d)
  PROVE  UNCHANGED Promise!vars
BY DEF SeesTheSame, Promise!vars

LEMMA PromiseInit == Init => Promise!Init
<1> SUFFICES ASSUME Init PROVE Promise!Init
  OBVIOUS
<1>1. DOMAIN slots = {} /\ DOMAIN signatures = {} /\ issued = {}
  BY DEF Init, NoRows
<1> QED
  BY <1>1 DEF Promise!Init, PhaseOf, SlotsOf, SignaturesOf

\* create_contract offers the contract to its new slots.
LEMMA CreateOffers ==
  ASSUME CountingInv, NEW c \in ContractIds, NEW n \in SlotIds,
         NEW text \in Contents, NEW e \in Times \cup {None},
         CreateContract(c, n, text, e)
  PROVE  Promise!Next
<1> DEFINE new == nextSlot .. nextSlot + n - 1
<1>1. /\ c \notin issued /\ c \notin DOMAIN contracts /\ SlotsOf(c) = {}
      /\ nextSlot \in Nat /\ \A s \in DOMAIN slots : s \notin new
  BY BoundsAssumption
     DEF CountingInv, StructureInv, ReferentialIntegrity, TypeOK, IsTable, SlotsOf,
         CreateContract
<1>2. new # {} /\ new \in SUBSET SlotIds
  BY <1>1 DEF SlotIds, CreateContract
<1>3. /\ issued' = issued \cup {c} /\ DOMAIN contracts' = DOMAIN contracts \cup {c}
      /\ contracts'[c].status = "pending"
      /\ \A d \in DOMAIN contracts : d # c => contracts'[d] = contracts[d]
      /\ DOMAIN slots' = DOMAIN slots \cup new
      /\ \A s \in DOMAIN slots : slots'[s] = slots[s]
      /\ \A s \in new : slots'[s].contract_id = c
      /\ UNCHANGED signatures
  BY <1>1 DEF CreateContract
<1> HIDE DEF new
<1>4. PhaseOf(c) = "absent" /\ PhaseOf(c)' = "pending"
  BY <1>1, <1>3 DEF PhaseOf
<1>5. \A d \in ContractIds \ {c} : PhaseOf(d)' = PhaseOf(d) /\ SlotsOf(d)' = SlotsOf(d)
  BY <1>1, <1>3 DEF PhaseOf, SlotsOf
<1>6. SlotsOf(c)' = new /\ \A d \in ContractIds : new \cap SlotsOf(d) = {}
  BY <1>1, <1>3 DEF SlotsOf
<1>7. \A d \in ContractIds : SignaturesOf(d)' = SignaturesOf(d)
  BY <1>3 DEF SignaturesOf
<1>8. Promise!Offer(c, new)
  BY <1>2, <1>4, <1>5, <1>6, <1>7 DEF Promise!Offer
<1> QED
  BY <1>2, <1>8 DEF Promise!Next

\* delete_contract withdraws it: it is pending, as nobody has signed.
LEMMA DeleteWithdraws ==
  ASSUME CountingInv, NEW c \in ContractIds, DeleteContract(c)
  PROVE  Promise!Next
<1>1. /\ c \in DOMAIN contracts /\ c \in issued /\ SignaturesOf(c) = {}
      /\ contracts[c].status = "pending"
  BY SignedIsClosed
     DEF CountingInv, CountingOn, StructureInv, TypeOK, IsTable, SnapshotsHold,
         DeleteContract
<1>2. PhaseOf(c) = "pending" /\ PhaseOf(c)' = "withdrawn"
  BY <1>1 DEF PhaseOf, DeleteContract
<1>3. \A d \in ContractIds \ {c} : PhaseOf(d)' = PhaseOf(d) /\ SlotsOf(d)' = SlotsOf(d)
  BY DEF PhaseOf, SlotsOf, DeleteContract
<1>4. SlotsOf(c)' = {} /\ \A d \in ContractIds : SignaturesOf(d)' = SignaturesOf(d)
  BY DEF SlotsOf, SignaturesOf, DeleteContract
<1>5. Promise!Withdraw(c)
  BY <1>1, <1>2, <1>3, <1>4 DEF Promise!Withdraw
<1> QED
  BY <1>5 DEF Promise!Next

\* The INSERT that succeeds signs in its slot.
LEMMA InsertSigns ==
  ASSUME CountingInv, NEW r \in Requests, Inserts(r),
         req[r].contract_id \in DOMAIN contracts,
         req[r].slot_id \notin DOMAIN signatures,
         req[r].slot_id \in SlotsOf(req[r].contract_id),
         contracts[req[r].contract_id].status # "signed"
  PROVE  Promise!Next
<1>1. PICK c, s : /\ c = req[r].contract_id /\ s = req[r].slot_id
                  /\ s \in SlotsOf(c) /\ c \in DOMAIN contracts
  OBVIOUS
<1>2. /\ c \in ContractIds /\ c \in issued /\ contracts[c].status = "pending"
      /\ s \in SlotIds
  BY <1>1 DEF CountingInv, CountingOn, StructureInv, TypeOK, IsTable, SnapshotsHold,
              RequestState, Inserts, InFlight
<1>3. PhaseOf(c) = "pending"
  BY <1>1, <1>2 DEF PhaseOf
<1>4. \A d \in ContractIds : PhaseOf(d)' = PhaseOf(d) /\ SlotsOf(d)' = SlotsOf(d)
  BY DEF PhaseOf, SlotsOf, Inserts
<1>5. /\ SignaturesOf(c)' = SignaturesOf(c) \cup {s} /\ s \notin SignaturesOf(c)
      /\ \A d \in ContractIds \ {c} : SignaturesOf(d)' = SignaturesOf(d)
  BY <1>1 DEF SignaturesOf, Inserts
<1>6. Promise!Sign(c, s)
  BY <1>1, <1>2, <1>3, <1>4, <1>5 DEF Promise!Sign
<1> QED
  BY <1>2, <1>6 DEF Promise!Next

\* The last UPDATE completes the contract, or changes nothing a party sees.
LEMMA CountCompletes ==
  ASSUME CountingInv, CountingInv', NEW r \in Requests, CountSignature(r)
  PROVE  [Promise!Next]_(Promise!vars)
<1>1. PICK c : c = req[r].contract_id
  OBVIOUS
<1>2. /\ Counts(r) /\ contracts[c].status = "pending"
      /\ c \in DOMAIN contracts /\ c \in issued /\ c \in ContractIds
  BY <1>1, CountEffect, CountFindsPending
     DEF Counts, CountingInv, StructureInv, TypeOK, IsTable
<1>3. /\ \A d \in ContractIds : SlotsOf(d)' = SlotsOf(d)
                                 /\ SignaturesOf(d)' = SignaturesOf(d)
      /\ \A d \in ContractIds \ {c} : PhaseOf(d)' = PhaseOf(d)
  BY <1>1, <1>2 DEF Counts, SlotsOf, SignaturesOf, PhaseOf
<1>4. PhaseOf(c) = "pending" /\ PhaseOf(c)' = contracts'[c].status
  BY <1>1, <1>2 DEF PhaseOf, Counts
<1>5. contracts'[c].status = IF IsFullySigned(req[r]) THEN "signed" ELSE "pending"
  BY <1>1, CountedColumns DEF CountingInv
<1>6. CASE IsFullySigned(req[r])
  <2>1. PhaseOf(c)' = "signed"
    BY <1>4, <1>5, <1>6
  <2>2. SignaturesOf(c)' = SlotsOf(c)'
    <3>1. Settled(c)' = SlotsOf(c)'
      BY <1>2, <1>5, <1>6 DEF CountingInv, CountingOn, SignedIsSettled, Counts
    <3> QED
      BY <3>1, SettledIsSignedNext DEF SettledSigned, CountingInv
  <2>3. Promise!Complete(c)
    BY <1>2, <1>3, <1>4, <2>1, <2>2 DEF Promise!Complete
  <2> QED
    BY <1>2, <2>3 DEF Promise!Next
<1>7. CASE ~IsFullySigned(req[r])
  <2>1. \A d \in ContractIds : SeesTheSame(d)
    BY <1>3, <1>4, <1>5, <1>7 DEF SeesTheSame
  <2> QED
    BY <2>1, PromiseStutters
<1> QED
  BY <1>6, <1>7

\* Every other step: what a request reads and fills, no party sees.
LEMMA OtherStutters ==
  ASSUME UNCHANGED <<contracts, issued, signatures>>, \A d : SlotsOf(d)' = SlotsOf(d)
  PROVE  UNCHANGED Promise!vars
<1>1. \A d \in ContractIds : SeesTheSame(d)
  BY DEF SeesTheSame, PhaseOf, SignaturesOf
<1> QED
  BY <1>1, PromiseStutters

LEMMA PromiseStep ==
  CountingInv /\ CountingInv' /\ [SigningNext]_vars => [Promise!Next]_(Promise!vars)
<1> SUFFICES ASSUME CountingInv, CountingInv', [SigningNext]_vars
             PROVE  [Promise!Next]_(Promise!vars)
  OBVIOUS
<1>1. ASSUME NEW r \in Requests, InsertSignature(r)
      PROVE  [Promise!Next]_(Promise!vars)
  <2>1. CASE UNCHANGED <<tables, now>>
    BY <2>1, OtherStutters DEF tables, SlotsOf
  <2>2. CASE ~UNCHANGED <<tables, now>>
    BY <1>1, <2>2, InsertCases, InsertFindsOpen, InsertSigns DEF CountingInv
  <2> QED
    BY <2>1, <2>2
<1>2. ASSUME NEW r \in Requests, FillSlot(r)
      PROVE  [Promise!Next]_(Promise!vars)
  <2>1. Fills(r)
    BY <1>2, FillEffect DEF CountingInv
  <2> QED
    BY <2>1, OtherStutters DEF Fills, SlotsOf
<1>3. CASE UNCHANGED tables
  BY <1>3, OtherStutters DEF tables, SlotsOf
<1> QED
  BY <1>1, <1>2, <1>3, CreateOffers, DeleteWithdraws, CountCompletes
     DEF SigningNext, Step, Begin, LoadSlot, LoadSignatures, Abort, Tick, tables, vars

\* The service keeps its promise to the parties: signing, five statements without
\* a transaction, implements what SigningPromise does in single steps.
THEOREM PromiseKept == SigningSpec => KeepsPromise
<1>1. SigningSpec => Promise!Init /\ [][Promise!Next]_(Promise!vars)
  BY PromiseInit, PromiseStep, CountingInvariant, PTL DEF SigningSpec
<1> QED
  BY <1>1 DEF KeepsPromise, Promise!Spec

-----------------------------------------------------------------------------
(* One request at a time *)

\* A contract whose row, slots and signatures stay, of a request that stays where
\* it works or does not work and has counted as the row does.
LEMMA SerialUntouched ==
  ASSUME NEW c, SerialOn(c), contracts'[c] = contracts[c],
         SlotsOf(c)' = SlotsOf(c), SignaturesOf(c)' = SignaturesOf(c),
         \A s \in SlotsOf(c) : slots'[s] = slots[s],
         \A t \in InFlight : Working(t) /\ req[t].contract_id = c =>
           t \in InFlight' /\ req'[t] = req[t],
         \A t \in InFlight' : req'[t].contract_id = c =>
           \/ t \in InFlight /\ req'[t] = req[t]
           \/ /\ ~Working(t)'
              /\ req'[t].completed_signatures = contracts[c].completed_signatures
  PROVE  SerialOn(c)'
<1>1. AtRest(c) => AtRest(c)'
  BY DEF AtRest
<1>2. ASSUME \A t \in InFlight' : Working(t)' => req'[t].contract_id # c
      PROVE  AtRest(c)'
  <2>1. \A t \in InFlight : Working(t) => req[t].contract_id # c
    BY <1>2 DEF Working
  <2> QED
    BY <1>1, <2>1 DEF SerialOn
<1>3. ASSUME NEW t \in InFlight', req'[t].contract_id = c, Working(t)'
      PROVE  Underway(req[t], c)'
  <2>1. t \in InFlight /\ req'[t] = req[t] /\ Working(t)
    BY <1>3 DEF Working
  <2>2. Underway(req[t], c)
    BY <1>3, <2>1 DEF SerialOn
  <2> QED
    BY <2>1, <2>2 DEF Underway
<1>4. ASSUME NEW t \in InFlight', req'[t].contract_id = c, ~Working(t)'
      PROVE  req'[t].completed_signatures = contracts'[c].completed_signatures
  BY <1>4 DEF SerialOn, Working
<1> QED
  BY <1>2, <1>3, <1>4 DEF SerialOn

\* A new contract is at rest and pending.
LEMMA SerialCreateContract ==
  ASSUME CountingInv, SerialInv, NEW c \in ContractIds, NEW n \in SlotIds,
         NEW text \in Contents, NEW e \in Times \cup {None},
         CreateContract(c, n, text, e)
  PROVE  SerialInv'
<1> DEFINE new == nextSlot .. nextSlot + n - 1
<1>1. /\ c \notin DOMAIN contracts /\ nextSlot \in Nat
      /\ \A s \in DOMAIN slots : s \notin new /\ slots[s].contract_id # c
      /\ \A s \in DOMAIN signatures : signatures[s].contract_id # c
      /\ \A t \in InFlight : req[t].contract_id # c
  BY BoundsAssumption
     DEF CountingInv, StructureInv, ReferentialIntegrity, RequestsKnow, TypeOK, IsTable,
         CreateContract
<1>2. new # {}
  BY <1>1 DEF SlotIds
<1>3. /\ DOMAIN contracts' = DOMAIN contracts \cup {c}
      /\ contracts'[c].status = "pending"
      /\ contracts'[c].completed_signatures = 0
      /\ \A d \in DOMAIN contracts : contracts'[d] = contracts[d]
      /\ DOMAIN slots' = DOMAIN slots \cup new
      /\ \A s \in DOMAIN slots : slots'[s] = slots[s]
      /\ \A s \in new : slots'[s].contract_id = c /\ slots'[s].is_filled = FALSE
      /\ UNCHANGED <<signatures, req>>
  BY <1>1 DEF CreateContract
<1> HIDE DEF new
<1>4. ASSUME NEW d \in DOMAIN contracts PROVE SerialOn(d)'
  <2>1. SlotsOf(d)' = SlotsOf(d) /\ SignaturesOf(d)' = SignaturesOf(d)
    BY <1>1, <1>3, <1>4 DEF SlotsOf, SignaturesOf
  <2>2. \A s \in SlotsOf(d) : slots'[s] = slots[s]
    BY <1>3 DEF SlotsOf
  <2> QED
    BY <1>3, <2>1, <2>2, SerialUntouched DEF SerialInv, InFlight
<1>5. SerialOn(c)'
  <2>1. SignaturesOf(c)' = {} /\ SlotsOf(c)' = new
    BY <1>1, <1>3 DEF SignaturesOf, SlotsOf
  <2>2. AtRest(c)'
    BY <1>2, <1>3, <2>1, FS_EmptySet DEF AtRest
  <2> QED
    BY <1>1, <1>3, <2>2 DEF SerialOn, InFlight
<1> QED
  BY <1>3, <1>4, <1>5 DEF SerialInv

\* No request works on a contract that is deleted; the others stay.
LEMMA SerialDeleteContract ==
  ASSUME SerialInv, NEW c \in ContractIds, DeleteContract(c)
  PROVE  SerialInv'
<1> SUFFICES ASSUME NEW d \in DOMAIN contracts' PROVE SerialOn(d)'
  BY DEF SerialInv
<1>1. /\ d \in DOMAIN contracts /\ d # c /\ contracts'[d] = contracts[d]
      /\ SlotsOf(d)' = SlotsOf(d) /\ SignaturesOf(d)' = SignaturesOf(d)
      /\ \A s \in SlotsOf(d) : slots'[s] = slots[s]
      /\ UNCHANGED req
  BY DEF DeleteContract, SlotsOf, SignaturesOf
<1> QED
  BY <1>1, SerialUntouched DEF SerialInv, InFlight

\* A request that begins has counted what the row says, and one that reads on or
\* is refused does not work.
LEMMA SerialReads ==
  ASSUME SerialInv, UNCHANGED tables,
         \A t \in InFlight : Working(t) => t \in InFlight' /\ req'[t] = req[t],
         \A t \in InFlight' :
           \/ t \in InFlight /\ req'[t] = req[t]
           \/ /\ t \in InFlight /\ ~Working(t) /\ ~Working(t)'
              /\ req'[t].contract_id = req[t].contract_id
              /\ req'[t].completed_signatures = req[t].completed_signatures
           \/ /\ ~Working(t)'
              /\ req'[t].completed_signatures =
                   contracts[req'[t].contract_id].completed_signatures
  PROVE  SerialInv'
<1> SUFFICES ASSUME NEW c \in DOMAIN contracts PROVE SerialOn(c)'
  BY DEF SerialInv, tables
<1>1. /\ SerialOn(c) /\ contracts'[c] = contracts[c]
      /\ SlotsOf(c)' = SlotsOf(c) /\ SignaturesOf(c)' = SignaturesOf(c)
      /\ \A s \in SlotsOf(c) : slots'[s] = slots[s]
  BY DEF SerialInv, tables, SlotsOf, SignaturesOf
<1>2. \A t \in InFlight' : req'[t].contract_id = c =>
        \/ t \in InFlight /\ req'[t] = req[t]
        \/ /\ ~Working(t)'
           /\ req'[t].completed_signatures = contracts[c].completed_signatures
  BY <1>1 DEF SerialOn
<1> QED
  BY <1>1, <1>2, SerialUntouched

LEMMA SerialRead ==
  ASSUME CountingInv, SerialInv, NEW r \in Requests, LoadSlot(r) \/ LoadSignatures(r)
  PROVE  SerialInv'
<1>1. /\ r \in InFlight /\ req[r].pc \in {"slot", "load"} /\ ~Working(r)
      /\ UNCHANGED tables /\ TypeOK /\ req[r] \in RequestState
  BY DEF LoadSlot, LoadSignatures, At, Working, CountingInv, StructureInv, TypeOK,
         IsTable, InFlight
<1>2. CASE Return(r)
  <2>1. InFlight' = InFlight \ {r} /\ \A t \in InFlight' : req'[t] = req[t]
    BY <1>1, <1>2, Moves
  <2> QED
    BY <1>1, <2>1, SerialReads
<1>3. ASSUME NEW pc \in {"load", "insert"}, GoTo(r, pc) PROVE SerialInv'
  <2>1. /\ InFlight' = InFlight /\ req'[r] = [req[r] EXCEPT !.pc = pc]
        /\ req'[r].pc = pc /\ \A t \in InFlight \ {r} : req'[t] = req[t]
    BY <1>1, <1>3, Moves
  <2>2. /\ req'[r].contract_id = req[r].contract_id /\ ~Working(r)'
        /\ req'[r].completed_signatures = req[r].completed_signatures
    BY <1>1, <2>1 DEF RequestState, Working
  <2> QED
    BY <1>1, <2>1, <2>2, SerialReads
<1>4. CASE LoadSignatures(r)
  <2>1. /\ InFlight' = InFlight /\ \A t \in InFlight \ {r} : req'[t] = req[t]
        /\ req'[r].contract_id = req[r].contract_id /\ ~Working(r)'
        /\ req'[r].completed_signatures = req[r].completed_signatures
    BY <1>1, <1>4 DEF LoadSignatures, RequestState, InFlight, Working
  <2> QED
    BY <1>1, <2>1, SerialReads
<1> QED
  BY <1>2, <1>3, <1>4 DEF LoadSlot

LEMMA SerialBegin ==
  ASSUME CountingInv, SerialInv, NEW r \in Requests, NEW c \in ContractIds,
         NEW s \in SlotIds, Begin(r, c, s)
  PROVE  SerialInv'
<1>1. /\ InFlight' = InFlight \cup {r} /\ r \notin InFlight
      /\ \A t \in InFlight : req'[t] = req[t]
      /\ req'[r].contract_id = c /\ req'[r].pc = "slot"
      /\ req'[r].completed_signatures = contracts[c].completed_signatures
      /\ UNCHANGED tables
  BY DEF Begin, InFlight
<1> QED
  BY <1>1, SerialReads DEF Working

Alone == \A r, t \in Requests : r = t

\* The signature of the only request is one more than it counted.
LEMMA SerialInsert ==
  ASSUME Alone, CountingInv, SerialInv, NEW r \in Requests, Inserts(r),
         req[r].contract_id \in DOMAIN contracts,
         req[r].slot_id \notin DOMAIN signatures,
         req[r].slot_id \in SlotsOf(req[r].contract_id)
  PROVE  SerialInv'
<1>1. PICK c, s : /\ c = req[r].contract_id /\ s = req[r].slot_id
                  /\ s \in SlotsOf(c) /\ c \in DOMAIN contracts
  OBVIOUS
<1>2. /\ InFlight = {r} /\ InFlight' = {r}
      /\ req[r].pc = "insert" /\ req'[r].pc = "fill" /\ ~Working(r)
      /\ req'[r].contract_id = c /\ req'[r].slot_id = s
      /\ req'[r].completed_signatures = req[r].completed_signatures
  <2>1. InFlight \subseteq Requests /\ req[r] \in RequestState /\ r \in InFlight
    BY DEF CountingInv, StructureInv, TypeOK, IsTable, InFlight, Inserts
  <2> QED
    BY <1>1, <2>1 DEF Alone, Inserts, Working, RequestState
<1>3. /\ SignaturesOf(c)' = SignaturesOf(c) \cup {s} /\ s \notin SignaturesOf(c)
      /\ \A d : d # c => SignaturesOf(d)' = SignaturesOf(d)
      /\ \A d : SlotsOf(d)' = SlotsOf(d)
      /\ UNCHANGED <<contracts, slots>>
  BY <1>1 DEF SignaturesOf, SlotsOf, Inserts
<1>4. ASSUME NEW d \in DOMAIN contracts, d # c PROVE SerialOn(d)'
  BY <1>1, <1>2, <1>3, <1>4, SerialUntouched DEF SerialInv
<1>5. SerialOn(c)'
  <2>1. AtRest(c) /\ req[r].completed_signatures = contracts[c].completed_signatures
    BY <1>1, <1>2 DEF SerialInv, SerialOn
  <2>2. Cardinality(SignaturesOf(c) \cup {s}) = Cardinality(SignaturesOf(c)) + 1
    <3>1. IsFiniteSet(SlotsOf(c)) /\ SignaturesOf(c) \subseteq SlotsOf(c)
      BY FiniteSlots, SettledIsSigned DEF CountingInv, StructureInv, SlotSetsFinite
    <3> QED
      BY <1>3, <3>1, FS_Subset, FS_AddElement
  <2>3. Underway(req[r], c)'
    BY <1>2, <1>3, <2>1, <2>2 DEF Underway, AtRest
  <2> QED
    BY <1>2, <2>3 DEF SerialOn, Working
<1> QED
  BY <1>3, <1>4, <1>5 DEF SerialInv

LEMMA SerialFill ==
  ASSUME Alone, CountingInv, SerialInv, NEW r \in Requests, FillSlot(r)
  PROVE  SerialInv'
<1>1. PICK c, s : /\ c = req[r].contract_id /\ s = req[r].slot_id
  OBVIOUS
<1>2. /\ Fills(r) /\ InFlight = {r} /\ InFlight' = {r} /\ Working(r)
      /\ req[r].pc = "fill" /\ req'[r].pc = "count"
      /\ req'[r].contract_id = c /\ req'[r].slot_id = s
      /\ req'[r].completed_signatures = req[r].completed_signatures
  <2>1. /\ InFlight \subseteq Requests /\ req[r] \in RequestState /\ r \in InFlight
        /\ req[r].pc = "fill"
    BY DEF CountingInv, StructureInv, TypeOK, IsTable, InFlight, FillSlot, At
  <2>2. Fills(r)
    BY FillEffect DEF CountingInv
  <2> QED
    BY <1>1, <2>1, <2>2 DEF Alone, Fills, Working, RequestState
<1>3. s \in SignaturesOf(c) /\ s \in SlotsOf(c) /\ c \in DOMAIN contracts
  BY <1>1, <1>2
     DEF CountingInv, StructureInv, RequestsKnow, ReferentialIntegrity, SignaturesOf, SlotsOf
<1>4. /\ \A d : SignaturesOf(d)' = SignaturesOf(d) /\ SlotsOf(d)' = SlotsOf(d)
      /\ \A t \in DOMAIN slots : t # s => slots'[t] = slots[t]
      /\ slots'[s].is_filled
      /\ UNCHANGED contracts
  BY <1>1, <1>2 DEF Fills, SignaturesOf, SlotsOf
<1>5. ASSUME NEW d \in DOMAIN contracts, d # c PROVE SerialOn(d)'
  <2>1. \A t \in SlotsOf(d) : slots'[t] = slots[t]
    BY <1>3, <1>4, <1>5 DEF SlotsOf
  <2> QED
    BY <1>1, <1>2, <1>4, <1>5, <2>1, SerialUntouched DEF SerialInv
<1>6. SerialOn(c)'
  <2>1. Underway(req[r], c)
    BY <1>1, <1>2, <1>3 DEF SerialInv, SerialOn
  <2>2. /\ Cardinality(SignaturesOf(c)) = req[r].completed_signatures + 1
        /\ {t \in SlotsOf(c) : slots[t].is_filled} = SignaturesOf(c) \ {s}
    BY <1>1, <1>2, <2>1 DEF Underway
  <2>3. {t \in SlotsOf(c) : slots'[t].is_filled} =
          {t \in SlotsOf(c) : slots[t].is_filled} \cup {s}
    BY <1>3, <1>4 DEF SlotsOf
  <2>4. {t \in SlotsOf(c)' : slots'[t].is_filled} = SignaturesOf(c)'
    BY <1>3, <1>4, <2>2, <2>3
  <2>5. Underway(req[r], c)'
    BY <1>2, <1>4, <2>2, <2>4 DEF Underway
  <2> QED
    BY <1>2, <2>5 DEF SerialOn, Working
<1> QED
  BY <1>4, <1>5, <1>6 DEF SerialInv

\* The last UPDATE brings the count up to the signatures, and finds the contract
\* complete exactly when there is one per slot.
LEMMA SerialCount ==
  ASSUME Alone, CountingInv, SerialInv, NEW r \in Requests, CountSignature(r)
  PROVE  SerialInv'
<1>1. PICK c : c = req[r].contract_id
  OBVIOUS
<1>2. /\ Counts(r) /\ InFlight = {r} /\ InFlight' = {} /\ req[r] \in RequestState
      /\ req[r].pc = "count" /\ Working(r) /\ c \in DOMAIN contracts
  <2>1. /\ InFlight \subseteq Requests /\ req[r] \in RequestState /\ r \in InFlight
        /\ req[r].pc = "count"
    BY DEF CountingInv, StructureInv, TypeOK, IsTable, InFlight, CountSignature, At
  <2>2. Counts(r)
    BY CountEffect DEF CountingInv
  <2> QED
    BY <1>1, <2>1, <2>2 DEF Alone, Counts, Working
<1>3. \A d : SignaturesOf(d)' = SignaturesOf(d) /\ SlotsOf(d)' = SlotsOf(d)
  BY <1>2 DEF Counts, SignaturesOf, SlotsOf
<1>4. ASSUME NEW d \in DOMAIN contracts, d # c PROVE SerialOn(d)'
  BY <1>1, <1>2, <1>3, <1>4, SerialUntouched DEF SerialInv, Counts
<1>5. SerialOn(c)'
  <2>1. /\ Cardinality(SignaturesOf(c)) = req[r].completed_signatures + 1
        /\ {t \in SlotsOf(c) : slots[t].is_filled} = SignaturesOf(c)
    <3>1. Underway(req[r], c)
      BY <1>1, <1>2 DEF SerialInv, SerialOn
    <3> QED
      BY <1>2, <3>1 DEF Underway
  <2>2. /\ contracts'[c].completed_signatures = Cardinality(SignaturesOf(c))
        /\ contracts'[c].status = IF IsFullySigned(req[r]) THEN "signed" ELSE "pending"
        /\ IsFullySigned(req[r]) => contracts'[c].final_hash # None
    <3>1. contracts[c] \in ContractRow(FinalHashes)
      BY <1>2 DEF CountingInv, StructureInv, TypeOK, IsTable
    <3>2. generate_final_hash(req[r].content, req[r].existing, req[r].slot_id) # None
      BY <1>2, NoneAssumption DEF generate_final_hash, FinalHashes, RequestState
    <3> QED
      BY <1>1, <1>2, <2>1, <3>1, <3>2 DEF Counts, CountedRow, ContractRow
  <2>3. IsFullySigned(req[r]) <=> SignaturesOf(c) = SlotsOf(c)
    <3>1. /\ IsFiniteSet(SlotsOf(c)) /\ SignaturesOf(c) \subseteq SlotsOf(c)
          /\ Cardinality(SlotsOf(c)) \in Nat
      BY FiniteSlots, SettledIsSigned DEF CountingInv, StructureInv, SlotSetsFinite
    <3>2. /\ Cardinality(SignaturesOf(c)) \in Nat
          /\ Cardinality(SignaturesOf(c)) <= Cardinality(SlotsOf(c))
          /\ Cardinality(SignaturesOf(c)) = Cardinality(SlotsOf(c)) =>
               SignaturesOf(c) = SlotsOf(c)
      BY <3>1, FS_Subset, FS_CardinalityType
    <3>3. req[r].required_signatures = Cardinality(SlotsOf(c))
      BY <1>1, <1>2 DEF CountingInv, CountingOn, SnapshotsHold
    <3> QED
      BY <2>1, <3>1, <3>2, <3>3 DEF IsFullySigned
  <2>4. AtRest(c)'
    BY <1>2, <1>3, <2>1, <2>2, <2>3 DEF AtRest, Counts
  <2> QED
    BY <1>2, <2>4 DEF SerialOn
<1> QED
  BY <1>2, <1>4, <1>5 DEF SerialInv, Counts

LEMMA SerialNext ==
  ASSUME Alone, ~Failures
  PROVE  CountingInv /\ SerialInv /\ [SigningNext]_vars => SerialInv'
<1> SUFFICES ASSUME CountingInv, SerialInv, [SigningNext]_vars PROVE SerialInv'
  OBVIOUS
<1>1. ASSUME NEW r \in Requests, InsertSignature(r) PROVE SerialInv'
  <2>1. CASE Return(r) /\ r \in InFlight /\ UNCHANGED <<tables, now>>
    <3>1. /\ InFlight' = InFlight \ {r} /\ \A t \in InFlight' : req'[t] = req[t]
          /\ UNCHANGED tables /\ ~Working(r)
      BY <1>1, <2>1, Moves DEF CountingInv, StructureInv, InsertSignature, At, Working
    <3> QED
      BY <3>1, SerialReads
  <2> QED
    BY <1>1, <2>1, InsertCases, SerialInsert DEF CountingInv
<1>2. CASE UNCHANGED <<tables, req>>
  BY <1>2, SerialReads DEF InFlight
<1>3. ASSUME NEW r \in Requests, Step(r) PROVE SerialInv'
  BY <1>1, <1>3, SerialRead, SerialFill, SerialCount DEF Step
<1> QED
  BY <1>2, <1>3, SerialCreateContract, SerialDeleteContract, SerialBegin
     DEF SigningNext, Abort, Tick, tables, vars

\* Of requests that come one at a time and do not fail, what each has counted
\* stays true until it writes.
LEMMA SerialInvariant ==
  ASSUME Alone, ~Failures
  PROVE  SigningSpec => []SerialInv
<1>1. Init => SerialInv
  BY DEF Init, SerialInv, NoRows
<1> QED
  BY <1>1, SerialNext, CountingInvariant, PTL DEF SigningSpec

\* With one sign_contract request at a time and no failure, the count and the
\* filled slots of a contract on which nobody works are its signatures, and it is
\* signed exactly when there is one in every slot.
THEOREM SerialCountsAreExact ==
  ASSUME \A r, t \in Requests : r = t, ~Failures
  PROVE  SigningSpec => []CountTracksSignatures
<1>1. Alone
  BY DEF Alone
<1>2. SerialInv => CountTracksSignatures
  BY DEF SerialInv, SerialOn, AtRest, CountTracksSignatures, Quiet, Working
<1> QED
  BY <1>1, <1>2, SerialInvariant, PTL

\* Under the same conditions a contract that has a signature in every slot has a
\* final hash: it is lost only where requests meet or fail.
THEOREM SerialSigningEndsInProof ==
  ASSUME \A r, t \in Requests : r = t, ~Failures
  PROVE  SigningSpec => []FinalHashOnceAllSigned
<1>1. Alone
  BY DEF Alone
<1>2. SerialInv => FinalHashOnceAllSigned
  BY DEF SerialInv, SerialOn, AtRest, FinalHashOnceAllSigned, Quiet, Working
<1> QED
  BY <1>1, <1>2, SerialInvariant, PTL

-----------------------------------------------------------------------------
(* What a party may rely on *)

\* SigningPromise as ContractSigning implements it, with the theorems about it.
Promised == INSTANCE SigningPromiseProofs WITH
  phase <- [c \in ContractIds |-> PhaseOf(c)],
  parties <- [c \in ContractIds |-> SlotsOf(c)],
  signedBy <- [c \in ContractIds |-> SignaturesOf(c)]

LEMMA PromiseApplies == SigningSpec => Promised!Spec
<1>1. Promise!Init => Promised!Init
  BY DEF Promise!Init, Promised!Init
<1>2. [Promise!Next]_(Promise!vars) => [Promised!Next]_(Promised!vars)
  BY DEF Promise!Next, Promise!Offer, Promise!Sign, Promise!Complete,
         Promise!Withdraw, Promise!vars, Promised!Next, Promised!Offer,
         Promised!Sign, Promised!Complete, Promised!Withdraw, Promised!vars
<1> QED
  BY PromiseKept, <1>1, <1>2, PTL DEF KeepsPromise, Promise!Spec, Promised!Spec

\* A contract that is shown as signed has a signature in each of its slots, and
\* only its slots have one.
THEOREM SignedByAllParties == SigningSpec => []Promised!Kept
BY PromiseApplies, Promised!AllPartiesSigned, PTL

\* No handler, whatever it runs beside, takes a signature back or changes the
\* slots of a signed contract.
THEOREM NothingIsTakenBack == SigningSpec => Promised!Irrevocable
BY PromiseApplies, Promised!SigningIsIrrevocable, PTL
=============================================================================
