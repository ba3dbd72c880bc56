------------------------- MODULE ContractPagesProofs --------------------------
(***************************************************************************)
(* What the migrations leave satisfies StructureInv, for any number of old *)
(* contracts, and CountingOn for each of them; the pages beside it do not  *)
(* disturb it.  So the proofs of ContractSigning carry over to an upgraded *)
(* database, with edits for the contracts that nobody has edited, and what *)
(* a page has read stays true enough for what it shows.                    *)
(***************************************************************************)
EXTENDS ContractPages, SigningOutcomeProofs

-----------------------------------------------------------------------------
(* Migrated tables *)

\* The place of a contract determines it, and every place has one.
LEMMA NumberingsOneToOne ==
  ASSUME NEW S, IsFiniteSet(S), NEW place \in Numberings(S)
  PROVE  /\ Cardinality(S) \in Nat
         /\ place \in [S -> 1 .. Cardinality(S)]
         /\ \A a, b \in S : place[a] = place[b] => a = b
         /\ \A n \in 1 .. Cardinality(S) : \E a \in S : place[a] = n
BY FS_CardinalityType
   DEF Numberings, Bijection, Injection, Surjection, IsInjective

\* A slot is its contract's, and filled when that was signed.
LEMMA SlotAtItsPlace ==
  ASSUME NEW old, IsFiniteSet(DOMAIN old), NEW place \in Numberings(DOMAIN old),
         \A c \in DOMAIN old : old[c].status \in {"pending", "signed"}
  PROVE  /\ DOMAIN CreateSlots(old, place) = 1 .. Cardinality(DOMAIN old)
         /\ CreateSlots(old, place) =
              [s \in DOMAIN CreateSlots(old, place) |-> CreateSlots(old, place)[s]]
         /\ \A c \in DOMAIN old :
              /\ place[c] \in DOMAIN CreateSlots(old, place)
              /\ CreateSlots(old, place)[place[c]].contract_id = c
              /\ CreateSlots(old, place)[place[c]].is_filled <=> old[c].status = "signed"
              /\ CreateSlots(old, place)[place[c]]
                   \in [contract_id : DOMAIN old, is_filled : BOOLEAN]
         /\ \A s \in DOMAIN CreateSlots(old, place) :
              \E c \in DOMAIN old : place[c] = s
<1>1. /\ place \in [DOMAIN old -> 1 .. Cardinality(DOMAIN old)]
      /\ \A a, b \in DOMAIN old : place[a] = place[b] => a = b
      /\ \A n \in 1 .. Cardinality(DOMAIN old) : \E a \in DOMAIN old : place[a] = n
  BY NumberingsOneToOne
<1>2. ASSUME NEW c \in DOMAIN old
      PROVE  (CHOOSE d \in DOMAIN old : place[d] = place[c]) = c
  BY <1>1
<1>3. \A c \in DOMAIN old :
        /\ place[c] \in 1 .. Cardinality(DOMAIN old)
        /\ CreateSlots(old, place)[place[c]] =
             [contract_id |-> c, is_filled |-> old[c].status = "signed"]
  BY <1>1, <1>2 DEF CreateSlots
<1>4. \A c \in DOMAIN old :
        /\ CreateSlots(old, place)[place[c]].contract_id = c
        /\ CreateSlots(old, place)[place[c]].is_filled <=> old[c].status = "signed"
        /\ CreateSlots(old, place)[place[c]]
             \in [contract_id : DOMAIN old, is_filled : BOOLEAN]
  <2> TAKE c \in DOMAIN old
  <2> DEFINE filled == old[c].status = "signed"
  <2>1. CreateSlots(old, place)[place[c]] = [contract_id |-> c, is_filled |-> filled]
    BY <1>3
  <2>2. filled \in BOOLEAN
    OBVIOUS
  <2> HIDE DEF filled
  <2>3. /\ CreateSlots(old, place)[place[c]].contract_id = c
        /\ CreateSlots(old, place)[place[c]].is_filled = filled
    BY <2>1
  <2>4. CreateSlots(old, place)[place[c]] \in [contract_id : DOMAIN old, is_filled : BOOLEAN]
    BY <2>1, <2>2
  <2> QED
    BY <2>3, <2>4, Zenon DEF filled
<1> QED
  BY <1>1, <1>3, <1>4 DEF CreateSlots

\* Each signature of old is linked to the place of its contract.
LinkedAtPlaces(linked, old, place) ==
  /\ DOMAIN linked = {place[c] : c \in DOMAIN old}
  /\ linked = [s \in DOMAIN linked |-> linked[s]]
  /\ \A c \in DOMAIN old :
       linked[place[c]] = [id |-> old[c].id, contract_id |-> c,
                           content_hash |-> old[c].content_hash]

\* A signature stands in the slot of its contract.
LEMMA SignatureAtItsPlace ==
  ASSUME NEW S, IsFiniteSet(S), NEW place \in Numberings(S),
         NEW sigs, DOMAIN sigs \subseteq S
  PROVE  LinkedAtPlaces(LinkSignatures(sigs, place), sigs, place)
<1>1. \A a, b \in S : place[a] = place[b] => a = b
  BY NumberingsOneToOne
<1>2. ASSUME NEW c \in DOMAIN sigs
      PROVE  (CHOOSE d \in DOMAIN sigs : place[d] = place[c]) = c
  BY <1>1
<1> QED
  BY <1>2 DEF LinkedAtPlaces, LinkSignatures

\* A migrated contract has one slot, filled and counted when it was signed, and no
\* final hash.
MigratedContract(c) ==
  /\ contracts[c].required_signatures = 1
  /\ contracts[c].final_hash = None
  /\ \/ /\ contracts[c].status = "signed" /\ contracts[c].completed_signatures = 1
        /\ \E s : SlotsOf(c) = {s} /\ slots[s].is_filled
     \/ /\ contracts[c].status = "pending" /\ contracts[c].completed_signatures = 0
        /\ \E s : SlotsOf(c) = {s}
        /\ SignaturesOf(c) = {}

MigratedTables ==
  /\ StructureInv /\ IdsInOrder /\ InFlight = {}
  /\ \A c \in DOMAIN contracts : MigratedContract(c)

LEMMA MigratedStructure == MigratedInit => MigratedTables
<1> SUFFICES ASSUME MigratedInit PROVE MigratedTables
  OBVIOUS
<1>1. PICK olds \in SUBSET ContractIds :
        /\ IsFiniteSet(olds) /\ Cardinality(olds) <= MaxSlots
        /\ \E old \in [olds -> OldRow] :
             LET closed == {c \in olds : old[c].status = "signed"} IN
             \E hashed \in SUBSET closed, place \in Numberings(olds),
                order \in Numberings(closed) :
               /\ contracts = CountOldSignatures(AddSignatureFields(old))
               /\ slots = CreateSlots(old, place)
               /\ signatures = LinkSignatures(
                    [c \in closed |->
                       [id |-> order[c],
                        content_hash |-> IF c \in hashed
                                         THEN hash_content(old[c].content)
                                         ELSE NoHash]],
                    place)
               /\ issued = olds
               /\ nextSlot = Cardinality(olds) + 1
               /\ now = 0
               /\ req = NoRows
  BY DEF MigratedInit
<1>2. PICK old \in [olds -> OldRow] :
        LET closed == {c \in olds : old[c].status = "signed"} IN
        \E hashed \in SUBSET closed, place \in Numberings(olds),
           order \in Numberings(closed) :
          /\ contracts = CountOldSignatures(AddSignatureFields(old))
          /\ slots = CreateSlots(old, place)
          /\ signatures = LinkSignatures(
               [c \in closed |->
                  [id |-> order[c],
                   content_hash |-> IF c \in hashed
                                    THEN hash_content(old[c].content)
                                    ELSE NoHash]],
               place)
          /\ issued = olds
          /\ nextSlot = Cardinality(olds) + 1
          /\ now = 0
          /\ req = NoRows
  BY <1>1
<1> DEFINE closed == {c \in olds : old[c].status = "signed"}
<1>3. PICK hashed \in SUBSET closed, place \in Numberings(olds),
           order \in Numberings(closed) :
        /\ contracts = CountOldSignatures(AddSignatureFields(old))
        /\ slots = CreateSlots(old, place)
        /\ signatures = LinkSignatures(
             [c \in closed |->
                [id |-> order[c],
                 content_hash |-> IF c \in hashed
                                  THEN hash_content(old[c].content)
                                  ELSE NoHash]],
             place)
        /\ issued = olds
        /\ nextSlot = Cardinality(olds) + 1
        /\ now = 0
        /\ req = NoRows
  BY <1>2
<1> DEFINE sigs == [c \in closed |->
                      [id |-> order[c],
                       content_hash |-> IF c \in hashed
                                        THEN hash_content(old[c].content)
                                        ELSE NoHash]]
<1>4. /\ DOMAIN old = olds /\ IsFiniteSet(olds) /\ Cardinality(olds) \in Nat
      /\ Cardinality(olds) \in 0 .. MaxSlots
      /\ olds \subseteq ContractIds
      /\ \A c \in olds : old[c] \in OldRow
      /\ \A c \in olds : old[c].status \in {"pending", "signed"}
  BY <1>1, FS_CardinalityType, BoundsAssumption DEF OldRow
<1>5. /\ DOMAIN slots = 1 .. Cardinality(olds)
      /\ slots = [s \in DOMAIN slots |-> slots[s]]
      /\ \A c \in olds :
           /\ place[c] \in DOMAIN slots
           /\ slots[place[c]].contract_id = c
           /\ slots[place[c]].is_filled <=> c \in closed
           /\ slots[place[c]] \in [contract_id : olds, is_filled : BOOLEAN]
      /\ \A s \in DOMAIN slots : \E c \in olds : place[c] = s
  <2>1. slots = CreateSlots(old, place) /\ DOMAIN old = olds
    BY <1>3, <1>4
  <2>2. \A c \in olds : c \in closed <=> old[c].status = "signed"
    OBVIOUS
  <2> HIDE DEF closed
  <2> QED
    BY <1>4, <2>1, <2>2, SlotAtItsPlace
<1>6. /\ DOMAIN signatures = {place[c] : c \in closed}
      /\ signatures = [s \in DOMAIN signatures |-> signatures[s]]
      /\ \A c \in closed : signatures[place[c]] =
           [id |-> sigs[c].id, contract_id |-> c, content_hash |-> sigs[c].content_hash]
  <2>1. DOMAIN sigs = closed /\ closed \subseteq olds
    OBVIOUS
  <2>2. signatures = LinkSignatures(sigs, place)
    BY <1>3
  <2> HIDE DEF sigs, closed
  <2>3. DOMAIN sigs \subseteq olds
    BY <2>1
  <2>4. /\ DOMAIN signatures = {place[c] : c \in DOMAIN sigs}
        /\ signatures = [s \in DOMAIN signatures |-> signatures[s]]
        /\ \A c \in DOMAIN sigs : signatures[place[c]] =
             [id |-> sigs[c].id, contract_id |-> c, content_hash |-> sigs[c].content_hash]
    <3>1. IsFiniteSet(olds) /\ place \in Numberings(olds)
      BY <1>3, <1>4
    <3>2. LinkedAtPlaces(LinkSignatures(sigs, place), sigs, place)
      BY <2>3, <3>1, SignatureAtItsPlace
    <3> QED
      BY <2>2, <3>2, Zenon DEF LinkedAtPlaces
  <2> QED
    BY <2>1, <2>4, Zenon
<1>20. /\ IsFiniteSet(closed)
       /\ order \in [closed -> 1 .. Cardinality(closed)] /\ Cardinality(closed) \in Nat
       /\ \A c \in closed : sigs[c].id = order[c]
  <2>1. IsFiniteSet(closed)
    BY <1>4, FS_Subset
  <2>2. order \in [closed -> 1 .. Cardinality(closed)] /\ Cardinality(closed) \in Nat
    <3> HIDE DEF closed
    <3> QED
      BY <1>3, <2>1, NumberingsOneToOne
  <2> QED
    BY <2>1, <2>2
<1>7. \A c \in closed : sigs[c].id \in Nat /\ sigs[c].content_hash \in [sha256 : Contents \cup {None}]
  <2>1. \A c \in closed : old[c].content \in Contents
    BY <1>4 DEF OldRow
  <2> QED
    BY <1>20, <2>1 DEF hash_content, NoHash
<1>8. IsTable(contracts, issued, ContractRow(FinalHashes))
  <2>1. /\ contracts = CountOldSignatures(AddSignatureFields(old)) /\ issued = olds
    BY <1>3
  <2>2. \A c \in olds : /\ old[c].content \in Contents
                        /\ old[c].expires_at \in Times \cup {None}
                        /\ old[c].status \in Statuses
    BY <1>4 DEF OldRow, Statuses
  <2>3. DOMAIN AddSignatureFields(old) = olds
    BY <1>4 DEF AddSignatureFields
  <2>4. \A c \in olds : AddSignatureFields(old)[c] \in ContractRow(FinalHashes)
    BY <1>4, <2>2 DEF AddSignatureFields, ContractRow
  <2>5. \A c \in olds : \A n \in Int :
          [AddSignatureFields(old)[c] EXCEPT !.completed_signatures = n]
            \in ContractRow(FinalHashes)
    BY <2>4 DEF ContractRow
  <2> HIDE DEF closed, sigs
  <2>6. contracts = [c \in olds |->
          [AddSignatureFields(old)[c] EXCEPT !.completed_signatures =
             IF AddSignatureFields(old)[c].status = "signed" THEN 1 ELSE 0]]
    BY <2>1, <2>3 DEF CountOldSignatures
  <2>7. ASSUME NEW c \in olds
        PROVE  contracts[c] \in ContractRow(FinalHashes)
    <3> DEFINE n == IF AddSignatureFields(old)[c].status = "signed" THEN 1 ELSE 0
    <3>1. contracts[c] = [AddSignatureFields(old)[c] EXCEPT !.completed_signatures = n]
      BY <2>6
    <3>2. n \in Int
      OBVIOUS
    <3> HIDE DEF n
    <3> QED
      BY <2>5, <3>1, <3>2
  <2>8. DOMAIN contracts = olds /\ contracts = [c \in DOMAIN contracts |-> contracts[c]]
    BY <2>6
  <2> QED
    BY <2>1, <2>7, <2>8 DEF IsTable
<1>9. DOMAIN contracts = olds
  BY <1>3, <1>4 DEF CountOldSignatures, AddSignatureFields
<1>10. IsTable(slots, 1 .. nextSlot - 1, SlotRow)
  <2>1. DOMAIN slots = 1 .. nextSlot - 1
    BY <1>3, <1>4, <1>5
  <2>2. \A c \in olds : slots[place[c]] \in SlotRow
    BY <1>4, <1>5 DEF SlotRow
  <2>3. \A s \in DOMAIN slots : slots[s] \in SlotRow
    BY <1>5, <2>2
  <2> QED
    BY <1>5, <2>1, <2>3 DEF IsTable
<1> HIDE DEF closed, sigs
<1>16. closed \subseteq olds
  BY DEF closed
<1>11. IsTable(signatures, SlotIds, SignatureRow)
  <2>1. \A c \in closed : place[c] \in SlotIds
    BY <1>4, <1>5, <1>16, BoundsAssumption DEF SlotIds
  <2>2. ASSUME NEW c \in closed
        PROVE  signatures[place[c]] \in SignatureRow
    <3>1. signatures[place[c]] =
            [id |-> sigs[c].id, contract_id |-> c, content_hash |-> sigs[c].content_hash]
      BY <1>6
    <3>2. /\ sigs[c].id \in Nat /\ c \in ContractIds
          /\ sigs[c].content_hash \in [sha256 : Contents \cup {None}]
      BY <1>4, <1>7, <1>16
    <3> QED
      BY <3>1, <3>2 DEF SignatureRow
  <2> QED
    BY <1>6, <2>1, <2>2 DEF IsTable
<1>12. TypeOK
  BY <1>3, <1>4, <1>8, <1>10, <1>11, BoundsAssumption
     DEF TypeOK, IsTable, NoRows, Times
<1>13. ReferentialIntegrity
  <2>1. \A s \in DOMAIN slots : slots[s].contract_id \in DOMAIN contracts
    BY <1>5, <1>9
  <2>2. ASSUME NEW s \in DOMAIN signatures
        PROVE  /\ s \in DOMAIN slots
               /\ signatures[s].contract_id = slots[s].contract_id
    <3>1. PICK c \in closed : s = place[c]
      BY <1>6
    <3>0. signatures[place[c]] =
            [id |-> sigs[c].id, contract_id |-> c, content_hash |-> sigs[c].content_hash]
      BY <1>6
    <3>2. signatures[place[c]].contract_id = c
      BY <3>0
    <3>3. place[c] \in DOMAIN slots /\ slots[place[c]].contract_id = c
      BY <1>5, <1>16
    <3> QED
      BY <3>1, <3>2, <3>3
  <2> QED
    BY <2>1, <2>2 DEF ReferentialIntegrity
<1>14. FilledHasSignature
  BY <1>5, <1>6 DEF FilledHasSignature
<1>15. DOMAIN req = {}
  BY <1>3 DEF NoRows
<1>17. StructureInv /\ InFlight = {}
  BY <1>12, <1>13, <1>14, <1>15
     DEF StructureInv, RequestsKnow, OneWorkerPerSlot, InFlight
<1>18. IdsInOrder
  <2>1. \A a, b \in olds : place[a] = place[b] => a = b
    BY <1>4, <1>3, NumberingsOneToOne
  <2>2. IsFiniteSet(closed) /\ IsFiniteSet(DOMAIN signatures)
    BY <1>4, <1>12, <1>16, FS_Subset, SlotIdsFinite DEF TypeOK, IsTable
  <2>3. [c \in closed |-> place[c]] \in Injection(closed, DOMAIN signatures)
    BY <1>6, <1>16, <2>1 DEF Injection, IsInjective
  <2>4. Cardinality(closed) <= Cardinality(DOMAIN signatures)
    BY <2>2, <2>3, FS_Injection
  <2>6. Cardinality(DOMAIN signatures) \in Nat
    BY <2>2, FS_CardinalityType
  <2>7. ASSUME NEW c \in closed
        PROVE  signatures[place[c]].id <= Cardinality(DOMAIN signatures)
    <3>0. signatures[place[c]] =
            [id |-> sigs[c].id, contract_id |-> c, content_hash |-> sigs[c].content_hash]
      BY <1>6
    <3>1. signatures[place[c]].id = order[c]
      BY <1>20, <3>0
    <3>2. order[c] \in Nat /\ order[c] <= Cardinality(closed)
      BY <1>20
    <3> QED
      BY <2>4, <1>20, <2>6, <3>1, <3>2
  <2> QED
    BY <1>6, <2>7 DEF IdsInOrder
<1>19. ASSUME NEW c \in olds PROVE MigratedContract(c)
  <2>1. DOMAIN AddSignatureFields(old) = olds
    BY <1>4 DEF AddSignatureFields
  <2>2. /\ AddSignatureFields(old)[c] =
             [content |-> old[c].content, expires_at |-> old[c].expires_at,
              status |-> old[c].status, required_signatures |-> 1,
              completed_signatures |-> 0, final_hash |-> None]
        /\ contracts[c] = [AddSignatureFields(old)[c] EXCEPT !.completed_signatures =
             IF AddSignatureFields(old)[c].status = "signed" THEN 1 ELSE 0]
    BY <1>3, <1>4, <2>1 DEF CountOldSignatures, AddSignatureFields
  <2>3. /\ contracts[c].required_signatures = 1 /\ contracts[c].final_hash = None
        /\ contracts[c].status = old[c].status
        /\ contracts[c].completed_signatures =
             IF old[c].status = "signed" THEN 1 ELSE 0
    BY <2>2
  <2>4. old[c].status \in {"pending", "signed"} /\ (c \in closed <=> old[c].status = "signed")
    BY <1>4 DEF closed
  <2>5. SlotsOf(c) = {place[c]}
    BY <1>5 DEF SlotsOf
  <2>6. c \notin closed => SignaturesOf(c) = {}
    <3>1. ASSUME NEW s \in SignaturesOf(c) PROVE c \in closed
      <4>1. PICK d \in closed : s = place[d]
        BY <1>6, <3>1 DEF SignaturesOf
      <4>0. signatures[place[d]] =
              [id |-> sigs[d].id, contract_id |-> d, content_hash |-> sigs[d].content_hash]
        BY <1>6
      <4>2. signatures[place[d]].contract_id = d
        BY <4>0
      <4> QED
        BY <3>1, <4>1, <4>2 DEF SignaturesOf
    <3> QED
      BY <3>1
  <2>7. c \in closed => slots[place[c]].is_filled
    BY <1>5
  <2> QED
    BY <2>3, <2>4, <2>5, <2>6, <2>7 DEF MigratedContract
<1> QED
  BY <1>9, <1>17, <1>18, <1>19 DEF MigratedTables

-----------------------------------------------------------------------------
(* The pages *)

\* What goes on beside a page are steps of ContractSigning.
LEMMA PagesImplementSigning == [PagesNext]_pageVars => [Next]_vars
<1> SUFFICES ASSUME [PagesNext]_pageVars PROVE [Next]_vars
  OBVIOUS
<1>1. CASE TablesNext
  BY <1>1 DEF TablesNext, Next, SigningNext
<1>2. ASSUME NEW c \in ContractIds, NEW p \in Payloads, UpdateContract(c, p)
      PROVE  [Next]_vars
  BY <1>2 DEF Next
<1>3. CASE PageStep
  BY <1>3 DEF PageStep, ReadTarget, ReadSlots, ReadSignatures, Leave
<1>4. ASSUME NEW kind, NEW c, NEW code, Open(kind, c, code)
      PROVE  [Next]_vars
  BY <1>4 DEF Open
<1> QED
  BY <1>1, <1>2, <1>3, <1>4 DEF PagesNext, pageVars

LEMMA PagesStructure == PagesSpec => []StructureInv
<1>1. PagesInit => StructureInv
  BY MigratedStructure DEF PagesInit, MigratedTables
<1>2. StructureInv /\ [PagesNext]_pageVars => StructureInv'
  BY StructureNext, PagesImplementSigning
<1> QED
  BY <1>1, <1>2, PTL DEF PagesSpec

\* From whatever the migrations leave of any number of old contracts, and
\* whatever administrators edit, a filled slot holds a signature.
THEOREM MigratedSlotsHoldSignatures == PagesSpec => []FilledHasSignature
BY PagesStructure, PTL DEF StructureInv

\* ... and every signature, the migrated ones too, stands in a slot of the
\* contract it names.
THEOREM MigratedIntegrityHolds == PagesSpec => []ReferentialIntegrity
BY PagesStructure, PTL DEF StructureInv

-----------------------------------------------------------------------------
(* What a page has read *)

\* Of the contracts that nobody has edited, those that were signed under this
\* schema have their proof; those signed earlier never get one.
TablesInv ==
  /\ StructureInv /\ IdsInOrder /\ legacy \subseteq issued
  /\ \A c \in DOMAIN contracts \ edited :
       /\ CountingOn(c)
       /\ c \in legacy => contracts[c].status = "signed" /\ contracts[c].final_hash = None
       /\ c \notin legacy => ProofOn(c)

FilledOf(c) == {s \in SlotsOf(c) : slots[s].is_filled}

\* Nothing is left to sign: from here on the slots and the signatures stay.
Complete(c) ==
  /\ SlotsOf(c) # {} /\ SignaturesOf(c) = SlotsOf(c) /\ FilledOf(c) = SlotsOf(c)

\* The final hash that was read is that of the signatures.
RowHasProof(c, row) ==
  /\ row.final_hash # None
  /\ \A s \in SignaturesOf(c) : signatures[s].content_hash = hash_content(row.content)
  /\ \E l \in SlotIds : LET others == SlotsOf(c) \ {l} IN
       /\ CompletedBy(c, others, l)
       /\ row.final_hash = generate_final_hash(row.content, others, l)

\* What is still true of the row that page p has read.
RowStands(p, c) ==
  /\ p.pc # "signatures" => p.row.completed_signatures <= Cardinality(FilledOf(c))
  /\ p.row.status = "signed" =>
       /\ Complete(c)
       /\ IF c \in legacy THEN p.row.final_hash = None ELSE RowHasProof(c, p.row)

\* What is still true of the slots that it has read.
SlotsStand(p, c) ==
  /\ p.filled \subseteq SignaturesOf(c)
  /\ ~p.edited =>
       /\ p.row.completed_signatures <= Cardinality(p.filled)
       /\ p.row.status = "signed" => p.slots = SlotsOf(c) /\ p.filled = SlotsOf(c)

Reading(p, c) ==
  /\ p.pc \in {"target", "slots", "signatures"}
  /\ p = [pc |-> p.pc, kind |-> p.kind, contract_id |-> c, code |-> p.code,
          row |-> p.row, slots |-> p.slots, filled |-> p.filled,
          signatures |-> p.signatures, found |-> p.found, edited |-> p.edited]
  /\ c \in issued /\ p.row.completed_signatures \in Int
  /\ p.found => p.code \in SignaturesOf(c)
  /\ ~p.edited => RowStands(p, c)
  /\ p.pc = "signatures" => SlotsStand(p, c)

ShownStands(p) ==
  /\ p.pc = "shown"
  /\ p.filled \subseteq p.signatures
  /\ ~p.edited => p.progress_completed <= Cardinality(p.filled)
  /\ p.fully_signed /\ ~p.edited =>
       p.slots # {} /\ p.filled = p.slots /\ p.signatures = p.slots
  /\ p.kind = "verify" /\ p.fully_signed /\ ~p.edited =>
       IF p.contract_id \in legacy THEN ~p.final_hash_valid
       ELSE p.final_hash_valid /\ p.tampered = {}

PageStands(p) ==
  \/ p = NoPage
  \/ p.pc = "missing" /\ ~p.found
  \/ \E c \in ContractIds : Reading(p, c)
  \/ ShownStands(p)

PageInv == \E p : page = p /\ PageStands(p)

-----------------------------------------------------------------------------
(* The tables beside the pages *)

\* Migrated contracts are counted right, and those still open have no proof to
\* show.
LEMMA MigratedContractStands ==
  ASSUME StructureInv, InFlight = {}, NEW c \in DOMAIN contracts, MigratedContract(c)
  PROVE  /\ CountingOn(c)
         /\ contracts[c].status # "signed" => ProofOn(c)
<1>1. contracts[c].required_signatures = 1 /\ contracts[c].status \in {"pending", "signed"}
  BY DEF MigratedContract
<1>2. \A r \in InFlight : FALSE
  OBVIOUS
<1>3. Settled(c) = FilledOf(c)
  BY <1>2 DEF Settled, FilledOf, AtWork, Working
<1>4. PICK s : SlotsOf(c) = {s} /\ (contracts[c].status = "signed" => slots[s].is_filled)
  BY DEF MigratedContract
<1>5. Cardinality({s}) = 1 /\ SlotsOf(c) # {}
  BY <1>4, FS_Singleton
<1>6. SnapshotsHold(c)
  BY <1>1, <1>2, <1>4, <1>5 DEF SnapshotsHold
<1>7. CASE contracts[c].status = "signed"
  <2>1. contracts[c].completed_signatures = 1
    BY <1>7 DEF MigratedContract
  <2>2. Settled(c) = SlotsOf(c)
    BY <1>3, <1>4, <1>7 DEF FilledOf
  <2>3. CountingOn(c)
    BY <1>2, <1>4, <1>5, <1>6, <2>1, <2>2
       DEF CountingOn, CountsBehind, SignedIsSettled
  <2> QED
    BY <1>7, <2>3
<1>8. CASE contracts[c].status # "signed"
  <2>1. contracts[c].completed_signatures = 0 /\ SignaturesOf(c) = {}
    BY <1>8 DEF MigratedContract
  <2>2. Cardinality(Settled(c)) \in Nat
    BY FiniteSlots DEF SlotSetsFinite, StructureInv
  <2>3. CountingOn(c)
    BY <1>2, <1>6, <1>8, <2>1, <2>2 DEF CountingOn, CountsBehind, SignedIsSettled
  <2>4. ProofOn(c)
    BY <1>2, <1>8, <2>1 DEF ProofOn, LastLoadsTheOthers, SignedHasProof, NothingTampered
  <2> QED
    BY <2>3, <2>4
<1> QED
  BY <1>7, <1>8

LEMMA TablesInit == PagesInit => TablesInv
<1> SUFFICES ASSUME PagesInit PROVE TablesInv
  OBVIOUS
<1>1. MigratedTables /\ legacy = {c \in DOMAIN contracts : contracts[c].status = "signed"}
  BY MigratedStructure DEF PagesInit
<1>2. legacy \subseteq issued
  BY <1>1 DEF MigratedTables, StructureInv, TypeOK, IsTable
<1>3. ASSUME NEW c \in DOMAIN contracts
      PROVE  /\ CountingOn(c)
             /\ c \in legacy =>
                  contracts[c].status = "signed" /\ contracts[c].final_hash = None
             /\ c \notin legacy => ProofOn(c)
  <2>1. MigratedContract(c)
    BY <1>1 DEF MigratedTables
  <2>2. CountingOn(c) /\ (contracts[c].status # "signed" => ProofOn(c))
    BY <1>1, <2>1, MigratedContractStands DEF MigratedTables
  <2> QED
    BY <1>1, <2>1, <2>2 DEF MigratedContract
<1> QED
  BY <1>1, <1>2, <1>3 DEF TablesInv, MigratedTables

\* A new contract has a new id.
LEMMA NewContracts ==
  ASSUME StructureInv, [Next]_vars, NEW c \in DOMAIN contracts', c \notin DOMAIN contracts
  PROVE  c \notin issued
<1>1. ASSUME NEW d \in ContractIds, NEW n \in SlotIds, NEW text \in Contents,
             NEW e \in Times \cup {None}, CreateContract(d, n, text, e)
      PROVE  c \notin issued
  BY <1>1 DEF CreateContract
<1>2. ASSUME NEW r \in Requests, CountSignature(r) PROVE DOMAIN contracts' = DOMAIN contracts
  BY <1>2 DEF CountSignature
<1>3. ASSUME NEW d \in ContractIds, DeleteContract(d)
      PROVE  DOMAIN contracts' \subseteq DOMAIN contracts
  BY <1>3 DEF DeleteContract
<1>4. ASSUME NEW d \in ContractIds, NEW p \in Payloads, UpdateContract(d, p)
      PROVE  DOMAIN contracts' = DOMAIN contracts
  BY <1>4 DEF UpdateContract
<1> QED
  BY <1>1, <1>2, <1>3, <1>4
     DEF Next, SigningNext, Step, Begin, LoadSlot, LoadSignatures, InsertSignature,
         FillSlot, Abort, Tick, tables, vars

\* Ids are never given back.
LEMMA IssuedGrows == ASSUME [Next]_vars PROVE issued \subseteq issued'
BY DEF Next, SigningNext, Step, CreateContract, UpdateContract, DeleteContract, Begin,
       LoadSlot, LoadSignatures, InsertSignature, FillSlot, CountSignature, Abort, Tick,
       tables, vars

\* An edit is no business of the other contracts.
LEMMA OthersUnedited ==
  ASSUME StructureInv, NEW d \in ContractIds, NEW p \in Payloads, UpdateContract(d, p),
         NEW c \in DOMAIN contracts, c # d
  PROVE  /\ contracts'[c] = contracts[c]
         /\ CountingOn(c) => CountingOn(c)'
         /\ ProofOn(c) => ProofOn(c)'
<1>1. contracts'[c] = contracts[c] /\ UNCHANGED <<slots, signatures, req, InFlight>>
  BY DEF UpdateContract, InFlight
<1>2. SlotsOf(c)' = SlotsOf(c) /\ SignaturesOf(c)' = SignaturesOf(c)
  BY <1>1 DEF SlotsOf, SignaturesOf
<1>3. Settled(c)' = Settled(c)
  BY <1>1, <1>2 DEF Settled, AtWork, Working
<1>4. CountingOn(c) => CountingOn(c)'
  BY <1>1, <1>2, <1>3 DEF CountingOn, SnapshotsHold, CountsBehind, SignedIsSettled
<1>5. \A existing, l : CompletedBy(c, existing, l)' <=> CompletedBy(c, existing, l)
  BY <1>1, <1>2 DEF CompletedBy
<1>6. LastLoadsTheOthers(c) => LastLoadsTheOthers(c)'
  BY <1>1, <1>2 DEF LastLoadsTheOthers, CompletedBy, IsFullySigned, Working
<1>7. SignedHasProof(c) => SignedHasProof(c)'
  BY <1>1, <1>2 DEF SignedHasProof, CompletedBy
<1>8. NothingTampered(c) => NothingTampered(c)'
  BY <1>1, <1>2 DEF NothingTampered, Tampered, SignaturesOf
<1> QED
  BY <1>1, <1>4, <1>6, <1>7, <1>8 DEF ProofOn

LEMMA TablesInvNext == TablesInv /\ [PagesNext]_pageVars => TablesInv'
<1> SUFFICES ASSUME TablesInv, [PagesNext]_pageVars PROVE TablesInv'
  OBVIOUS
<1>1. /\ StructureInv /\ IdsInOrder /\ legacy \subseteq issued /\ [Next]_vars
      /\ \A c \in DOMAIN contracts \ edited :
           /\ CountingOn(c)
           /\ c \in legacy =>
                contracts[c].status = "signed" /\ contracts[c].final_hash = None
           /\ c \notin legacy => ProofOn(c)
  BY PagesImplementSigning DEF TablesInv
<1>2. StructureInv' /\ IdsInOrder'
  BY <1>1, StructureNext, IdsNext
<1>3. UNCHANGED legacy /\ edited \subseteq edited'
  BY DEF PagesNext, PageStep, Open, ReadTarget, ReadSlots, ReadSignatures, Leave, pageVars
<1>4. legacy' \subseteq issued'
  BY <1>1, <1>3, IssuedGrows
<1>5. CASE [SigningNext]_vars
  <2> SUFFICES ASSUME NEW c \in DOMAIN contracts', c \notin edited
               PROVE  /\ CountingOn(c)'
                      /\ c \in legacy => /\ contracts'[c].status = "signed"
                                         /\ contracts'[c].final_hash = None
                      /\ c \notin legacy => ProofOn(c)'
    BY <1>2, <1>3, <1>4 DEF TablesInv
  <2>1. CountingOn(c)'
    BY <1>1, <1>2, <1>5, CountingOnNext
  <2>2. CASE c \in legacy
    <3>1. c \in DOMAIN contracts
      BY <1>1, <2>2, NewContracts
    <3>2. contracts'[c] = contracts[c]
      BY <1>1, <1>5, <2>2, <3>1, SignedStays
    <3> QED
      BY <1>1, <2>1, <2>2, <3>1, <3>2
  <2>3. CASE c \notin legacy
    <3>1. ProofOn(c)'
      BY <1>1, <1>2, <1>5, <2>1, <2>3, ProofOnNext
    <3> QED
      BY <2>1, <2>3, <3>1
  <2> QED
    BY <2>2, <2>3
<1>6. ASSUME NEW d \in ContractIds, NEW p \in Payloads, UpdateContract(d, p),
             edited' = edited \cup {d}
      PROVE  TablesInv'
  <2> SUFFICES ASSUME NEW c \in DOMAIN contracts', c \notin edited'
               PROVE  /\ CountingOn(c)'
                      /\ c \in legacy => /\ contracts'[c].status = "signed"
                                         /\ contracts'[c].final_hash = None
                      /\ c \notin legacy => ProofOn(c)'
    BY <1>2, <1>3, <1>4 DEF TablesInv
  <2>1. c \in DOMAIN contracts \ edited /\ c # d
    BY <1>6 DEF UpdateContract
  <2> QED
    BY <1>1, <1>6, <2>1, OthersUnedited
<1>7. [SigningNext]_vars \/ \E d \in ContractIds, p \in Payloads :
        UpdateContract(d, p) /\ edited' = edited \cup {d}
  <2>1. TablesNext => SigningNext
    BY DEF TablesNext, SigningNext
  <2>2. PageStep \/ (\E kind, c, code : Open(kind, c, code)) => UNCHANGED vars
    BY DEF PageStep, Open, ReadTarget, ReadSlots, ReadSignatures, Leave
  <2>3. UNCHANGED pageVars => UNCHANGED vars
    BY DEF pageVars
  <2> QED
    BY <2>1, <2>2, <2>3 DEF PagesNext
<1> QED
  BY <1>5, <1>6, <1>7

-----------------------------------------------------------------------------
(* What a page has read stands *)

\* Whatever goes on, signatures and filled slots of a contract only become more,
\* its slots never, and they stay once there is a signature.
LEMMA ContractGrows ==
  ASSUME StructureInv, StructureInv', [Next]_vars, NEW c \in issued
  PROVE  /\ SignaturesOf(c) \subseteq SignaturesOf(c)'
         /\ FilledOf(c) \subseteq FilledOf(c)'
         /\ SlotsOf(c)' \subseteq SlotsOf(c)
         /\ SignaturesOf(c) # {} => SlotsOf(c)' = SlotsOf(c)
<1>1. SignaturesOf(c) \subseteq SignaturesOf(c)'
  BY SignaturesKept DEF SignaturesOf
<1>2. FilledOf(c) \subseteq FilledOf(c)'
  BY FilledKept, SlotsKept DEF FilledOf, SlotsOf
<1>3. SlotsOf(c)' \subseteq SlotsOf(c)
  BY SlotsKept, NewSlots DEF SlotsOf
<1>4. ASSUME SignaturesOf(c) # {}, NEW s \in SlotsOf(c) PROVE s \in SlotsOf(c)'
  <2>1. CASE s \in DOMAIN slots'
    BY <1>4, <2>1, SlotsKept DEF SlotsOf
  <2>2. CASE s \notin DOMAIN slots'
    <3>1. PICK d \in ContractIds : DeleteContract(d) /\ s \in SlotsOf(d)
      BY <1>4, <2>2, SlotsKept DEF SlotsOf
    <3>2. d = c
      BY <1>4, <3>1 DEF SlotsOf
    <3> QED
      BY <1>4, <3>1, <3>2 DEF DeleteContract
  <2> QED
    BY <2>1, <2>2
<1> QED
  BY <1>1, <1>2, <1>3, <1>4

LEMMA FilledIsFinite ==
  TypeOK => \A c : IsFiniteSet(FilledOf(c)) /\ Cardinality(FilledOf(c)) \in Nat
BY FiniteSlots, FS_Subset, FS_CardinalityType DEF SlotSetsFinite, FilledOf

LEMMA FilledIsFiniteNext ==
  TypeOK' => \A c : IsFiniteSet(FilledOf(c)') /\ Cardinality(FilledOf(c)') \in Nat
<1> DEFINE Finite == \A c : IsFiniteSet(FilledOf(c)) /\ Cardinality(FilledOf(c)) \in Nat
<1>1. TypeOK => Finite
  BY FilledIsFinite
<1>2. TypeOK' => Finite'
  BY <1>1, PTL
<1> QED
  BY <1>2

LEMMA CompleteStays ==
  ASSUME StructureInv, StructureInv', [Next]_vars, NEW c \in issued, Complete(c)
  PROVE  /\ Complete(c)'
         /\ SlotsOf(c)' = SlotsOf(c)
         /\ SignaturesOf(c)' = SignaturesOf(c)
         /\ \A s \in SignaturesOf(c) : signatures'[s] = signatures[s]
<1>1. SlotsOf(c)' = SlotsOf(c) /\ SlotsOf(c) # {}
  BY ContractGrows DEF Complete
<1>2. SignaturesOf(c)' \subseteq SlotsOf(c)'
  BY DEF StructureInv, ReferentialIntegrity, SlotsOf, SignaturesOf
<1>3. SignaturesOf(c)' = SignaturesOf(c)
  BY <1>1, <1>2, ContractGrows DEF Complete
<1>4. FilledOf(c)' = SlotsOf(c)'
  BY <1>1, ContractGrows DEF Complete, FilledOf
<1>5. \A s \in SignaturesOf(c) : signatures'[s] = signatures[s]
  BY SignaturesKept DEF SignaturesOf
<1> QED
  BY <1>1, <1>3, <1>4, <1>5 DEF Complete

\* Neither signing nor deletion nor an edit refutes what a page has read.
LEMMA ReadingStays ==
  ASSUME StructureInv, StructureInv', [Next]_vars, UNCHANGED legacy,
         NEW p, NEW c, Reading(p, c)
  PROVE  Reading(p, c)'
<1>1. c \in issued /\ c \in issued'
  BY IssuedGrows DEF Reading
<1>2. p.found => p.code \in SignaturesOf(c)'
  BY <1>1, ContractGrows DEF Reading
<1>3. RowStands(p, c) => RowStands(p, c)'
  <2> SUFFICES ASSUME RowStands(p, c) PROVE RowStands(p, c)'
    OBVIOUS
  <2>1. Cardinality(FilledOf(c)) <= Cardinality(FilledOf(c)')
    BY <1>1, ContractGrows, FilledIsFiniteNext, FS_Subset DEF StructureInv
  <2>2. p.pc # "signatures" => p.row.completed_signatures <= Cardinality(FilledOf(c)')
    <3>1. /\ Cardinality(FilledOf(c)) \in Nat /\ Cardinality(FilledOf(c)') \in Nat
          /\ p.row.completed_signatures \in Int
      BY FilledIsFinite, FilledIsFiniteNext DEF StructureInv, Reading
    <3> QED
      BY <2>1, <3>1 DEF RowStands
  <2>3. ASSUME Complete(c), RowHasProof(c, p.row) PROVE RowHasProof(c, p.row)'
    <3>1. /\ SlotsOf(c)' = SlotsOf(c) /\ SignaturesOf(c)' = SignaturesOf(c)
          /\ SlotsOf(c) = SignaturesOf(c)
          /\ \A s \in SignaturesOf(c) :
               s \in DOMAIN signatures' /\ signatures'[s] = signatures[s]
      BY <1>1, <2>3, CompleteStays, SignaturesKept DEF Complete, SignaturesOf
    <3>2. PICK l, others :
            /\ l \in SlotIds
            /\ others = SlotsOf(c) \ {l} /\ CompletedBy(c, others, l)
            /\ p.row.final_hash = generate_final_hash(p.row.content, others, l)
      BY <2>3 DEF RowHasProof
    <3>3. CompletedBy(c, others, l)'
      BY <3>1, <3>2 DEF CompletedBy
    <3>4. /\ p.row.final_hash # None
          /\ \A s \in SignaturesOf(c)' :
               signatures'[s].content_hash = hash_content(p.row.content)
      BY <2>3, <3>1 DEF RowHasProof
    <3> QED
      BY <3>1, <3>2, <3>3, <3>4 DEF RowHasProof, CompletedBy
  <2>4. Complete(c) => Complete(c)'
    BY <1>1, CompleteStays
  <2> QED
    BY <2>2, <2>3, <2>4 DEF RowStands
<1>4. RowStands(p, c) /\ SlotsStand(p, c) /\ ~p.edited => SlotsStand(p, c)'
  <2> SUFFICES ASSUME RowStands(p, c), SlotsStand(p, c), ~p.edited PROVE SlotsStand(p, c)'
    OBVIOUS
  <2>1. p.row.status = "signed" => SlotsOf(c)' = SlotsOf(c)
    BY <1>1, CompleteStays DEF RowStands
  <2> QED
    BY <1>1, <2>1, ContractGrows DEF SlotsStand
<1>5. p.edited /\ SlotsStand(p, c) => SlotsStand(p, c)'
  BY <1>1, ContractGrows DEF SlotsStand
<1> QED
  BY <1>1, <1>2, <1>3, <1>4, <1>5 DEF Reading

LEMMA PageStandsNext ==
  ASSUME StructureInv, StructureInv', [Next]_vars, UNCHANGED legacy,
         NEW p, PageStands(p)
  PROVE  PageStands(p)'
BY ReadingStays DEF PageStands, ShownStands

-----------------------------------------------------------------------------
(* What a page reads and shows *)

\* A page starts with the row of its contract.
LEMMA OpenReads ==
  ASSUME TablesInv, NEW c \in DOMAIN contracts, NEW pc \in {"target", "slots"},
         NEW kind, NEW code, NEW found, NEW unsure, NEW p,
         found <=> code \in SignaturesOf(c), unsure <=> c \in edited,
         p = [pc |-> pc, kind |-> kind, contract_id |-> c, code |-> code,
              row |-> Columns(contracts[c]), slots |-> {}, filled |-> {},
              signatures |-> NoRows, found |-> found, edited |-> unsure]
  PROVE  Reading(p, c)
<1>1. PICK row : row = contracts[c] /\ row \in ContractRow(FinalHashes) /\ c \in issued
  BY DEF TablesInv, StructureInv, TypeOK, IsTable
<1>2. /\ p.pc = pc /\ p.kind = kind /\ p.contract_id = c /\ p.code = code
      /\ p.row = Columns(row) /\ p.slots = {} /\ p.filled = {} /\ p.signatures = NoRows
      /\ p.found = found /\ p.edited = unsure
  BY <1>1
<1>3. /\ p.row.content = row.content /\ p.row.status = row.status
      /\ p.row.completed_signatures = row.completed_signatures
      /\ p.row.final_hash = row.final_hash /\ row.completed_signatures \in Int
  BY <1>1, <1>2 DEF Columns, ContractRow
<1>4. ASSUME c \notin edited PROVE RowStands(p, c)
  <2>1. /\ CountingOn(c)
        /\ c \in legacy => row.final_hash = None
        /\ c \notin legacy => ProofOn(c)
    BY <1>1, <1>4 DEF TablesInv
  <2>2. row.completed_signatures <= Cardinality(FilledOf(c))
    <3>1. Settled(c) \subseteq FilledOf(c)
      BY DEF Settled, FilledOf
    <3>2. /\ Cardinality(Settled(c)) <= Cardinality(FilledOf(c))
          /\ Cardinality(Settled(c)) \in Nat /\ Cardinality(FilledOf(c)) \in Nat
      BY <3>1, FiniteSlots, FilledIsFinite, FS_Subset
         DEF SlotSetsFinite, TablesInv, StructureInv
    <3> QED
      BY <1>1, <1>3, <2>1, <3>2 DEF CountingOn, CountsBehind
  <2>3. ASSUME row.status = "signed" PROVE Complete(c)
    BY <1>1, <2>1, <2>3, SignedIsClosed DEF Complete, FilledOf, TablesInv
  <2>4. ASSUME row.status = "signed", c \notin legacy PROVE RowHasProof(c, p.row)
    <3>1. PICK l, others :
            /\ l \in SlotIds
            /\ others = SlotsOf(c) \ {l} /\ CompletedBy(c, others, l)
            /\ row.final_hash = generate_final_hash(row.content, others, l)
      BY <1>1, <2>1, <2>4 DEF ProofOn, SignedHasProof
    <3>2. others \in SUBSET SlotIds
      BY <3>1, BoundsAssumption
         DEF TablesInv, StructureInv, TypeOK, IsTable, SlotsOf, SlotIds
    <3>3. row.final_hash # None
      BY <1>1, <3>1, <3>2, NoneAssumption
         DEF generate_final_hash, FinalHashes, ContractRow
    <3>4. \A s \in SignaturesOf(c) :
            signatures[s].content_hash = hash_content(row.content)
      BY <1>1, <2>1, <2>4 DEF ProofOn, NothingTampered, Tampered, SignaturesOf
    <3> QED
      BY <1>3, <3>1, <3>3, <3>4 DEF RowHasProof
  <2> QED
    BY <1>3, <2>1, <2>2, <2>3, <2>4 DEF RowStands
<1>5. found => code \in SignaturesOf(c)
  OBVIOUS
<1>6. p.pc # "signatures" /\ p.pc \in {"target", "slots", "signatures"}
  BY <1>2
<1>7. ~p.edited => c \notin edited
  BY <1>2, Zenon
<1>8. p.found => p.code \in SignaturesOf(c)
  BY <1>2, <1>5, Zenon
<1>9. p = [pc |-> p.pc, kind |-> p.kind, contract_id |-> c, code |-> p.code,
           row |-> p.row, slots |-> p.slots, filled |-> p.filled,
           signatures |-> p.signatures, found |-> p.found, edited |-> p.edited]
  OBVIOUS
<1> QED
  BY <1>1, <1>3, <1>4, <1>6, <1>7, <1>8, <1>9 DEF Reading

LEMMA OpenStands ==
  ASSUME TablesInv, NEW kind, NEW c, NEW code, Open(kind, c, code)
  PROVE  \E p : page' = p /\ PageStands(p)
<1> DEFINE found == code \in SignaturesOf(c)
           unsure == c \in edited
           fresh(pc) ==
             [pc |-> pc, kind |-> kind, contract_id |-> c, code |-> code,
              row |-> Columns(contracts[c]), slots |-> {}, filled |-> {},
              signatures |-> NoRows, found |-> found, edited |-> unsure]
<1>1. /\ c \in DOMAIN contracts
      /\ page' = fresh("target") \/ page' = GoOn(fresh("target"))
  BY DEF Open
<1>2. GoOn(fresh("target")) = fresh("slots")
  BY DEF GoOn, NextRead
<1>3. (found <=> code \in SignaturesOf(c)) /\ (unsure <=> c \in edited)
  OBVIOUS
<1> HIDE DEF found, unsure
<1>4. \A pc \in {"target", "slots"} : Reading(fresh(pc), c)
  BY <1>1, <1>3, OpenReads
<1>5. c \in ContractIds
  BY <1>1 DEF TablesInv, StructureInv, TypeOK, IsTable
<1> QED
  BY <1>1, <1>2, <1>4, <1>5 DEF PageStands

\* A page keeps what it has read when it goes on to the next query.
LEMMA TargetStands ==
  ASSUME NEW c \in ContractIds, Reading(page, c), ReadTarget
  PROVE  \E p : page' = p /\ PageStands(p)
<1>1. PICK p : p = page /\ Reading(p, c)
  OBVIOUS
<1>2. p.pc = "target" /\ p.contract_id = c
  BY <1>1 DEF ReadTarget, Reading
<1>3. CASE p.code \in SignaturesOf(c)
  <2>1. PICK q : q = [p EXCEPT !.pc = "slots"] /\ page' = q
    BY <1>1, <1>2, <1>3 DEF ReadTarget, GoOn, NextRead
  <2>2. q = [pc |-> "slots", kind |-> p.kind, contract_id |-> c, code |-> p.code,
             row |-> p.row, slots |-> p.slots, filled |-> p.filled,
             signatures |-> p.signatures, found |-> p.found, edited |-> p.edited]
    BY <1>1, <2>1 DEF Reading
  <2>3. /\ q.pc = "slots" /\ q.row = p.row /\ q.kind = p.kind /\ q.code = p.code
        /\ q.slots = p.slots /\ q.filled = p.filled /\ q.signatures = p.signatures
        /\ q.found = p.found /\ q.edited = p.edited
    BY <2>2
  <2>4. RowStands(p, c) => RowStands(q, c)
    BY <1>2, <2>3 DEF RowStands
  <2>5. ~q.edited => ~p.edited
    BY <2>3, Zenon
  <2>6. q.found => p.found
    BY <2>3, Zenon
  <2>7. q = [pc |-> q.pc, kind |-> q.kind, contract_id |-> c, code |-> q.code,
             row |-> q.row, slots |-> q.slots, filled |-> q.filled,
             signatures |-> q.signatures, found |-> q.found, edited |-> q.edited]
    BY <2>2
  <2>8. Reading(q, c)
    BY <1>1, <2>3, <2>4, <2>5, <2>6, <2>7 DEF Reading
  <2> QED
    BY <2>1, <2>8 DEF PageStands
<1>4. CASE p.code \notin SignaturesOf(c)
  <2>1. PICK q : q = [p EXCEPT !.pc = "missing"] /\ page' = q
    BY <1>1, <1>2, <1>4 DEF ReadTarget
  <2>2. q.pc = "missing" /\ q.found = p.found
    BY <1>1, <2>1 DEF Reading
  <2>3. ~p.found
    BY <1>1, <1>4 DEF Reading
  <2>4. ~q.found
    BY <2>2, <2>3, Zenon
  <2> QED
    BY <2>1, <2>2, <2>4 DEF PageStands
<1> QED
  BY <1>3, <1>4

LEMMA SlotsStandRead ==
  ASSUME TablesInv, NEW c \in ContractIds, Reading(page, c), ReadSlots
  PROVE  \E p : page' = p /\ PageStands(p)
<1>1. PICK p : p = page /\ Reading(p, c)
  OBVIOUS
<1>2. p.pc = "slots" /\ p.contract_id = c
  BY <1>1 DEF ReadSlots, Reading
<1>3. PICK rows, full : rows = SlotsOf(c) /\ full = FilledOf(c)
  OBVIOUS
<1>4. PICK read : read = [p EXCEPT !.slots = rows, !.filled = full] /\ page' = GoOn(read)
  BY <1>1, <1>2, <1>3 DEF ReadSlots, FilledOf
<1>5. /\ read = [pc |-> p.pc, kind |-> p.kind, contract_id |-> c, code |-> p.code,
                  row |-> p.row, slots |-> rows, filled |-> full,
                  signatures |-> p.signatures, found |-> p.found, edited |-> p.edited]
       /\ read.pc = "slots"
  BY <1>1, <1>2, <1>4 DEF Reading
<1>6. PICK q : q = [read EXCEPT !.pc = "signatures"] /\ page' = q
  BY <1>4, <1>5 DEF GoOn, NextRead
<1>7. q = [pc |-> "signatures", kind |-> p.kind, contract_id |-> c, code |-> p.code,
           row |-> p.row, slots |-> SlotsOf(c), filled |-> FilledOf(c),
           signatures |-> p.signatures, found |-> p.found, edited |-> p.edited]
  BY <1>3, <1>5, <1>6
<1>8. /\ q.pc = "signatures" /\ q.row = p.row /\ q.kind = p.kind /\ q.code = p.code
      /\ q.slots = SlotsOf(c) /\ q.filled = FilledOf(c) /\ q.signatures = p.signatures
      /\ q.found = p.found /\ q.edited = p.edited
  BY <1>7
<1>9. ~q.edited => ~p.edited
  BY <1>8, Zenon
<1>10. q.found => p.found
  BY <1>8, Zenon
<1>11. ~p.edited => RowStands(p, c)
  BY <1>1 DEF Reading
<1>12. FilledOf(c) \subseteq SignaturesOf(c)
  BY DEF TablesInv, StructureInv, FilledHasSignature, ReferentialIntegrity, FilledOf,
         SlotsOf, SignaturesOf
<1>13. RowStands(p, c) => RowStands(q, c)
  BY <1>2, <1>8 DEF RowStands
<1>14. SlotsStand(q, c)
  BY <1>2, <1>8, <1>9, <1>11, <1>12 DEF SlotsStand, RowStands, Complete
<1>15. q = [pc |-> q.pc, kind |-> q.kind, contract_id |-> c, code |-> q.code,
            row |-> q.row, slots |-> q.slots, filled |-> q.filled,
            signatures |-> q.signatures, found |-> q.found, edited |-> q.edited]
  BY <1>7
<1>16. /\ c \in issued /\ q.row.completed_signatures \in Int
       /\ p.found => p.code \in SignaturesOf(c)
  BY <1>1, <1>8 DEF Reading
<1>17. q.found => q.code \in SignaturesOf(c)
  BY <1>8, <1>10, <1>16
<1>18. Reading(q, c)
  BY <1>8, <1>9, <1>11, <1>13, <1>14, <1>15, <1>16, <1>17 DEF Reading
<1> QED
  BY <1>6, <1>18 DEF PageStands

\* On a complete contract whose row has its proof, the verdict is that it holds.
LEMMA VerdictIsValid ==
  ASSUME StructureInv, NEW c, NEW p,
         p.signatures = [s \in SignaturesOf(c) |-> signatures[s]],
         p.row.status = "signed", RowHasProof(c, p.row)
  PROVE  FinalHashValidOn(p) /\ TamperedOn(p) = {}
<1> DEFINE rows == DOMAIN p.signatures
           Last(s) == \A t \in rows : p.signatures[t].id <= p.signatures[s].id
           newest == CHOOSE s \in rows : Last(s)
<1>1. PICK l, others :
        /\ l \in SlotIds
        /\ others = SlotsOf(c) \ {l} /\ CompletedBy(c, others, l)
        /\ p.row.final_hash = generate_final_hash(p.row.content, others, l)
  BY DEF RowHasProof
<1>2. SignaturesOf(c) = SlotsOf(c)
  BY <1>1, NewestIsLast
<1>3. rows = SignaturesOf(c) /\ \A s \in rows : p.signatures[s] = signatures[s]
  OBVIOUS
<1>4. /\ l \in rows /\ \A s \in rows : p.signatures[s].id \in Nat
      /\ \A s \in rows \ {l} : p.signatures[s].id < p.signatures[l].id
  BY <1>1, <1>2, <1>3
     DEF CompletedBy, StructureInv, TypeOK, IsTable, SignaturesOf, SignatureRow
<1>5. Last(l) /\ \A s \in rows : Last(s) => s = l
  BY <1>4
<1>6. newest = l
  <2>1. newest \in rows /\ Last(newest)
    BY <1>4, <1>5
  <2> HIDE DEF newest
  <2> QED
    BY <1>5, <2>1
<1>7. p.row.final_hash = generate_final_hash(p.row.content, rows \ {newest}, newest)
  BY <1>1, <1>2, <1>3, <1>6
<1>8. p.row.final_hash # None
  BY DEF RowHasProof
<1>9. FinalHashValidOn(p)
  BY <1>7, <1>8 DEF FinalHashValidOn
<1>10. TamperedOn(p) = {}
  BY <1>3 DEF TamperedOn, RowHasProof
<1> QED
  BY <1>9, <1>10

\* What the template is given agrees with itself.
LEMMA TemplateStands ==
  ASSUME StructureInv, NEW c, NEW p, Reading(p, c), p.pc = "signatures",
         NEW read, read.signatures = [s \in SignaturesOf(c) |-> signatures[s]],
         read.kind = p.kind, read.contract_id = c, read.row = p.row,
         read.slots = p.slots, read.filled = p.filled, read.edited = p.edited
  PROVE  ShownStands(Template(read))
<1> DEFINE signed == read.row.status = "signed"
           valid == read.kind = "verify" /\ FinalHashValidOn(read)
           flagged == IF read.kind = "verify" THEN TamperedOn(read) ELSE {}
<1>1. PICK t : t = Template(read)
  OBVIOUS
<1>2. t = [pc |-> "shown", kind |-> read.kind, contract_id |-> read.contract_id,
           fully_signed |-> signed,
           progress_completed |-> read.row.completed_signatures,
           slots |-> read.slots, filled |-> read.filled,
           signatures |-> DOMAIN read.signatures,
           final_hash_valid |-> valid, tampered |-> flagged, edited |-> read.edited]
  BY <1>1 DEF Template
<1>3. /\ SlotsStand(p, c) /\ (~p.edited => RowStands(p, c))
      /\ DOMAIN read.signatures = SignaturesOf(c)
  BY DEF Reading
<1>4. signed /\ ~p.edited =>
        /\ p.slots = SlotsOf(c) /\ p.filled = SlotsOf(c) /\ Complete(c)
        /\ IF c \in legacy THEN p.row.final_hash = None ELSE RowHasProof(c, p.row)
  BY <1>3 DEF SlotsStand, RowStands
<1>5. ASSUME signed, ~p.edited, c \in legacy PROVE ~valid
  BY <1>4, <1>5 DEF FinalHashValidOn
<1>6. ASSUME signed, ~p.edited, c \notin legacy, read.kind = "verify"
      PROVE  valid /\ flagged = {}
  BY <1>4, <1>6, VerdictIsValid
<1>7. signed <=> p.row.status = "signed"
  OBVIOUS
<1> HIDE DEF signed, valid, flagged
<1>8. /\ t.pc = "shown" /\ t.kind = read.kind /\ t.contract_id = c
      /\ t.fully_signed = signed /\ t.final_hash_valid = valid /\ t.tampered = flagged
      /\ t.progress_completed = p.row.completed_signatures
      /\ t.slots = p.slots /\ t.filled = p.filled /\ t.signatures = SignaturesOf(c)
      /\ t.edited = p.edited
  BY <1>2, <1>3
<1>9. ~t.edited => ~p.edited
  BY <1>8, Zenon
<1>10. t.fully_signed => signed
  BY <1>8, Zenon
<1>11. valid => t.final_hash_valid
  BY <1>8, Zenon
<1>12. t.final_hash_valid => valid
  BY <1>8, Zenon
<1>13. /\ t.filled \subseteq t.signatures
       /\ ~t.edited => t.progress_completed <= Cardinality(t.filled)
  BY <1>3, <1>8, <1>9 DEF SlotsStand
<1>14. t.fully_signed /\ ~t.edited =>
         t.slots # {} /\ t.filled = t.slots /\ t.signatures = t.slots
  BY <1>4, <1>8, <1>9, <1>10 DEF Complete
<1>15. ASSUME t.kind = "verify", t.fully_signed, ~t.edited
       PROVE  IF t.contract_id \in legacy THEN ~t.final_hash_valid
              ELSE t.final_hash_valid /\ t.tampered = {}
  <2>1. signed /\ ~p.edited /\ read.kind = "verify" /\ t.contract_id = c
    BY <1>8, <1>9, <1>10, <1>15
  <2>2. c \in legacy => ~t.final_hash_valid
    BY <1>5, <1>12, <2>1
  <2>3. c \notin legacy => t.final_hash_valid
    BY <1>6, <1>11, <2>1
  <2>4. c \notin legacy => t.tampered = {}
    BY <1>6, <1>8, <2>1
  <2> QED
    BY <2>1, <2>2, <2>3, <2>4
<1> QED
  BY <1>1, <1>8, <1>13, <1>14, <1>15 DEF ShownStands

LEMMA SignaturesStandRead ==
  ASSUME TablesInv, NEW c \in ContractIds, Reading(page, c), ReadSignatures
  PROVE  \E p : page' = p /\ PageStands(p)
<1>1. PICK p : p = page /\ Reading(p, c)
  OBVIOUS
<1>2. p.pc = "signatures" /\ p.contract_id = c
  BY <1>1 DEF ReadSignatures, Reading
<1>3. CASE p.kind = "verify" /\ p.code \notin SignaturesOf(c)
  <2>1. PICK q : q = [p EXCEPT !.pc = "missing"] /\ page' = q
    BY <1>1, <1>2, <1>3 DEF ReadSignatures
  <2>2. q.pc = "missing" /\ q.found = p.found
    BY <1>1, <2>1 DEF Reading
  <2>3. ~p.found
    BY <1>1, <1>3 DEF Reading
  <2>4. ~q.found
    BY <2>2, <2>3, Zenon
  <2> QED
    BY <2>1, <2>2, <2>4 DEF PageStands
<1>4. CASE ~(p.kind = "verify" /\ p.code \notin SignaturesOf(c))
  <2>1. PICK rows : rows = [s \in SignaturesOf(c) |-> signatures[s]]
    OBVIOUS
  <2>2. PICK read : read = [p EXCEPT !.signatures = rows] /\ page' = GoOn(read)
    BY <1>1, <1>2, <1>4, <2>1 DEF ReadSignatures
  <2>3. read = [pc |-> p.pc, kind |-> p.kind, contract_id |-> c, code |-> p.code,
                row |-> p.row, slots |-> p.slots, filled |-> p.filled,
                signatures |-> rows, found |-> p.found, edited |-> p.edited]
    BY <1>1, <2>2 DEF Reading
  <2>4. /\ read.pc = "signatures" /\ read.signatures = rows /\ read.kind = p.kind
        /\ read.contract_id = c /\ read.row = p.row /\ read.slots = p.slots
        /\ read.filled = p.filled /\ read.edited = p.edited
    BY <1>2, <2>3
  <2>5. page' = Template(read)
    BY <2>2, <2>4 DEF GoOn, NextRead
  <2>6. ShownStands(Template(read))
    BY <1>1, <1>2, <2>1, <2>4, TemplateStands DEF TablesInv
  <2> QED
    BY <2>5, <2>6 DEF PageStands
<1> QED
  BY <1>3, <1>4

LEMMA PageInvInit == PagesInit => PageInv
BY DEF PagesInit, PageInv, PageStands

LEMMA PageInvNext == TablesInv /\ PageInv /\ [PagesNext]_pageVars => PageInv'
<1> SUFFICES ASSUME TablesInv, PageInv, [PagesNext]_pageVars PROVE PageInv'
  OBVIOUS
<1>1. /\ StructureInv /\ StructureInv' /\ [Next]_vars /\ UNCHANGED legacy
  BY PagesImplementSigning, StructureNext
     DEF TablesInv, PagesNext, PageStep, Open, ReadTarget, ReadSlots, ReadSignatures,
         Leave, pageVars
<1>2. SUFFICES \E p : page' = p /\ PageStands(p)
  BY <1>1, PageStandsNext DEF PageInv
<1>3. PICK p : page = p /\ PageStands(p)
  BY DEF PageInv
<1>4. CASE UNCHANGED page
  BY <1>3, <1>4
<1>5. ASSUME NEW kind, NEW c, NEW code, Open(kind, c, code)
      PROVE  \E q : page' = q /\ PageStands(q)
  BY <1>5, OpenStands
<1>6. CASE Leave
  BY <1>6 DEF Leave, PageStands
<1>7. CASE ReadTarget \/ ReadSlots \/ ReadSignatures
  <2>1. p.pc \in {"target", "slots", "signatures"}
    BY <1>3, <1>7 DEF ReadTarget, ReadSlots, ReadSignatures
  <2>2. PICK c \in ContractIds : Reading(p, c)
    BY <1>3, <2>1 DEF PageStands, NoPage, ShownStands
  <2>3. Reading(page, c)
    BY <1>3, <2>2
  <2> QED
    BY <1>7, <2>3, TargetStands, SlotsStandRead, SignaturesStandRead
<1> QED
  BY <1>4, <1>5, <1>6, <1>7 DEF PagesNext, PageStep, pageVars

LEMMA PagesInvariant == PagesSpec => [](TablesInv /\ PageInv)
BY TablesInit, TablesInvNext, PageInvInit, PageInvNext, PTL DEF PagesSpec

\* A page shows no slot as filled without the signature in it, and never counts
\* more signatures than it shows filled slots, although it is read in pieces.
THEOREM PagesAreBacked == PagesSpec => []PageIsBacked
<1>1. PageInv => PageIsBacked
  <2> SUFFICES ASSUME PageInv, Shown PROVE PageIsBacked
    BY DEF PageIsBacked
  <2>1. ShownStands(page)
    BY DEF PageInv, PageStands, Shown, NoPage, Reading
  <2> QED
    BY <2>1 DEF ShownStands, PageIsBacked
<1> QED
  BY <1>1, PagesInvariant, PTL

\* A page that calls a contract fully signed shows every slot filled and signed.
THEOREM SignedPagesAreComplete == PagesSpec => []SignedPageIsComplete
<1>1. PageInv => SignedPageIsComplete
  <2> SUFFICES ASSUME PageInv, Shown PROVE SignedPageIsComplete
    BY DEF SignedPageIsComplete
  <2>1. ShownStands(page)
    BY DEF PageInv, PageStands, Shown, NoPage, Reading
  <2> QED
    BY <2>1 DEF ShownStands, SignedPageIsComplete
<1> QED
  BY <1>1, PagesInvariant, PTL

\* The proof page of a contract signed under this schema finds its final hash
\* valid and flags nobody, whatever goes on while it is read; that of a contract
\* signed earlier never does.
THEOREM SignedPagesVerify == PagesSpec => []SignedPageVerifies
<1>1. PageInv => SignedPageVerifies
  <2> SUFFICES ASSUME PageInv, Shown PROVE SignedPageVerifies
    BY DEF SignedPageVerifies
  <2>1. ShownStands(page)
    BY DEF PageInv, PageStands, Shown, NoPage, Reading
  <2> QED
    BY <2>1 DEF ShownStands, SignedPageVerifies
<1> QED
  BY <1>1, PagesInvariant, PTL

\* A verification code that was good when the page was asked for is found.
THEOREM GoodCodesAreFound == PagesSpec => []CodeStaysGood
<1>1. PageInv => CodeStaysGood
  <2> SUFFICES ASSUME PageInv, page.pc = "missing" PROVE ~page.found
    BY DEF CodeStaysGood
  <2> QED
    BY DEF PageInv, PageStands, ShownStands, NoPage, Reading
<1> QED
  BY <1>1, PagesInvariant, PTL

\* From whatever the migrations leave, and whatever administrators edit, a
\* signature once written is neither removed nor replaced.
THEOREM MigratedSignaturesStay == PagesSpec => SignaturesPersist
<1>1. StructureInv /\ [PagesNext]_pageVars =>
        [/\ \A s \in DOMAIN signatures :
              s \in DOMAIN signatures' /\ signatures'[s] = signatures[s]
         /\ \A s \in DOMAIN slots \cap DOMAIN slots' :
              slots[s].is_filled => slots'[s].is_filled]_vars
  BY PagesImplementSigning, SignaturesKept, FilledKept
<1> QED
  BY <1>1, PagesStructure, PTL DEF PagesSpec, SignaturesPersist
=============================================================================
