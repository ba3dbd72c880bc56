------------------------- MODULE ContractSigningInv --------------------------
(***************************************************************************)
(* The inductive invariants of ContractSigning, in the layers in which     *)
(* ContractSigningProofs and SigningOutcomeProofs prove them: StructureInv *)
(* whatever administrators edit; CountingInv and ProofInv when they do     *)
(* not, contract by contract, so that ContractPagesProofs can use them of  *)
(* those that nobody has edited; SerialInv when signing requests come one  *)
(* at a time and none fails.                                               *)
(***************************************************************************)
EXTENDS ContractSigning

-----------------------------------------------------------------------------

\* What a request in flight knows about the tables, edits or not: its contract
\* was there; past the check its slot is a slot of the contract, while there is
\* one; past the INSERT the row with its slot is its own.
RequestsKnow ==
  \A r \in InFlight : LET q == req[r] IN
    /\ q.contract_id \in issued
    /\ q.pc # "slot" /\ q.contract_id \in DOMAIN contracts =>
         q.slot_id \in SlotsOf(q.contract_id)
    /\ Working(r) => q.slot_id \in SignaturesOf(q.contract_id)
    /\ q.pc = "count" => slots[q.slot_id].is_filled

OneWorkerPerSlot ==
  \A r, t \in InFlight :
    Working(r) /\ Working(t) /\ req[r].slot_id = req[t].slot_id => r = t

StructureInv ==
  /\ TypeOK /\ ReferentialIntegrity /\ FilledHasSignature
  /\ RequestsKnow /\ OneWorkerPerSlot

\* Of a contract that nobody edits, the columns that create_contract wrote stay,
\* and every snapshot of them is still true.
SnapshotsHold(c) ==
  /\ SlotsOf(c) # {}
  /\ contracts[c].required_signatures = Cardinality(SlotsOf(c))
  /\ contracts[c].status \in {"pending", "signed"}
  /\ \A r \in InFlight : LET q == req[r] IN q.contract_id = c =>
       /\ q.required_signatures = contracts[c].required_signatures
       /\ q.content = contracts[c].content
       /\ q.expires_at = contracts[c].expires_at

\* Neither the contract nor a snapshot counts a signature that is not settled.
CountsBehind(c) ==
  /\ contracts[c].completed_signatures <= Cardinality(Settled(c))
  /\ \A r \in InFlight : req[r].contract_id = c =>
       req[r].completed_signatures <= Cardinality(Settled(c))

SignedIsSettled(c) == contracts[c].status = "signed" => Settled(c) = SlotsOf(c)

CountingOn(c) == SnapshotsHold(c) /\ CountsBehind(c) /\ SignedIsSettled(c)

CountingInv == StructureInv /\ \A c \in DOMAIN contracts : CountingOn(c)

\* The signature in slot l is the newest of the contract, and existing the others.
CompletedBy(c, existing, l) ==
  /\ l \in SlotsOf(c) \cap SignaturesOf(c)
  /\ existing = SlotsOf(c) \ {l}
  /\ \A s \in existing :
       s \in DOMAIN signatures /\ signatures[s].id < signatures[l].id

\* The ids of the signatures are in the order of their insertion.
IdsInOrder ==
  \A s \in DOMAIN signatures : signatures[s].id <= Cardinality(DOMAIN signatures)

\* A request that completes the contract has loaded all rows but its own, and
\* its own is the newest.
LastLoadsTheOthers(c) ==
  \A r \in InFlight :
    req[r].contract_id = c /\ IsFullySigned(req[r]) =>
      /\ req[r].pc = "insert" =>
           /\ req[r].existing \subseteq SignaturesOf(c)
           /\ req[r].completed_signatures <= Cardinality(req[r].existing)
      /\ Working(r) => CompletedBy(c, req[r].existing, req[r].slot_id)

SignedHasProof(c) ==
  contracts[c].status = "signed" =>
    \E l \in SlotIds : LET others == SlotsOf(c) \ {l} IN
      /\ CompletedBy(c, others, l)
      /\ contracts[c].final_hash =
           generate_final_hash(contracts[c].content, others, l)

NothingTampered(c) == \A s \in SignaturesOf(c) : ~Tampered(s)

ProofOn(c) == LastLoadsTheOthers(c) /\ SignedHasProof(c) /\ NothingTampered(c)

ProofInv ==
  /\ CountingInv /\ IdsInOrder
  /\ \A c \in DOMAIN contracts : ProofOn(c)

\* A contract on which nobody works: its count and its filled slots are its
\* signatures, and it is signed, with a final hash, once there is one per slot.
AtRest(c) ==
  /\ contracts[c].completed_signatures = Cardinality(SignaturesOf(c))
  /\ {s \in SlotsOf(c) : slots[s].is_filled} = SignaturesOf(c)
  /\ contracts[c].status = "signed" <=> SignaturesOf(c) = SlotsOf(c)
  /\ contracts[c].status = "signed" => contracts[c].final_hash # None

\* A request that has added its signature to those it counted, and has or has
\* not yet filled its slot.
Underway(q, c) ==
  /\ Cardinality(SignaturesOf(c)) = q.completed_signatures + 1
  /\ {s \in SlotsOf(c) : slots[s].is_filled} =
       SignaturesOf(c) \ (IF q.pc = "fill" THEN {q.slot_id} ELSE {})

\* Of requests that come one at a time: what each counted is still true.
SerialOn(c) ==
  /\ (\A r \in InFlight : Working(r) => req[r].contract_id # c) => AtRest(c)
  /\ \A r \in InFlight : req[r].contract_id = c =>
       /\ Working(r) => Underway(req[r], c)
       /\ ~Working(r) =>
            req[r].completed_signatures = contracts[c].completed_signatures

SerialInv == \A c \in DOMAIN contracts : SerialOn(c)
=============================================================================
