--------------------------- MODULE SigningPromise ----------------------------
(***************************************************************************)
(* What the signing service promises the parties of a contract, without a  *)
(* word about requests, tables or statements: a contract is offered to a   *)
(* fixed set of parties (its signature slots); each signs at most once and *)
(* cannot take the signature back; the contract becomes signed only when   *)
(* every party has signed, and stays signed; it can be withdrawn only      *)
(* while nobody has signed.                                                *)
(***************************************************************************)
CONSTANTS ContractIds, SlotIds

VARIABLES
  phase,     \* of each contract
  parties,   \* the slots of each contract
  signedBy   \* those that have a signature

vars == <<phase, parties, signedBy>>

Phases == {"absent", "pending", "signed", "withdrawn"}

Init ==
  /\ phase = [c \in ContractIds |-> "absent"]
  /\ parties = [c \in ContractIds |-> {}]
  /\ signedBy = [c \in ContractIds |-> {}]

\* create_contract refuses an empty list of slots.
Offer(c, P) ==
  /\ phase[c] = "absent"
  /\ P # {}
  /\ \A d \in ContractIds : P \cap parties[d] = {}
  /\ phase' = [phase EXCEPT ![c] = "pending"]
  /\ parties' = [parties EXCEPT ![c] = P]
  /\ UNCHANGED signedBy

Sign(c, s) ==
  /\ phase[c] = "pending"
  /\ s \in parties[c] \ signedBy[c]
  /\ signedBy' = [signedBy EXCEPT ![c] = @ \cup {s}]
  /\ UNCHANGED <<phase, parties>>

Complete(c) ==
  /\ phase[c] = "pending"
  /\ signedBy[c] = parties[c]
  /\ phase' = [phase EXCEPT ![c] = "signed"]
  /\ UNCHANGED <<parties, signedBy>>

\* The slots go with the contract.
Withdraw(c) ==
  /\ phase[c] = "pending"
  /\ signedBy[c] = {}
  /\ phase' = [phase EXCEPT ![c] = "withdrawn"]
  /\ parties' = [parties EXCEPT ![c] = {}]
  /\ UNCHANGED signedBy

Next ==
  \E c \in ContractIds :
    \/ \E P \in SUBSET SlotIds : Offer(c, P)
    \/ \E s \in SlotIds : Sign(c, s)
    \/ Complete(c)
    \/ Withdraw(c)

Spec == Init /\ [][Next]_vars

-----------------------------------------------------------------------------
TypeOK ==
  /\ phase \in [ContractIds -> Phases]
  /\ parties \in [ContractIds -> SUBSET SlotIds]
  /\ signedBy \in [ContractIds -> SUBSET SlotIds]

\* A contract that is signed bears the signature of every party, and only
\* parties sign.
Kept ==
  \A c \in ContractIds :
    /\ signedBy[c] \subseteq parties[c]
    /\ phase[c] = "signed" => signedBy[c] = parties[c]

\* Signing is irrevocable: no signature is ever taken back, and a signed
\* contract keeps its parties and stays signed.
Irrevocable ==
  [][\A c \in ContractIds :
       /\ signedBy[c] \subseteq signedBy'[c]
       /\ phase[c] = "signed" =>
            phase'[c] = "signed" /\ parties'[c] = parties[c]]_vars
=============================================================================
