------------------------- MODULE SigningPromiseProofs -------------------------
(***************************************************************************)
(* What SigningPromise amounts to.  As ContractSigning implements it       *)
(* (SigningOutcomeProofs!PromiseKept), this is what a party may rely on    *)
(* who knows nothing of slots, counts and requests.                        *)
(***************************************************************************)
EXTENDS SigningPromise, TLAPS

\* A contract that has not been offered, or was withdrawn, has no parties, and
\* nobody is a party to two contracts.
PromiseInv ==
  /\ TypeOK /\ Kept
  /\ \A c \in ContractIds : phase[c] \in {"absent", "withdrawn"} => parties[c] = {}
  /\ \A c, d \in ContractIds : c # d => parties[c] \cap parties[d] = {}

LEMMA PromiseInvInit == Init => PromiseInv
BY DEF Init, PromiseInv, TypeOK, Kept, Phases

LEMMA PromiseInvNext == PromiseInv /\ [Next]_vars => PromiseInv'
<1> SUFFICES ASSUME PromiseInv, [Next]_vars PROVE PromiseInv'
  OBVIOUS
<1> USE DEF PromiseInv, TypeOK, Kept, Phases
<1>1. ASSUME NEW c \in ContractIds, NEW P \in SUBSET SlotIds, Offer(c, P)
      PROVE  PromiseInv'
  BY <1>1 DEF Offer
<1>2. ASSUME NEW c \in ContractIds, NEW s \in SlotIds, Sign(c, s)
      PROVE  PromiseInv'
  BY <1>2 DEF Sign
<1>3. ASSUME NEW c \in ContractIds, Complete(c) PROVE PromiseInv'
  BY <1>3 DEF Complete
<1>4. ASSUME NEW c \in ContractIds, Withdraw(c) PROVE PromiseInv'
  BY <1>4 DEF Withdraw
<1>5. CASE UNCHANGED vars
  BY <1>5 DEF vars
<1> QED
  BY <1>1, <1>2, <1>3, <1>4, <1>5 DEF Next

LEMMA PromiseInvariant == Spec => []PromiseInv
BY PromiseInvInit, PromiseInvNext, PTL DEF Spec

\* Only parties sign, and a contract that is signed bears the signature of each.
THEOREM AllPartiesSigned == Spec => []Kept
BY PromiseInvariant, PTL DEF PromiseInv

\* No signature is taken back, and a signed contract keeps its parties and stays
\* signed.
THEOREM SigningIsIrrevocable == Spec => Irrevocable
<1>1. PromiseInv /\ [Next]_vars =>
        [\A c \in ContractIds :
           /\ signedBy[c] \subseteq signedBy'[c]
           /\ phase[c] = "signed" =>
                phase'[c] = "signed" /\ parties'[c] = parties[c]]_vars
  <2> SUFFICES ASSUME PromiseInv, Next, NEW c \in ContractIds
               PROVE  /\ signedBy[c] \subseteq signedBy'[c]
                      /\ phase[c] = "signed" =>
                           phase'[c] = "signed" /\ parties'[c] = parties[c]
    OBVIOUS
  <2> QED
    BY DEF Next, Offer, Sign, Complete, Withdraw, PromiseInv, TypeOK
<1> QED
  BY <1>1, PromiseInvariant, PTL DEF Spec, Irrevocable
=============================================================================
