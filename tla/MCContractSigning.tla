-------------------------- MODULE MCContractSigning --------------------------
(***************************************************************************)
(* Instances of ContractSigning for TLC: model values in the .cfg files,   *)
(* the administrator's payloads and the symmetry of the requests here.     *)
(***************************************************************************)
EXTENDS ContractSigningInv, TLC

CONSTANTS x, y

\* No edit: the runs of SigningSpec.
NoPayloads == {}

\* One change of the text between two signatures.
TextPayload ==
  [content : Contents, expires_at : {None}, status : {"pending"},
   required_signatures : {2}, completed_signatures : {1}, final_hash : {None}]

RequestSymmetry == Permutations(Requests)
=============================================================================
