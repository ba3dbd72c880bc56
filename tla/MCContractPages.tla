--------------------------- MODULE MCContractPages ---------------------------
(***************************************************************************)
(* An instance of ContractPages for TLC.                                   *)
(***************************************************************************)
EXTENDS ContractPages, TLC

CONSTANTS x, y

\* What an administrator sends back after reading a new contract of two slots,
\* perhaps long ago: either text, nothing counted.
EditPayloads ==
  [content : Contents, expires_at : {None}, status : {"pending"},
   required_signatures : {2}, completed_signatures : {0}, final_hash : {None}]

Symmetry == Permutations(Requests) \cup Permutations(Contents)
=============================================================================
