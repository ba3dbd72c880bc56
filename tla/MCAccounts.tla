------------------------------ MODULE MCAccounts ------------------------------
(***************************************************************************)
(* An instance of Accounts for TLC.                                        *)
(***************************************************************************)
EXTENDS Accounts, TLC

\* Nothing tells two requests, two emails or two passwords apart.
Symmetry == Permutations(Requests) \cup Permutations(Emails) \cup Permutations(Passwords)
=============================================================================
