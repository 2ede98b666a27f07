----------------------------- MODULE MCAccounts -----------------------------
(***************************************************************************)
(* Instances of Accounts for TLC; the .cfg files give all constants.       *)
(* Requests and links are interchangeable; accounts are not, as Starts     *)
(* names them.                                                             *)
(***************************************************************************)
EXTENDS Accounts, TLC

Symmetry == Permutations(Requests) \cup Permutations(Invitations)
=============================================================================
