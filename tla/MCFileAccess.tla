---------------------------- MODULE MCFileAccess ----------------------------
(***************************************************************************)
(* Instances of FileAccess for TLC; the .cfg files give all constants.     *)
(***************************************************************************)
EXTENDS FileAccess
=============================================================================
