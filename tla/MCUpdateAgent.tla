--------------------------- MODULE MCUpdateAgent ----------------------------
(***************************************************************************)
(* Instances of UpdateAgent for TLC; the .cfg files give all constants.    *)
(* With more than one fault a recovery may itself be interrupted; a third  *)
(* release is needed for origin/main to move after a check.                *)
(***************************************************************************)
EXTENDS UpdateAgent
=============================================================================
