--------------------------- MODULE MCArchiveScan ----------------------------
(* Small instances of ArchiveScan for TLC. *)
EXTENDS ArchiveScan, TLC

CONSTANTS p1, p2, a1, a2

FirstInDirectory == [p \in Paths |-> IF p = p1 THEN a1 ELSE Nothing]

ClaimerSymmetry == Permutations(Claimers)
=============================================================================
