---------------------------- MODULE MCIndexLock -----------------------------
(* Small instances of IndexLock for TLC. *)
EXTENDS IndexLock

CONSTANTS h1, h2, h3, w1, w2

TwoAndOne == [h \in Handlers |-> IF h = h3 THEN w2 ELSE w1]
OneWorker == [h \in Handlers |-> w1]
=============================================================================
