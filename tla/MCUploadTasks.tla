--------------------------- MODULE MCUploadTasks ---------------------------
(***************************************************************************)
(* Small instances of UploadTasks for TLC.                                 *)
(***************************************************************************)
EXTENDS UploadTasks, TLC

CONSTANTS t1, t2, c1, c2

UnitSize == [c \in Contents |-> 1]
OneTwo   == [c \in Contents |-> IF c = c1 THEN 1 ELSE 2]

AgentMode == [t \in Tasks |-> "agent"]
ScpMode   == [t \in Tasks |-> "scp"]
MixedMode == [t \in Tasks |-> IF t = t1 THEN "agent" ELSE "scp"]

NoManifest == [t \in Tasks |-> Nothing]
TwoFiles   == [t \in Tasks |-> IF t = t1 THEN [count |-> 2, size |-> 3] ELSE Nothing]
OneFile    == [t \in Tasks |-> IF t = t1 THEN [count |-> 1, size |-> 1] ELSE Nothing]

HandlerSymmetry == Permutations(Handlers)
HandlerPathSymmetry == Permutations(Handlers) \cup Permutations(Paths)
=============================================================================
