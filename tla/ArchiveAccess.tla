--------------------------- MODULE ArchiveAccess ----------------------------
(***************************************************************************)
(* What the storage index lock promises to those who take it: while the    *)
(* archive holds files of a finalization whose transaction is open, no     *)
(* scan reads it, and a scan runs alone until its own results are          *)
(* committed.  A finalization whose transaction the database has ended     *)
(* keeps only the scans of its own process away until its files are gone.  *)
(***************************************************************************)
CONSTANTS Handlers, WorkerOf

VARIABLES
    publishing,  \* finalizations whose uncommitted files are in the archive
    exposed,     \* those of them that have lost their transaction
    scanning     \* scans that read the archive or have not committed yet

vars == <<publishing, exposed, scanning>>

Init == publishing = {} /\ exposed = {} /\ scanning = {}

BeginPublish(h) == /\ scanning = {}
                   /\ publishing' = publishing \cup {h}
                   /\ UNCHANGED <<exposed, scanning>>

\* The database ends a finalization's transaction: no scan runs at that moment.
Expose(h) == /\ scanning = {}
             /\ publishing' = publishing \ {h}
             /\ exposed' = exposed \cup {h}
             /\ UNCHANGED scanning

BeginScan(h) == /\ scanning = {} /\ publishing = {}
                /\ \A g \in exposed: WorkerOf[g] # WorkerOf[h]
                /\ scanning' = {h}
                /\ UNCHANGED <<publishing, exposed>>

\* Some of them end, or a worker process ends with all of its handlers.
End == /\ publishing' \subseteq publishing
       /\ exposed' \subseteq exposed
       /\ scanning' \subseteq scanning

Next == End \/ \E h \in Handlers: BeginPublish(h) \/ Expose(h) \/ BeginScan(h)

Spec == Init /\ [][Next]_vars

=============================================================================
