----------------------------- MODULE IndexLock ------------------------------
(***************************************************************************)
(* The storage index lock, storage_index_guard of app/services/storage.py: *)
(* a reader/writer try-lock inside each worker process and, on PostgreSQL, *)
(* an advisory lock of the request's transaction.  A scan takes both       *)
(* exclusively and a finalization shared.  The process lock is released    *)
(* when the guard is left, the advisory lock when the transaction ends:    *)
(* earlier for a finalization, later for a scan, and at once for both when *)
(* a statement or the COMMIT fails or the connection is lost.              *)
(*                                                                         *)
(* A definition whose name starts with Wrong is the one after it with a    *)
(* mistake in it, and no part of Spec.                                     *)
(***************************************************************************)
EXTENDS Naturals, FiniteSets

CONSTANTS
    Handlers,    \* request handlers
    Workers,     \* worker processes of the server
    WorkerOf,    \* WorkerOf[h]: the process h runs in
    PostgreSQL   \* whether the database has advisory locks

ASSUME HandlersFinite == IsFiniteSet(Handlers)
ASSUME WorkerOfType == WorkerOf \in [Handlers -> Workers]
\* Without the advisory lock nothing relates two processes.
ASSUME SharedLock ==
    /\ PostgreSQL \in BOOLEAN
    /\ PostgreSQL \/ \A g, h \in Handlers: WorkerOf[g] = WorkerOf[h]

VARIABLES
    op,        \* op[h]: "scan", "finalize", or "none" between requests
    pc,        \* pc[h]: how far the request is
    readers,   \* readers[w]: _readers of worker w
    writer,    \* writer[w]: _writer of worker w
    advisory   \* advisory[h]: the advisory lock mode of h's transaction

vars == <<op, pc, readers, writer, advisory>>

Steps == {"idle",         \* no request
          "advise",       \* has the process lock, about to ask for the advisory lock
          "inside",       \* has both: a scan walks, a finalization does its checks
          "publish",      \* finalization: files are in the archive, records are not committed
          "compensate",   \* finalization: unlinks its files, the transaction is open
          "lost",         \* finalization: unlinks its files, the database has ended the transaction
          "undone",       \* finalization: unlinked, about to roll back
          "ended",        \* the transaction has ended inside the guard
          "left",         \* the guard is left; the route commits or rolls back
          "dead"}         \* the worker is gone, PostgreSQL has not noticed

Init == /\ op = [h \in Handlers |-> "none"]
        /\ pc = [h \in Handlers |-> "idle"]
        /\ readers = [w \in Workers |-> 0]
        /\ writer = [w \in Workers |-> FALSE]
        /\ advisory = [h \in Handlers |-> "none"]

-----------------------------------------------------------------------------
(* The process lock *)

\* A refused request ends without having changed anything.
Refuses(w, o) == writer[w] \/ (o = "scan" /\ readers[w] > 0)

AcquireLocal(h, o) ==
    /\ pc[h] = "idle"
    /\ ~Refuses(WorkerOf[h], o)
    /\ op' = [op EXCEPT ![h] = o]
    /\ pc' = [pc EXCEPT ![h] = "advise"]
    /\ IF o = "finalize"
         THEN readers' = [readers EXCEPT ![WorkerOf[h]] = @ + 1] /\ UNCHANGED writer
         ELSE writer' = [writer EXCEPT ![WorkerOf[h]] = TRUE] /\ UNCHANGED readers
    /\ UNCHANGED advisory

ReleaseLocal(h) ==
    IF op[h] = "finalize"
      THEN readers' = [readers EXCEPT ![WorkerOf[h]] = @ - 1] /\ UNCHANGED writer
      ELSE writer' = [writer EXCEPT ![WorkerOf[h]] = FALSE] /\ UNCHANGED readers

-----------------------------------------------------------------------------
(* The advisory lock *)

Mode(h) == IF op[h] = "scan" THEN "exclusive" ELSE "shared"

Conflicts(h) == \E g \in Handlers \ {h}:
    /\ advisory[g] # "none"
    /\ "exclusive" \in {advisory[g], Mode(h)}

AdvisoryGrant(h) ==
    /\ pc[h] = "advise"
    /\ PostgreSQL => ~Conflicts(h)
    /\ advisory' = [advisory EXCEPT ![h] = IF PostgreSQL THEN Mode(h) ELSE "none"]
    /\ pc' = [pc EXCEPT ![h] = "inside"]
    /\ UNCHANGED <<op, readers, writer>>

\* The advisory lock is taken, or asking for it fails: the exception leaves the
\* guard, so the process lock goes too.
WrongAdvisoryRefuse(h) ==
    /\ pc[h] = "advise"
    /\ PostgreSQL
    /\ pc' = [pc EXCEPT ![h] = "left"]
    /\ UNCHANGED <<op, readers, writer, advisory>>
AdvisoryRefuse(h) ==
    /\ pc[h] = "advise"
    /\ PostgreSQL
    /\ ReleaseLocal(h)
    /\ pc' = [pc EXCEPT ![h] = "left"]
    /\ UNCHANGED <<op, advisory>>

-----------------------------------------------------------------------------
(* What a finalization does inside *)

Publish(h) == /\ pc[h] = "inside" /\ op[h] = "finalize"
              /\ pc' = [pc EXCEPT ![h] = "publish"]
              /\ UNCHANGED <<op, readers, writer, advisory>>

Commit(h) == /\ pc[h] = "publish"
             /\ pc' = [pc EXCEPT ![h] = "ended"]
             /\ advisory' = [advisory EXCEPT ![h] = "none"]
             /\ UNCHANGED <<op, readers, writer>>

\* A copy or a check of the published files fails.  The transaction stays open
\* until the files are unlinked, "transaction locks must cover filesystem
\* compensation too".
WrongFail(h) == /\ pc[h] = "publish"
                /\ pc' = [pc EXCEPT ![h] = "compensate"]
                /\ advisory' = [advisory EXCEPT ![h] = "none"]
                /\ UNCHANGED <<op, readers, writer>>
Fail(h) == /\ pc[h] = "publish"
           /\ pc' = [pc EXCEPT ![h] = "compensate"]
           /\ UNCHANGED <<op, readers, writer, advisory>>

\* A statement or the COMMIT fails, or the connection is lost: PostgreSQL ends
\* the transaction and releases its locks before the program has the exception,
\* so before it unlinks anything.  The process lock stays.
DatabaseFails(h) == /\ pc[h] \in {"inside", "publish", "compensate"}
                    /\ pc' = [pc EXCEPT ![h] = IF @ = "inside" THEN "ended" ELSE "lost"]
                    /\ advisory' = [advisory EXCEPT ![h] = "none"]
                    /\ UNCHANGED <<op, readers, writer>>

Compensate(h) == /\ pc[h] \in {"compensate", "lost"}
                 /\ pc' = [pc EXCEPT ![h] = "undone"]
                 /\ UNCHANGED <<op, readers, writer, advisory>>

RollBack(h) == /\ pc[h] = "undone"
               /\ pc' = [pc EXCEPT ![h] = "ended"]
               /\ advisory' = [advisory EXCEPT ![h] = "none"]
               /\ UNCHANGED <<op, readers, writer>>

-----------------------------------------------------------------------------
(* The end of a request *)

\* A scan has walked or failed, or a finalization was refused, repeated,
\* committed or undone.
LeaveGuard(h) ==
    /\ pc[h] \in {"inside", "ended"}
    /\ ReleaseLocal(h)
    /\ pc' = [pc EXCEPT ![h] = "left"]
    /\ UNCHANGED <<op, advisory>>

EndRequest(h) ==
    /\ pc[h] = "left"
    /\ op' = [op EXCEPT ![h] = "none"]
    /\ pc' = [pc EXCEPT ![h] = "idle"]
    /\ advisory' = [advisory EXCEPT ![h] = "none"]
    /\ UNCHANGED <<readers, writer>>

-----------------------------------------------------------------------------
(* The worker process ends, and its successor starts with a fresh lock. *)

Running(w) == {h \in Handlers: WorkerOf[h] = w /\ pc[h] \notin {"idle", "dead"}}

Crash(w) ==
    /\ Running(w) # {}
    /\ pc' = [h \in Handlers |-> IF h \in Running(w) THEN "dead" ELSE pc[h]]
    /\ readers' = [readers EXCEPT ![w] = 0]
    /\ writer' = [writer EXCEPT ![w] = FALSE]
    /\ UNCHANGED <<op, advisory>>

\* PostgreSQL notices the lost connection and rolls the transaction back.
Reap(h) ==
    /\ pc[h] = "dead"
    /\ op' = [op EXCEPT ![h] = "none"]
    /\ pc' = [pc EXCEPT ![h] = "idle"]
    /\ advisory' = [advisory EXCEPT ![h] = "none"]
    /\ UNCHANGED <<readers, writer>>

Next == \/ \E h \in Handlers:
             \/ \E o \in {"scan", "finalize"}: AcquireLocal(h, o)
             \/ AdvisoryGrant(h) \/ AdvisoryRefuse(h)
             \/ Publish(h) \/ Commit(h) \/ Fail(h) \/ DatabaseFails(h)
             \/ Compensate(h) \/ RollBack(h)
             \/ LeaveGuard(h) \/ EndRequest(h) \/ Reap(h)
        \/ \E w \in Workers: Crash(w)

Spec == Init /\ [][Next]_vars

-----------------------------------------------------------------------------
(* Properties *)

\* The counts of the process lock are numbers: no release takes one below zero
\* (_LocalStorageIndexLock, storage.py).
TypeOK == /\ op \in [Handlers -> {"none", "scan", "finalize"}]
          /\ pc \in [Handlers -> Steps]
          /\ readers \in [Workers -> Nat]
          /\ writer \in [Workers -> BOOLEAN]
          /\ advisory \in [Handlers -> {"none", "shared", "exclusive"}]

\* The handlers of w inside the process lock for operation o
Inside(w, o) == {h \in Handlers: /\ WorkerOf[h] = w /\ op[h] = o
                                 /\ pc[h] \notin {"idle", "left", "dead"}}

\* The process lock is never leaked and never released twice: its counter is
\* the number of finalizations inside the guard, its flag says whether a scan
\* is (storage.py:38-55, through every way out of storage_index_guard).
LockMatchesHolders == \A w \in Workers:
    /\ readers[w] = Cardinality(Inside(w, "finalize"))
    /\ writer[w] <=> Inside(w, "scan") # {}

\* What the promise of the lock sees of a state
Publishing == {h \in Handlers: pc[h] \in {"publish", "compensate"}}
Exposed == {h \in Handlers: pc[h] = "lost"}
Scanning == {h \in Handlers: /\ op[h] = "scan"
                             /\ \/ pc[h] = "inside"
                                \/ pc[h] = "left" /\ advisory[h] = "exclusive"}

Access == INSTANCE ArchiveAccess
            WITH publishing <- Publishing, exposed <- Exposed, scanning <- Scanning

\* The two locks together implement ArchiveAccess: a scan, up to its commit on
\* PostgreSQL, excludes every other scan and every finalization whose files are
\* in the archive under an open transaction; once the database has ended that
\* transaction, only the scans of the same process stay excluded until the
\* files are unlinked (storage_index_guard as used by scan_storage and
\* finalize_upload).
AccessSpec == Access!Spec

\* What the comment at transfers.py:1673 and docs/architecture.md:100 promise:
\* the locks cover the compensation too.  Two processes refute it after a
\* database failure; the README lists it.
CompensationUnseen == Exposed # {} => Scanning = {}

=============================================================================
