---------------------------- MODULE UploadTasks ----------------------------
(***************************************************************************)
(* Upload tasks of the archive: creation (with its sweep of expired        *)
(* tasks), file PUT, cancellation and finalization, as the request         *)
(* handlers of app/services/transfers.py and app/api/routes/agent.py run   *)
(* them, one interleaved step per lock, database statement or file-system  *)
(* effect.                                                                 *)
(*                                                                         *)
(* All tasks of the model upload into one asset and one target directory,  *)
(* so a staged path names its archive path.  A Content stands for a file's *)
(* bytes, and so also for its SHA-256.  Every handler may be taken for a   *)
(* worker process of its own: Crash(h) kills it, the kernel drops its      *)
(* flock, and PostgreSQL rolls its transaction back.                       *)
(*                                                                         *)
(* A definition whose name starts with Wrong is the one after it with a    *)
(* mistake in it.  No behaviour of Spec uses it; it is there to see that   *)
(* the properties notice.                                                  *)
(***************************************************************************)
EXTENDS Naturals, FiniteSets

CONSTANTS
    Tasks,         \* upload ids
    Handlers,      \* request handlers that may run at the same time
    Paths,         \* relative paths inside a task
    Contents,      \* byte contents
    Size,          \* Size[c]: length of content c
    Mode,          \* Mode[t]: "agent" (HTTP PUT) or "scp"
    Manifest,      \* Manifest[t]: declared [count, size], or Nothing
    MaxFileSize,   \* settings.agent_upload_max_bytes
    MaxFiles,      \* settings.agent_upload_max_files_per_task
    MaxTotal,      \* settings.agent_upload_max_total_bytes
    MaxScpWrites,  \* bound: writes of the scp client per task
    MaxExternal,   \* bound: writes into the archive from outside the program
    MaxFailures,   \* bound: statements, commits and file operations that fail
    Events,        \* what may happen besides requests: "expire", "crash", "scan", "archive", "lost_commit"
    Nothing,       \* no task, no content, nobody
    Partial,       \* the content of a file whose copy is under way
    External       \* the author of archive files this program did not write

ASSUME DistinctValues ==
    /\ Nothing \notin Tasks \cup Contents \cup {Partial, External}
    /\ Partial \notin Contents
    /\ External \notin Tasks

ASSUME ConfigurationTypes ==
    /\ Size \in [Contents -> Nat]
    /\ Mode \in [Tasks -> {"agent", "scp"}]
    /\ Manifest \in [Tasks -> [count: Nat, size: Nat] \cup {Nothing}]
    /\ {MaxFileSize, MaxFiles, MaxTotal, MaxScpWrites, MaxExternal, MaxFailures} \subseteq Nat
    /\ Events \subseteq {"expire", "crash", "scan", "archive", "lost_commit"}

VARIABLES
    \* PostgreSQL
    task,          \* task[t]: status of the upload_tasks row, "none" before it exists
    expired,       \* tasks whose expires_at lies in the past
    result,        \* result[t]: files listed in the stored UploadFinalizeResponse
    records,       \* records[p]: the FileRecord of archive path p
    assetArchived, \* whether the target asset has archived_at
    \* the storage root
    lockFile,      \* lockFile[t]: the flock file, as the inode its name stands for
    staging,       \* staging[t][p]: the file under .uploads/<t>
    marker,        \* tasks whose staging directory holds the completion marker
    orphanParts,   \* tasks a temporary file was left for under .uploads/.parts
    archive,       \* archive[p]: the file at the archive path
    \* request handlers
    pc,            \* pc[h]: next step, "idle" between requests
    op,            \* op[h]: the operation in progress
    target,        \* target[h]: the task whose guard h is taking or holds
    fd,            \* fd[h]: inode of the lock file h has open, 0 for none
    work,          \* work[h]: the local variables of the operation
    scanning,      \* whether a scan holds the storage index lock exclusively
    \* bookkeeping of the model
    acked,         \* acked[t]: files whose PUT was answered with success
    externals,     \* writes into the archive from outside so far
    failures       \* failed statements, commits and file operations so far: how many,
                   \* and the archive files that they, or a kill, left without an owner

dbVars      == <<task, expired, result, records, assetArchived>>
storageVars == <<lockFile, staging, marker, orphanParts, archive>>
handlerVars == <<pc, op, target, fd, work>>
modelVars   == <<acked, externals, failures>>
vars        == <<dbVars, storageVars, handlerVars, scanning, modelVars>>

-----------------------------------------------------------------------------
(* Types *)

NoFile == [content |-> Nothing, stamp |-> 0]   \* no staged file at a path
Absent == [content |-> Nothing, by |-> Nothing] \* no archive file, no record

\* The mtime of a staged file is abstracted to the number of scp writes before it.
StagedFile   == [content: Contents \cup {Nothing}, stamp: 0..MaxScpWrites]
ArchiveFile  == [content: Contents \cup {Partial, Nothing}, by: Tasks \cup {External, Nothing}]
FileRecord   == [content: Contents \cup {Nothing}, by: Tasks \cup {Nothing}]
UploadedFile == Paths \X Contents

TaskStatus == {"none", "active", "completed", "cancelled", "deleted"}
Operation  == {"none", "create", "put", "cancel", "finalize"}

PutSteps      == {"put_validate", "put_inspect", "put_stream", "put_link", "put_unlink"}
CancelSteps   == {"cancel_row", "cancel_clean"}
SweepSteps    == {"sweep_row", "sweep_delete"}
PublishSteps  == {"fin_copy", "fin_fill", "fin_verify", "fin_commit", "fin_rollback", "fin_undo"}
FinalizeSteps == {"fin_index", "fin_row", "fin_asset", "fin_preflight", "fin_clean"} \cup PublishSteps
GuardedSteps  == PutSteps \cup CancelSteps \cup SweepSteps \cup FinalizeSteps
Steps         == GuardedSteps \cup {"idle", "open", "flock", "sweep", "sweep_unlink", "insert"}

Work == [path: Paths \cup {Nothing},         \* PUT: relative_path
         checksum: Contents \cup {Nothing},  \* PUT: X-Sage-Content-SHA256, if any
         received: Contents \cup {Nothing},  \* PUT: content of the temporary file
         fits: SUBSET Contents,              \* PUT: what the file and task limits admit
         cands: SUBSET Tasks,                \* create: candidate_ids still to sweep
         snapshot: [Paths -> StagedFile],    \* finalize: staged_snapshots
         todo: SUBSET Paths,                 \* finalize: snapshots still to publish
         done: SUBSET Paths]                 \* finalize: published_files

NoWork == [path |-> Nothing, checksum |-> Nothing, received |-> Nothing, fits |-> {},
           cands |-> {}, snapshot |-> [p \in Paths |-> NoFile], todo |-> {}, done |-> {}]

\* What a handler at step s of operation o with target t has in its locals w
LocalOK(s, o, t, w) ==
    /\ t = Nothing <=> s \in {"idle", "sweep", "insert"}
    /\ o = "none" <=> s = "idle"
    /\ s \in PutSteps => o = "put"
    /\ o = "put" => w.path \in Paths
    /\ s \in {"put_link", "put_unlink"} => w.received \in Contents
    /\ s \notin PublishSteps \cup {"fin_clean"} => w.todo = {} /\ w.done = {}
    /\ s = "fin_fill" => w.path \in w.todo
    /\ \A p \in w.todo \cup w.done: w.snapshot[p].content # Nothing

LocalsOK == \A h \in Handlers: LocalOK(pc[h], op[h], target[h], work[h])

\* Tasks, files and records have their types, and a handler has at each step the local
\* variables this step reads (LocalOK).
TypeOK ==
    /\ task \in [Tasks -> TaskStatus]
    /\ expired \subseteq Tasks
    /\ result \in [Tasks -> SUBSET UploadedFile]
    /\ records \in [Paths -> FileRecord]
    /\ assetArchived \in BOOLEAN
    /\ lockFile \in [Tasks -> [inode: Nat, linked: BOOLEAN]]
    /\ staging \in [Tasks -> [Paths -> StagedFile]]
    /\ marker \subseteq Tasks
    /\ orphanParts \subseteq Tasks
    /\ archive \in [Paths -> ArchiveFile]
    /\ pc \in [Handlers -> Steps]
    /\ op \in [Handlers -> Operation]
    /\ target \in [Handlers -> Tasks \cup {Nothing}]
    /\ fd \in [Handlers -> Nat]
    /\ work \in [Handlers -> Work]
    /\ scanning \in BOOLEAN
    /\ acked \in [Tasks -> SUBSET UploadedFile]
    /\ externals \in 0..MaxExternal
    /\ failures \in [count: 0..MaxFailures, left: SUBSET Paths]
    /\ LocalsOK

-----------------------------------------------------------------------------
(* State functions *)

Exists(t) == task[t] \in {"active", "completed", "cancelled"}

\* read_upload_token: an upload token expires together with its task, whose
\* row must still be there.
TicketValid(t) == Exists(t) /\ t \notin expired

InGuard(h) == pc[h] \in GuardedSteps

\* h has the task's row, the asset's row, the shared storage index lock.  All
\* three belong to the transaction.  A check or a file operation that fails
\* leaves it open for the compensation ("fin_rollback"); a statement or a COMMIT
\* that fails ends it, and the compensation goes on without them ("fin_undo").
HoldsTaskRow(h) ==
    pc[h] \in {"sweep_delete"} \cup
             (FinalizeSteps \ {"fin_index", "fin_row", "fin_undo", "fin_clean"})
HoldsAssetRow(h) == pc[h] \in {"fin_preflight"} \cup (PublishSteps \ {"fin_undo"})
WrongHoldsIndex(h) == pc[h] \in FinalizeSteps \ {"fin_index", "fin_rollback", "fin_undo", "fin_clean"}
HoldsIndex(h) == pc[h] \in FinalizeSteps \ {"fin_index", "fin_undo", "fin_clean"}

TaskRowFree(h, t) == \A g \in Handlers \ {h}: target[g] = t => ~HoldsTaskRow(g)
WrongAssetRowFree == TRUE
AssetRowFree      == \A g \in Handlers: ~HoldsAssetRow(g)

\* The files of a staging directory, their bytes, and the number of these
Staged(t)      == {p \in Paths: staging[t][p].content # Nothing}
StagedBytes(t) == UNION {{p} \X (1..Size[staging[t][p].content]): p \in Staged(t)}
StagedSize(t)  == Cardinality(StagedBytes(t))

FileLimit(t) == IF Manifest[t] # Nothing THEN Manifest[t].count ELSE MaxFiles
SizeLimit(t) == IF Manifest[t] # Nothing THEN Manifest[t].size ELSE MaxTotal

\* agent_upload_remaining_capacity
HasCapacity(t) == /\ Cardinality(Staged(t)) < FileLimit(t)
                  /\ StagedSize(t) < SizeLimit(t)

\* The manifest check of _finalize_upload
WrongManifestComplete(t) ==
    Mode[t] = "agent" /\ Manifest[t] # Nothing => Cardinality(Staged(t)) <= Manifest[t].count

ManifestComplete(t) ==
    Mode[t] = "agent" /\ Manifest[t] # Nothing =>
        /\ Cardinality(Staged(t)) = Manifest[t].count
        /\ StagedSize(t) = Manifest[t].size

\* What the handler's published files hold, as relative path and checksum
Published(h) == {<<p, work[h].snapshot[p].content>>: p \in work[h].done}

-----------------------------------------------------------------------------
(* Control of a handler *)

Goto(h, step) == pc' = [pc EXCEPT ![h] = step]

\* The request is answered: the guard, the session and its locks are released.
Finish(h) ==
    /\ pc' = [pc EXCEPT ![h] = "idle"]
    /\ op' = [op EXCEPT ![h] = "none"]
    /\ target' = [target EXCEPT ![h] = Nothing]
    /\ fd' = [fd EXCEPT ![h] = 0]
    /\ work' = [work EXCEPT ![h] = NoWork]

\* The sweep leaves the guard of one candidate and goes on to the next.
WrongLeaveCandidate(h) ==
    Goto(h, "sweep") /\ fd' = [fd EXCEPT ![h] = 0] /\ UNCHANGED <<op, target, work>>

LeaveCandidate(h) ==
    /\ pc' = [pc EXCEPT ![h] = "sweep"]
    /\ target' = [target EXCEPT ![h] = Nothing]
    /\ fd' = [fd EXCEPT ![h] = 0]
    /\ UNCHANGED <<op, work>>

StartRequest(h, o, t, w) ==
    /\ pc[h] = "idle"
    /\ pc' = [pc EXCEPT ![h] = "open"]
    /\ op' = [op EXCEPT ![h] = o]
    /\ target' = [target EXCEPT ![h] = t]
    /\ work' = [work EXCEPT ![h] = w]
    /\ UNCHANGED <<dbVars, storageVars, fd, scanning, modelVars>>

Fails ==
    /\ failures.count < MaxFailures
    /\ failures' = [failures EXCEPT !.count = @ + 1]

\* The unlink that would take back the archive file at p fails.
LeavesFile(p) ==
    /\ failures.count < MaxFailures
    /\ failures' = [count |-> failures.count + 1, left |-> failures.left \cup {p}]

\* The archive paths a finalization has created files at, and has still to account for
Copies(h) ==
    IF pc[h] \notin PublishSteps THEN {}
    ELSE work[h].done \cup {p \in {work[h].path}: pc[h] = "fin_fill"}

\* _remove_upload_staging, and shutil.rmtree giving up half-way
RemoveStaging(t) ==
    /\ staging' = [staging EXCEPT ![t] = [p \in Paths |-> NoFile]]
    /\ marker' = marker \ {t}

RemoveSomeStaging(t) ==
    /\ Fails
    /\ \E kept \in SUBSET Staged(t):
          staging' = [staging EXCEPT ![t] = [p \in Paths |-> IF p \in kept THEN @[p] ELSE NoFile]]
    /\ UNCHANGED marker

-----------------------------------------------------------------------------
(* The guard of a task: upload_task_guard *)

\* os.open(..., O_RDWR | O_CREAT): the linked inode, or a new one
WrongOpenedInode(t) == lockFile[t].inode + 1
OpenedInode(t) == IF lockFile[t].linked THEN lockFile[t].inode ELSE lockFile[t].inode + 1

OpenLock(h) ==
    /\ pc[h] = "open"
    /\ LET t == target[h]
       IN  /\ lockFile' = [lockFile EXCEPT ![t] = [inode |-> OpenedInode(t), linked |-> TRUE]]
           /\ fd' = [fd EXCEPT ![h] = OpenedInode(t)]
    /\ Goto(h, "flock")
    /\ UNCHANGED <<dbVars, staging, marker, orphanParts, archive, op, target, work, scanning,
                   modelVars>>

\* Another handler's flock on the inode that h has open
WrongLockBusy(h) == FALSE
LockBusy(h) ==
    \E g \in Handlers \ {h}: target[g] = target[h] /\ fd[g] = fd[h] /\ InGuard(g)

EnterGuard(h) ==
    /\ pc[h] = "flock"
    /\ ~LockBusy(h)
    /\ Goto(h, CASE op[h] = "create"   -> "sweep_row"
                 [] op[h] = "put"      -> "put_validate"
                 [] op[h] = "cancel"   -> "cancel_row"
                 [] op[h] = "finalize" -> "fin_index")
    /\ UNCHANGED <<dbVars, storageVars, op, target, fd, work, scanning, modelVars>>

\* UploadBusyError: the sweep skips the candidate, a request is answered with 409.
LockRefused(h) ==
    /\ pc[h] = "flock"
    /\ LockBusy(h)
    /\ IF op[h] = "create" THEN LeaveCandidate(h) ELSE Finish(h)
    /\ UNCHANGED <<dbVars, storageVars, scanning, modelVars>>

-----------------------------------------------------------------------------
(* POST .../uploads and /upload-command: sweep expired tasks, then create one *)

\* The query of cleanup_expired_upload_tasks
WrongSweepCandidates == {t \in Tasks: Exists(t)}
SweepCandidates == {t \in expired: Exists(t)}

BeginCreate(h) ==
    /\ pc[h] = "idle"
    /\ Goto(h, "sweep")
    /\ op' = [op EXCEPT ![h] = "create"]
    /\ work' = [work EXCEPT ![h] = [NoWork EXCEPT !.cands = SweepCandidates]]
    /\ UNCHANGED <<dbVars, storageVars, target, fd, scanning, modelVars>>

WrongSweepCandidate(h) ==
    /\ pc[h] = "sweep"
    /\ \E t \in work[h].cands: target' = [target EXCEPT ![h] = t]
    /\ Goto(h, "open")
    /\ UNCHANGED <<dbVars, storageVars, op, fd, work, scanning, modelVars>>

SweepCandidate(h) ==
    /\ pc[h] = "sweep"
    /\ \E t \in work[h].cands:
          /\ target' = [target EXCEPT ![h] = t]
          /\ work' = [work EXCEPT ![h].cands = @ \ {t}]
    /\ Goto(h, "open")
    /\ UNCHANGED <<dbVars, storageVars, op, fd, scanning, modelVars>>

\* The row is read again under the guard; its staging directory goes first.
SweepRow(h) ==
    /\ pc[h] = "sweep_row"
    /\ TaskRowFree(h, target[h])
    /\ \/ /\ ~Exists(target[h])
          /\ LeaveCandidate(h)
          /\ UNCHANGED <<staging, marker, failures>>
       \/ /\ Exists(target[h])
          /\ RemoveStaging(target[h])
          /\ Goto(h, "sweep_delete")
          /\ UNCHANGED <<op, target, fd, work, failures>>
       \/ /\ Exists(target[h])
          /\ RemoveSomeStaging(target[h])
          /\ LeaveCandidate(h)
    /\ UNCHANGED <<dbVars, lockFile, orphanParts, archive, scanning, acked, externals>>

\* Only UploadContentError is caught: a failed commit ends the request.
SweepDelete(h) ==
    /\ pc[h] = "sweep_delete"
    /\ \/ /\ task' = [task EXCEPT ![target[h]] = "deleted"]
          /\ result' = [result EXCEPT ![target[h]] = {}]
          /\ acked' = [acked EXCEPT ![target[h]] = {}]
          /\ Goto(h, "sweep_unlink")
          /\ fd' = [fd EXCEPT ![h] = 0]
          /\ UNCHANGED <<op, target, work, failures>>
       \/ /\ Fails
          /\ Finish(h)
          /\ UNCHANGED <<task, result, acked>>
    /\ UNCHANGED <<expired, records, assetArchived, storageVars, scanning, externals>>

\* _remove_upload_lock, after the guard was left
SweepUnlink(h) ==
    /\ pc[h] = "sweep_unlink"
    /\ lockFile' = [lockFile EXCEPT ![target[h]].linked = FALSE]
    /\ LeaveCandidate(h)
    /\ UNCHANGED <<dbVars, staging, marker, orphanParts, archive, scanning, modelVars>>

\* create_agent_upload: what the declared manifest may promise
ManifestAccepted(t) ==
    Manifest[t] # Nothing =>
        /\ Manifest[t].count <= MaxFiles
        /\ Manifest[t].size <= MaxTotal
        /\ Manifest[t].size <= Manifest[t].count * MaxFileSize

Creatable(t) == task[t] = "none" /\ ManifestAccepted(t)

\* The asset is read without its row lock.
CheckAsset(h) ==
    /\ pc[h] = "sweep"
    /\ work[h].cands = {}
    /\ IF assetArchived THEN Finish(h)
                        ELSE Goto(h, "insert") /\ UNCHANGED <<op, target, fd, work>>
    /\ UNCHANGED <<dbVars, storageVars, scanning, modelVars>>

\* The INSERT waits for the row of the asset, its foreign key.  A request that
\* finds the model's upload ids used up is rejected.
CreateTask(h) ==
    /\ pc[h] = "insert"
    /\ AssetRowFree
    /\ \/ \E t \in Tasks: Creatable(t) /\ task' = [task EXCEPT ![t] = "active"]
       \/ /\ ~\E t \in Tasks: Creatable(t)
          /\ UNCHANGED task
    /\ Finish(h)
    /\ UNCHANGED <<expired, result, records, assetArchived, storageVars, scanning, modelVars>>

-----------------------------------------------------------------------------
(* PUT .../files/{path}: agent_upload_file *)

BeginPut(h) ==
    \E t \in Tasks, p \in Paths, k \in Contents \cup {Nothing}:
        /\ Mode[t] = "agent"
        /\ TicketValid(t) /\ task[t] = "active"
        /\ StartRequest(h, "put", t, [NoWork EXCEPT !.path = p, !.checksum = k])

\* The ticket is validated again once the guard is held.
WrongWritable(t) == TicketValid(t)
Writable(t) == TicketValid(t) /\ task[t] = "active"

PutValidate(h) ==
    /\ pc[h] = "put_validate"
    /\ IF Writable(target[h])
       THEN Goto(h, "put_inspect") /\ UNCHANGED <<op, target, fd, work>>
       ELSE Finish(h)
    /\ UNCHANGED <<dbVars, storageVars, scanning, modelVars>>

\* recover_agent_file_upload, staged_upload_destination, remaining capacity
PutInspect(h) ==
    /\ pc[h] = "put_inspect"
    /\ LET t == target[h]
           p == work[h].path
           k == work[h].checksum
           present == p \in Staged(t)
           replay == present /\ k # Nothing /\ k = staging[t][p].content
       IN  \/ /\ present
              /\ acked' = IF replay THEN [acked EXCEPT ![t] = @ \cup {<<p, k>>}] ELSE acked
              /\ Finish(h)
           \/ /\ ~present /\ ~HasCapacity(t)
              /\ Finish(h)
              /\ UNCHANGED acked
           \/ /\ ~present /\ HasCapacity(t)
              /\ work' = [work EXCEPT ![h].fits =
                               {c \in Contents: /\ Size[c] <= MaxFileSize
                                               /\ Size[c] <= SizeLimit(t) - StagedSize(t)}]
              /\ Goto(h, "put_stream")
              /\ UNCHANGED <<op, target, fd, acked>>
    /\ UNCHANGED <<dbVars, storageVars, scanning, externals, failures>>

\* The request body goes to a temporary file; the client may break off, or the
\* body may be empty, too long or not what its checksum says.
PutStream(h) ==
    /\ pc[h] = "put_stream"
    /\ \/ \E c \in work[h].fits:
             /\ Size[c] > 0
             /\ work[h].checksum \in {c, Nothing}
             /\ work' = [work EXCEPT ![h].received = c]
             /\ Goto(h, "put_link")
             /\ UNCHANGED <<op, target, fd>>
       \/ Finish(h)
    /\ UNCHANGED <<dbVars, storageVars, scanning, modelVars>>

\* complete_agent_file_upload: os.link does not overwrite
PutLink(h) ==
    /\ pc[h] = "put_link"
    /\ LET t == target[h]
           p == work[h].path
       IN  \/ /\ p \notin Staged(t)
              /\ staging' = [staging EXCEPT ![t][p] = [content |-> work[h].received, stamp |-> 0]]
              /\ Goto(h, "put_unlink")
              /\ UNCHANGED <<op, target, fd, work, failures>>
           \/ /\ p \in Staged(t)
              /\ Finish(h)
              /\ UNCHANGED <<staging, failures>>
           \/ /\ Fails
              /\ Finish(h)
              /\ UNCHANGED staging
    /\ UNCHANGED <<dbVars, lockFile, marker, orphanParts, archive, scanning, acked, externals>>

\* The directory is synced and the temporary name removed before the answer; a
\* failure here takes the published link back.
PutUnlink(h) ==
    /\ pc[h] = "put_unlink"
    /\ LET t == target[h]
           p == work[h].path
       IN  \/ /\ acked' = [acked EXCEPT ![t] = @ \cup {<<p, work[h].received>>}]
              /\ UNCHANGED <<staging, failures>>
           \/ /\ Fails
              /\ staging' = [staging EXCEPT ![t][p] = NoFile]
              /\ UNCHANGED acked
    /\ Finish(h)
    /\ UNCHANGED <<dbVars, lockFile, marker, orphanParts, archive, scanning, externals>>

-----------------------------------------------------------------------------
(* DELETE .../uploads/{id}: cancel_agent_upload *)

BeginCancel(h) ==
    \E t \in Tasks:
        /\ Mode[t] = "agent"
        /\ TicketValid(t)
        /\ StartRequest(h, "cancel", t, NoWork)

WrongCancellable(t) == TicketValid(t)
Cancellable(t) == TicketValid(t) /\ task[t] # "completed"

\* The new status is committed before any staged file is removed.
CancelRow(h) ==
    /\ pc[h] = "cancel_row"
    /\ TaskRowFree(h, target[h])
    /\ LET t == target[h]
       IN  \/ /\ ~Cancellable(t)
              /\ Finish(h)
              /\ UNCHANGED <<task, failures>>
           \/ /\ Cancellable(t)
              /\ task' = [task EXCEPT ![t] = "cancelled"]
              /\ Goto(h, "cancel_clean")
              /\ UNCHANGED <<op, target, fd, work, failures>>
           \/ /\ Cancellable(t) /\ task[t] # "cancelled"
              /\ Fails
              /\ Finish(h)
              /\ UNCHANGED task
    /\ UNCHANGED <<expired, result, records, assetArchived, storageVars, scanning, acked, externals>>

\* _remove_upload_staging after a committed outcome; when it fails the client
\* repeats the request.
WrongCleanStaging(h) ==
    /\ pc[h] \in {"cancel_clean", "fin_clean"}
    /\ \/ RemoveStaging(target[h]) /\ UNCHANGED failures /\ Finish(h)
       \/ /\ RemoveSomeStaging(target[h])
          /\ Goto(h, "fin_rollback")
          /\ UNCHANGED <<op, target, fd, work>>
    /\ UNCHANGED <<dbVars, lockFile, orphanParts, archive, scanning, acked, externals>>

CleanStaging(h) ==
    /\ pc[h] \in {"cancel_clean", "fin_clean"}
    /\ \/ RemoveStaging(target[h]) /\ UNCHANGED failures
       \/ RemoveSomeStaging(target[h])
    /\ Finish(h)
    /\ UNCHANGED <<dbVars, lockFile, orphanParts, archive, scanning, acked, externals>>

-----------------------------------------------------------------------------
(* POST .../uploads/{id}/finalize: finalize_upload *)

BeginFinalize(h) ==
    \E t \in Tasks: TicketValid(t) /\ StartRequest(h, "finalize", t, NoWork)

\* storage_index_guard(shared=True), a try-lock
FinalizeIndex(h) ==
    /\ pc[h] = "fin_index"
    /\ IF scanning THEN Finish(h)
                   ELSE Goto(h, "fin_row") /\ UNCHANGED <<op, target, fd, work>>
    /\ UNCHANGED <<dbVars, storageVars, scanning, modelVars>>

\* A completed task is answered from its stored result.
FinalizeRow(h) ==
    /\ pc[h] = "fin_row"
    /\ TaskRowFree(h, target[h])
    /\ \/ /\ ~TicketValid(target[h]) \/ task[target[h]] = "cancelled"
          /\ Finish(h)
       \/ /\ TicketValid(target[h]) /\ task[target[h]] = "completed"
          /\ Goto(h, "fin_clean")
          /\ UNCHANGED <<op, target, fd, work>>
       \/ /\ TicketValid(target[h]) /\ task[target[h]] = "active"
          /\ Goto(h, "fin_asset")
          /\ UNCHANGED <<op, target, fd, work>>
    /\ UNCHANGED <<dbVars, storageVars, scanning, modelVars>>

FinalizeAsset(h) ==
    /\ pc[h] = "fin_asset"
    /\ AssetRowFree
    /\ IF assetArchived THEN Finish(h)
                        ELSE Goto(h, "fin_preflight") /\ UNCHANGED <<op, target, fd, work>>
    /\ UNCHANGED <<dbVars, storageVars, scanning, modelVars>>

\* What must hold before anything is published
Ready(t) == /\ Staged(t) # {}
            /\ Mode[t] = "scp" => t \in marker
            /\ ManifestComplete(t)
            /\ \A p \in Staged(t): archive[p] = Absent /\ records[p] = Absent

FinalizePreflight(h) ==
    /\ pc[h] = "fin_preflight"
    /\ LET t == target[h]
       IN  IF Ready(t)
           THEN /\ work' = [work EXCEPT ![h].snapshot = staging[t], ![h].todo = Staged(t)]
                /\ Goto(h, "fin_copy")
                /\ UNCHANGED <<op, target, fd>>
           ELSE Finish(h)
    /\ UNCHANGED <<dbVars, storageVars, scanning, modelVars>>

\* One file of the batch: its source must still be the one of the snapshot, and
\* the destination is created with O_EXCL.
PublishStart(h) ==
    /\ pc[h] = "fin_copy"
    /\ \E p \in work[h].todo:
          \/ /\ staging[target[h]][p] = work[h].snapshot[p]
             /\ archive[p] = Absent
             /\ archive' = [archive EXCEPT ![p] = [content |-> Partial, by |-> target[h]]]
             /\ work' = [work EXCEPT ![h].path = p]
             /\ Goto(h, "fin_fill")
             /\ UNCHANGED failures
          \/ /\ staging[target[h]][p] # work[h].snapshot[p] \/ archive[p] # Absent
             /\ Goto(h, "fin_rollback")
             /\ UNCHANGED <<archive, work, failures>>
          \/ /\ Fails
             /\ Goto(h, "fin_rollback")
             /\ UNCHANGED <<archive, work>>
    /\ UNCHANGED <<dbVars, lockFile, staging, marker, orphanParts, op, target, fd, scanning, acked,
                   externals>>

\* The bytes are copied into the inode created above, which somebody may have
\* replaced under its name; the source is compared with its snapshot again.  A
\* copy that fails unlinks the destination name, unless that fails as well.
PublishFill(h) ==
    /\ pc[h] = "fin_fill"
    /\ LET t == target[h]
           p == work[h].path
           same == staging[t][p] = work[h].snapshot[p]
           mine == archive[p] = [content |-> Partial, by |-> t]
       IN  \/ /\ same
              /\ archive' = IF mine THEN [archive EXCEPT ![p].content = staging[t][p].content]
                                    ELSE archive
              /\ work' = [work EXCEPT ![h].todo = @ \ {p}, ![h].done = @ \cup {p}]
              /\ Goto(h, "fin_copy")
              /\ UNCHANGED failures
           \/ /\ ~same
              /\ archive' = [archive EXCEPT ![p] = Absent]
              /\ Goto(h, "fin_rollback")
              /\ UNCHANGED <<work, failures>>
           \/ /\ Fails
              /\ archive' = [archive EXCEPT ![p] = Absent]
              /\ Goto(h, "fin_rollback")
              /\ UNCHANGED work
           \/ /\ LeavesFile(p)
              /\ Goto(h, "fin_rollback")
              /\ UNCHANGED <<archive, work>>
    /\ UNCHANGED <<dbVars, lockFile, staging, marker, orphanParts, op, target, fd, scanning, acked,
                   externals>>

PublishDone(h) ==
    /\ pc[h] = "fin_copy"
    /\ work[h].todo = {}
    /\ Goto(h, "fin_verify")
    /\ UNCHANGED <<dbVars, storageVars, op, target, fd, work, scanning, modelVars>>

\* No content twice in the batch, none that the asset already has
NoDuplicates(h) ==
    /\ \A p, q \in work[h].done:
          work[h].snapshot[p].content = work[h].snapshot[q].content => p = q
    /\ \A p \in work[h].done, q \in Paths:
          records[q].content # work[h].snapshot[p].content

\* The published file is the one this handler wrote: its inode and times match.
WrongStillMine(h, p) == archive[p] = [content |-> Partial, by |-> target[h]]
StillMine(h, p) ==
    archive[p] = [content |-> work[h].snapshot[p].content, by |-> target[h]]

FinalizeVerify(h) ==
    /\ pc[h] = "fin_verify"
    /\ \/ /\ IF NoDuplicates(h) /\ \A p \in work[h].done: StillMine(h, p)
             THEN Goto(h, "fin_commit")
             ELSE Goto(h, "fin_rollback")
          /\ UNCHANGED failures
       \/ Fails /\ Goto(h, "fin_undo")
    /\ UNCHANGED <<dbVars, storageVars, op, target, fd, work, scanning, acked, externals>>

\* File records, activity, status and result are one transaction.
RecordImport(h) ==
    /\ records' = [p \in Paths |-> IF p \in work[h].done
                                   THEN [content |-> work[h].snapshot[p].content, by |-> target[h]]
                                   ELSE records[p]]
    /\ task' = [task EXCEPT ![target[h]] = "completed"]
    /\ result' = [result EXCEPT ![target[h]] = Published(h)]

\* A flush or COMMIT that fails has ended the transaction; where the connection is
\* lost before the answer to the COMMIT arrives, everything may be recorded.
FinalizeCommit(h) ==
    /\ pc[h] = "fin_commit"
    /\ \/ RecordImport(h) /\ Goto(h, "fin_clean") /\ UNCHANGED failures
       \/ Fails /\ Goto(h, "fin_undo") /\ UNCHANGED <<records, task, result>>
       \/ "lost_commit" \in Events /\ Fails /\ Goto(h, "fin_undo") /\ RecordImport(h)
    /\ UNCHANGED <<expired, assetArchived, storageVars, op, target, fd, work, scanning, acked,
                   externals>>

\* Compensation, file by file; a file that cannot be unlinked is passed over.
RollbackFile(h) ==
    /\ pc[h] \in {"fin_rollback", "fin_undo"}
    /\ \E p \in work[h].done:
          /\ \/ /\ archive' = IF StillMine(h, p) THEN [archive EXCEPT ![p] = Absent] ELSE archive
                /\ UNCHANGED failures
             \/ StillMine(h, p) /\ LeavesFile(p) /\ UNCHANGED archive
          /\ work' = [work EXCEPT ![h].done = @ \ {p}]
    /\ UNCHANGED <<dbVars, lockFile, staging, marker, orphanParts, pc, op, target, fd, scanning,
                   acked, externals>>

RollbackDone(h) ==
    /\ pc[h] \in {"fin_rollback", "fin_undo"}
    /\ work[h].done = {}
    /\ Finish(h)
    /\ UNCHANGED <<dbVars, storageVars, scanning, modelVars>>

-----------------------------------------------------------------------------
(* The rest of the world *)

\* A worker is killed.  A temporary file it was writing stays behind, and so do
\* the files of a finalization.
Crash(h) ==
    /\ "crash" \in Events
    /\ pc[h] # "idle"
    /\ orphanParts' = IF pc[h] \in {"put_stream", "put_link", "put_unlink"}
                      THEN orphanParts \cup {target[h]} ELSE orphanParts
    /\ failures' = [failures EXCEPT !.left = @ \cup Copies(h)]
    /\ Finish(h)
    /\ UNCHANGED <<dbVars, lockFile, staging, marker, archive, scanning, acked, externals>>

\* expires_at passes
Expire(t) ==
    /\ "expire" \in Events
    /\ Exists(t)
    /\ t \notin expired
    /\ expired' = expired \cup {t}
    /\ UNCHANGED <<task, result, records, assetArchived, storageVars, handlerVars, scanning, modelVars>>

\* archive_asset and restore_asset take the asset row FOR UPDATE.
SetAssetArchived ==
    /\ "archive" \in Events
    /\ AssetRowFree
    /\ assetArchived' = ~assetArchived
    /\ UNCHANGED <<task, expired, result, records, storageVars, handlerVars, scanning, modelVars>>

\* A scan takes the storage index lock exclusively, or is refused.
ScanBegins ==
    /\ "scan" \in Events
    /\ ~scanning
    /\ \A h \in Handlers: ~HoldsIndex(h)
    /\ scanning' = TRUE
    /\ UNCHANGED <<dbVars, storageVars, handlerVars, modelVars>>

ScanEnds ==
    /\ scanning
    /\ scanning' = FALSE
    /\ UNCHANGED <<dbVars, storageVars, handlerVars, modelVars>>

\* The user runs the generated command, perhaps more than once and at any time
\* after the task was created: mkdir and scp, which overwrites, then touch.
ScpWrite(t, p) ==
    /\ Mode[t] = "scp"
    /\ task[t] # "none"
    /\ \E c \in Contents, n \in 1..MaxScpWrites:
          /\ \A q \in Paths: staging[t][q].stamp < n
          /\ \E q \in Paths: staging[t][q].stamp = n - 1
          /\ staging' = [staging EXCEPT ![t][p] = [content |-> c, stamp |-> n]]
    /\ UNCHANGED <<dbVars, lockFile, marker, orphanParts, archive, handlerVars, scanning, modelVars>>

ScpMark(t) ==
    /\ Mode[t] = "scp"
    /\ Staged(t) # {}
    /\ marker' = marker \cup {t}
    /\ UNCHANGED <<dbVars, lockFile, staging, orphanParts, archive, handlerVars, scanning, modelVars>>

\* Somebody with access to the storage writes or replaces an archive file.
ExternalWrite(p) ==
    /\ externals < MaxExternal
    /\ externals' = externals + 1
    /\ \E c \in Contents: archive' = [archive EXCEPT ![p] = [content |-> c, by |-> External]]
    /\ UNCHANGED <<dbVars, lockFile, staging, marker, orphanParts, handlerVars, scanning, acked,
                   failures>>

-----------------------------------------------------------------------------
(* The specification *)

Init ==
    /\ task = [t \in Tasks |-> "none"]
    /\ expired = {}
    /\ result = [t \in Tasks |-> {}]
    /\ records = [p \in Paths |-> Absent]
    /\ assetArchived = FALSE
    /\ lockFile = [t \in Tasks |-> [inode |-> 0, linked |-> FALSE]]
    /\ staging = [t \in Tasks |-> [p \in Paths |-> NoFile]]
    /\ marker = {}
    /\ orphanParts = {}
    /\ archive = [p \in Paths |-> Absent]
    /\ pc = [h \in Handlers |-> "idle"]
    /\ op = [h \in Handlers |-> "none"]
    /\ target = [h \in Handlers |-> Nothing]
    /\ fd = [h \in Handlers |-> 0]
    /\ work = [h \in Handlers |-> NoWork]
    /\ scanning = FALSE
    /\ acked = [t \in Tasks |-> {}]
    /\ externals = 0
    /\ failures = [count |-> 0, left |-> {}]

Guard(h)    == OpenLock(h) \/ EnterGuard(h) \/ LockRefused(h)
Create(h)   == \/ SweepCandidate(h) \/ SweepRow(h) \/ SweepDelete(h) \/ SweepUnlink(h)
               \/ CheckAsset(h) \/ CreateTask(h)
Put(h)      == PutValidate(h) \/ PutInspect(h) \/ PutStream(h) \/ PutLink(h) \/ PutUnlink(h)
Cancel(h)   == CancelRow(h) \/ CleanStaging(h)
Finalize(h) == \/ FinalizeIndex(h) \/ FinalizeRow(h) \/ FinalizeAsset(h) \/ FinalizePreflight(h)
               \/ PublishStart(h) \/ PublishFill(h) \/ PublishDone(h)
               \/ FinalizeVerify(h) \/ FinalizeCommit(h) \/ RollbackFile(h) \/ RollbackDone(h)

\* A request in progress moves on by itself; requests, kills, the clock and the
\* clients' own writes come from outside.
HandlerStep(h) == Guard(h) \/ Create(h) \/ Put(h) \/ Cancel(h) \/ Finalize(h)
Begin(h)       == BeginCreate(h) \/ BeginPut(h) \/ BeginCancel(h) \/ BeginFinalize(h)

Environment ==
    \/ \E t \in Tasks: Expire(t) \/ ScpMark(t)
    \/ \E t \in Tasks, p \in Paths: ScpWrite(t, p)
    \/ \E p \in Paths: ExternalWrite(p)
    \/ SetAssetArchived \/ ScanBegins \/ ScanEnds

Next ==
    \/ \E h \in Handlers: Begin(h) \/ HandlerStep(h) \/ Crash(h)
    \/ Environment

Spec == Init /\ [][Next]_vars

\* Threads of the server are scheduled, and every blocking call they make
\* returns; a row lock waits only for transactions that end themselves.
\* PostgreSQL serves the waiters of a row lock in turn.
FairSpec ==
    /\ Spec
    /\ \A h \in Handlers: WF_vars(HandlerStep(h)) /\ SF_vars(FinalizeAsset(h) \/ CreateTask(h))

-----------------------------------------------------------------------------
(* Properties *)

\* Steps at which the handler has found the row of its target, and keeps it
HasRow == {"sweep_delete", "fin_asset", "fin_preflight"} \cup
              (PublishSteps \ {"fin_rollback", "fin_undo"})

\* Why one task has one holder (upload_task_guard, _remove_upload_lock): while its
\* row is there, everybody who has its lock file open has the same inode, the
\* linked one; the file is unlinked only after the row is gone, and no upload id
\* is created a second time.
GuardLocal(s, t, f, cands) ==
    /\ s \in GuardedSteps \cup {"flock"} /\ Exists(t) =>
           lockFile[t] = [inode |-> f, linked |-> TRUE]
    /\ s = "sweep_unlink" => task[t] = "deleted"
    /\ s \in HasRow => Exists(t)
    /\ t # Nothing => task[t] # "none"
    /\ \A c \in cands: task[c] # "none"

FlockExclusive ==
    \A g, h \in Handlers:
        g # h /\ InGuard(g) /\ InGuard(h) /\ target[g] = target[h] => fd[g] # fd[h]

GuardInv ==
    /\ \A h \in Handlers: GuardLocal(pc[h], target[h], fd[h], work[h].cands)
    /\ FlockExclusive

\* Of the requests that write, cancel, finalize or sweep one task, at most one is
\* past the flock, whatever became of the lock file in between; two can only be
\* past it when the task's row is gone, and then neither finds anything to do
\* (docs/architecture.md:115).
OneHolder ==
    \A g, h \in Handlers:
        g # h /\ InGuard(g) /\ InGuard(h) /\ target[g] = target[h] => ~Exists(target[g])

\* A file whose PUT was answered with success is in the staging directory for as
\* long as the task can be finalized, whatever other requests, failed writes and
\* kills did in between.
AckedKept ==
    \A t \in Tasks: task[t] = "active" /\ t \notin expired =>
        \A f \in acked[t]: staging[t][f[1]].content = f[2]

\* The staged files of an HTTP task stay within its manifest, or within the
\* instance limits, although each PUT compared its size with the directory
\* before it received the body.
LimitsRespected ==
    \A t \in Tasks: Mode[t] = "agent" =>
        Cardinality(Staged(t)) <= FileLimit(t) /\ StagedSize(t) <= SizeLimit(t)

\* Nothing is added to the staging directory of an HTTP task that was completed,
\* cancelled or removed, not even by a PUT that began before.
NothingStagedLate ==
    [][\A t \in Tasks: Mode[t] = "agent" /\ task[t] # "active" => Staged(t)' \subseteq Staged(t)]_vars

FromTask(t) == {<<p, records[p].content>>: p \in {q \in Paths: records[q].by = t}}

\* The index holds all files of a completed task, among them every file that was
\* acknowledged and exactly the declared number, and no file of a task that was
\* not completed; the stored result a retry is answered from says the same.
ImportedWhole ==
    \A t \in Tasks:
        /\ task[t] = "completed" =>
              /\ FromTask(t) = result[t]
              /\ acked[t] \subseteq result[t]
              /\ Mode[t] = "agent" /\ Manifest[t] # Nothing =>
                     Cardinality(result[t]) = Manifest[t].count
        /\ task[t] \in {"none", "active", "cancelled"} => FromTask(t) = {}

\* Every file record stands for a complete archive file with the recorded
\* SHA-256, unless somebody replaced that file from outside.
RecordsBacked ==
    \A p \in Paths: records[p] # Absent => archive[p].by = External \/ archive[p] = records[p]

\* No two files of the asset that were imported have the same content, although
\* two tasks may publish at the same time (README.md:244).
ContentOnce ==
    \A p, q \in Paths:
        p # q /\ records[p].content = records[q].content => records[p] = Absent

\* A finalization that fails, at whichever step, takes back what it published: an
\* archive file without its record belongs to one still in progress, or could not be
\* taken back, because its worker was killed or the unlink itself failed; README.md:168
\* makes no such exception.
NothingLeftBehind ==
    \A p \in Paths: archive[p].by \in Tasks /\ archive[p] # records[p] =>
        \/ p \in failures.left
        \/ \E h \in Handlers: p \in Copies(h) /\ target[h] = archive[p].by

\* While a scan walks the archive it meets no file of an upload that is not committed
\* (docs/architecture.md:100), except files that nobody can take back any more, and
\* those of a finalization whose transaction the database ended before their
\* compensation.
ScanSeesCommitted ==
    scanning => \A p \in Paths: archive[p].by \in Tasks /\ archive[p] # records[p] =>
        \/ p \in failures.left
        \/ \E h \in Handlers: pc[h] = "fin_undo" /\ p \in work[h].done /\ target[h] = archive[p].by

\* What transfers.py:1673 wants: the locks of the transaction cover the compensation
\* too.  TLC refutes it with the constants of UploadImport.cfg: a failing flush or
\* COMMIT has ended the transaction, a scan begins, and the files are still there.
CompensationCovered ==
    scanning => \A h \in Handlers: pc[h] = "fin_undo" => \A p \in work[h].done: ~StillMine(h, p)

\* Once a task was swept no temporary file of it occupies the storage
\* (README.md:170).
PartsReclaimed == \A t \in Tasks: task[t] = "deleted" => t \notin orphanParts

\* Every request is answered: try-locks never wait, the two row locks that do
\* wait are taken in one order.
RequestsAnswered == \A h \in Handlers: pc[h] # "idle" ~> pc[h] = "idle"

\* The task and its catalogue behave as UploadPromise says.
Promise == INSTANCE UploadPromise WITH catalogue <- records
PromiseSpec == Promise!Spec

=============================================================================
