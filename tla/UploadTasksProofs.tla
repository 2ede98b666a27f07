------------------------- MODULE UploadTasksProofs -------------------------
(***************************************************************************)
(* Proofs about UploadTasks, for every number of tasks, handlers, paths    *)
(* and contents: type correctness, the inductive invariant of the lock     *)
(* file, and that one task has one request at work on it.                  *)
(***************************************************************************)
EXTENDS UploadTasks, TLAPS

-----------------------------------------------------------------------------
(* TypeOK in two halves: what every handler owns, and what all share *)

HandlerTypes ==
    /\ pc \in [Handlers -> Steps]
    /\ op \in [Handlers -> Operation]
    /\ target \in [Handlers -> Tasks \cup {Nothing}]
    /\ fd \in [Handlers -> Nat]
    /\ work \in [Handlers -> Work]
    /\ LocalsOK

DatabaseTypes ==
    /\ task \in [Tasks -> TaskStatus]
    /\ expired \subseteq Tasks
    /\ result \in [Tasks -> SUBSET UploadedFile]
    /\ records \in [Paths -> FileRecord]
    /\ assetArchived \in BOOLEAN

StorageTypes ==
    /\ lockFile \in [Tasks -> [inode: Nat, linked: BOOLEAN]]
    /\ staging \in [Tasks -> [Paths -> StagedFile]]
    /\ marker \subseteq Tasks
    /\ orphanParts \subseteq Tasks
    /\ archive \in [Paths -> ArchiveFile]

ModelTypes ==
    /\ scanning \in BOOLEAN
    /\ acked \in [Tasks -> SUBSET UploadedFile]
    /\ externals \in 0..MaxExternal
    /\ failures \in [count: 0..MaxFailures, left: SUBSET Paths]

LEMMA TypeParts ==
    /\ TypeOK <=> HandlerTypes /\ DatabaseTypes /\ StorageTypes /\ ModelTypes
    /\ TypeOK' <=> HandlerTypes' /\ DatabaseTypes' /\ StorageTypes' /\ ModelTypes'
  BY DEF TypeOK, HandlerTypes, DatabaseTypes, StorageTypes, ModelTypes

LEMMA Unchanged ==
    /\ DatabaseTypes /\ UNCHANGED dbVars => DatabaseTypes'
    /\ StorageTypes /\ UNCHANGED storageVars => StorageTypes'
    /\ ModelTypes /\ UNCHANGED <<scanning, modelVars>> => ModelTypes'
    /\ HandlerTypes /\ UNCHANGED handlerVars => HandlerTypes'
  BY DEF DatabaseTypes, dbVars, StorageTypes, storageVars, ModelTypes, modelVars,
         HandlerTypes, handlerVars, LocalsOK

\* A step that fails counts against the bound, and may leave a file.
LEMMA FailureTypes ==
    ASSUME ModelTypes, Fails \/ \E p \in Paths: LeavesFile(p)
    PROVE  failures' \in [count: 0..MaxFailures, left: SUBSET Paths]
  <1>1. failures.count + 1 \in 0..MaxFailures /\ failures.left \in SUBSET Paths
    BY ConfigurationTypes DEF ModelTypes, Fails, LeavesFile
  <1>2. CASE Fails
    BY <1>1, <1>2 DEF ModelTypes, Fails
  <1>3. ASSUME NEW p \in Paths, LeavesFile(p)
        PROVE  failures' \in [count: 0..MaxFailures, left: SUBSET Paths]
    BY <1>1, <1>3 DEF LeavesFile
  <1>4. QED BY <1>2, <1>3

LEMMA FailsType ==
    ASSUME ModelTypes, Fails \/ \E p \in Paths: LeavesFile(p), UNCHANGED <<scanning, acked, externals>>
    PROVE  ModelTypes'
  BY FailureTypes DEF ModelTypes

LEMMA NoFileType == NoFile \in StagedFile
  BY ConfigurationTypes DEF NoFile, StagedFile

LEMMA AbsentType == Absent \in ArchiveFile /\ Absent \in FileRecord
  BY DEF Absent, ArchiveFile, FileRecord

LEMMA NoWorkType ==
    /\ NoWork \in Work
    /\ NoWork.todo = {} /\ NoWork.done = {} /\ NoWork.cands = {}
  <1>1. [p \in Paths |-> NoFile] \in [Paths -> StagedFile]
    BY NoFileType
  <1>2. QED
    BY <1>1 DEF NoWork, Work

LEMMA WorkUpdate ==
    ASSUME NEW w \in Work
    PROVE  /\ \A x \in SUBSET Contents: [w EXCEPT !.fits = x] \in Work
           /\ \A x \in SUBSET Tasks: [w EXCEPT !.cands = x] \in Work
           /\ \A x \in Contents: [w EXCEPT !.received = x] \in Work
           /\ \A x \in Paths: [w EXCEPT !.path = x] \in Work
           /\ \A x \in SUBSET Paths: [w EXCEPT !.done = x] \in Work
           /\ \A x, y \in SUBSET Paths: [w EXCEPT !.todo = x, !.done = y] \in Work
           /\ \A s \in [Paths -> StagedFile], x \in SUBSET Paths:
                 [w EXCEPT !.snapshot = s, !.todo = x] \in Work
  BY DEF Work

LEMMA StagingUpdate ==
    ASSUME StorageTypes, NEW t \in Tasks, NEW p \in Paths, NEW f \in StagedFile
    PROVE  [staging EXCEPT ![t][p] = f] \in [Tasks -> [Paths -> StagedFile]]
  <1>1. [staging[t] EXCEPT ![p] = f] \in [Paths -> StagedFile]
    BY DEF StorageTypes
  <1>2. QED BY <1>1 DEF StorageTypes

LEMMA NoWorkOK ==
    ASSUME NEW s, NEW o, NEW t, s \notin PutSteps, s \notin PublishSteps, o # "put",
           t = Nothing <=> s \in {"idle", "sweep", "insert"}, o = "none" <=> s = "idle"
    PROVE  LocalOK(s, o, t, NoWork)
  BY NoWorkType DEF LocalOK, PutSteps, PublishSteps

-----------------------------------------------------------------------------
(* One handler goes on; the others keep what they have *)

Becomes(h, s, o, t, f, w) ==
    /\ pc' = [pc EXCEPT ![h] = s]
    /\ op' = [op EXCEPT ![h] = o]
    /\ target' = [target EXCEPT ![h] = t]
    /\ fd' = [fd EXCEPT ![h] = f]
    /\ work' = [work EXCEPT ![h] = w]

LEMMA HandlerUpdate ==
    ASSUME HandlerTypes, NEW h \in Handlers, NEW s \in Steps, NEW o \in Operation,
           NEW t \in Tasks \cup {Nothing}, NEW f \in Nat, NEW w \in Work,
           Becomes(h, s, o, t, f, w), LocalOK(s, o, t, w)
    PROVE  HandlerTypes'
  <1>1. /\ pc' \in [Handlers -> Steps]
        /\ op' \in [Handlers -> Operation]
        /\ target' \in [Handlers -> Tasks \cup {Nothing}]
        /\ fd' \in [Handlers -> Nat]
        /\ work' \in [Handlers -> Work]
    BY DEF HandlerTypes, Becomes
  <1>2. ASSUME NEW g \in Handlers
        PROVE  LocalOK(pc'[g], op'[g], target'[g], work'[g])
    <2>1. CASE g = h
      <3>1. pc'[g] = s /\ op'[g] = o /\ target'[g] = t /\ work'[g] = w
        BY <2>1 DEF HandlerTypes, Becomes
      <3>2. QED BY <3>1
    <2>2. CASE g # h
      <3>1. pc'[g] = pc[g] /\ op'[g] = op[g] /\ target'[g] = target[g] /\ work'[g] = work[g]
        BY <2>2 DEF HandlerTypes, Becomes
      <3>2. QED BY <3>1 DEF HandlerTypes, LocalsOK
    <2>3. QED BY <2>1, <2>2
  <1>3. QED BY <1>1, <1>2 DEF HandlerTypes, LocalsOK

LEMMA StepNames ==
    /\ {"idle", "open", "flock", "sweep", "sweep_unlink", "insert"} \subseteq Steps
    /\ PutSteps \cup CancelSteps \cup SweepSteps \cup FinalizeSteps \subseteq Steps
  BY DEF Steps, GuardedSteps

LEMMA FinishType ==
    ASSUME HandlerTypes, NEW h \in Handlers, Finish(h) PROVE HandlerTypes'
  <1>1. Becomes(h, "idle", "none", Nothing, 0, NoWork)
    BY DEF Finish, Becomes
  <1>2. LocalOK("idle", "none", Nothing, NoWork)
    BY NoWorkOK DEF PutSteps, PublishSteps
  <1>3. "idle" \in Steps /\ "none" \in Operation
    BY DEF Steps, Operation
  <1>4. QED BY <1>1, <1>2, <1>3, NoWorkType, HandlerUpdate

LEMMA LeaveCandidateType ==
    ASSUME HandlerTypes, NEW h \in Handlers, LeaveCandidate(h),
           pc[h] \notin {"idle", "fin_clean"} \cup PublishSteps
    PROVE  HandlerTypes'
  <1>1. Becomes(h, "sweep", op[h], Nothing, 0, work[h])
    BY DEF LeaveCandidate, Becomes, HandlerTypes
  <1>2. LocalOK("sweep", op[h], Nothing, work[h])
    BY DEF LocalOK, HandlerTypes, LocalsOK, PutSteps, PublishSteps
  <1>3. "sweep" \in Steps
    BY DEF Steps
  <1>4. QED BY <1>1, <1>2, <1>3, HandlerUpdate DEF HandlerTypes

\* A handler that keeps its target and changes nothing but the step it is at
LEMMA GotoType ==
    ASSUME HandlerTypes, NEW h \in Handlers, NEW s \in Steps,
           Goto(h, s), UNCHANGED <<op, target, fd, work>>,
           pc[h] \notin {"idle", "sweep", "insert"}, s \notin {"idle", "sweep", "insert", "put_link", "fin_fill"},
           s \in PutSteps => op[h] = "put",
           s = "put_unlink" => pc[h] = "put_link",
           s \notin PublishSteps \cup {"fin_clean"} => pc[h] \notin PublishSteps \cup {"fin_clean"}
    PROVE  HandlerTypes'
  <1>1. Becomes(h, s, op[h], target[h], fd[h], work[h])
    BY DEF Goto, Becomes, HandlerTypes
  <1>2. LocalOK(s, op[h], target[h], work[h])
    BY DEF LocalOK, HandlerTypes, LocalsOK
  <1>3. QED BY <1>1, <1>2, HandlerUpdate DEF HandlerTypes

-----------------------------------------------------------------------------
(* Type correctness, action by action *)

LEMMA InitType == Init => TypeOK
  <1> SUFFICES ASSUME Init PROVE TypeOK OBVIOUS
  <1>1. HandlerTypes
    <2>1. LocalOK("idle", "none", Nothing, NoWork)
      BY NoWorkOK DEF PutSteps, PublishSteps
    <2>2. QED BY <2>1, NoWorkType, StepNames DEF Init, HandlerTypes, LocalsOK, Operation
  <1>2. DatabaseTypes
    BY AbsentType DEF Init, DatabaseTypes, TaskStatus
  <1>3. StorageTypes
    <2>1. [p \in Paths |-> NoFile] \in [Paths -> StagedFile]
      BY NoFileType
    <2>2. QED BY <2>1, AbsentType DEF Init, StorageTypes
  <1>4. ModelTypes
    <2>1. MaxExternal \in Nat /\ MaxFailures \in Nat
      BY ConfigurationTypes
    <2>2. externals = 0 /\ failures = [count |-> 0, left |-> {}] /\ scanning = FALSE /\ acked = [t \in Tasks |-> {}]
      BY DEF Init
    <2>3. scanning \in BOOLEAN /\ acked \in [Tasks -> SUBSET UploadedFile]
      BY <2>2
    <2>4. externals \in 0..MaxExternal /\ failures \in [count: 0..MaxFailures, left: SUBSET Paths]
      BY <2>1, <2>2
    <2>5. QED BY <2>3, <2>4 DEF ModelTypes
  <1>5. QED BY <1>1, <1>2, <1>3, <1>4, TypeParts

LEMMA GuardType == ASSUME TypeOK, NEW h \in Handlers, Guard(h) PROVE TypeOK'
  <1> USE TypeParts
  <1>1. CASE OpenLock(h)
    <2>1. target[h] \in Tasks
      BY <1>1 DEF OpenLock, HandlerTypes, LocalsOK, LocalOK
    <2>2. OpenedInode(target[h]) \in Nat
      BY <2>1 DEF OpenedInode, StorageTypes
    <2>3. HandlerTypes'
      <3>1. Becomes(h, "flock", op[h], target[h], OpenedInode(target[h]), work[h])
        BY <1>1 DEF OpenLock, Goto, Becomes, HandlerTypes
      <3>2. LocalOK("flock", op[h], target[h], work[h])
        BY <1>1 DEF OpenLock, HandlerTypes, LocalsOK, LocalOK, PutSteps, PublishSteps
      <3>3. QED BY <2>2, <3>1, <3>2, StepNames, HandlerUpdate DEF HandlerTypes
    <2>4. StorageTypes'
      BY <1>1, <2>2 DEF OpenLock, StorageTypes
    <2>5. QED BY <1>1, <2>3, <2>4, Unchanged DEF OpenLock
  <1>2. CASE EnterGuard(h)
    <2>1. HandlerTypes'
      <3>1. op[h] \in {"create", "put", "cancel", "finalize"}
        BY <1>2 DEF EnterGuard, HandlerTypes, LocalsOK, LocalOK, Operation
      <3>2. \E s \in {"sweep_row", "put_validate", "cancel_row", "fin_index"}:
               Goto(h, s) /\ (s \in PutSteps => op[h] = "put")
        BY <1>2, <3>1 DEF EnterGuard, PutSteps, PublishSteps
      <3>3. UNCHANGED <<op, target, fd, work>> /\ pc[h] = "flock"
        BY <1>2 DEF EnterGuard
      <3>4. QED BY <3>2, <3>3, GotoType, StepNames DEF PutSteps, PublishSteps, CancelSteps, SweepSteps, FinalizeSteps
    <2>2. QED BY <1>2, <2>1, Unchanged DEF EnterGuard
  <1>3. CASE LockRefused(h)
    <2>1. HandlerTypes'
      BY <1>3, FinishType, LeaveCandidateType DEF LockRefused, PublishSteps
    <2>2. QED BY <1>3, <2>1, Unchanged DEF LockRefused
  <1>4. QED BY <1>1, <1>2, <1>3 DEF Guard

LEMMA RemoveStagingType ==
    ASSUME NEW t, StorageTypes, RemoveStaging(t) \/ RemoveSomeStaging(t),
           UNCHANGED <<lockFile, orphanParts, archive>>
    PROVE  StorageTypes'
  <1>1. CASE RemoveStaging(t)
    <2>1. [p \in Paths |-> NoFile] \in [Paths -> StagedFile]
      BY NoFileType
    <2>2. QED BY <1>1, <2>1 DEF RemoveStaging, StorageTypes
  <1>2. CASE RemoveSomeStaging(t)
    <2>1. PICK kept \in SUBSET Staged(t):
             staging' = [staging EXCEPT ![t] =
                            [p \in Paths |-> IF p \in kept THEN staging[t][p] ELSE NoFile]]
      BY <1>2 DEF RemoveSomeStaging
    <2>2. t \in Tasks => [p \in Paths |-> IF p \in kept THEN staging[t][p] ELSE NoFile]
                              \in [Paths -> StagedFile]
      BY NoFileType DEF StorageTypes
    <2>3. staging' \in [Tasks -> [Paths -> StagedFile]]
      BY <2>1, <2>2 DEF StorageTypes
    <2>4. QED BY <1>2, <2>3 DEF RemoveSomeStaging, StorageTypes
  <1>3. QED BY <1>1, <1>2

LEMMA CreateType == ASSUME TypeOK, NEW h \in Handlers, Create(h) PROVE TypeOK'
  <1> USE TypeParts
  <1>1. CASE SweepCandidate(h)
    <2>1. PICK t \in work[h].cands:
             /\ target' = [target EXCEPT ![h] = t]
             /\ work' = [work EXCEPT ![h] = [work[h] EXCEPT !.cands = work[h].cands \ {t}]]
      BY <1>1 DEF SweepCandidate
    <2> DEFINE w == [work[h] EXCEPT !.cands = work[h].cands \ {t}]
    <2>2. t \in Tasks /\ w \in Work
      <3>1. /\ work[h].cands \in SUBSET Tasks /\ work[h].cands \ {t} \in SUBSET Tasks
            /\ work[h] \in Work
        BY DEF HandlerTypes, Work
      <3>2. QED BY <3>1, WorkUpdate
    <2>3. Becomes(h, "open", op[h], t, fd[h], w)
      BY <1>1, <2>1 DEF SweepCandidate, Goto, Becomes, HandlerTypes
    <2>4. LocalOK("open", op[h], t, w)
      <3>1. w.path = work[h].path /\ w.todo = work[h].todo /\ w.done = work[h].done
            /\ w.snapshot = work[h].snapshot
        BY DEF HandlerTypes, Work
      <3>2. QED BY <1>1, <2>2, <3>1, DistinctValues
                DEF SweepCandidate, HandlerTypes, LocalsOK, LocalOK, PutSteps, PublishSteps
    <2>5. HandlerTypes'
      BY <2>2, <2>3, <2>4, StepNames, HandlerUpdate DEF HandlerTypes
    <2>6. QED BY <1>1, <2>5, Unchanged DEF SweepCandidate
  <1>2. CASE SweepRow(h)
    <2>1. HandlerTypes'
      BY <1>2, LeaveCandidateType, GotoType, StepNames DEF SweepRow, SweepSteps, PutSteps, PublishSteps
    <2>2. StorageTypes'
      BY <1>2, RemoveStagingType DEF SweepRow, StorageTypes
    <2>3. ModelTypes'
      BY <1>2, FailsType DEF SweepRow, RemoveSomeStaging, ModelTypes
    <2>4. QED BY <1>2, <2>1, <2>2, <2>3, Unchanged DEF SweepRow
  <1>3. CASE SweepDelete(h)
    <2>1. HandlerTypes'
      <3>1. CASE Goto(h, "sweep_unlink") /\ fd' = [fd EXCEPT ![h] = 0]
                   /\ UNCHANGED <<op, target, work>>
        <4>1. Becomes(h, "sweep_unlink", op[h], target[h], 0, work[h])
          BY <3>1 DEF Goto, Becomes, HandlerTypes
        <4>2. LocalOK("sweep_unlink", op[h], target[h], work[h])
          BY <1>3 DEF SweepDelete, HandlerTypes, LocalsOK, LocalOK, PutSteps, PublishSteps
        <4>3. QED BY <4>1, <4>2, StepNames, HandlerUpdate DEF HandlerTypes
      <3>2. QED BY <1>3, <3>1, FinishType DEF SweepDelete
    <2>2. DatabaseTypes'
      BY <1>3 DEF SweepDelete, DatabaseTypes, TaskStatus
    <2>3. ModelTypes'
      <3>1. acked' \in [Tasks -> SUBSET UploadedFile]
        BY <1>3 DEF SweepDelete, ModelTypes
      <3>2. failures' \in [count: 0..MaxFailures, left: SUBSET Paths]
        BY <1>3, FailureTypes DEF SweepDelete, ModelTypes
      <3>3. QED BY <1>3, <3>1, <3>2 DEF SweepDelete, ModelTypes
    <2>4. QED BY <1>3, <2>1, <2>2, <2>3, Unchanged DEF SweepDelete
  <1>4. CASE SweepUnlink(h)
    <2>1. HandlerTypes'
      BY <1>4, LeaveCandidateType DEF SweepUnlink, PublishSteps
    <2>2. StorageTypes'
      BY <1>4 DEF SweepUnlink, StorageTypes
    <2>3. QED BY <1>4, <2>1, <2>2, Unchanged DEF SweepUnlink
  <1>5. CASE CreateTask(h)
    <2>1. HandlerTypes'
      BY <1>5, FinishType DEF CreateTask
    <2>2. DatabaseTypes'
      BY <1>5 DEF CreateTask, DatabaseTypes, TaskStatus
    <2>3. QED BY <1>5, <2>1, <2>2, Unchanged DEF CreateTask
  <1>6. CASE CheckAsset(h)
    <2>1. HandlerTypes'
      <3>1. CASE Goto(h, "insert") /\ UNCHANGED <<op, target, fd, work>>
        <4>1. Becomes(h, "insert", op[h], target[h], fd[h], work[h])
          BY <3>1 DEF Goto, Becomes, HandlerTypes
        <4>2. LocalOK("insert", op[h], target[h], work[h])
          BY <1>6 DEF CheckAsset, HandlerTypes, LocalsOK, LocalOK, PutSteps, PublishSteps
        <4>3. "insert" \in Steps
          BY StepNames
        <4>4. QED BY <4>1, <4>2, <4>3, HandlerUpdate DEF HandlerTypes
      <3>2. QED BY <1>6, <3>1, FinishType DEF CheckAsset
    <2>2. QED BY <1>6, <2>1, Unchanged DEF CheckAsset
  <1>7. QED BY <1>1, <1>2, <1>3, <1>4, <1>5, <1>6 DEF Create

\* Where a handler has a target at all, it is a task.
LEMMA TargetType ==
    ASSUME HandlerTypes, NEW h \in Handlers, pc[h] \notin {"idle", "sweep", "insert"}
    PROVE  target[h] \in Tasks
  BY DEF HandlerTypes, LocalsOK, LocalOK

LEMMA PutType == ASSUME TypeOK, NEW h \in Handlers, Put(h) PROVE TypeOK'
  <1> USE TypeParts
  <1>1. CASE PutValidate(h)
    <2>1. HandlerTypes'
      <3>1. op[h] = "put"
        BY <1>1 DEF PutValidate, HandlerTypes, LocalsOK, LocalOK, PutSteps, PublishSteps
      <3>2. QED BY <1>1, <3>1, FinishType, GotoType, StepNames DEF PutValidate, PutSteps, PublishSteps
    <2>2. QED BY <1>1, <2>1, Unchanged DEF PutValidate
  <1>2. CASE PutInspect(h)
    <2>1. op[h] = "put" /\ work[h].path \in Paths
      BY <1>2 DEF PutInspect, HandlerTypes, LocalsOK, LocalOK, PutSteps, PublishSteps
    <2>2. target[h] \in Tasks
      BY <1>2, TargetType DEF PutInspect
    <2>3. HandlerTypes'
      <3>1. CASE Finish(h)
        BY <3>1, FinishType
      <3>2. CASE ~Finish(h)
        <4> DEFINE fits == {c \in Contents: /\ Size[c] <= MaxFileSize
                                           /\ Size[c] <= SizeLimit(target[h]) - StagedSize(target[h])}
                   w == [work[h] EXCEPT !.fits = fits]
        <4>1. Becomes(h, "put_stream", op[h], target[h], fd[h], w)
          BY <1>2, <3>2 DEF PutInspect, Goto, Becomes, HandlerTypes
        <4>2. w \in Work
          BY WorkUpdate DEF HandlerTypes
        <4>3. LocalOK("put_stream", op[h], target[h], w)
          <5>1. w.path = work[h].path /\ w.todo = work[h].todo /\ w.done = work[h].done
                /\ w.snapshot = work[h].snapshot
            BY DEF HandlerTypes, Work
          <5>2. QED BY <1>2, <2>1, <5>1
                    DEF PutInspect, HandlerTypes, LocalsOK, LocalOK, PutSteps, PublishSteps
        <4>4. QED BY <4>1, <4>2, <4>3, StepNames, HandlerUpdate DEF HandlerTypes, PutSteps, PublishSteps
      <3>3. QED BY <3>1, <3>2
    <2>4. ModelTypes'
      <3>1. acked' \in [Tasks -> SUBSET UploadedFile]
        <4>1. CASE UNCHANGED acked
          BY <4>1 DEF ModelTypes
        <4>2. CASE ~UNCHANGED acked
          <5>1. work[h].checksum \in Contents
            BY <1>2, <4>2 DEF PutInspect, HandlerTypes, Work
          <5>2. acked' = [acked EXCEPT ![target[h]] =
                             acked[target[h]] \cup {<<work[h].path, work[h].checksum>>}]
            BY <1>2, <4>2 DEF PutInspect
          <5>3. QED BY <2>1, <2>2, <5>1, <5>2 DEF ModelTypes, UploadedFile
        <4>3. QED BY <4>1, <4>2
      <3>2. QED BY <1>2, <3>1 DEF PutInspect, ModelTypes
    <2>5. QED BY <1>2, <2>3, <2>4, Unchanged DEF PutInspect
  <1>3. CASE PutStream(h)
    <2>1. HandlerTypes'
      <3>1. CASE Finish(h)
        BY <3>1, FinishType
      <3>2. CASE ~Finish(h)
        <4>1. PICK c \in work[h].fits:
                 /\ work' = [work EXCEPT ![h] = [work[h] EXCEPT !.received = c]]
                 /\ Goto(h, "put_link")
                 /\ UNCHANGED <<op, target, fd>>
          BY <1>3, <3>2 DEF PutStream
        <4> DEFINE w == [work[h] EXCEPT !.received = c]
        <4>2. c \in Contents
          BY DEF HandlerTypes, Work
        <4> w \in Work
          BY <4>2, WorkUpdate DEF HandlerTypes
        <4>3. Becomes(h, "put_link", op[h], target[h], fd[h], w)
          BY <4>1 DEF Goto, Becomes, HandlerTypes
        <4>4. LocalOK("put_link", op[h], target[h], w)
          <5>1. w.path = work[h].path /\ w.todo = work[h].todo /\ w.done = work[h].done
                /\ w.snapshot = work[h].snapshot /\ w.received = c
            BY DEF HandlerTypes, Work
          <5>2. QED BY <1>3, <4>2, <5>1 DEF PutStream, HandlerTypes, LocalsOK, LocalOK, PutSteps, PublishSteps
        <4>5. QED BY <4>2, <4>3, <4>4, StepNames, HandlerUpdate DEF HandlerTypes, PutSteps, PublishSteps
      <3>3. QED BY <3>1, <3>2
    <2>2. QED BY <1>3, <2>1, Unchanged DEF PutStream
  <1>4. CASE PutLink(h)
    <2>1. /\ op[h] = "put" /\ target[h] \in Tasks
          /\ work[h].path \in Paths /\ work[h].received \in Contents
      BY <1>4, TargetType DEF PutLink, HandlerTypes, LocalsOK, LocalOK, PutSteps, PublishSteps
    <2>2. HandlerTypes'
      BY <1>4, <2>1, FinishType, GotoType, StepNames DEF PutLink, PutSteps, PublishSteps
    <2>3. StorageTypes'
      <3>1. [content |-> work[h].received, stamp |-> 0] \in StagedFile
        BY <2>1, ConfigurationTypes DEF StagedFile
      <3>2. \/ staging' = [staging EXCEPT ![target[h]][work[h].path] =
                              [content |-> work[h].received, stamp |-> 0]]
            \/ staging' = staging
        BY <1>4 DEF PutLink
      <3>3. staging' \in [Tasks -> [Paths -> StagedFile]]
        <4>1. CASE staging' = staging
          BY <4>1 DEF StorageTypes
        <4>2. QED BY <2>1, <3>1, <3>2, <4>1, StagingUpdate
      <3>4. QED BY <1>4, <3>3 DEF PutLink, StorageTypes
    <2>4. ModelTypes'
      BY <1>4, FailsType DEF PutLink, ModelTypes
    <2>5. QED BY <1>4, <2>2, <2>3, <2>4, Unchanged DEF PutLink
  <1>5. CASE PutUnlink(h)
    <2>1. target[h] \in Tasks /\ work[h].path \in Paths /\ work[h].received \in Contents
      BY <1>5, TargetType DEF PutUnlink, HandlerTypes, LocalsOK, LocalOK, PutSteps, PublishSteps
    <2>2. HandlerTypes'
      BY <1>5, FinishType DEF PutUnlink
    <2>3. StorageTypes'
      <3>1. \/ staging' = [staging EXCEPT ![target[h]][work[h].path] = NoFile]
            \/ staging' = staging
        BY <1>5 DEF PutUnlink
      <3>2. staging' \in [Tasks -> [Paths -> StagedFile]]
        <4>1. CASE staging' = staging
          BY <4>1 DEF StorageTypes
        <4>2. QED BY <2>1, <3>1, <4>1, NoFileType, StagingUpdate
      <3>3. QED BY <1>5, <3>2 DEF PutUnlink, StorageTypes
    <2>4. acked' \in [Tasks -> SUBSET UploadedFile]
      BY <1>5, <2>1 DEF PutUnlink, ModelTypes, UploadedFile
    <2>5. failures' \in [count: 0..MaxFailures, left: SUBSET Paths]
      BY <1>5, FailureTypes DEF PutUnlink, ModelTypes
    <2>6. QED BY <1>5, <2>2, <2>3, <2>4, <2>5, Unchanged DEF PutUnlink, ModelTypes
  <1>6. QED BY <1>1, <1>2, <1>3, <1>4, <1>5 DEF Put

LEMMA CancelType == ASSUME TypeOK, NEW h \in Handlers, Cancel(h) PROVE TypeOK'
  <1> USE TypeParts
  <1>1. CASE CancelRow(h)
    <2>1. HandlerTypes'
      BY <1>1, FinishType, GotoType, StepNames DEF CancelRow, CancelSteps, PutSteps, PublishSteps
    <2>2. DatabaseTypes'
      BY <1>1 DEF CancelRow, DatabaseTypes, TaskStatus
    <2>3. ModelTypes'
      BY <1>1, FailsType DEF CancelRow, ModelTypes
    <2>4. QED BY <1>1, <2>1, <2>2, <2>3, Unchanged DEF CancelRow
  <1>2. CASE CleanStaging(h)
    <2>1. HandlerTypes'
      BY <1>2, FinishType DEF CleanStaging
    <2>2. StorageTypes'
      BY <1>2, RemoveStagingType DEF CleanStaging
    <2>3. ModelTypes'
      BY <1>2, FailsType DEF CleanStaging, RemoveSomeStaging, ModelTypes
    <2>4. QED BY <1>2, <2>1, <2>2, <2>3, Unchanged DEF CleanStaging
  <1>3. QED BY <1>1, <1>2 DEF Cancel

\* A finalization goes on with other locals.
LEMMA FinalizeGotoType ==
    ASSUME HandlerTypes, NEW h \in Handlers, NEW s, NEW w \in Work,
           Goto(h, s), work' = [work EXCEPT ![h] = w], UNCHANGED <<op, target, fd>>,
           pc[h] \in FinalizeSteps, w.path = work[h].path \/ w.path \in Paths,
           s = "fin_fill" => w.path \in w.todo,
           s \in PublishSteps, \A p \in w.todo \cup w.done: w.snapshot[p].content # Nothing
    PROVE  HandlerTypes'
  <1>1. Becomes(h, s, op[h], target[h], fd[h], w)
    BY DEF Goto, Becomes, HandlerTypes
  <1>2. LocalOK(s, op[h], target[h], w)
    <2>1. s \notin PutSteps \cup {"idle", "sweep", "insert"}
      BY DEF PutSteps, PublishSteps
    <2>2. pc[h] \notin {"idle", "sweep", "insert"}
      BY DEF FinalizeSteps, PublishSteps
    <2>3. LocalOK(pc[h], op[h], target[h], work[h])
      BY DEF HandlerTypes, LocalsOK
    <2>4. target[h] # Nothing /\ op[h] # "none"
      BY <2>2, <2>3 DEF LocalOK
    <2>5. op[h] = "put" => w.path \in Paths
      BY <2>3 DEF LocalOK
    <2>6. s \notin {"put_link", "put_unlink"}
      BY <2>1 DEF PutSteps
    <2>7. QED BY <2>1, <2>4, <2>5, <2>6 DEF LocalOK
  <1>3. s \in Steps
    BY StepNames DEF FinalizeSteps
  <1>4. QED BY <1>1, <1>2, <1>3, HandlerUpdate DEF HandlerTypes

LEMMA FinalizeStartType ==
    ASSUME TypeOK, NEW h \in Handlers,
           \/ FinalizeIndex(h) \/ FinalizeRow(h) \/ FinalizeAsset(h) \/ FinalizePreflight(h)
    PROVE  TypeOK'
  <1> USE TypeParts
  <1>1. CASE FinalizeIndex(h)
    <2>1. HandlerTypes'
      BY <1>1, FinishType, GotoType, StepNames DEF FinalizeIndex, FinalizeSteps, PutSteps, PublishSteps
    <2>2. QED BY <1>1, <2>1, Unchanged DEF FinalizeIndex
  <1>2. CASE FinalizeRow(h)
    <2>1. HandlerTypes'
      BY <1>2, FinishType, GotoType, StepNames DEF FinalizeRow, FinalizeSteps, PutSteps, PublishSteps
    <2>2. QED BY <1>2, <2>1, Unchanged DEF FinalizeRow
  <1>3. CASE FinalizeAsset(h)
    <2>1. HandlerTypes'
      BY <1>3, FinishType, GotoType, StepNames DEF FinalizeAsset, FinalizeSteps, PutSteps, PublishSteps
    <2>2. QED BY <1>3, <2>1, Unchanged DEF FinalizeAsset
  <1>4. CASE FinalizePreflight(h)
    <2>1. HandlerTypes'
      <3>1. CASE Finish(h)
        BY <3>1, FinishType
      <3>2. CASE ~Finish(h)
        <4> DEFINE t == target[h]
                   w == [work[h] EXCEPT !.snapshot = staging[t], !.todo = Staged(t)]
        <4>1. t \in Tasks
          BY <1>4, TargetType DEF FinalizePreflight
        <4>2. staging[t] \in [Paths -> StagedFile] /\ Staged(t) \in SUBSET Paths
          BY <4>1 DEF StorageTypes, Staged
        <4>3. w \in Work
          BY <4>2, WorkUpdate DEF HandlerTypes
        <4> w.path = work[h].path /\ w.todo = Staged(t) /\ w.done = work[h].done
            /\ w.snapshot = staging[t]
          BY DEF HandlerTypes, Work
        <4>4. work[h].done = {}
          BY <1>4 DEF FinalizePreflight, HandlerTypes, LocalsOK, LocalOK, PublishSteps
        <4>5. \A p \in w.todo \cup w.done: w.snapshot[p].content # Nothing
          BY <4>4 DEF Staged
        <4>6. /\ pc[h] = "fin_preflight" /\ Goto(h, "fin_copy") /\ UNCHANGED <<op, target, fd>>
              /\ work' = [work EXCEPT ![h] = w]
          BY <1>4, <3>2 DEF FinalizePreflight
        <4>7. QED BY <4>3, <4>5, <4>6, FinalizeGotoType DEF FinalizeSteps, PublishSteps
      <3>3. QED BY <3>1, <3>2
    <2>2. QED BY <1>4, <2>1, Unchanged DEF FinalizePreflight
  <1>5. QED BY <1>1, <1>2, <1>3, <1>4

LEMMA FinalizePublishType ==
    ASSUME TypeOK, NEW h \in Handlers, PublishStart(h) \/ PublishFill(h) \/ PublishDone(h)
    PROVE  TypeOK'
  <1> USE TypeParts
  <1>1. target[h] \in Tasks /\ pc[h] \in PublishSteps /\ pc[h] \in FinalizeSteps
    BY TargetType DEF PublishStart, PublishFill, PublishDone, PublishSteps, FinalizeSteps
  <1>2. \A p \in work[h].todo \cup work[h].done: work[h].snapshot[p].content # Nothing
    BY DEF HandlerTypes, LocalsOK, LocalOK
  <1>3. work[h] \in Work /\ work[h].todo \in SUBSET Paths /\ work[h].done \in SUBSET Paths
    BY DEF HandlerTypes, Work
  <1>4. CASE PublishStart(h)
    <2>1. HandlerTypes'
      <3>1. CASE Goto(h, "fin_rollback") /\ UNCHANGED <<op, target, fd, work>>
        BY <1>1, <3>1, GotoType, StepNames DEF PutSteps, PublishSteps, FinalizeSteps
      <3>2. CASE ~(Goto(h, "fin_rollback") /\ UNCHANGED <<op, target, fd, work>>)
        <4>1. PICK p \in work[h].todo: /\ work' = [work EXCEPT ![h] = [work[h] EXCEPT !.path = p]]
                                       /\ Goto(h, "fin_fill")
                                       /\ UNCHANGED <<op, target, fd>>
          BY <1>4, <3>2 DEF PublishStart
        <4> DEFINE w == [work[h] EXCEPT !.path = p]
        <4>2. w \in Work
          BY <1>3, WorkUpdate
        <4>3. w.path = p /\ w.todo = work[h].todo /\ w.done = work[h].done
              /\ w.snapshot = work[h].snapshot
          BY <1>3 DEF Work
        <4>4. "fin_fill" \in PublishSteps
          BY DEF PublishSteps
        <4> HIDE DEF w
        <4>5. QED BY <1>1, <1>2, <1>3, <4>1, <4>2, <4>3, <4>4, FinalizeGotoType DEF w
      <3>3. QED BY <1>4, <3>1, <3>2 DEF PublishStart
    <2>2. StorageTypes'
      <3>1. [content |-> Partial, by |-> target[h]] \in ArchiveFile
        BY <1>1 DEF ArchiveFile
      <3>2. archive' \in [Paths -> ArchiveFile]
        BY <1>4, <3>1 DEF PublishStart, StorageTypes
      <3>3. QED BY <1>4, <3>2 DEF PublishStart, StorageTypes
    <2>3. ModelTypes'
      BY <1>4, FailsType DEF PublishStart, ModelTypes
    <2>4. QED BY <1>4, <2>1, <2>2, <2>3, Unchanged DEF PublishStart
  <1>5. CASE PublishFill(h)
    <2>1. work[h].path \in work[h].todo
      BY <1>5 DEF PublishFill, HandlerTypes, LocalsOK, LocalOK
    <2>2. HandlerTypes'
      <3>1. CASE Goto(h, "fin_rollback") /\ UNCHANGED <<op, target, fd, work>>
        BY <1>1, <3>1, GotoType, StepNames DEF PutSteps, PublishSteps, FinalizeSteps
      <3>2. CASE ~(Goto(h, "fin_rollback") /\ UNCHANGED <<op, target, fd, work>>)
        <4> DEFINE todo == work[h].todo \ {work[h].path}
                   done == work[h].done \cup {work[h].path}
                   w == [work[h] EXCEPT !.todo = todo, !.done = done]
        <4>1. /\ work' = [work EXCEPT ![h] = w]
              /\ Goto(h, "fin_copy")
              /\ UNCHANGED <<op, target, fd>>
          BY <1>5, <3>2 DEF PublishFill
        <4>2. w \in Work
          BY <1>3, <2>1, WorkUpdate
        <4>3. w.path = work[h].path /\ w.todo = todo /\ w.done = done
              /\ w.snapshot = work[h].snapshot
          BY <1>3 DEF Work
        <4>4. \A p \in w.todo \cup w.done: w.snapshot[p].content # Nothing
          BY <1>2, <2>1, <4>3
        <4>5. "fin_copy" \in PublishSteps
          BY DEF PublishSteps
        <4> HIDE DEF w
        <4>6. QED BY <1>1, <4>1, <4>2, <4>3, <4>4, <4>5, FinalizeGotoType DEF w
      <3>3. QED BY <1>5, <3>1, <3>2 DEF PublishFill
    <2>3. StorageTypes'
      <3>1. work[h].path \in Paths
        BY <1>3, <2>1
      <3>2. staging[target[h]][work[h].path].content \in Contents \cup {Nothing}
        BY <1>1, <3>1 DEF StorageTypes, StagedFile
      <3>3. \/ archive' = archive
            \/ archive' = [archive EXCEPT ![work[h].path] = Absent]
            \/ archive' = [archive EXCEPT ![work[h].path].content =
                              staging[target[h]][work[h].path].content]
        BY <1>5 DEF PublishFill
      <3>4. archive' \in [Paths -> ArchiveFile]
        BY <3>1, <3>2, <3>3, AbsentType DEF StorageTypes, ArchiveFile
      <3>5. QED BY <1>5, <3>4 DEF PublishFill, StorageTypes
    <2>4. ModelTypes'
      <3>1. work[h].path \in Paths
        BY <2>1 DEF HandlerTypes, Work
      <3>2. QED BY <1>5, <3>1, FailsType DEF PublishFill, ModelTypes
    <2>5. QED BY <1>5, <2>2, <2>3, <2>4, Unchanged DEF PublishFill
  <1>6. CASE PublishDone(h)
    <2>1. HandlerTypes'
      BY <1>1, <1>6, GotoType, StepNames DEF PublishDone, PutSteps, PublishSteps, FinalizeSteps
    <2>2. QED BY <1>6, <2>1, Unchanged DEF PublishDone
  <1>7. QED BY <1>4, <1>5, <1>6

LEMMA RecordImportType ==
    ASSUME DatabaseTypes, HandlerTypes, NEW h \in Handlers, target[h] \in Tasks,
           RecordImport(h), UNCHANGED <<expired, assetArchived>>
    PROVE  DatabaseTypes'
  <1>1. work[h].done \in SUBSET Paths /\ work[h].snapshot \in [Paths -> StagedFile]
    BY DEF HandlerTypes, Work
  <1>2. \A p \in work[h].done: work[h].snapshot[p].content \in Contents
    BY <1>1 DEF HandlerTypes, LocalsOK, LocalOK, StagedFile
  <1>3. records' \in [Paths -> FileRecord]
    <2>1. ASSUME NEW p \in work[h].done
          PROVE  [content |-> work[h].snapshot[p].content, by |-> target[h]] \in FileRecord
      BY <1>2 DEF FileRecord
    <2>2. QED BY <2>1 DEF RecordImport, DatabaseTypes
  <1>4. Published(h) \in SUBSET UploadedFile
    BY <1>1, <1>2 DEF Published, UploadedFile
  <1>5. QED BY <1>3, <1>4 DEF RecordImport, DatabaseTypes, TaskStatus

LEMMA FinalizeEndType ==
    ASSUME TypeOK, NEW h \in Handlers,
           \/ FinalizeVerify(h) \/ FinalizeCommit(h) \/ RollbackFile(h) \/ RollbackDone(h)
    PROVE  TypeOK'
  <1> USE TypeParts
  <1>1. target[h] \in Tasks /\ pc[h] \in PublishSteps
    BY TargetType DEF FinalizeVerify, FinalizeCommit, RollbackFile, RollbackDone, PublishSteps
  <1>2. CASE FinalizeVerify(h)
    <2>1. HandlerTypes'
      BY <1>1, <1>2, GotoType, StepNames DEF FinalizeVerify, PutSteps, PublishSteps, FinalizeSteps
    <2>2. ModelTypes'
      BY <1>2, FailsType DEF FinalizeVerify, ModelTypes
    <2>3. QED BY <1>2, <2>1, <2>2, Unchanged DEF FinalizeVerify
  <1>3. CASE FinalizeCommit(h)
    <2>1. HandlerTypes'
      <3>1. \E s \in {"fin_clean", "fin_rollback", "fin_undo"}: Goto(h, s)
        BY <1>3 DEF FinalizeCommit
      <3>2. UNCHANGED <<op, target, fd, work>>
        BY <1>3 DEF FinalizeCommit
      <3>3. QED BY <1>1, <3>1, <3>2, GotoType, StepNames DEF PutSteps, PublishSteps, FinalizeSteps
    <2>2. DatabaseTypes'
      <3>1. CASE RecordImport(h)
        BY <1>1, <1>3, <3>1, RecordImportType DEF FinalizeCommit
      <3>2. CASE UNCHANGED <<records, task, result>>
        BY <1>3, <3>2 DEF FinalizeCommit, DatabaseTypes
      <3>3. QED BY <1>3, <3>1, <3>2 DEF FinalizeCommit
    <2>3. ModelTypes'
      BY <1>3, FailsType DEF FinalizeCommit, ModelTypes
    <2>4. QED BY <1>3, <2>1, <2>2, <2>3, Unchanged DEF FinalizeCommit
  <1>4. CASE RollbackFile(h)
    <2>1. PICK p \in work[h].done:
             /\ archive' = archive \/ archive' = [archive EXCEPT ![p] = Absent]
             /\ work' = [work EXCEPT ![h] = [work[h] EXCEPT !.done = work[h].done \ {p}]]
      BY <1>4 DEF RollbackFile
    <2> DEFINE w == [work[h] EXCEPT !.done = work[h].done \ {p}]
    <2>2. work[h] \in Work /\ w \in Work
      <3>1. work[h].done \ {p} \in SUBSET Paths /\ work[h] \in Work
        BY DEF HandlerTypes, Work
      <3>2. QED BY <3>1, WorkUpdate
    <2>3. w.path = work[h].path /\ w.todo = work[h].todo /\ w.snapshot = work[h].snapshot
          /\ w.received = work[h].received /\ w.done = work[h].done \ {p}
      BY <2>2 DEF Work
    <2> HIDE DEF w
    <2>4. HandlerTypes'
      <3>1. Becomes(h, pc[h], op[h], target[h], fd[h], w)
        BY <1>4, <2>1 DEF RollbackFile, Becomes, HandlerTypes, w
      <3>2. LocalOK(pc[h], op[h], target[h], w)
        BY <1>1, <2>3 DEF HandlerTypes, LocalsOK, LocalOK
      <3>3. QED BY <2>2, <3>1, <3>2, HandlerUpdate DEF HandlerTypes
    <2>5. StorageTypes'
      BY <1>4, <2>1, AbsentType DEF RollbackFile, StorageTypes
    <2>6. ModelTypes'
      <3>1. work[h].done \subseteq Paths
        BY DEF HandlerTypes, Work
      <3>2. QED BY <1>4, <3>1, FailsType DEF RollbackFile, ModelTypes
    <2>7. QED BY <1>4, <2>4, <2>5, <2>6, Unchanged DEF RollbackFile
  <1>5. CASE RollbackDone(h)
    <2>1. HandlerTypes'
      BY <1>5, FinishType DEF RollbackDone
    <2>2. QED BY <1>5, <2>1, Unchanged DEF RollbackDone
  <1>6. QED BY <1>2, <1>3, <1>4, <1>5

LEMMA StartType ==
    ASSUME TypeOK, NEW h \in Handlers, NEW o \in {"put", "cancel", "finalize"}, NEW t \in Tasks,
           NEW w \in Work, w.todo = {}, w.done = {}, o = "put" => w.path \in Paths,
           StartRequest(h, o, t, w)
    PROVE  TypeOK'
  <1> USE TypeParts
  <1>1. Becomes(h, "open", o, t, fd[h], w)
    BY DEF StartRequest, Becomes, HandlerTypes
  <1>2. LocalOK("open", o, t, w)
    BY DistinctValues DEF LocalOK, PutSteps, PublishSteps
  <1>3. HandlerTypes'
    BY <1>1, <1>2, StepNames, HandlerUpdate DEF HandlerTypes, Operation
  <1>4. QED BY <1>3, Unchanged DEF StartRequest

LEMMA BeginType == ASSUME TypeOK, NEW h \in Handlers, Begin(h) PROVE TypeOK'
  <1> USE TypeParts
  <1>1. CASE BeginCreate(h)
    <2> DEFINE w == [NoWork EXCEPT !.cands = SweepCandidates]
    <2>1. SweepCandidates \in SUBSET Tasks
      BY DEF SweepCandidates, DatabaseTypes
    <2>2. w \in Work /\ w.todo = {} /\ w.done = {}
      BY <2>1, NoWorkType DEF Work
    <2> HIDE DEF w
    <2>3. Becomes(h, "sweep", "create", target[h], fd[h], w)
      BY <1>1 DEF BeginCreate, Goto, Becomes, HandlerTypes, w
    <2>4. target[h] = Nothing
      BY <1>1 DEF BeginCreate, HandlerTypes, LocalsOK, LocalOK
    <2>5. LocalOK("sweep", "create", target[h], w)
      BY <2>2, <2>4 DEF LocalOK, PutSteps, PublishSteps
    <2>6. HandlerTypes'
      BY <2>2, <2>3, <2>5, StepNames, HandlerUpdate DEF HandlerTypes, Operation
    <2>7. QED BY <1>1, <2>6, Unchanged DEF BeginCreate
  <1>2. CASE BeginPut(h)
    <2>1. PICK t \in Tasks, p \in Paths, k \in Contents \cup {Nothing}:
             StartRequest(h, "put", t, [NoWork EXCEPT !.path = p, !.checksum = k])
      BY <1>2 DEF BeginPut
    <2> DEFINE w == [NoWork EXCEPT !.path = p, !.checksum = k]
    <2>2. w \in Work /\ w.todo = {} /\ w.done = {} /\ w.path = p
      BY NoWorkType DEF Work
    <2> HIDE DEF w
    <2>3. QED BY <2>1, <2>2, StartType DEF w
  <1>3. CASE BeginCancel(h)
    BY <1>3, NoWorkType, StartType DEF BeginCancel
  <1>4. CASE BeginFinalize(h)
    BY <1>4, NoWorkType, StartType DEF BeginFinalize
  <1>5. QED BY <1>1, <1>2, <1>3, <1>4 DEF Begin

LEMMA CrashType == ASSUME TypeOK, NEW h \in Handlers, Crash(h) PROVE TypeOK'
  <1> USE TypeParts
  <1>1. HandlerTypes'
    BY FinishType DEF Crash
  <1>2. StorageTypes'
    <2>1. pc[h] \in {"put_stream", "put_link", "put_unlink"} => target[h] \in Tasks
      BY TargetType
    <2>2. QED BY <2>1 DEF Crash, StorageTypes
  <1>3. ModelTypes'
    <2>1. Copies(h) \subseteq Paths
      BY DEF Copies, HandlerTypes, LocalsOK, LocalOK, Work
    <2>2. QED BY <2>1 DEF Crash, ModelTypes
  <1>4. QED BY <1>1, <1>2, <1>3, Unchanged DEF Crash

LEMMA EnvironmentType == ASSUME TypeOK, Environment PROVE TypeOK'
  <1> USE TypeParts
  <1>1. ASSUME NEW t \in Tasks, Expire(t) PROVE TypeOK'
    <2>1. DatabaseTypes'
      BY <1>1 DEF Expire, DatabaseTypes
    <2>2. QED BY <1>1, <2>1, Unchanged DEF Expire
  <1>2. ASSUME NEW t \in Tasks, ScpMark(t) PROVE TypeOK'
    <2>1. StorageTypes'
      BY <1>2 DEF ScpMark, StorageTypes
    <2>2. QED BY <1>2, <2>1, Unchanged DEF ScpMark
  <1>3. ASSUME NEW t \in Tasks, NEW p \in Paths, ScpWrite(t, p) PROVE TypeOK'
    <2>1. PICK c \in Contents, n \in 1..MaxScpWrites:
             staging' = [staging EXCEPT ![t][p] = [content |-> c, stamp |-> n]]
      BY <1>3 DEF ScpWrite
    <2>2. [content |-> c, stamp |-> n] \in StagedFile
      BY ConfigurationTypes DEF StagedFile
    <2>3. StorageTypes'
      BY <1>3, <2>1, <2>2, StagingUpdate DEF ScpWrite, StorageTypes
    <2>4. QED BY <1>3, <2>3, Unchanged DEF ScpWrite
  <1>4. ASSUME NEW p \in Paths, ExternalWrite(p) PROVE TypeOK'
    <2>1. StorageTypes'
      BY <1>4 DEF ExternalWrite, StorageTypes, ArchiveFile
    <2>2. ModelTypes'
      BY <1>4, ConfigurationTypes DEF ExternalWrite, ModelTypes
    <2>3. QED BY <1>4, <2>1, <2>2, Unchanged DEF ExternalWrite
  <1>5. CASE SetAssetArchived
    <2>1. DatabaseTypes'
      BY <1>5 DEF SetAssetArchived, DatabaseTypes
    <2>2. QED BY <1>5, <2>1, Unchanged DEF SetAssetArchived
  <1>6. CASE ScanBegins \/ ScanEnds
    <2>1. ModelTypes'
      BY <1>6 DEF ScanBegins, ScanEnds, ModelTypes, modelVars
    <2>2. QED BY <1>6, <2>1, Unchanged DEF ScanBegins, ScanEnds
  <1>7. QED BY <1>1, <1>2, <1>3, <1>4, <1>5, <1>6 DEF Environment

\* Every variable and every local of a request handler has its type in every
\* reachable state, and a handler's locals fit the step it is at.
THEOREM TypeCorrect == Spec => []TypeOK
  <1>1. TypeOK /\ [Next]_vars => TypeOK'
    <2> SUFFICES ASSUME TypeOK, [Next]_vars PROVE TypeOK'
      OBVIOUS
    <2>1. CASE UNCHANGED vars
      BY <2>1, TypeParts, Unchanged DEF vars, handlerVars
    <2>2. ASSUME NEW h \in Handlers, HandlerStep(h) PROVE TypeOK'
      BY <2>2, GuardType, CreateType, PutType, CancelType, FinalizeStartType,
         FinalizePublishType, FinalizeEndType DEF HandlerStep, Finalize
    <2>3. QED BY <2>1, <2>2, BeginType, CrashType, EnvironmentType DEF Next
  <1>2. QED BY <1>1, InitType, PTL DEF Spec

-----------------------------------------------------------------------------
(* One holder: GuardInv is inductive *)

LEMMA GuardImpliesOneHolder == TypeOK /\ GuardInv => OneHolder
  <1> SUFFICES ASSUME TypeOK, GuardInv,
                      NEW g \in Handlers, NEW h \in Handlers, g # h,
                      InGuard(g), InGuard(h), target[g] = target[h], Exists(target[g])
               PROVE  FALSE
    BY DEF OneHolder
  <1>1. lockFile[target[g]] = [inode |-> fd[g], linked |-> TRUE]
    BY DEF GuardInv, GuardLocal, InGuard
  <1>2. lockFile[target[g]] = [inode |-> fd[h], linked |-> TRUE]
    BY DEF GuardInv, GuardLocal, InGuard
  <1>3. fd[g] # fd[h]
    BY DEF GuardInv, FlockExclusive
  <1>4. QED BY <1>1, <1>2, <1>3

\* No row comes into being or goes.
SameRows ==
    \A t \in Tasks: /\ Exists(t)' <=> Exists(t)
                    /\ task[t] = "deleted" => task'[t] = "deleted"
                    /\ task[t] # "none" => task'[t] # "none"

LEMMA SameRowsUnchanged == UNCHANGED task => SameRows
  BY DEF SameRows, Exists

\* The handler that moves brings its own part; the others keep theirs.
LEMMA GuardUpdate ==
    ASSUME TypeOK, GuardInv, SameRows, UNCHANGED lockFile,
           NEW h \in Handlers, NEW s, NEW o, NEW t \in Tasks \cup {Nothing}, NEW f, NEW w \in Work,
           Becomes(h, s, o, t, f, w),
           GuardLocal(s, t, f, w.cands)',
           s \in GuardedSteps => \A g \in Handlers \ {h}: InGuard(g) /\ target[g] = t => fd[g] # f
    PROVE  GuardInv'
  <1>1. /\ pc'[h] = s /\ target'[h] = t /\ fd'[h] = f /\ work'[h] = w
        /\ \A g \in Handlers \ {h}: /\ pc'[g] = pc[g] /\ target'[g] = target[g]
                                    /\ fd'[g] = fd[g] /\ work'[g] = work[g]
    BY DEF TypeOK, Becomes
  <1>2. ASSUME NEW g \in Handlers
        PROVE  GuardLocal(pc[g], target[g], fd[g], work[g].cands)'
    <2>1. CASE g = h
      BY <1>1, <2>1 DEF GuardLocal, Exists
    <2>2. CASE g # h
      <3>1. GuardLocal(pc[g], target[g], fd[g], work[g].cands)
        BY DEF GuardInv
      <3>2. target[g] \in Tasks \cup {Nothing} /\ work[g].cands \subseteq Tasks
        BY DEF TypeOK, Work
      <3>3. target[g] = Nothing => pc[g] \in {"idle", "sweep", "insert"}
        BY DEF TypeOK, LocalsOK, LocalOK
      <3>4. {"idle", "sweep", "insert"} \cap (GuardedSteps \cup HasRow \cup {"flock", "sweep_unlink"}) = {}
        BY DEF GuardedSteps, PutSteps, CancelSteps, SweepSteps, FinalizeSteps, PublishSteps, HasRow
      <3>5. GuardLocal(pc[g], target[g], fd[g], work[g].cands)'
        BY <1>1, <2>2, <3>1, <3>2, <3>3, <3>4 DEF GuardLocal, SameRows, Exists
      <3>6. QED BY <3>5
    <2>3. QED BY <2>1, <2>2
  <1>3. FlockExclusive'
    BY <1>1 DEF GuardInv, FlockExclusive, InGuard
  <1>4. QED BY <1>2, <1>3 DEF GuardInv

LEMMA StepKinds ==
    /\ GuardedSteps \cap {"idle", "open", "flock", "sweep", "sweep_unlink", "insert"} = {}
    /\ HasRow \subseteq GuardedSteps
    /\ PutSteps \cup CancelSteps \cup SweepSteps \cup FinalizeSteps = GuardedSteps
    /\ PublishSteps \subseteq FinalizeSteps
  BY DEF GuardedSteps, PutSteps, CancelSteps, SweepSteps, FinalizeSteps, PublishSteps, HasRow

LEMMA GuardFinish ==
    ASSUME TypeOK, GuardInv, SameRows, UNCHANGED lockFile, NEW h \in Handlers, Finish(h)
    PROVE  GuardInv'
  <1>1. Becomes(h, "idle", "none", Nothing, 0, NoWork)
    BY DEF Finish, Becomes
  <1>2. GuardLocal("idle", Nothing, 0, NoWork.cands)'
    BY StepKinds, NoWorkType DEF GuardLocal
  <1>3. QED BY <1>1, <1>2, StepKinds, NoWorkType, GuardUpdate

\* Rows stay, so what h knew of the candidates it has left is still so.
LEMMA CandidatesKept ==
    ASSUME TypeOK, GuardInv, SameRows, NEW h \in Handlers
    PROVE  \A c \in work[h].cands: task'[c] # "none"
  BY DEF TypeOK, Work, GuardInv, GuardLocal, SameRows

LEMMA GuardLeave ==
    ASSUME TypeOK, GuardInv, SameRows, UNCHANGED lockFile, NEW h \in Handlers, LeaveCandidate(h)
    PROVE  GuardInv'
  <1>1. PICK w \in Work: w = work[h]
    BY DEF TypeOK
  <1>2. Becomes(h, "sweep", op[h], Nothing, 0, w)
    BY <1>1 DEF LeaveCandidate, Becomes, TypeOK
  <1>3. GuardLocal("sweep", Nothing, 0, w.cands)'
    BY <1>1, StepKinds, CandidatesKept DEF GuardLocal
  <1>4. QED BY <1>2, <1>3, StepKinds, GuardUpdate

\* A handler goes on inside the guard.
LEMMA GuardGoto ==
    ASSUME TypeOK, GuardInv, SameRows, UNCHANGED lockFile,
           NEW h \in Handlers, NEW s \in GuardedSteps, NEW w \in Work,
           InGuard(h), Goto(h, s), work' = [work EXCEPT ![h] = w], w.cands = work[h].cands,
           UNCHANGED <<op, target, fd>>, s \in HasRow => Exists(target[h])'
    PROVE  GuardInv'
  <1>1. PICK t \in Tasks: t = target[h]
    BY StepKinds DEF TypeOK, LocalsOK, LocalOK, InGuard
  <1>2. PICK f: f = fd[h]
    OBVIOUS
  <1>3. Becomes(h, s, op[h], t, f, w)
    BY <1>1, <1>2 DEF Goto, Becomes, TypeOK
  <1>4. GuardLocal(pc[h], t, f, work[h].cands) /\ pc[h] \in GuardedSteps
    BY <1>1, <1>2 DEF GuardInv, InGuard
  <1>5. GuardLocal(s, t, f, w.cands)'
    <2>1. s \in HasRow => Exists(t)'
      BY <1>1
    <2>2. \A c \in w.cands: task'[c] # "none"
      BY CandidatesKept
    <2>3. Exists(t)' => lockFile'[t] = [inode |-> f, linked |-> TRUE]
      BY <1>4 DEF GuardLocal, SameRows
    <2>4. task'[t] # "none"
      BY <1>4, DistinctValues DEF GuardLocal, SameRows
    <2>5. QED BY <2>1, <2>2, <2>3, <2>4, StepKinds DEF GuardLocal
  <1>6. \A g \in Handlers \ {h}: InGuard(g) /\ target[g] = t => fd[g] # f
    BY <1>1, <1>2 DEF GuardInv, FlockExclusive
  <1>7. QED BY <1>3, <1>5, <1>6, GuardUpdate

LEMMA GuardStay ==
    ASSUME TypeOK, GuardInv, SameRows, UNCHANGED lockFile,
           NEW h \in Handlers, NEW s \in GuardedSteps, InGuard(h), Goto(h, s),
           UNCHANGED <<op, target, fd, work>>, s \in HasRow => Exists(target[h])'
    PROVE  GuardInv'
  <1>1. PICK w \in Work: w = work[h]
    BY DEF TypeOK
  <1>2. work' = [work EXCEPT ![h] = w]
    BY <1>1 DEF TypeOK
  <1>3. QED BY <1>1, <1>2, GuardGoto

LEMMA GuardGuard == ASSUME TypeOK, GuardInv, NEW h \in Handlers, Guard(h) PROVE GuardInv'
  <1>1. CASE OpenLock(h)
    <2>1. PICK t \in Tasks: t = target[h]
      BY <1>1 DEF OpenLock, TypeOK, LocalsOK, LocalOK
    <2>2. /\ lockFile' = [lockFile EXCEPT ![t] = [inode |-> OpenedInode(t), linked |-> TRUE]]
          /\ fd' = [fd EXCEPT ![h] = OpenedInode(t)]
          /\ pc' = [pc EXCEPT ![h] = "flock"]
          /\ UNCHANGED <<task, target, work>>
      BY <1>1, <2>1 DEF OpenLock, Goto, dbVars
    <2>3. ASSUME NEW g \in Handlers
          PROVE  GuardLocal(pc[g], target[g], fd[g], work[g].cands)'
      <3>1. GuardLocal(pc[g], target[g], fd[g], work[g].cands)
        BY DEF GuardInv
      <3>2. /\ Exists(target[g])' <=> Exists(target[g])
            /\ target'[g] = target[g] /\ work'[g] = work[g]
            /\ \A x: task'[x] = task[x]
        BY <2>2 DEF Exists
      <3>3. CASE g = h
        <4>1. pc'[g] = "flock" /\ fd'[g] = OpenedInode(t) /\ target'[g] = t
          BY <2>1, <2>2, <3>3 DEF TypeOK
        <4>2. lockFile'[t] = [inode |-> OpenedInode(t), linked |-> TRUE]
          BY <2>2 DEF TypeOK
        <4>3. QED BY <3>1, <3>2, <4>1, <4>2, StepKinds DEF GuardLocal
      <3>4. CASE g # h
        <4>1. pc'[g] = pc[g] /\ fd'[g] = fd[g]
          BY <2>2, <3>4 DEF TypeOK
        <4>2. pc[g] \in GuardedSteps \cup {"flock"} => target[g] \in Tasks
          BY StepKinds DEF TypeOK, LocalsOK, LocalOK
        <4>3. ASSUME target[g] \in Tasks, lockFile[target[g]] = [inode |-> fd[g], linked |-> TRUE]
              PROVE  lockFile'[target[g]] = [inode |-> fd[g], linked |-> TRUE]
          <5>1. CASE target[g] = t
            <6>1. OpenedInode(t) = fd[g]
              BY <4>3, <5>1 DEF OpenedInode
            <6>2. QED BY <2>2, <5>1, <6>1 DEF TypeOK
          <5>2. CASE target[g] # t
            BY <2>2, <4>3, <5>2 DEF TypeOK
          <5>3. QED BY <5>1, <5>2
        <4>4. QED BY <3>1, <3>2, <4>1, <4>2, <4>3 DEF GuardLocal
      <3>5. QED BY <3>3, <3>4
    <2>4. FlockExclusive'
      <3>1. \A g \in Handlers: InGuard(g)' => InGuard(g) /\ g # h /\ fd'[g] = fd[g]
        BY <2>2, StepKinds DEF InGuard, TypeOK
      <3>2. QED BY <2>2, <3>1 DEF GuardInv, FlockExclusive
    <2>5. QED BY <2>3, <2>4 DEF GuardInv
  <1>2. CASE EnterGuard(h)
    <2>1. PICK t \in Tasks, f \in Nat, w \in Work, o \in Operation:
             t = target[h] /\ f = fd[h] /\ w = work[h] /\ o = op[h]
      BY <1>2 DEF EnterGuard, TypeOK, LocalsOK, LocalOK
    <2>2. PICK s \in {"sweep_row", "put_validate", "cancel_row", "fin_index"}: Goto(h, s)
      <3>1. op[h] \in {"create", "put", "cancel", "finalize"}
        BY <1>2 DEF EnterGuard, TypeOK, LocalsOK, LocalOK, Operation
      <3>2. QED BY <1>2, <3>1 DEF EnterGuard
    <2>3. s \in GuardedSteps /\ s \notin HasRow
      BY DEF GuardedSteps, PutSteps, CancelSteps, SweepSteps, FinalizeSteps, PublishSteps, HasRow
    <2>4. UNCHANGED <<task, lockFile, op, target, fd, work>>
      BY <1>2 DEF EnterGuard, dbVars, storageVars
    <2>5. Becomes(h, s, o, t, f, w)
      BY <2>1, <2>2, <2>4 DEF Becomes, Goto, TypeOK
    <2>6. GuardLocal(s, t, f, w.cands)'
      <3>1. GuardLocal("flock", t, f, w.cands)
        BY <1>2, <2>1 DEF EnterGuard, GuardInv
      <3>2. QED BY <2>3, <2>4, <3>1, StepKinds DEF GuardLocal, Exists
    <2>7. \A g \in Handlers \ {h}: InGuard(g) /\ target[g] = t => fd[g] # f
      BY <1>2, <2>1 DEF EnterGuard, LockBusy
    <2>8. QED BY <2>4, <2>5, <2>6, <2>7, SameRowsUnchanged, GuardUpdate
  <1>3. CASE LockRefused(h)
    BY <1>3, SameRowsUnchanged, GuardFinish, GuardLeave DEF LockRefused, dbVars, storageVars
  <1>4. QED BY <1>1, <1>2, <1>3 DEF Guard

LEMMA GuardCreate == ASSUME TypeOK, GuardInv, NEW h \in Handlers, Create(h) PROVE GuardInv'
  <1>1. CASE SweepCandidate(h)
    <2>1. PICK t \in work[h].cands:
             /\ target' = [target EXCEPT ![h] = t]
             /\ work' = [work EXCEPT ![h] = [work[h] EXCEPT !.cands = work[h].cands \ {t}]]
      BY <1>1 DEF SweepCandidate
    <2>2. PICK f \in Nat, o \in Operation, v \in Work: f = fd[h] /\ o = op[h] /\ v = work[h]
      BY DEF TypeOK
    <2> DEFINE w == [v EXCEPT !.cands = v.cands \ {t}]
    <2>3. t \in Tasks /\ w \in Work /\ w.cands = v.cands \ {t}
      BY <2>2 DEF Work
    <2> HIDE DEF w
    <2>4. Becomes(h, "open", o, t, f, w)
      BY <1>1, <2>1, <2>2 DEF SweepCandidate, Goto, Becomes, TypeOK, w
    <2>5. UNCHANGED <<task, lockFile>>
      BY <1>1 DEF SweepCandidate, dbVars, storageVars
    <2>6. GuardLocal("open", t, f, w.cands)'
      <3>1. \A c \in v.cands: task[c] # "none"
        BY <2>2 DEF GuardInv, GuardLocal
      <3>2. QED BY <2>1, <2>2, <2>3, <2>5, <3>1, StepKinds DEF GuardLocal
    <2>7. QED BY <2>3, <2>4, <2>5, <2>6, StepKinds, SameRowsUnchanged, GuardUpdate
  <1>2. CASE SweepRow(h)
    <2>1. UNCHANGED <<task, lockFile>> /\ InGuard(h) /\ "sweep_delete" \in GuardedSteps
      BY <1>2 DEF SweepRow, dbVars, InGuard, GuardedSteps, SweepSteps
    <2>2. CASE LeaveCandidate(h)
      BY <2>1, <2>2, SameRowsUnchanged, GuardLeave
    <2>3. CASE ~LeaveCandidate(h)
      <3>1. /\ Goto(h, "sweep_delete") /\ UNCHANGED <<op, target, fd, work>>
            /\ Exists(target[h])'
        BY <1>2, <2>1, <2>3 DEF SweepRow, Exists
      <3>2. QED BY <2>1, <3>1, SameRowsUnchanged, GuardStay
    <2>4. QED BY <2>2, <2>3
  <1>3. CASE SweepDelete(h)
    <2>1. CASE Finish(h) /\ UNCHANGED task
      BY <1>3, <2>1, SameRowsUnchanged, GuardFinish DEF SweepDelete, storageVars
    <2>2. CASE ~(Finish(h) /\ UNCHANGED task)
      <3>1. PICK t \in Tasks: t = target[h]
        BY <1>3, TargetType, TypeParts DEF SweepDelete
      <3>2. /\ task' = [task EXCEPT ![t] = "deleted"]
            /\ pc' = [pc EXCEPT ![h] = "sweep_unlink"]
            /\ fd' = [fd EXCEPT ![h] = 0]
            /\ UNCHANGED <<lockFile, target, work>>
        BY <1>3, <2>2, <3>1 DEF SweepDelete, Goto, storageVars
      <3>3. InGuard(h) /\ Exists(t)
        <4>1. "sweep_delete" \in HasRow /\ pc[h] = "sweep_delete"
          BY <1>3 DEF SweepDelete, HasRow
        <4>2. QED BY <3>1, <4>1, StepKinds DEF InGuard, GuardInv, GuardLocal
      <3>4. /\ task'[t] = "deleted" /\ ~Exists(t)'
            /\ \A u \in Tasks \ {t}: task'[u] = task[u] /\ (Exists(u)' <=> Exists(u))
        BY <3>2 DEF Exists, TypeOK
      <3>5. ASSUME NEW g \in Handlers
            PROVE  GuardLocal(pc[g], target[g], fd[g], work[g].cands)'
        <4>1. GuardLocal(pc[g], target[g], fd[g], work[g].cands)
          BY DEF GuardInv
        <4>2. target'[g] = target[g] /\ work'[g] = work[g] /\ work[g].cands \subseteq Tasks
          BY <3>2 DEF TypeOK, Work
        <4>3. \A c \in work[g].cands: task'[c] # "none"
          BY <3>4, <4>1, <4>2 DEF GuardLocal
        <4>4. CASE g = h
          <5>1. pc'[g] = "sweep_unlink" /\ target'[g] = t
            BY <3>1, <3>2, <4>4 DEF TypeOK
          <5>2. QED BY <3>4, <4>2, <4>3, <5>1, StepKinds DEF GuardLocal
        <4>5. CASE g # h
          <5>1. pc'[g] = pc[g] /\ fd'[g] = fd[g]
            BY <3>2, <4>5 DEF TypeOK
          <5>2. pc[g] \in HasRow => target[g] # t
            BY <3>1, <3>3, <4>5, StepKinds, GuardImpliesOneHolder DEF OneHolder, InGuard
          <5>3. target[g] \in Tasks \cup {Nothing}
            BY DEF TypeOK
          <5>4. target[g] = Nothing =>
                    pc[g] \notin GuardedSteps \cup {"flock", "sweep_unlink"}
            BY StepKinds DEF TypeOK, LocalsOK, LocalOK
          <5>5. QED BY <3>2, <3>4, <4>1, <4>2, <4>3, <5>1, <5>2, <5>3, <5>4, StepKinds
                    DEF GuardLocal
        <4>6. QED BY <4>4, <4>5
      <3>6. FlockExclusive'
        <4>1. \A g \in Handlers: InGuard(g)' => InGuard(g) /\ g # h /\ fd'[g] = fd[g]
          BY <3>2, StepKinds DEF InGuard, TypeOK
        <4>2. QED BY <3>2, <4>1 DEF GuardInv, FlockExclusive
      <3>7. QED BY <3>5, <3>6 DEF GuardInv
    <2>3. QED BY <2>1, <2>2
  <1>4. CASE SweepUnlink(h)
    <2>1. PICK t \in Tasks: t = target[h]
      BY <1>4, TargetType, TypeParts DEF SweepUnlink
    <2>2. /\ lockFile' = [lockFile EXCEPT ![t].linked = FALSE]
          /\ pc' = [pc EXCEPT ![h] = "sweep"]
          /\ target' = [target EXCEPT ![h] = Nothing]
          /\ fd' = [fd EXCEPT ![h] = 0]
          /\ UNCHANGED <<task, work>>
      BY <1>4, <2>1 DEF SweepUnlink, LeaveCandidate, dbVars
    <2>3. ~Exists(t)
      BY <1>4, <2>1 DEF SweepUnlink, GuardInv, GuardLocal, Exists
    <2>4. \A u: task'[u] = task[u] /\ (Exists(u)' <=> Exists(u))
      BY <2>2 DEF Exists
    <2>5. ASSUME NEW g \in Handlers
          PROVE  GuardLocal(pc[g], target[g], fd[g], work[g].cands)'
      <3>1. GuardLocal(pc[g], target[g], fd[g], work[g].cands) /\ work'[g] = work[g]
        BY <2>2 DEF GuardInv
      <3>2. CASE g = h
        <4>1. pc'[g] = "sweep" /\ target'[g] = Nothing
          BY <2>2, <3>2 DEF TypeOK
        <4>2. QED BY <2>4, <3>1, <4>1, StepKinds DEF GuardLocal
      <3>3. CASE g # h
        <4>1. pc'[g] = pc[g] /\ fd'[g] = fd[g] /\ target'[g] = target[g]
          BY <2>2, <3>3 DEF TypeOK
        <4>2. pc[g] \in GuardedSteps \cup {"flock"} => target[g] \in Tasks
          BY StepKinds DEF TypeOK, LocalsOK, LocalOK
        <4>3. target[g] \in Tasks /\ target[g] # t => lockFile'[target[g]] = lockFile[target[g]]
          BY <2>2 DEF TypeOK
        <4>4. QED BY <2>3, <2>4, <3>1, <4>1, <4>2, <4>3 DEF GuardLocal
      <3>4. QED BY <3>2, <3>3
    <2>6. FlockExclusive'
      <3>1. \A g \in Handlers: InGuard(g)' =>
                InGuard(g) /\ g # h /\ fd'[g] = fd[g] /\ target'[g] = target[g]
        BY <2>2, StepKinds DEF InGuard, TypeOK
      <3>2. QED BY <3>1 DEF GuardInv, FlockExclusive
    <2>7. QED BY <2>5, <2>6 DEF GuardInv
  <1>5. CASE CreateTask(h)
    <2>1. UNCHANGED lockFile /\ Finish(h)
      BY <1>5 DEF CreateTask, storageVars
    <2>2. CASE UNCHANGED task
      BY <2>1, <2>2, SameRowsUnchanged, GuardFinish
    <2>3. CASE ~UNCHANGED task
      <3>1. PICK t \in Tasks: task[t] = "none" /\ task' = [task EXCEPT ![t] = "active"]
        BY <1>5, <2>3 DEF CreateTask, Creatable
      <3>2. /\ task'[t] # "none"
            /\ \A u \in Tasks \ {t}: task'[u] = task[u] /\ (Exists(u)' <=> Exists(u))
        BY <3>1 DEF TypeOK, Exists
      <3>3. ASSUME NEW g \in Handlers
            PROVE  GuardLocal(pc[g], target[g], fd[g], work[g].cands)'
        <4>1. GuardLocal(pc[g], target[g], fd[g], work[g].cands)
          BY DEF GuardInv
        <4>2. work[g].cands \subseteq Tasks /\ target[g] \in Tasks \cup {Nothing}
          BY DEF TypeOK, Work
        <4>3. CASE g = h
          <5>1. pc'[g] = "idle" /\ target'[g] = Nothing /\ work'[g] = NoWork
            BY <2>1, <4>3 DEF Finish, TypeOK
          <5>2. QED BY <5>1, NoWorkType, StepKinds DEF GuardLocal
        <4>4. CASE g # h
          <5>1. /\ pc'[g] = pc[g] /\ fd'[g] = fd[g]
                /\ target'[g] = target[g] /\ work'[g] = work[g]
            BY <2>1, <4>4 DEF Finish, TypeOK
          <5>2. target[g] # t
            BY <3>1, <4>1, DistinctValues DEF GuardLocal
          <5>3. target[g] = Nothing =>
                    pc[g] \notin GuardedSteps \cup {"flock", "sweep_unlink"}
            BY StepKinds DEF TypeOK, LocalsOK, LocalOK
          <5>4. \A c \in work[g].cands: task'[c] # "none"
            BY <3>1, <3>2, <4>1, <4>2 DEF GuardLocal
          <5>5. QED BY <2>1, <3>2, <4>1, <4>2, <5>1, <5>2, <5>3, <5>4, StepKinds DEF GuardLocal
        <4>5. QED BY <4>3, <4>4
      <3>4. FlockExclusive'
        <4>1. \A g \in Handlers: InGuard(g)' =>
                  InGuard(g) /\ g # h /\ fd'[g] = fd[g] /\ target'[g] = target[g]
          BY <2>1, StepKinds DEF InGuard, TypeOK, Finish
        <4>2. QED BY <4>1 DEF GuardInv, FlockExclusive
      <3>5. QED BY <3>3, <3>4 DEF GuardInv
    <2>4. QED BY <2>2, <2>3
  <1>6. CASE CheckAsset(h)
    <2>1. UNCHANGED <<task, lockFile>> /\ SameRows
      BY <1>6, SameRowsUnchanged DEF CheckAsset, dbVars, storageVars
    <2>2. CASE Goto(h, "insert") /\ UNCHANGED <<op, target, fd, work>>
      <3>1. PICK w \in Work, f \in Nat: w = work[h] /\ f = fd[h]
        BY DEF TypeOK
      <3>2. target[h] = Nothing
        BY <1>6 DEF CheckAsset, TypeOK, LocalsOK, LocalOK
      <3>3. Becomes(h, "insert", op[h], Nothing, f, w)
        BY <2>2, <3>1, <3>2 DEF Goto, Becomes, TypeOK
      <3>4. GuardLocal("insert", Nothing, f, w.cands)'
        BY <2>1, <3>1, StepKinds, CandidatesKept DEF GuardLocal
      <3>5. QED BY <2>1, <3>3, <3>4, StepKinds, GuardUpdate
    <2>3. QED BY <1>6, <2>1, <2>2, GuardFinish DEF CheckAsset
  <1>7. QED BY <1>1, <1>2, <1>3, <1>4, <1>5, <1>6 DEF Create

\* A request at work on its task: the guard is held, and no row comes or goes.
LEMMA GuardPut == ASSUME TypeOK, GuardInv, NEW h \in Handlers, Put(h) PROVE GuardInv'
  <1>1. /\ UNCHANGED <<task, lockFile>> /\ InGuard(h)
        /\ {"put_inspect", "put_stream", "put_link", "put_unlink"} \subseteq GuardedSteps \ HasRow
    BY DEF Put, PutValidate, PutInspect, PutStream, PutLink, PutUnlink, dbVars, storageVars,
           InGuard, GuardedSteps, PutSteps, HasRow, PublishSteps
  <1>2. CASE Finish(h)
    BY <1>1, <1>2, SameRowsUnchanged, GuardFinish
  <1>3. CASE ~Finish(h)
    <2>1. UNCHANGED <<op, target, fd>>
      BY <1>3 DEF Put, PutValidate, PutInspect, PutStream, PutLink, PutUnlink
    <2>2. CASE PutValidate(h) \/ PutLink(h)
      <3>1. \E s \in {"put_inspect", "put_unlink"}: Goto(h, s) /\ UNCHANGED work
        BY <1>3, <2>2 DEF PutValidate, PutLink
      <3>2. QED BY <1>1, <2>1, <3>1, SameRowsUnchanged, GuardStay
    <2>3. CASE PutInspect(h)
      <3>1. PICK v \in Work: v = work[h]
        BY DEF TypeOK
      <3>2. PICK x \in SUBSET Contents: work' = [work EXCEPT ![h] = [v EXCEPT !.fits = x]]
        BY <1>3, <2>3, <3>1 DEF PutInspect
      <3>3. [v EXCEPT !.fits = x] \in Work /\ [v EXCEPT !.fits = x].cands = v.cands
        BY WorkUpdate DEF Work
      <3>4. Goto(h, "put_stream")
        BY <1>3, <2>3 DEF PutInspect
      <3>5. QED BY <1>1, <2>1, <3>1, <3>2, <3>3, <3>4, SameRowsUnchanged, GuardGoto
    <2>4. CASE PutStream(h)
      <3>1. PICK v \in Work: v = work[h]
        BY DEF TypeOK
      <3>2. PICK c \in v.fits: /\ work' = [work EXCEPT ![h] = [v EXCEPT !.received = c]]
                              /\ Goto(h, "put_link")
        BY <1>3, <2>4, <3>1 DEF PutStream
      <3>3. c \in Contents
        BY DEF Work
      <3>4. [v EXCEPT !.received = c] \in Work /\ [v EXCEPT !.received = c].cands = v.cands
        BY <3>3, WorkUpdate DEF Work
      <3>5. QED BY <1>1, <2>1, <3>1, <3>2, <3>4, SameRowsUnchanged, GuardGoto
    <2>5. QED BY <1>3, <2>2, <2>3, <2>4 DEF Put, PutUnlink
  <1>4. QED BY <1>2, <1>3

LEMMA SameRowsUpdate ==
    ASSUME TypeOK, NEW t \in Tasks, NEW s \in {"active", "completed", "cancelled"},
           Exists(t), task' = [task EXCEPT ![t] = s]
    PROVE  SameRows
  BY DEF SameRows, Exists, TypeOK

LEMMA GuardCancel == ASSUME TypeOK, GuardInv, NEW h \in Handlers, Cancel(h) PROVE GuardInv'
  <1>1. CASE CancelRow(h)
    <2>1. /\ UNCHANGED lockFile /\ InGuard(h) /\ target[h] \in Tasks
          /\ "cancel_clean" \in GuardedSteps \ HasRow
      BY <1>1, TargetType, TypeParts
         DEF CancelRow, storageVars, InGuard, GuardedSteps, CancelSteps, HasRow, PublishSteps
    <2>2. SameRows
      <3>1. CASE UNCHANGED task
        BY <3>1, SameRowsUnchanged
      <3>2. CASE ~UNCHANGED task
        <4>1. Exists(target[h]) /\ task' = [task EXCEPT ![target[h]] = "cancelled"]
          BY <1>1, <3>2 DEF CancelRow, Cancellable, TicketValid
        <4>2. QED BY <2>1, <4>1, SameRowsUpdate
      <3>3. QED BY <3>1, <3>2
    <2>3. CASE Finish(h)
      BY <2>1, <2>2, <2>3, GuardFinish
    <2>4. CASE ~Finish(h)
      <3>1. Goto(h, "cancel_clean") /\ UNCHANGED <<op, target, fd, work>>
        BY <1>1, <2>4 DEF CancelRow
      <3>2. QED BY <2>1, <2>2, <3>1, GuardStay
    <2>5. QED BY <2>3, <2>4
  <1>2. CASE CleanStaging(h)
    BY <1>2, SameRowsUnchanged, GuardFinish DEF CleanStaging, dbVars
  <1>3. QED BY <1>1, <1>2 DEF Cancel

LEMMA GuardFinalize == ASSUME TypeOK, GuardInv, NEW h \in Handlers, Finalize(h) PROVE GuardInv'
  <1>1. UNCHANGED lockFile /\ InGuard(h)
    BY DEF Finalize, FinalizeIndex, FinalizeRow, FinalizeAsset, FinalizePreflight, PublishStart,
           PublishFill, PublishDone, FinalizeVerify, FinalizeCommit, RollbackFile, RollbackDone,
           storageVars, InGuard, GuardedSteps, FinalizeSteps, PublishSteps
  <1>2. target[h] \in Tasks /\ (pc[h] \in HasRow => Exists(target[h]))
    BY <1>1, StepKinds, TargetType, TypeParts DEF InGuard, GuardInv, GuardLocal
  <1>3. SameRows
    <2>1. CASE UNCHANGED task
      BY <2>1, SameRowsUnchanged
    <2>2. CASE ~UNCHANGED task
      <3>1. pc[h] = "fin_commit" /\ task' = [task EXCEPT ![target[h]] = "completed"]
        BY <2>2 DEF Finalize, FinalizeIndex, FinalizeRow, FinalizeAsset, FinalizePreflight,
           PublishStart, PublishFill, PublishDone, FinalizeVerify, FinalizeCommit, RecordImport,
           RollbackFile, RollbackDone, dbVars
      <3>2. QED BY <1>2, <3>1, SameRowsUpdate DEF HasRow, PublishSteps
    <2>3. QED BY <2>1, <2>2
  <1>4. CASE Finish(h)
    BY <1>1, <1>3, <1>4, GuardFinish
  <1>5. ASSUME NEW s \in FinalizeSteps, Goto(h, s), UNCHANGED <<op, target, fd, work>>,
               s \in HasRow => Exists(target[h])
        PROVE  GuardInv'
    <2>1. s \in HasRow => Exists(target[h])'
      BY <1>2, <1>3, <1>5 DEF SameRows, Exists
    <2>2. s \in GuardedSteps
      BY StepKinds
    <2>3. QED BY <1>1, <1>3, <1>5, <2>1, <2>2, GuardStay
  <1>6. ASSUME NEW s \in PublishSteps, NEW v \in Work, NEW w \in Work, v = work[h],
               Goto(h, s), work' = [work EXCEPT ![h] = w], w.cands = v.cands,
               UNCHANGED <<op, target, fd>>, s \in HasRow => Exists(target[h])
        PROVE  GuardInv'
    <2>1. s \in HasRow => Exists(target[h])'
      BY <1>2, <1>3, <1>6 DEF SameRows, Exists
    <2>2. s \in GuardedSteps
      BY StepKinds
    <2>3. QED BY <1>1, <1>3, <1>6, <2>1, <2>2, GuardGoto
  <1>7. CASE FinalizeIndex(h)
    <2>1. "fin_row" \in FinalizeSteps \ HasRow
      BY DEF FinalizeSteps, HasRow, PublishSteps
    <2>2. Finish(h) \/ (Goto(h, "fin_row") /\ UNCHANGED <<op, target, fd, work>>)
      BY <1>7 DEF FinalizeIndex
    <2>3. QED BY <1>4, <1>5, <2>1, <2>2
  <1>8. CASE FinalizeRow(h)
    <2>1. "fin_clean" \in FinalizeSteps \ HasRow /\ "fin_asset" \in FinalizeSteps
      BY DEF FinalizeSteps, HasRow, PublishSteps
    <2>2. \/ Finish(h)
          \/ Goto(h, "fin_clean") /\ UNCHANGED <<op, target, fd, work>>
          \/ /\ Goto(h, "fin_asset") /\ UNCHANGED <<op, target, fd, work>>
             /\ Exists(target[h])
      BY <1>8 DEF FinalizeRow, TicketValid
    <2>3. QED BY <1>4, <1>5, <2>1, <2>2
  <1>9. CASE FinalizeAsset(h) \/ PublishDone(h) \/ FinalizeVerify(h) \/ FinalizeCommit(h)
    <2>1. Exists(target[h])
      BY <1>2, <1>9 DEF FinalizeAsset, PublishDone, FinalizeVerify, FinalizeCommit,
         HasRow, PublishSteps
    <2>2. \/ Finish(h)
          \/ /\ \E s \in {"fin_preflight", "fin_verify", "fin_commit", "fin_clean", "fin_rollback",
                         "fin_undo"}: Goto(h, s)
             /\ UNCHANGED <<op, target, fd, work>>
      BY <1>9 DEF FinalizeAsset, PublishDone, FinalizeVerify, FinalizeCommit
    <2>3. {"fin_preflight", "fin_verify", "fin_commit", "fin_clean", "fin_rollback", "fin_undo"}
              \subseteq FinalizeSteps
      BY DEF FinalizeSteps, PublishSteps
    <2>4. QED BY <1>4, <1>5, <2>1, <2>2, <2>3
  <1>10. PICK v \in Work: v = work[h]
    BY DEF TypeOK
  <1>11. {"fin_copy", "fin_fill", "fin_rollback", "fin_undo"} \subseteq PublishSteps
    BY DEF PublishSteps
  <1>12. CASE FinalizePreflight(h)
    <2>1. PICK t \in Tasks: t = target[h]
      BY <1>2
    <2>2. PICK st \in [Paths -> StagedFile], x \in SUBSET Paths: st = staging[t] /\ x = Staged(t)
      BY DEF TypeOK, Staged
    <2> DEFINE w == [v EXCEPT !.snapshot = st, !.todo = x]
    <2>3. w \in Work /\ w.cands = v.cands
      BY WorkUpdate DEF Work
    <2>4. \/ Finish(h)
          \/ /\ Goto(h, "fin_copy") /\ UNCHANGED <<op, target, fd>>
             /\ work' = [work EXCEPT ![h] = w]
      BY <1>10, <1>12, <2>1, <2>2 DEF FinalizePreflight
    <2>5. Exists(target[h])
      BY <1>2, <1>12 DEF FinalizePreflight, HasRow
    <2> HIDE DEF w
    <2>6. QED BY <1>4, <1>6, <1>10, <1>11, <2>3, <2>4, <2>5
  <1>13. CASE PublishStart(h) \/ PublishFill(h)
    <2>1. Exists(target[h])
      BY <1>2, <1>13 DEF PublishStart, PublishFill, HasRow, PublishSteps
    <2>2. UNCHANGED <<op, target, fd>>
      BY <1>13 DEF PublishStart, PublishFill
    <2>3. CASE Goto(h, "fin_rollback") /\ UNCHANGED work
      BY <1>5, <1>11, <2>1, <2>2, <2>3, StepKinds
    <2>4. CASE ~(Goto(h, "fin_rollback") /\ UNCHANGED work)
      <3>1. CASE PublishStart(h)
        <4>1. PICK p \in v.todo: /\ work' = [work EXCEPT ![h] = [v EXCEPT !.path = p]]
                                 /\ Goto(h, "fin_fill")
          BY <1>10, <2>4, <3>1 DEF PublishStart
        <4>2. [v EXCEPT !.path = p] \in Work /\ [v EXCEPT !.path = p].cands = v.cands
          <5>1. v \in Work /\ p \in Paths
            BY DEF Work
          <5>2. [v EXCEPT !.path = p] \in Work
            BY <5>1, WorkUpdate
          <5>3. [v EXCEPT !.path = p].cands = v.cands
            BY <5>1 DEF Work
          <5>4. QED BY <5>2, <5>3
        <4>3. QED BY <1>6, <1>10, <1>11, <2>1, <2>2, <4>1, <4>2
      <3>2. CASE PublishFill(h)
        <4>1. v.path \in v.todo
          BY <1>10, <3>2 DEF PublishFill, TypeOK, LocalsOK, LocalOK
        <4>2. PICK x \in SUBSET Paths, y \in SUBSET Paths:
                 /\ work' = [work EXCEPT ![h] = [v EXCEPT !.todo = x, !.done = y]]
                 /\ Goto(h, "fin_copy")
          <5>1. v.todo \ {v.path} \in SUBSET Paths /\ v.done \cup {v.path} \in SUBSET Paths
            BY <4>1 DEF Work
          <5>2. /\ work' = [work EXCEPT ![h] = [v EXCEPT !.todo = v.todo \ {v.path},
                                                        !.done = v.done \cup {v.path}]]
                /\ Goto(h, "fin_copy")
            BY <1>10, <2>4, <3>2 DEF PublishFill
          <5>3. QED BY <5>1, <5>2
        <4>3. [v EXCEPT !.todo = x, !.done = y] \in Work
              /\ [v EXCEPT !.todo = x, !.done = y].cands = v.cands
          BY WorkUpdate DEF Work
        <4>4. QED BY <1>6, <1>10, <1>11, <2>1, <2>2, <4>2, <4>3
      <3>3. QED BY <1>13, <3>1, <3>2
    <2>5. QED BY <2>3, <2>4
  <1>14. CASE RollbackFile(h)
    <2>1. PICK s \in {"fin_rollback", "fin_undo"}: s = pc[h]
      BY <1>14 DEF RollbackFile
    <2>2. PICK p \in v.done: work' = [work EXCEPT ![h] = [v EXCEPT !.done = v.done \ {p}]]
      BY <1>10, <1>14 DEF RollbackFile
    <2>3. Goto(h, s) /\ UNCHANGED <<op, target, fd>>
      BY <1>14, <2>1 DEF RollbackFile, Goto, TypeOK
    <2>4. [v EXCEPT !.done = v.done \ {p}] \in Work
          /\ [v EXCEPT !.done = v.done \ {p}].cands = v.cands
      <3>1. v.done \ {p} \in SUBSET Paths
        BY DEF Work
      <3>2. QED BY <3>1, WorkUpdate DEF Work
    <2>5. s \notin HasRow
      BY DEF HasRow
    <2>6. QED BY <1>6, <1>10, <1>11, <2>2, <2>3, <2>4, <2>5
  <1>15. CASE RollbackDone(h)
    BY <1>4, <1>15 DEF RollbackDone
  <1>16. QED BY <1>7, <1>8, <1>9, <1>12, <1>13, <1>14, <1>15 DEF Finalize

LEMMA GuardBegin == ASSUME TypeOK, GuardInv, NEW h \in Handlers, Begin(h) PROVE GuardInv'
  <1>1. UNCHANGED <<task, lockFile>>
    BY DEF Begin, BeginCreate, BeginPut, BeginCancel, BeginFinalize, StartRequest, dbVars, storageVars
  <1>2. PICK f \in Nat: f = fd[h]
    BY DEF TypeOK
  <1>3. CASE BeginCreate(h)
    <2>1. PICK cs \in SUBSET Tasks: cs = SweepCandidates
      BY DEF SweepCandidates, TypeOK
    <2> DEFINE w == [NoWork EXCEPT !.cands = cs]
    <2>2. w \in Work /\ w.cands = cs
      BY NoWorkType DEF Work
    <2> HIDE DEF w
    <2>3. target[h] = Nothing
      BY <1>3 DEF BeginCreate, TypeOK, LocalsOK, LocalOK
    <2>4. Becomes(h, "sweep", "create", Nothing, f, w)
      BY <1>2, <1>3, <2>1, <2>3 DEF BeginCreate, Goto, Becomes, TypeOK, w
    <2>5. GuardLocal("sweep", Nothing, f, w.cands)'
      <3>1. \A c \in cs: task'[c] # "none"
        BY <1>1, <2>1 DEF SweepCandidates, Exists
      <3>2. QED BY <2>2, <3>1, StepKinds DEF GuardLocal
    <2>6. QED BY <1>1, <2>2, <2>4, <2>5, StepKinds, SameRowsUnchanged, GuardUpdate
  <1>4. ASSUME NEW t \in Tasks, NEW o, NEW w \in Work, w.cands = {}, Exists(t),
               StartRequest(h, o, t, w)
        PROVE  GuardInv'
    <2>1. Becomes(h, "open", o, t, f, w)
      BY <1>2, <1>4 DEF StartRequest, Becomes, TypeOK
    <2>2. GuardLocal("open", t, f, w.cands)'
      BY <1>1, <1>4, StepKinds DEF GuardLocal, Exists
    <2>3. QED BY <1>1, <2>1, <2>2, StepKinds, SameRowsUnchanged, GuardUpdate
  <1>5. CASE BeginPut(h)
    <2>1. PICK t \in Tasks, p \in Paths, k \in Contents \cup {Nothing}:
             Exists(t) /\ StartRequest(h, "put", t, [NoWork EXCEPT !.path = p, !.checksum = k])
      BY <1>5 DEF BeginPut, TicketValid
    <2> DEFINE w == [NoWork EXCEPT !.path = p, !.checksum = k]
    <2>2. w \in Work /\ w.cands = {}
      BY NoWorkType DEF Work
    <2> HIDE DEF w
    <2>3. QED BY <1>4, <2>1, <2>2 DEF w
  <1>6. CASE BeginCancel(h) \/ BeginFinalize(h)
    BY <1>4, <1>6, NoWorkType DEF BeginCancel, BeginFinalize, TicketValid
  <1>7. QED BY <1>3, <1>5, <1>6 DEF Begin

LEMMA GuardIdle ==
    ASSUME GuardInv, UNCHANGED <<task, lockFile, handlerVars>> PROVE GuardInv'
  BY DEF GuardInv, GuardLocal, FlockExclusive, InGuard, Exists, handlerVars

LEMMA GuardInit == Init => GuardInv
  BY NoWorkType, StepKinds DEF Init, GuardInv, GuardLocal, FlockExclusive, InGuard

\* While its row is there, all who work on a task have the one inode open that its
\* lock file's name stands for, and no two of them share it.
THEOREM GuardCorrect == Spec => []GuardInv
  <1>1. TypeOK /\ GuardInv /\ [Next]_vars => GuardInv'
    <2> SUFFICES ASSUME TypeOK, GuardInv, [Next]_vars PROVE GuardInv'
      OBVIOUS
    <2>1. CASE UNCHANGED vars
      BY <2>1, GuardIdle DEF vars, dbVars, storageVars
    <2>2. CASE Environment
      <3>1. UNCHANGED <<task, lockFile, handlerVars>>
        BY <2>2 DEF Environment, Expire, ScpMark, ScpWrite, ExternalWrite, SetAssetArchived,
                    ScanBegins, ScanEnds, dbVars, storageVars
      <3>2. QED BY <3>1, GuardIdle
    <2>3. ASSUME NEW h \in Handlers, Crash(h) PROVE GuardInv'
      BY <2>3, SameRowsUnchanged, GuardFinish DEF Crash, dbVars
    <2>4. ASSUME NEW h \in Handlers, HandlerStep(h) PROVE GuardInv'
      BY <2>4, GuardGuard, GuardCreate, GuardPut, GuardCancel, GuardFinalize DEF HandlerStep
    <2>5. QED BY <2>1, <2>2, <2>3, <2>4, GuardBegin DEF Next
  <1>2. QED BY <1>1, GuardInit, TypeCorrect, PTL DEF Spec

\* At most one request at a time is past the flock of a task whose row is there,
\* however its lock file was unlinked and created again (docs/architecture.md:115).
THEOREM OneHolderAlways == Spec => []OneHolder
  BY GuardImpliesOneHolder, TypeCorrect, GuardCorrect, PTL

=============================================================================
