------------------------- MODULE UploadImportProofs -------------------------
(***************************************************************************)
(* Proofs about UploadTasks, continued: what became of acknowledged files, *)
(* the limits of a task, the import and its files in the archive, and the  *)
(* refinement of UploadPromise.                                            *)
(***************************************************************************)
EXTENDS UploadTasksProofs, FiniteSetTheorems

-----------------------------------------------------------------------------
(* The invariant of the tasks *)

Writing   == {"put_inspect", "put_stream", "put_link", "put_unlink"}
Copying   == {"fin_copy", "fin_fill", "fin_verify", "fin_commit"}
Sweeping  == {"sweep", "sweep_row", "sweep_delete", "sweep_unlink", "insert"}
Importing == {"fin_asset", "fin_preflight", "fin_rollback"} \cup Copying

AckedStaged(t) == \A f \in acked[t]: staging[t][f[1]].content = f[2]

\* The files of a snapshot
Snapped(w) == {p \in Paths: w.snapshot[p].content # Nothing}

\* A finalization of t copies a snapshot that has all acknowledged files and
\* the declared number.
SnapshotWhole(t, w) ==
    /\ Snapped(w) # {} /\ w.todo \cup w.done = Snapped(w)
    /\ \A f \in acked[t]: w.snapshot[f[1]].content = f[2]
    /\ Mode[t] = "agent" /\ Manifest[t] # Nothing =>
          IsFiniteSet(Snapped(w)) /\ Cardinality(Snapped(w)) = Manifest[t].count

\* What a handler at step s of operation o knows of its task t
TaskWork(s, o, t, w) ==
    /\ o = "put" => Mode[t] = "agent"
    /\ w.cands \subseteq expired
    /\ s \in Sweeping => o = "create"
    /\ o = "create" /\ t # Nothing => t \in expired
    /\ s \in Writing \cup Importing => task[t] = "active"
    /\ s = "fin_undo" /\ "lost_commit" \notin Events => task[t] = "active"
    /\ s \in {"cancel_clean", "fin_clean"} => task[t] \notin {"none", "active"}
    /\ s \in {"put_stream", "put_link"} =>
          /\ Cardinality(Staged(t)) < FileLimit(t)
          /\ \A c \in w.fits: StagedSize(t) + Size[c] <= SizeLimit(t)
    /\ s = "put_link" => w.received \in w.fits
    /\ s = "put_unlink" => /\ staging[t][w.path].content = w.received
                           /\ t \notin expired => \A f \in acked[t]: f[1] # w.path
    /\ s \in {"fin_asset", "fin_preflight"} => AckedStaged(t)
    /\ s \in Copying => SnapshotWhole(t, w)
    /\ s \in {"fin_verify", "fin_commit"} => w.todo = {}

\* An HTTP task stays within its limits, an scp task has no PUT to acknowledge.
TaskKept(t) ==
    /\ task[t] \in {"none", "active"} /\ t \notin expired => AckedStaged(t)
    /\ IF Mode[t] = "agent"
         THEN /\ IsFiniteSet(Staged(t)) /\ Cardinality(Staged(t)) <= FileLimit(t)
              /\ IsFiniteSet(StagedBytes(t)) /\ StagedSize(t) <= SizeLimit(t)
         ELSE acked[t] = {}

TaskInv ==
    /\ \A h \in Handlers: TaskWork(pc[h], op[h], target[h], work[h])
    /\ \A t \in Tasks: TaskKept(t)

-----------------------------------------------------------------------------
(* The invariant of the catalogue *)

\* What has the row of the asset publishes at paths that are free in the index.
CatalogueInv ==
    /\ \A g, h \in Handlers: HoldsAssetRow(g) /\ HoldsAssetRow(h) => g = h
    /\ \A h \in Handlers:
          /\ HoldsAssetRow(h) => \A p \in work[h].todo \cup work[h].done: records[p] = Absent
          /\ pc[h] = "fin_commit" => NoDuplicates(h)
    /\ ContentOnce
    /\ ImportedWhole

-----------------------------------------------------------------------------
(* The invariant of the archive *)

\* What a finalization has copied is there, unless somebody replaced it.
CopiesThere(h) ==
    /\ pc[h] \in PublishSteps => \A p \in work[h].done: StillMine(h, p) \/ archive[p].by = External
    /\ pc[h] = "fin_fill" => /\ work[h].path \notin work[h].done
                             /\ \/ archive[work[h].path] = [content |-> Partial, by |-> target[h]]
                                \/ archive[work[h].path].by = External

\* No file is the copy of two finalizations, with or without their locks.
CopiesInv ==
    /\ \A h \in Handlers: CopiesThere(h)
    /\ \A g, h \in Handlers: g # h => Copies(g) \cap Copies(h) = {}

IndexInv == scanning => \A h \in Handlers: ~HoldsIndex(h)

-----------------------------------------------------------------------------
(* The size of a staging directory *)

LEMMA NotNothing == \A c \in Contents: c # Nothing
  BY DistinctValues

LEMMA LimitTypes == ASSUME NEW t \in Tasks PROVE FileLimit(t) \in Nat /\ SizeLimit(t) \in Nat
  BY ConfigurationTypes DEF FileLimit, SizeLimit

LEMMA BytesOfFile ==
    ASSUME NEW p, NEW n \in Nat
    PROVE  IsFiniteSet({p} \X (1..n)) /\ Cardinality({p} \X (1..n)) = n
  <1>1. IsFiniteSet({p}) /\ Cardinality({p}) = 1
    BY FS_Singleton
  <1>2. IsFiniteSet(1..n) /\ Cardinality(1..n) = n
    BY FS_Interval
  <1>3. /\ IsFiniteSet({p} \X (1..n))
        /\ Cardinality({p} \X (1..n)) = Cardinality({p}) * Cardinality(1..n)
    BY <1>1, <1>2, FS_Product
  <1>4. Cardinality({p}) * Cardinality(1..n) = n
    BY <1>1, <1>2
  <1>5. QED BY <1>3, <1>4

\* A file more counts once, and with its size.
LEMMA FileStaged ==
    ASSUME StorageTypes, NEW t \in Tasks, NEW p \in Paths, NEW c \in Contents, p \notin Staged(t),
           staging' = [staging EXCEPT ![t][p] = [content |-> c, stamp |-> 0]],
           IsFiniteSet(Staged(t)), IsFiniteSet(StagedBytes(t))
    PROVE  /\ IsFiniteSet(Staged(t)') /\ IsFiniteSet(StagedBytes(t)')
           /\ Cardinality(Staged(t)') = Cardinality(Staged(t)) + 1
           /\ StagedSize(t)' = StagedSize(t) + Size[c]
           /\ Cardinality(Staged(t)) \in Nat /\ StagedSize(t) \in Nat
  <1> DEFINE new == {p} \X (1..Size[c])
  <1>1. /\ staging'[t][p].content = c
        /\ \A q \in Paths: q # p => staging'[t][q] = staging[t][q]
    BY DEF StorageTypes
  <1>2. Staged(t)' = Staged(t) \cup {p}
    BY <1>1, NotNothing DEF Staged
  <1>3. StagedBytes(t)' = StagedBytes(t) \cup new
    <2>1. \A q \in Staged(t): staging'[t][q] = staging[t][q]
      BY <1>1 DEF Staged
    <2>2. \A b: b \in StagedBytes(t)' <=> \E q \in Staged(t)': b \in {q} \X (1..Size[staging'[t][q].content])
      BY DEF StagedBytes
    <2>3. \A b: b \in StagedBytes(t) <=> \E q \in Staged(t): b \in {q} \X (1..Size[staging[t][q].content])
      BY DEF StagedBytes
    <2>4. QED BY <1>1, <1>2, <2>1, <2>2, <2>3
  <1>4. StagedBytes(t) \cap new = {}
    BY DEF StagedBytes
  <1>5. Size[c] \in Nat /\ IsFiniteSet(new) /\ Cardinality(new) = Size[c]
    BY ConfigurationTypes, BytesOfFile
  <1> HIDE DEF new
  <1>6. IsFiniteSet(Staged(t)') /\ Cardinality(Staged(t)') = Cardinality(Staged(t)) + 1
    BY <1>2, FS_AddElement
  <1>7. /\ IsFiniteSet(StagedBytes(t)')
        /\ Cardinality(StagedBytes(t)') = Cardinality(StagedBytes(t)) + Cardinality(new)
                                            - Cardinality(StagedBytes(t) \cap new)
    BY <1>3, <1>5, FS_Union
  <1>8. Cardinality(StagedBytes(t) \cap new) = 0
    BY <1>4, FS_EmptySet
  <1>9. Cardinality(Staged(t)) \in Nat /\ Cardinality(StagedBytes(t)) \in Nat
    BY FS_CardinalityType
  <1>10. QED BY <1>5, <1>6, <1>7, <1>8, <1>9 DEF StagedSize

\* Files that go make nothing larger.
LEMMA FilesRemoved ==
    ASSUME NEW t \in Tasks, Staged(t)' \subseteq Staged(t), \A p \in Staged(t)': staging'[t][p] = staging[t][p],
           IsFiniteSet(Staged(t)), IsFiniteSet(StagedBytes(t))
    PROVE  /\ IsFiniteSet(Staged(t)') /\ IsFiniteSet(StagedBytes(t)')
           /\ Cardinality(Staged(t)') <= Cardinality(Staged(t)) /\ StagedSize(t)' <= StagedSize(t)
           /\ {Cardinality(Staged(t)), Cardinality(Staged(t)'), StagedSize(t), StagedSize(t)'} \subseteq Nat
  <1>1. StagedBytes(t)' \subseteq StagedBytes(t)
    BY DEF StagedBytes
  <1>2. /\ IsFiniteSet(Staged(t)') /\ IsFiniteSet(StagedBytes(t)')
        /\ Cardinality(Staged(t)') <= Cardinality(Staged(t))
        /\ Cardinality(StagedBytes(t)') <= Cardinality(StagedBytes(t))
    BY <1>1, FS_Subset
  <1>3. QED BY <1>2, FS_CardinalityType DEF StagedSize

-----------------------------------------------------------------------------
(* TaskInv: what one handler does is no concern of the others *)

Knowing == Writing \cup Importing \cup {"cancel_clean", "fin_clean", "fin_undo"}

LEMMA KnowingGuarded == Knowing \subseteq GuardedSteps /\ Copying \subseteq PublishSteps
  BY DEF Knowing, Writing, Importing, Copying, GuardedSteps, PutSteps, CancelSteps, FinalizeSteps, PublishSteps

OnlyMoves(h) == \A g \in Handlers \ {h}:
    pc'[g] = pc[g] /\ op'[g] = op[g] /\ target'[g] = target[g] /\ work'[g] = work[g]

SameTask(t) == task'[t] = task[t] /\ acked'[t] = acked[t] /\ staging'[t] = staging[t]

\* A handler changes the task whose guard it holds, or one that did not exist;
\* a task that ended stays so.
Touches(h) == \A t \in Tasks:
    /\ \/ SameTask(t)
       \/ t = target[h] /\ InGuard(h)
       \/ task[t] = "none" /\ task'[t] = "active" /\ acked'[t] = acked[t] /\ staging'[t] = staging[t]
    /\ task[t] \notin {"none", "active"} => task'[t] \notin {"none", "active"}

LEMMA TouchesNothing ==
    ASSUME NEW h, UNCHANGED <<task, acked, staging>>
    PROVE  Touches(h) /\ \A t \in Tasks: SameTask(t)
  BY DEF Touches, SameTask

LEMMA SameStaging ==
    ASSUME NEW t, staging'[t] = staging[t]
    PROVE  Staged(t)' = Staged(t) /\ StagedBytes(t)' = StagedBytes(t) /\ StagedSize(t)' = StagedSize(t)
  BY DEF Staged, StagedBytes, StagedSize

LEMMA SameKept ==
    ASSUME NEW t, SameTask(t), expired \subseteq expired', TaskKept(t)
    PROVE  TaskKept(t)'
  BY SameStaging DEF SameTask, TaskKept, AckedStaged

\* Two that know of an existing task would both hold its guard.
LEMMA OthersWork ==
    ASSUME TypeOK, GuardInv, TaskInv, NEW h \in Handlers, OnlyMoves(h), Touches(h), UNCHANGED expired,
           NEW g \in Handlers \ {h}
    PROVE  TaskWork(pc[g], op[g], target[g], work[g])'
  <1> DEFINE t == target[g]
  <1>1. pc'[g] = pc[g] /\ op'[g] = op[g] /\ target'[g] = t /\ work'[g] = work[g]
    BY DEF OnlyMoves
  <1>2. TaskWork(pc[g], op[g], t, work[g])
    BY DEF TaskInv
  <1>3. CASE pc[g] \in Writing \cup Importing
    <2>1. t \in Tasks /\ task[t] = "active" /\ InGuard(g)
      BY <1>2, <1>3, KnowingGuarded, StepKinds, TargetType, TypeParts DEF TaskWork, Knowing, InGuard
    <2>2. ~(t = target[h] /\ InGuard(h))
      BY <2>1, GuardImpliesOneHolder DEF OneHolder, Exists
    <2>3. SameTask(t)
      BY <2>1, <2>2 DEF Touches
    <2>4. /\ Staged(t)' = Staged(t) /\ StagedSize(t)' = StagedSize(t)
          /\ AckedStaged(t)' <=> AckedStaged(t)
          /\ SnapshotWhole(t, work[g])' <=> SnapshotWhole(t, work[g])
      BY <2>3, <1>1, SameStaging DEF SameTask, AckedStaged, SnapshotWhole, Snapped
    <2>5. pc[g] \notin {"cancel_clean", "fin_clean"} \cup Sweeping
      BY <1>3 DEF Writing, Importing, Copying, Sweeping
    <2>6. QED BY <1>1, <1>2, <2>1, <2>3, <2>4, <2>5 DEF TaskWork, SameTask, FileLimit, SizeLimit
  <1>4. CASE pc[g] \notin Writing \cup Importing
    <2>1. pc[g] \notin {"put_stream", "put_link", "put_unlink", "fin_asset", "fin_preflight", "fin_verify", "fin_commit"}
            \cup Copying
      BY <1>4 DEF Writing, Importing, Copying
    <2>2. pc[g] \in {"cancel_clean", "fin_clean"} => task'[t] \notin {"none", "active"}
      <3>1. pc[g] \in {"cancel_clean", "fin_clean"} => t \in Tasks
        BY TargetType, TypeParts
      <3>2. QED BY <1>2, <3>1 DEF TaskWork, Touches
    <2>3. pc[g] = "fin_undo" /\ "lost_commit" \notin Events => task'[t] = "active"
      <3>1. SUFFICES ASSUME pc[g] = "fin_undo", "lost_commit" \notin Events PROVE task'[t] = "active"
        OBVIOUS
      <3>2. t \in Tasks /\ task[t] = "active" /\ InGuard(g)
        BY <1>2, <3>1, KnowingGuarded, StepKinds, TargetType, TypeParts DEF TaskWork, Knowing, InGuard
      <3>3. ~(t = target[h] /\ InGuard(h))
        BY <3>2, GuardImpliesOneHolder DEF OneHolder, Exists
      <3>4. QED BY <3>2, <3>3 DEF Touches, SameTask
    <2>4. QED BY <1>1, <1>2, <1>4, <2>1, <2>2, <2>3 DEF TaskWork
  <1>5. QED BY <1>3, <1>4

\* So a step of h is a question about h and its task only.
LEMMA TaskStep ==
    ASSUME TypeOK, GuardInv, TaskInv, NEW h \in Handlers, OnlyMoves(h), Touches(h), UNCHANGED expired,
           TaskWork(pc[h], op[h], target[h], work[h])',
           \A t \in Tasks: t = target[h] /\ ~SameTask(t) => TaskKept(t)'
    PROVE  TaskInv'
  <1>1. ASSUME NEW t \in Tasks PROVE TaskKept(t)'
    <2>1. TaskKept(t)
      BY DEF TaskInv
    <2>2. CASE SameTask(t)
      BY <2>1, <2>2, SameKept
    <2>3. CASE task[t] = "none" /\ acked'[t] = acked[t] /\ staging'[t] = staging[t]
      BY <2>1, <2>3, SameStaging DEF TaskKept, AckedStaged
    <2>4. QED BY <2>2, <2>3 DEF Touches
  <1>2. QED BY <1>1, OthersWork DEF TaskInv

\* At most steps a handler knows nothing that could become false.
LEMMA PlainWork ==
    ASSUME TaskInv, NEW h \in Handlers, UNCHANGED expired,
           pc'[h] \notin Knowing, op'[h] \in {op[h], "none"}, target'[h] \in {target[h], Nothing},
           op'[h] = "put" => target'[h] = target[h],
           pc'[h] \in Sweeping => op'[h] = "create",
           work'[h].cands \subseteq work[h].cands
    PROVE  TaskWork(pc[h], op[h], target[h], work[h])'
  <1>1. TaskWork(pc[h], op[h], target[h], work[h])
    BY DEF TaskInv
  <1>2. QED BY <1>1 DEF TaskWork, Knowing, Writing, Importing, Copying

LEMMA FinishMoves ==
    ASSUME TypeOK, NEW h \in Handlers, Finish(h)
    PROVE  /\ OnlyMoves(h)
           /\ pc'[h] = "idle" /\ op'[h] = "none" /\ target'[h] = Nothing /\ work'[h] = NoWork
  BY DEF TypeOK, Finish, OnlyMoves

LEMMA FinishTask ==
    ASSUME TypeOK, GuardInv, TaskInv, NEW h \in Handlers, Finish(h), Touches(h), UNCHANGED expired,
           \A t \in Tasks: t = target[h] /\ ~SameTask(t) => TaskKept(t)'
    PROVE  TaskInv'
  <1>1. TaskWork(pc[h], op[h], target[h], work[h])'
    BY FinishMoves, PlainWork, NoWorkType DEF Knowing, Writing, Importing, Copying, Sweeping
  <1>2. QED BY <1>1, FinishMoves, TaskStep

LEMMA LeaveTask ==
    ASSUME TypeOK, GuardInv, TaskInv, NEW h \in Handlers, LeaveCandidate(h), op[h] = "create", Touches(h), UNCHANGED expired,
           \A t \in Tasks: t = target[h] /\ ~SameTask(t) => TaskKept(t)'
    PROVE  TaskInv'
  <1>1. OnlyMoves(h) /\ pc'[h] = "sweep" /\ op'[h] = op[h] /\ target'[h] = Nothing /\ work'[h] = work[h]
    BY DEF TypeOK, LeaveCandidate, OnlyMoves
  <1>2. TaskWork(pc[h], op[h], target[h], work[h])'
    BY <1>1, PlainWork DEF Knowing, Writing, Importing, Copying
  <1>3. QED BY <1>1, <1>2, TaskStep

\* A handler that moves to s, and changes nothing of the tasks
LEMMA GotoTask ==
    ASSUME TypeOK, GuardInv, TaskInv, NEW h \in Handlers, NEW s, Goto(h, s), UNCHANGED <<op, target, work>>,
           UNCHANGED <<task, acked, staging, expired>>,
           TaskWork(s, op[h], target[h], work[h])'
    PROVE  TaskInv'
  <1>1. OnlyMoves(h) /\ pc'[h] = s /\ op'[h] = op[h] /\ target'[h] = target[h] /\ work'[h] = work[h]
    BY DEF TypeOK, Goto, OnlyMoves
  <1>2. TaskWork(pc[h], op[h], target[h], work[h])'
    BY <1>1
  <1>3. QED BY <1>1, <1>2, TouchesNothing, TaskStep

LEMMA TasksInit == Init => TaskInv
  <1> SUFFICES ASSUME Init PROVE TaskInv OBVIOUS
  <1>1. ASSUME NEW h \in Handlers PROVE TaskWork(pc[h], op[h], target[h], work[h])
    BY NoWorkType DEF Init, TaskWork, Writing, Importing, Copying, Sweeping
  <1>2. ASSUME NEW t \in Tasks PROVE TaskKept(t)
    <2>1. Staged(t) = {} /\ StagedBytes(t) = {} /\ acked[t] = {}
      BY DEF Init, Staged, StagedBytes, NoFile
    <2>2. /\ IsFiniteSet({}) /\ Cardinality({}) = 0
      BY FS_EmptySet
    <2>3. QED BY <2>1, <2>2, LimitTypes DEF TaskKept, AckedStaged, StagedSize
  <1>3. QED BY <1>1, <1>2 DEF TaskInv

LEMMA TasksGuard == ASSUME TypeOK, GuardInv, TaskInv, NEW h \in Handlers, Guard(h) PROVE TaskInv'
  <1>1. UNCHANGED <<task, acked, staging, expired>>
    BY DEF Guard, OpenLock, EnterGuard, LockRefused, dbVars, modelVars, storageVars
  <1>2. TaskWork(pc[h], op[h], target[h], work[h])
    BY DEF TaskInv
  <1>3. CASE OpenLock(h)
    <2>1. TaskWork("flock", op[h], target[h], work[h])'
      BY <1>1, <1>2, <1>3 DEF OpenLock, TaskWork, Writing, Importing, Copying, Sweeping
    <2>2. QED BY <1>1, <1>3, <2>1, GotoTask DEF OpenLock
  <1>4. CASE EnterGuard(h)
    <2>1. op[h] \in {"create", "put", "cancel", "finalize"}
      BY <1>4 DEF EnterGuard, TypeOK, LocalsOK, LocalOK, Operation
    <2>2. PICK s \in {"sweep_row", "put_validate", "cancel_row", "fin_index"}:
             Goto(h, s) /\ (s = "sweep_row" => op[h] = "create")
      BY <1>4, <2>1 DEF EnterGuard
    <2>3. TaskWork(s, op[h], target[h], work[h])'
      BY <1>1, <1>2, <1>4, <2>2 DEF EnterGuard, TaskWork, Writing, Importing, Copying, Sweeping
    <2>4. QED BY <1>1, <1>4, <2>2, <2>3, GotoTask DEF EnterGuard
  <1>5. CASE LockRefused(h)
    BY <1>1, <1>5, TouchesNothing, LeaveTask, FinishTask DEF LockRefused
  <1>6. QED BY <1>3, <1>4, <1>5 DEF Guard

\* Requests arrive, and handlers are killed.
LEMMA TasksBegin ==
    ASSUME TypeOK, GuardInv, TaskInv, NEW h \in Handlers, Begin(h) \/ Crash(h)
    PROVE  TaskInv'
  <1>1. UNCHANGED <<task, acked, staging, expired>>
    BY DEF Begin, BeginCreate, BeginPut, BeginCancel, BeginFinalize, StartRequest, Crash, dbVars, modelVars, storageVars
  <1>2. CASE BeginCreate(h)
    <2> DEFINE w == [NoWork EXCEPT !.cands = SweepCandidates]
    <2>1. w.cands = SweepCandidates
      BY DEF NoWork
    <2>2. /\ OnlyMoves(h) /\ pc'[h] = "sweep" /\ op'[h] = "create" /\ target'[h] = target[h] /\ work'[h] = w
      BY <1>2 DEF BeginCreate, TypeOK, Goto, OnlyMoves
    <2>3. target[h] = Nothing
      BY <1>2 DEF BeginCreate, TypeOK, LocalsOK, LocalOK
    <2>4. TaskWork(pc[h], op[h], target[h], work[h])'
      BY <1>1, <2>1, <2>2, <2>3 DEF TaskWork, Writing, Importing, Copying, Sweeping, SweepCandidates
    <2>5. QED BY <1>1, <2>2, <2>4, TouchesNothing, TaskStep
  <1>3. ASSUME NEW o \in {"put", "cancel", "finalize"}, NEW t \in Tasks, NEW w, StartRequest(h, o, t, w),
               o = "put" => Mode[t] = "agent", w.cands = {}
        PROVE  TaskInv'
    <2>1. /\ OnlyMoves(h) /\ pc'[h] = "open" /\ op'[h] = o /\ target'[h] = t /\ work'[h] = w
      BY <1>3 DEF StartRequest, TypeOK, OnlyMoves
    <2>2. TaskWork(pc[h], op[h], target[h], work[h])'
      BY <1>3, <2>1 DEF TaskWork, Writing, Importing, Copying, Sweeping
    <2>3. QED BY <1>1, <2>1, <2>2, TouchesNothing, TaskStep
  <1>4. CASE BeginPut(h)
    <2>1. PICK t \in Tasks, p \in Paths, k \in Contents \cup {Nothing}:
             Mode[t] = "agent" /\ StartRequest(h, "put", t, [NoWork EXCEPT !.path = p, !.checksum = k])
      BY <1>4 DEF BeginPut
    <2>2. [NoWork EXCEPT !.path = p, !.checksum = k].cands = {}
      BY DEF NoWork
    <2>3. QED BY <1>3, <2>1, <2>2
  <1>5. CASE BeginCancel(h) \/ BeginFinalize(h)
    BY <1>3, <1>5, NoWorkType DEF BeginCancel, BeginFinalize
  <1>6. CASE Crash(h)
    BY <1>1, <1>6, TouchesNothing, FinishTask DEF Crash
  <1>7. QED BY <1>2, <1>4, <1>5, <1>6 DEF Begin

\* Staged files are removed, all or some of them.
LEMMA StagingRemoved ==
    ASSUME TypeOK, NEW u \in Tasks, RemoveStaging(u) \/ RemoveSomeStaging(u)
    PROVE  /\ \A t \in Tasks: Staged(t)' \subseteq Staged(t) /\ \A p \in Staged(t)': staging'[t][p] = staging[t][p]
           /\ \A t \in Tasks: t # u => staging'[t] = staging[t]
  <1>1. staging \in [Tasks -> [Paths -> StagedFile]]
    BY DEF TypeOK
  <1>2. /\ \A t \in Tasks: t # u => staging'[t] = staging[t]
        /\ \A p \in Paths: staging'[u][p] \in {staging[u][p], NoFile}
    <2>1. CASE RemoveStaging(u)
      BY <1>1, <2>1 DEF RemoveStaging
    <2>2. CASE RemoveSomeStaging(u)
      BY <1>1, <2>2 DEF RemoveSomeStaging
    <2>3. QED BY <2>1, <2>2
  <1>3. QED BY <1>1, <1>2 DEF Staged, NoFile

LEMMA KeptWithLess ==
    ASSUME NEW t \in Tasks, TaskKept(t), acked'[t] \in {acked[t], {}}, UNCHANGED expired,
           Staged(t)' \subseteq Staged(t), \A p \in Staged(t)': staging'[t][p] = staging[t][p],
           task'[t] \in {"none", "active"} /\ t \notin expired => AckedStaged(t)'
    PROVE  TaskKept(t)'
  <1>1. CASE Mode[t] = "agent"
    BY <1>1, FilesRemoved, LimitTypes DEF TaskKept, FileLimit, SizeLimit
  <1>2. CASE Mode[t] # "agent"
    BY <1>2 DEF TaskKept
  <1>3. QED BY <1>1, <1>2

LEMMA TasksCreate == ASSUME TypeOK, GuardInv, TaskInv, NEW h \in Handlers, Create(h) PROVE TaskInv'
  <1> DEFINE u == target[h]
  <1>1. TaskWork(pc[h], op[h], u, work[h])
    BY DEF TaskInv
  <1>2. UNCHANGED expired
    BY DEF Create, SweepCandidate, SweepRow, SweepDelete, SweepUnlink, CheckAsset, CreateTask, dbVars
  <1>3. pc[h] \in Sweeping /\ op[h] = "create"
    BY <1>1 DEF Create, SweepCandidate, SweepRow, SweepDelete, SweepUnlink, CheckAsset, CreateTask, Sweeping, TaskWork
  <1>4. pc[h] \notin {"sweep", "insert"} => u \in Tasks /\ u \in expired
    BY <1>1, <1>3, TargetType, TypeParts, DistinctValues DEF TaskWork, Sweeping
  <1>5. CASE SweepCandidate(h)
    <2>1. PICK t \in work[h].cands:
             /\ target' = [target EXCEPT ![h] = t]
             /\ work' = [work EXCEPT ![h] = [work[h] EXCEPT !.cands = work[h].cands \ {t}]]
      BY <1>5 DEF SweepCandidate
    <2>2. [work[h] EXCEPT !.cands = work[h].cands \ {t}].cands = work[h].cands \ {t}
      BY DEF TypeOK, Work
    <2>3. /\ OnlyMoves(h) /\ pc'[h] = "open" /\ op'[h] = op[h] /\ target'[h] = t
          /\ work'[h].cands = work[h].cands \ {t}
      BY <1>5, <2>1, <2>2 DEF SweepCandidate, TypeOK, Goto, OnlyMoves
    <2>4. TaskWork(pc[h], op[h], target[h], work[h])'
      BY <1>1, <1>2, <1>3, <2>3 DEF TaskWork, Writing, Importing, Copying, Sweeping
    <2>5. QED BY <1>2, <1>5, <2>3, <2>4, TouchesNothing, TaskStep DEF SweepCandidate, dbVars, storageVars, modelVars
  <1>6. CASE SweepRow(h)
    <2>1. CASE LeaveCandidate(h) /\ UNCHANGED staging
      BY <1>2, <1>3, <1>6, <2>1, TouchesNothing, LeaveTask DEF SweepRow, dbVars
    <2>2. CASE RemoveStaging(u) \/ RemoveSomeStaging(u)
      <3>1. u \in Tasks /\ u \in expired /\ InGuard(h)
        BY <1>4, <1>6 DEF SweepRow, InGuard, GuardedSteps, SweepSteps
      <3>2. UNCHANGED <<task, acked>>
        BY <1>6 DEF SweepRow, dbVars
      <3>3. Touches(h)
        BY <2>2, <3>1, <3>2, StagingRemoved DEF Touches, SameTask
      <3>4. ASSUME NEW t \in Tasks, t = u PROVE TaskKept(t)'
        BY <1>2, <2>2, <3>1, <3>2, <3>4, StagingRemoved, KeptWithLess DEF TaskInv
      <3>5. CASE LeaveCandidate(h)
        BY <1>2, <1>3, <3>3, <3>4, <3>5, LeaveTask
      <3>6. CASE Goto(h, "sweep_delete") /\ UNCHANGED <<op, target, work>>
        <4>1. OnlyMoves(h) /\ pc'[h] = "sweep_delete" /\ op'[h] = op[h] /\ target'[h] = u /\ work'[h] = work[h]
          BY <3>6 DEF TypeOK, Goto, OnlyMoves
        <4>2. TaskWork(pc[h], op[h], target[h], work[h])'
          BY <1>2, <1>3, <4>1, PlainWork DEF Knowing, Writing, Importing, Copying
        <4>3. QED BY <1>2, <3>3, <3>4, <4>1, <4>2, TaskStep
      <3>7. QED BY <1>6, <3>5, <3>6 DEF SweepRow
    <2>3. QED BY <1>6, <2>1, <2>2 DEF SweepRow
  <1>7. CASE SweepDelete(h)
    <2>1. u \in Tasks /\ InGuard(h)
      BY <1>4, <1>7 DEF SweepDelete, InGuard, GuardedSteps, SweepSteps
    <2>2. CASE Finish(h) /\ UNCHANGED <<task, acked>>
      BY <1>2, <1>7, <2>2, TouchesNothing, FinishTask DEF SweepDelete, storageVars
    <2>3. CASE /\ task' = [task EXCEPT ![u] = "deleted"] /\ acked' = [acked EXCEPT ![u] = {}]
               /\ Goto(h, "sweep_unlink") /\ UNCHANGED <<op, target, work>>
      <3>1. UNCHANGED staging /\ task'[u] = "deleted" /\ acked'[u] = {}
        BY <1>7, <2>1, <2>3 DEF SweepDelete, storageVars, TypeOK
      <3>2. Touches(h)
        BY <2>1, <2>3, <3>1 DEF Touches, SameTask, TypeOK
      <3>3. ASSUME NEW t \in Tasks, t = u PROVE TaskKept(t)'
        BY <1>2, <2>1, <3>1, <3>3, SameStaging, KeptWithLess DEF TaskInv
      <3>4. OnlyMoves(h) /\ pc'[h] = "sweep_unlink" /\ op'[h] = op[h] /\ target'[h] = u /\ work'[h] = work[h]
        BY <2>3 DEF TypeOK, Goto, OnlyMoves
      <3>5. TaskWork(pc[h], op[h], target[h], work[h])'
        BY <1>2, <1>3, <3>4, PlainWork DEF Knowing, Writing, Importing, Copying
      <3>6. QED BY <1>2, <3>2, <3>3, <3>4, <3>5, TaskStep
    <2>4. QED BY <1>7, <2>2, <2>3 DEF SweepDelete
  <1>8. CASE SweepUnlink(h)
    BY <1>2, <1>3, <1>8, TouchesNothing, LeaveTask DEF SweepUnlink, dbVars, modelVars
  <1>9. CASE CreateTask(h)
    <2>1. UNCHANGED <<staging, acked>> /\ Finish(h)
      BY <1>9 DEF CreateTask, storageVars, modelVars
    <2>2. Touches(h)
      BY <1>9, <2>1 DEF CreateTask, Creatable, Touches, SameTask, TypeOK
    <2>3. \A t \in Tasks: t # target[h]
      BY <1>9, DistinctValues DEF CreateTask, TypeOK, LocalsOK, LocalOK
    <2>4. QED BY <1>2, <2>1, <2>2, <2>3, FinishTask
  <1>10. CASE CheckAsset(h)
    <2>1. UNCHANGED <<task, acked, staging, expired>>
      BY <1>10 DEF CheckAsset, dbVars, storageVars, modelVars
    <2>2. CASE Goto(h, "insert") /\ UNCHANGED <<op, target, work>>
      <3>1. TaskWork("insert", op[h], u, work[h])'
        BY <1>1, <1>3, <2>1, <2>2 DEF TaskWork, Writing, Importing, Copying, Sweeping
      <3>2. QED BY <2>1, <2>2, <3>1, GotoTask
    <2>3. QED BY <1>10, <2>1, <2>2, TouchesNothing, FinishTask DEF CheckAsset
  <1>11. QED BY <1>5, <1>6, <1>7, <1>8, <1>9, <1>10 DEF Create

LEMMA TasksCancel == ASSUME TypeOK, GuardInv, TaskInv, NEW h \in Handlers, Cancel(h) PROVE TaskInv'
  <1> DEFINE u == target[h]
  <1>1. TaskWork(pc[h], op[h], u, work[h]) /\ u \in Tasks /\ InGuard(h)
    BY TargetType, TypeParts
       DEF TaskInv, Cancel, CancelRow, CleanStaging, InGuard, GuardedSteps, CancelSteps, FinalizeSteps
  <1>2. TaskKept(u) /\ UNCHANGED <<expired, acked>>
    BY <1>1 DEF TaskInv, Cancel, CancelRow, CleanStaging, dbVars
  <1>3. CASE CancelRow(h)
    <2>1. UNCHANGED staging
      BY <1>3 DEF CancelRow, storageVars
    <2>2. CASE Finish(h) /\ UNCHANGED task
      BY <1>2, <2>1, <2>2, TouchesNothing, FinishTask
    <2>3. CASE /\ task' = [task EXCEPT ![u] = "cancelled"] /\ Goto(h, "cancel_clean")
               /\ UNCHANGED <<op, target, fd, work>>
      <3>1. task'[u] = "cancelled" /\ \A t \in Tasks: t # u => task'[t] = task[t]
        BY <1>1, <2>3 DEF TypeOK
      <3>2. Touches(h)
        BY <1>1, <1>2, <2>1, <3>1 DEF Touches, SameTask
      <3>3. ASSUME NEW t \in Tasks, t = u PROVE TaskKept(t)'
        BY <1>1, <1>2, <2>1, <3>1, <3>3, SameStaging, KeptWithLess
      <3>4. OnlyMoves(h) /\ pc'[h] = "cancel_clean" /\ op'[h] = op[h] /\ target'[h] = u /\ work'[h] = work[h]
        BY <2>3 DEF TypeOK, Goto, OnlyMoves
      <3>5. TaskWork(pc[h], op[h], target[h], work[h])'
        BY <1>1, <1>2, <3>1, <3>4 DEF TaskWork, Writing, Importing, Copying, Sweeping
      <3>6. QED BY <1>2, <3>2, <3>3, <3>4, <3>5, TaskStep
    <2>4. QED BY <1>3, <2>2, <2>3 DEF CancelRow
  <1>4. CASE CleanStaging(h)
    <2>1. UNCHANGED task /\ Finish(h) /\ (RemoveStaging(u) \/ RemoveSomeStaging(u)) /\ task[u] \notin {"none", "active"}
      BY <1>1, <1>4 DEF CleanStaging, dbVars, TaskWork
    <2>2. Touches(h)
      BY <1>1, <1>2, <2>1, StagingRemoved DEF Touches, SameTask
    <2>3. ASSUME NEW t \in Tasks, t = u PROVE TaskKept(t)'
      BY <1>1, <1>2, <2>1, <2>3, StagingRemoved, KeptWithLess
    <2>4. QED BY <1>2, <2>1, <2>2, <2>3, FinishTask
  <1>5. QED BY <1>3, <1>4 DEF Cancel

LEMMA TasksPutInspect ==
    ASSUME TypeOK, GuardInv, TaskInv, NEW h \in Handlers, PutInspect(h), NEW t \in Tasks, t = target[h]
    PROVE  TaskInv'
  <1> DEFINE p == work[h].path
             k == work[h].checksum
  <1>1. TaskWork(pc[h], op[h], t, work[h]) /\ TaskKept(t) /\ task[t] = "active" /\ Mode[t] = "agent" /\ InGuard(h)
    BY DEF TaskInv, PutInspect, TaskWork, Writing, TypeOK, LocalsOK, LocalOK, PutSteps, InGuard, GuardedSteps
  <1>2. UNCHANGED <<task, staging, expired>>
    BY DEF PutInspect, dbVars, storageVars
  <1>3. CASE /\ p \in Staged(t) /\ Finish(h)
             /\ acked' = [acked EXCEPT ![t] = acked[t] \cup {<<p, staging[t][p].content>>}]
    <2>1. /\ acked'[t] = acked[t] \cup {<<p, staging[t][p].content>>}
          /\ \A u \in Tasks: u # t => acked'[u] = acked[u]
      BY <1>3 DEF TypeOK
    <2>2. Touches(h)
      BY <1>1, <1>2, <2>1 DEF Touches, SameTask
    <2>3. TaskKept(t)'
      BY <1>1, <1>2, <2>1, SameStaging DEF TaskKept, AckedStaged, FileLimit, SizeLimit
    <2>4. QED BY <1>2, <1>3, <2>2, <2>3, FinishTask
  <1>4. CASE UNCHANGED acked /\ Finish(h)
    BY <1>2, <1>4, TouchesNothing, FinishTask
  <1>5. CASE /\ HasCapacity(t) /\ UNCHANGED <<op, target, acked>> /\ Goto(h, "put_stream")
             /\ work' = [work EXCEPT ![h].fits = {c \in Contents: /\ Size[c] <= MaxFileSize
                                                               /\ Size[c] <= SizeLimit(t) - StagedSize(t)}]
    <2>1. /\ OnlyMoves(h) /\ pc'[h] = "put_stream" /\ op'[h] = op[h] /\ target'[h] = t
          /\ work'[h].fits = {c \in Contents: Size[c] <= MaxFileSize /\ Size[c] <= SizeLimit(t) - StagedSize(t)}
          /\ work'[h].cands = work[h].cands
      BY <1>5 DEF TypeOK, Work, Goto, OnlyMoves
    <2>2. IsFiniteSet(StagedBytes(t)) /\ StagedSize(t) \in Nat /\ Cardinality(Staged(t)) < FileLimit(t)
      BY <1>1, <1>5, FS_CardinalityType DEF TaskKept, HasCapacity, StagedSize
    <2>3. ASSUME NEW c \in work'[h].fits PROVE StagedSize(t) + Size[c] <= SizeLimit(t)
      BY <2>1, <2>2, <2>3, LimitTypes, ConfigurationTypes
    <2>4. Staged(t)' = Staged(t) /\ StagedSize(t)' = StagedSize(t) /\ FileLimit(t)' = FileLimit(t) /\ SizeLimit(t)' = SizeLimit(t)
      BY <1>2, SameStaging DEF FileLimit, SizeLimit
    <2>5. TaskWork(pc[h], op[h], target[h], work[h])'
      BY <1>1, <1>2, <2>1, <2>2, <2>3, <2>4 DEF TaskWork, Writing, Importing, Copying, Sweeping
    <2>6. QED BY <1>2, <1>5, <2>1, <2>5, TouchesNothing, TaskStep
  <1>6. QED BY <1>3, <1>4, <1>5 DEF PutInspect

LEMMA TasksPutLink ==
    ASSUME TypeOK, GuardInv, TaskInv, NEW h \in Handlers, PutLink(h), NEW t \in Tasks, t = target[h]
    PROVE  TaskInv'
  <1> DEFINE p == work[h].path
             c == work[h].received
  <1>1. TaskWork("put_link", "put", t, work[h]) /\ TaskKept(t) /\ Mode[t] = "agent"
        /\ task[t] = "active" /\ op[h] = "put" /\ InGuard(h)
    BY DEF TaskInv, PutLink, TaskWork, Writing, TypeOK, LocalsOK, LocalOK, PutSteps, InGuard, GuardedSteps
  <1>2. UNCHANGED <<task, acked, expired>> /\ p \in Paths /\ c \in Contents
    BY DEF PutLink, dbVars, TypeOK, LocalsOK, LocalOK, PutSteps
  <1>3. CASE UNCHANGED staging /\ Finish(h)
    BY <1>2, <1>3, TouchesNothing, FinishTask
  <1>4. CASE /\ p \notin Staged(t) /\ Goto(h, "put_unlink") /\ UNCHANGED <<op, target, work>>
             /\ staging' = [staging EXCEPT ![t][p] = [content |-> c, stamp |-> 0]]
    <2>1. OnlyMoves(h) /\ pc'[h] = "put_unlink" /\ op'[h] = op[h] /\ target'[h] = t /\ work'[h] = work[h]
      BY <1>4 DEF TypeOK, Goto, OnlyMoves
    <2>2. /\ staging'[t][p].content = c /\ \A q \in Paths: q # p => staging'[t][q] = staging[t][q]
          /\ \A u \in Tasks: u # t => staging'[u] = staging[u]
      BY <1>2, <1>4 DEF TypeOK
    <2>3. Touches(h)
      BY <1>1, <1>2, <2>2 DEF Touches, SameTask
    <2>4. t \notin expired => \A f \in acked[t]: f[1] # p /\ f[1] \in Paths
      <3>1. \A f \in acked[t]: f[1] \in Paths /\ f[2] \in Contents
        BY DEF TypeOK, UploadedFile
      <3>2. QED BY <1>1, <1>4, <3>1, NotNothing DEF TaskKept, AckedStaged, Staged
    <2>5. TaskWork(pc[h], op[h], target[h], work[h])'
      BY <1>1, <1>2, <2>1, <2>2, <2>4 DEF TaskWork, Writing, Importing, Copying, Sweeping
    <2>6. TaskKept(t)'
      <3>1. StorageTypes
        BY TypeParts
      <3>2. /\ IsFiniteSet(Staged(t)') /\ IsFiniteSet(StagedBytes(t)')
            /\ Cardinality(Staged(t)') = Cardinality(Staged(t)) + 1 /\ StagedSize(t)' = StagedSize(t) + Size[c]
            /\ Cardinality(Staged(t)) \in Nat /\ StagedSize(t) \in Nat
        BY <1>1, <1>2, <1>4, <3>1, FileStaged DEF TaskKept
      <3>3. Cardinality(Staged(t)) < FileLimit(t) /\ StagedSize(t) + Size[c] <= SizeLimit(t)
        BY <1>1 DEF TaskWork
      <3>4. Cardinality(Staged(t)') <= FileLimit(t)' /\ StagedSize(t)' <= SizeLimit(t)'
        BY <3>2, <3>3, LimitTypes DEF FileLimit, SizeLimit
      <3>5. t \notin expired => AckedStaged(t)'
        BY <1>1, <1>2, <2>2, <2>4 DEF TaskKept, AckedStaged
      <3>6. QED BY <1>1, <1>2, <3>2, <3>4, <3>5 DEF TaskKept
    <2>7. QED BY <1>2, <2>1, <2>3, <2>5, <2>6, TaskStep
  <1>5. QED BY <1>3, <1>4 DEF PutLink

LEMMA TasksPutUnlink ==
    ASSUME TypeOK, GuardInv, TaskInv, NEW h \in Handlers, PutUnlink(h), NEW t \in Tasks, t = target[h]
    PROVE  TaskInv'
  <1> DEFINE p == work[h].path
             c == work[h].received
  <1>1. TaskWork("put_unlink", "put", t, work[h]) /\ TaskKept(t) /\ Mode[t] = "agent"
        /\ task[t] = "active" /\ InGuard(h)
    BY DEF TaskInv, PutUnlink, TaskWork, Writing, TypeOK, LocalsOK, LocalOK, PutSteps, InGuard, GuardedSteps
  <1>2. UNCHANGED <<task, expired>> /\ Finish(h) /\ p \in Paths
    BY DEF PutUnlink, dbVars, TypeOK, LocalsOK, LocalOK, PutSteps
  <1>3. CASE acked' = [acked EXCEPT ![t] = acked[t] \cup {<<p, c>>}] /\ UNCHANGED staging
    <2>1. acked'[t] = acked[t] \cup {<<p, c>>} /\ \A u \in Tasks: u # t => acked'[u] = acked[u]
      BY <1>3 DEF TypeOK
    <2>2. Touches(h)
      BY <1>1, <1>2, <1>3, <2>1 DEF Touches, SameTask
    <2>3. TaskKept(t)'
      BY <1>1, <1>2, <1>3, <2>1, SameStaging DEF TaskKept, TaskWork, AckedStaged, FileLimit, SizeLimit
    <2>4. QED BY <1>2, <2>2, <2>3, FinishTask
  <1>4. CASE staging' = [staging EXCEPT ![t][p] = NoFile] /\ UNCHANGED acked
    <2>1. /\ staging'[t][p] = NoFile /\ \A q \in Paths: q # p => staging'[t][q] = staging[t][q]
          /\ \A u \in Tasks: u # t => staging'[u] = staging[u]
      BY <1>2, <1>4 DEF TypeOK
    <2>2. Touches(h)
      BY <1>1, <1>2, <1>4, <2>1 DEF Touches, SameTask
    <2>3. Staged(t)' \subseteq Staged(t) /\ \A q \in Staged(t)': staging'[t][q] = staging[t][q]
      BY <2>1 DEF Staged, NoFile
    <2>4. \A f \in acked[t]: f[1] \in Paths
      BY DEF TypeOK, UploadedFile
    <2>5. t \notin expired => AckedStaged(t)'
      BY <1>1, <1>4, <2>1, <2>4 DEF TaskKept, TaskWork, AckedStaged
    <2>6. TaskKept(t)'
      BY <1>1, <1>2, <1>4, <2>3, <2>5, KeptWithLess
    <2>7. QED BY <1>2, <2>2, <2>6, FinishTask
  <1>5. QED BY <1>3, <1>4 DEF PutUnlink

LEMMA TasksPut == ASSUME TypeOK, GuardInv, TaskInv, NEW h \in Handlers, Put(h) PROVE TaskInv'
  <1>1. PICK t \in Tasks: t = target[h]
    BY TargetType, TypeParts DEF Put, PutValidate, PutInspect, PutStream, PutLink, PutUnlink, GuardedSteps, PutSteps
  <1>2. TaskWork(pc[h], op[h], t, work[h])
    BY <1>1 DEF TaskInv
  <1>3. CASE PutValidate(h)
    <2>1. UNCHANGED <<task, acked, staging, expired>>
      BY <1>3 DEF PutValidate, dbVars, storageVars, modelVars
    <2>2. CASE Finish(h)
      BY <2>1, <2>2, TouchesNothing, FinishTask
    <2>3. CASE Writable(t) /\ Goto(h, "put_inspect") /\ UNCHANGED <<op, target, work>>
      <3>1. TaskWork("put_inspect", op[h], target[h], work[h])'
        BY <1>1, <1>2, <1>3, <2>1, <2>3 DEF PutValidate, Writable, TaskWork, Writing, Importing, Copying, Sweeping
      <3>2. QED BY <2>1, <2>3, <3>1, GotoTask
    <2>4. QED BY <1>1, <1>3, <2>2, <2>3 DEF PutValidate
  <1>4. CASE PutInspect(h)
    BY <1>1, <1>4, TasksPutInspect
  <1>5. CASE PutStream(h)
    <2>1. UNCHANGED <<task, acked, staging, expired>>
      BY <1>5 DEF PutStream, dbVars, storageVars, modelVars
    <2>2. CASE Finish(h)
      BY <2>1, <2>2, TouchesNothing, FinishTask
    <2>3. ASSUME NEW c \in work[h].fits, work' = [work EXCEPT ![h].received = c], Goto(h, "put_link"), UNCHANGED <<op, target>>
          PROVE  TaskInv'
      <3>1. /\ OnlyMoves(h) /\ pc'[h] = "put_link" /\ op'[h] = op[h] /\ target'[h] = t
            /\ work'[h].fits = work[h].fits /\ work'[h].received = c /\ work'[h].cands = work[h].cands
        BY <1>1, <2>3 DEF TypeOK, Work, Goto, OnlyMoves
      <3>2. Staged(t)' = Staged(t) /\ StagedSize(t)' = StagedSize(t) /\ FileLimit(t)' = FileLimit(t) /\ SizeLimit(t)' = SizeLimit(t)
        BY <2>1, SameStaging DEF FileLimit, SizeLimit
      <3>3. TaskWork(pc[h], op[h], target[h], work[h])'
        BY <1>2, <1>5, <2>1, <2>3, <3>1, <3>2 DEF PutStream, TaskWork, Writing, Importing, Copying, Sweeping
      <3>4. QED BY <2>1, <3>1, <3>3, TouchesNothing, TaskStep
    <2>4. QED BY <1>5, <2>2, <2>3 DEF PutStream
  <1>6. CASE PutLink(h)
    BY <1>1, <1>6, TasksPutLink
  <1>7. CASE PutUnlink(h)
    BY <1>1, <1>7, TasksPutUnlink
  <1>8. QED BY <1>3, <1>4, <1>5, <1>6, <1>7 DEF Put

LEMMA TasksFinalizeStart ==
    ASSUME TypeOK, GuardInv, TaskInv, NEW h \in Handlers, NEW t \in Tasks, t = target[h],
           FinalizeIndex(h) \/ FinalizeRow(h) \/ FinalizeAsset(h) \/ FinalizePreflight(h)
    PROVE  TaskInv'
  <1>1. UNCHANGED <<task, acked, staging, expired>>
    BY DEF FinalizeIndex, FinalizeRow, FinalizeAsset, FinalizePreflight, dbVars, storageVars, modelVars
  <1>2. TaskWork(pc[h], op[h], t, work[h]) /\ TaskKept(t) /\ (AckedStaged(t) <=> AckedStaged(t)')
    BY <1>1 DEF TaskInv, AckedStaged
  <1>3. CASE Finish(h)
    BY <1>1, <1>3, TouchesNothing, FinishTask
  <1>4. CASE FinalizeIndex(h)
    <2>1. TaskWork("fin_row", op[h], target[h], work[h])' \/ Finish(h)
      BY <1>1, <1>2, <1>4 DEF FinalizeIndex, TaskWork, Writing, Importing, Copying, Sweeping
    <2>2. QED BY <1>1, <1>3, <1>4, <2>1, GotoTask DEF FinalizeIndex
  <1>5. CASE FinalizeRow(h)
    <2>1. CASE TicketValid(t) /\ task[t] = "completed" /\ Goto(h, "fin_clean") /\ UNCHANGED <<op, target, work>>
      <3>1. TaskWork("fin_clean", op[h], target[h], work[h])'
        BY <1>1, <1>2, <2>1 DEF TaskWork, Writing, Importing, Copying, Sweeping
      <3>2. QED BY <1>1, <2>1, <3>1, GotoTask
    <2>2. CASE TicketValid(t) /\ task[t] = "active" /\ Goto(h, "fin_asset") /\ UNCHANGED <<op, target, work>>
      <3>1. AckedStaged(t)'
        BY <1>2, <2>2 DEF TicketValid, TaskKept
      <3>2. TaskWork("fin_asset", op[h], target[h], work[h])'
        BY <1>1, <1>2, <2>2, <3>1 DEF TaskWork, Writing, Importing, Copying, Sweeping
      <3>3. QED BY <1>1, <2>2, <3>2, GotoTask
    <2>3. QED BY <1>3, <1>5, <2>1, <2>2 DEF FinalizeRow
  <1>6. CASE FinalizeAsset(h)
    <2>1. TaskWork("fin_preflight", op[h], target[h], work[h])' \/ Finish(h)
      BY <1>1, <1>2, <1>6 DEF FinalizeAsset, TaskWork, Writing, Importing, Copying, Sweeping
    <2>2. QED BY <1>1, <1>3, <1>6, <2>1, GotoTask DEF FinalizeAsset
  <1>7. CASE FinalizePreflight(h)
    <2>1. CASE /\ Ready(t) /\ Goto(h, "fin_copy") /\ UNCHANGED <<op, target, fd>>
               /\ work' = [work EXCEPT ![h].snapshot = staging[t], ![h].todo = Staged(t)]
      <3>1. /\ OnlyMoves(h) /\ pc'[h] = "fin_copy" /\ op'[h] = op[h] /\ target'[h] = t
            /\ work'[h].snapshot = staging[t] /\ work'[h].todo = Staged(t) /\ work'[h].done = work[h].done
            /\ work'[h].cands = work[h].cands
        BY <2>1 DEF TypeOK, Work, Goto, OnlyMoves
      <3>2. work[h].done = {} /\ AckedStaged(t) /\ task[t] = "active"
        BY <1>2, <1>7 DEF FinalizePreflight, TypeOK, LocalsOK, LocalOK, PublishSteps, TaskWork, Importing
      <3>3. Snapped(work[h])' = Staged(t)
        BY <3>1 DEF Snapped, Staged
      <3>4. Mode[t] = "agent" /\ Manifest[t] # Nothing =>
               IsFiniteSet(Staged(t)) /\ Cardinality(Staged(t)) = Manifest[t].count
        BY <1>2, <2>1 DEF TaskKept, Ready, ManifestComplete
      <3>5. SnapshotWhole(t, work[h])'
        BY <1>1, <2>1, <3>1, <3>2, <3>3, <3>4 DEF SnapshotWhole, Ready, AckedStaged
      <3>6. TaskWork(pc[h], op[h], target[h], work[h])'
        BY <1>1, <1>2, <3>1, <3>2, <3>5 DEF TaskWork, Writing, Importing, Copying, Sweeping
      <3>7. QED BY <1>1, <3>1, <3>6, TouchesNothing, TaskStep
    <2>2. QED BY <1>3, <1>7, <2>1 DEF FinalizePreflight
  <1>8. QED BY <1>4, <1>5, <1>6, <1>7

\* The copy loop and the compensation change nothing of the tasks.
LEMMA TasksPublish ==
    ASSUME TypeOK, GuardInv, TaskInv, NEW h \in Handlers, NEW t \in Tasks, t = target[h],
           \/ PublishStart(h) \/ PublishFill(h) \/ PublishDone(h)
           \/ FinalizeVerify(h) \/ RollbackFile(h) \/ RollbackDone(h)
    PROVE  TaskInv'
  <1>1. UNCHANGED <<task, acked, staging, expired>>
    BY DEF PublishStart, PublishFill, PublishDone, FinalizeVerify, RollbackFile, RollbackDone,
           dbVars, storageVars, modelVars
  <1>2. TaskWork(pc[h], op[h], t, work[h]) /\ LocalOK(pc[h], op[h], t, work[h]) /\ work[h] \in Work
    BY DEF TaskInv, TypeOK, LocalsOK
  <1>3. pc[h] # "fin_undo" \/ "lost_commit" \notin Events => task[t] = "active"
    BY <1>2 DEF PublishStart, PublishFill, PublishDone, FinalizeVerify, RollbackFile, RollbackDone,
                TaskWork, Importing, Copying, Writing, LocalOK, PutSteps
  \* Every such step leaves the snapshot and its files as they are.
  <1>4. ASSUME NEW s, pc'[h] = s, OnlyMoves(h), op'[h] = op[h], target'[h] = t,
               work'[h].snapshot = work[h].snapshot, work'[h].cands = work[h].cands,
               s \in {"fin_copy", "fin_fill", "fin_verify", "fin_commit", "fin_rollback", "fin_undo"},
               s \in Copying => /\ work'[h].todo \cup work'[h].done = work[h].todo \cup work[h].done
                                /\ pc[h] \in Copying,
               s \in {"fin_verify", "fin_commit"} => work'[h].todo = {},
               s # "fin_undo" => pc[h] # "fin_undo"
        PROVE  TaskInv'
    <2>1. s \in Copying => SnapshotWhole(t, work[h])'
      BY <1>1, <1>2, <1>4 DEF TaskWork, SnapshotWhole, Snapped
    <2>2. TaskWork(pc[h], op[h], target[h], work[h])'
      BY <1>1, <1>2, <1>3, <1>4, <2>1 DEF TaskWork, Writing, Importing, Copying, Sweeping
    <2>3. QED BY <1>1, <1>4, <2>2, TouchesNothing, TaskStep
  \* A step that leaves the locals alone
  <1>5. ASSUME NEW s, Goto(h, s), UNCHANGED <<op, target, work>>
        PROVE  /\ pc'[h] = s /\ OnlyMoves(h) /\ op'[h] = op[h] /\ target'[h] = t /\ work'[h] = work[h]
    BY <1>5 DEF TypeOK, Goto, OnlyMoves
  <1>6. CASE PublishStart(h)
    <2>1. CASE Goto(h, "fin_rollback") /\ UNCHANGED <<op, target, work>>
      BY <1>4, <1>5, <1>6, <2>1 DEF PublishStart, Copying
    <2>2. ASSUME NEW p \in work[h].todo, work' = [work EXCEPT ![h].path = p], Goto(h, "fin_fill"), UNCHANGED <<op, target>>
          PROVE  TaskInv'
      <3>1. /\ pc'[h] = "fin_fill" /\ OnlyMoves(h) /\ op'[h] = op[h] /\ target'[h] = t
            /\ work'[h].todo = work[h].todo /\ work'[h].done = work[h].done
            /\ work'[h].snapshot = work[h].snapshot /\ work'[h].cands = work[h].cands
        BY <2>2 DEF TypeOK, Work, Goto, OnlyMoves
      <3>2. QED BY <1>4, <1>6, <3>1 DEF PublishStart, Copying
    <2>3. QED BY <1>6, <2>1, <2>2 DEF PublishStart
  <1>7. CASE PublishFill(h)
    <2> DEFINE p == work[h].path
    <2>1. CASE Goto(h, "fin_rollback") /\ UNCHANGED <<op, target, work>>
      BY <1>4, <1>5, <1>7, <2>1 DEF PublishFill, Copying
    <2>2. CASE /\ work' = [work EXCEPT ![h].todo = work[h].todo \ {p}, ![h].done = work[h].done \cup {p}]
               /\ Goto(h, "fin_copy") /\ UNCHANGED <<op, target>>
      <3>1. /\ pc'[h] = "fin_copy" /\ OnlyMoves(h) /\ op'[h] = op[h] /\ target'[h] = t
            /\ work'[h].todo = work[h].todo \ {p} /\ work'[h].done = work[h].done \cup {p}
            /\ work'[h].snapshot = work[h].snapshot /\ work'[h].cands = work[h].cands
        BY <2>2 DEF TypeOK, Work, Goto, OnlyMoves
      <3>2. p \in work[h].todo
        BY <1>2, <1>7 DEF PublishFill, LocalOK
      <3>3. QED BY <1>4, <1>7, <3>1, <3>2 DEF PublishFill, Copying
    <2>3. QED BY <1>7, <2>1, <2>2 DEF PublishFill
  <1>8. CASE PublishDone(h)
    BY <1>4, <1>5, <1>8 DEF PublishDone, Copying
  <1>9. CASE FinalizeVerify(h)
    <2>1. work[h].todo = {}
      BY <1>2, <1>9 DEF FinalizeVerify, TaskWork
    <2>2. PICK s \in {"fin_commit", "fin_rollback", "fin_undo"}: Goto(h, s)
      BY <1>9 DEF FinalizeVerify
    <2>3. QED BY <1>4, <1>5, <1>9, <2>1, <2>2 DEF FinalizeVerify, Copying
  <1>10. CASE RollbackFile(h)
    <2>1. PICK p \in work[h].done: work' = [work EXCEPT ![h].done = work[h].done \ {p}]
      BY <1>10 DEF RollbackFile
    <2>2. /\ pc'[h] = pc[h] /\ OnlyMoves(h) /\ op'[h] = op[h] /\ target'[h] = t
          /\ work'[h].snapshot = work[h].snapshot /\ work'[h].cands = work[h].cands
      BY <1>10, <2>1 DEF RollbackFile, TypeOK, Work, OnlyMoves
    <2>3. QED BY <1>4, <1>10, <2>2 DEF RollbackFile, Copying
  <1>11. CASE RollbackDone(h)
    BY <1>1, <1>11, TouchesNothing, FinishTask DEF RollbackDone
  <1>12. QED BY <1>6, <1>7, <1>8, <1>9, <1>10, <1>11

LEMMA TasksCommit ==
    ASSUME TypeOK, GuardInv, TaskInv, NEW h \in Handlers, NEW t \in Tasks, t = target[h], FinalizeCommit(h)
    PROVE  TaskInv'
  <1>1. UNCHANGED <<acked, staging, expired, op, target, work>>
    BY DEF FinalizeCommit, storageVars
  <1>2. TaskWork(pc[h], op[h], t, work[h]) /\ TaskKept(t) /\ task[t] = "active" /\ InGuard(h)
    BY DEF TaskInv, FinalizeCommit, TaskWork, Importing, Copying, InGuard, GuardedSteps, FinalizeSteps, PublishSteps
  <1>3. PICK s \in {"fin_clean", "fin_undo"}:
           /\ Goto(h, s)
           /\ \/ RecordImport(h) /\ (s = "fin_undo" => "lost_commit" \in Events)
              \/ UNCHANGED task /\ s # "fin_clean"
    BY DEF FinalizeCommit
  <1>4. OnlyMoves(h) /\ pc'[h] = s /\ op'[h] = op[h] /\ target'[h] = t /\ work'[h] = work[h]
    BY <1>1, <1>3 DEF TypeOK, Goto, OnlyMoves
  <1>5. CASE UNCHANGED task /\ s # "fin_clean"
    <2>1. TaskWork(pc[h], op[h], target[h], work[h])'
      BY <1>1, <1>2, <1>4, <1>5 DEF TaskWork, Writing, Importing, Copying, Sweeping
    <2>2. QED BY <1>1, <1>4, <1>5, <2>1, TouchesNothing, TaskStep
  <1>6. CASE RecordImport(h) /\ (s = "fin_undo" => "lost_commit" \in Events)
    <2>1. task'[t] = "completed" /\ \A u \in Tasks: u # t => task'[u] = task[u]
      BY <1>6 DEF RecordImport, TypeOK
    <2>2. Touches(h)
      BY <1>1, <1>2, <2>1 DEF Touches, SameTask
    <2>3. TaskKept(t)'
      BY <1>1, <1>2, <2>1, SameStaging, KeptWithLess
    <2>4. TaskWork(pc[h], op[h], target[h], work[h])'
      BY <1>1, <1>2, <1>4, <1>6, <2>1 DEF TaskWork, Writing, Importing, Copying, Sweeping
    <2>5. QED BY <1>1, <1>4, <2>2, <2>3, <2>4, TaskStep
  <1>7. QED BY <1>3, <1>5, <1>6

LEMMA TasksFinalize == ASSUME TypeOK, GuardInv, TaskInv, NEW h \in Handlers, Finalize(h) PROVE TaskInv'
  <1>1. PICK t \in Tasks: t = target[h]
    BY TargetType, TypeParts
       DEF Finalize, FinalizeIndex, FinalizeRow, FinalizeAsset, FinalizePreflight, PublishStart, PublishFill,
           PublishDone, FinalizeVerify, FinalizeCommit, RollbackFile, RollbackDone
  <1>2. QED BY <1>1, TasksFinalizeStart, TasksPublish, TasksCommit DEF Finalize

LEMMA TasksEnvironment == ASSUME TypeOK, TaskInv, Environment PROVE TaskInv'
  <1>1. UNCHANGED <<task, acked, pc, op, target, work>> /\ expired \subseteq expired'
    BY DEF Environment, Expire, ScpMark, ScpWrite, ExternalWrite, SetAssetArchived, ScanBegins, ScanEnds,
           dbVars, storageVars, handlerVars, modelVars
  <1>2. \A t \in Tasks: Mode[t] = "agent" => staging'[t] = staging[t]
    <2>1. CASE UNCHANGED staging
      BY <2>1
    <2>2. ASSUME NEW t \in Tasks, NEW p \in Paths, ScpWrite(t, p) PROVE \A u \in Tasks: u # t => staging'[u] = staging[u]
      BY <2>2 DEF ScpWrite, TypeOK
    <2>3. ASSUME NEW t \in Tasks, NEW p \in Paths, ScpWrite(t, p)  PROVE Mode[t] # "agent"
      BY <2>3 DEF ScpWrite
    <2>4. QED
      BY <2>1, <2>2, <2>3 DEF Environment, Expire, ScpMark, ExternalWrite, SetAssetArchived, ScanBegins, ScanEnds,
           dbVars, storageVars, handlerVars, modelVars
  <1>3. ASSUME NEW t \in Tasks PROVE TaskKept(t)'
    <2>1. TaskKept(t)
      BY DEF TaskInv
    <2>2. CASE Mode[t] = "agent"
      BY <1>1, <1>2, <2>1, <2>2, SameKept DEF SameTask
    <2>3. CASE Mode[t] # "agent"
      BY <1>1, <2>1, <2>3 DEF TaskKept, AckedStaged
    <2>4. QED BY <2>2, <2>3
  <1>4. ASSUME NEW h \in Handlers PROVE TaskWork(pc[h], op[h], target[h], work[h])'
    <2>1. TaskWork(pc[h], op[h], target[h], work[h])
      BY DEF TaskInv
    <2> DEFINE t == target[h]
    <2>2. CASE t \in Tasks /\ Mode[t] = "agent"
      <3>1. staging'[t] = staging[t]
        BY <1>2, <2>2
      <3>2. QED BY <1>1, <2>1, <3>1 DEF TaskWork, Staged, StagedSize, StagedBytes, AckedStaged, SnapshotWhole, Snapped, FileLimit, SizeLimit
    <2>3. CASE t \in Tasks /\ Mode[t] # "agent"
      <3>1. op[h] # "put" /\ acked[t] = {} /\ pc[h] \notin PutSteps
        BY <2>1, <2>3 DEF TaskWork, TaskInv, TaskKept, TypeOK, LocalsOK, LocalOK
      <3>2. QED BY <1>1, <2>1, <3>1 DEF TaskWork, AckedStaged, SnapshotWhole, Snapped, PutSteps
    <2>4. CASE t \notin Tasks
      <3>1. pc[h] \in {"idle", "sweep", "insert"}
        BY <2>4, TargetType, TypeParts
      <3>2. QED BY <1>1, <2>1, <3>1 DEF TaskWork, Writing, Importing, Copying
    <2>5. QED BY <2>2, <2>3, <2>4
  <1>5. QED BY <1>3, <1>4 DEF TaskInv

\* What becomes of a task's files: acknowledged files are staged or imported,
\* an HTTP task stays within its limits, and each handler knows of them what its step says.
THEOREM TasksCorrect == Spec => []TaskInv
  <1>1. TypeOK /\ GuardInv /\ TaskInv /\ [Next]_vars => TaskInv'
    <2> SUFFICES ASSUME TypeOK, GuardInv, TaskInv, [Next]_vars PROVE TaskInv'
      OBVIOUS
    <2>1. CASE UNCHANGED vars
      <3>1. UNCHANGED <<task, acked, staging, expired, pc, op, target, work>>
        BY <2>1 DEF vars, dbVars, storageVars, handlerVars, modelVars
      <3>2. ASSUME NEW t \in Tasks PROVE TaskKept(t)'
        BY <3>1, SameKept DEF SameTask, TaskInv
      <3>3. ASSUME NEW h \in Handlers PROVE TaskWork(pc[h], op[h], target[h], work[h])'
        <4>1. TaskWork(pc[h], op[h], target[h], work[h])
          BY DEF TaskInv
        <4>2. QED BY <3>1, <4>1 DEF TaskWork, Staged, StagedSize, StagedBytes, AckedStaged, SnapshotWhole,
                                    Snapped, FileLimit, SizeLimit
      <3>4. QED BY <3>2, <3>3 DEF TaskInv
    <2>2. CASE Environment
      BY <2>2, TasksEnvironment
    <2>3. ASSUME NEW h \in Handlers, HandlerStep(h) PROVE TaskInv'
      BY <2>3, TasksGuard, TasksCreate, TasksPut, TasksCancel, TasksFinalize DEF HandlerStep
    <2>4. QED BY <2>1, <2>2, <2>3, TasksBegin DEF Next
  <1>2. QED BY <1>1, TasksInit, TypeCorrect, GuardCorrect, PTL DEF Spec

\* A file whose PUT was answered with success stays in the staging directory for as
\* long as the task can be finalized.
THEOREM AckedKeptAlways == Spec => []AckedKept
  <1>1. TaskInv => AckedKept
    BY DEF TaskInv, TaskKept, AckedStaged, AckedKept
  <1>2. QED BY <1>1, TasksCorrect, PTL

\* The staged files of an HTTP task stay within its manifest or the instance limits,
\* whatever the handlers' checks saw before.
THEOREM LimitsAlways == Spec => []LimitsRespected
  <1>1. TaskInv => LimitsRespected
    BY DEF TaskInv, TaskKept, LimitsRespected
  <1>2. QED BY <1>1, TasksCorrect, PTL

\* No PUT that began before adds to the staging directory of an HTTP task that was
\* completed, cancelled or removed.
THEOREM NothingStagedLateAlways == Spec => NothingStagedLate
  <1> DEFINE NoneAdded == \A t \in Tasks: Mode[t] = "agent" /\ task[t] # "active" => Staged(t)' \subseteq Staged(t)
  <1>1. TypeOK /\ TaskInv /\ [Next]_vars => [NoneAdded]_vars
    <2> SUFFICES ASSUME TypeOK, TaskInv, Next PROVE NoneAdded
      OBVIOUS
    <2>1. CASE UNCHANGED staging
      BY <2>1 DEF Staged
    <2>2. ASSUME NEW u \in Tasks, RemoveStaging(u) \/ RemoveSomeStaging(u) PROVE NoneAdded
      BY <2>2, StagingRemoved
    <2>3. ASSUME NEW h \in Handlers, Create(h) PROVE NoneAdded
      <3>1. pc[h] \notin {"sweep", "insert"} => target[h] \in Tasks
        BY <2>3, TargetType, TypeParts DEF Create, SweepCandidate, SweepRow, SweepDelete, SweepUnlink, CheckAsset, CreateTask
      <3>2. QED BY <2>1, <2>2, <2>3, <3>1
              DEF Create, SweepCandidate, SweepRow, SweepDelete, SweepUnlink, CheckAsset, CreateTask, storageVars
    <2>4. ASSUME NEW h \in Handlers, Cancel(h) PROVE NoneAdded
      <3>1. target[h] \in Tasks
        BY <2>4, TargetType, TypeParts DEF Cancel, CancelRow, CleanStaging
      <3>2. QED BY <2>1, <2>2, <2>4, <3>1 DEF Cancel, CancelRow, CleanStaging, storageVars
    <2>5. ASSUME NEW h \in Handlers, Put(h) PROVE NoneAdded
      <3>1. PICK t \in Tasks: t = target[h]
        BY <2>5, TargetType, TypeParts DEF Put, PutValidate, PutInspect, PutStream, PutLink, PutUnlink
      <3>2. UNCHANGED staging \/ PutLink(h) \/ PutUnlink(h)
        BY <2>5 DEF Put, PutValidate, PutInspect, PutStream, storageVars
      <3>3. CASE PutLink(h)
        <4>1. task[t] = "active"
          BY <3>1, <3>3 DEF TaskInv, TaskWork, PutLink, Writing
        <4>2. \A u \in Tasks: u # t => staging'[u] = staging[u]
          BY <3>1, <3>3 DEF PutLink, TypeOK
        <4>3. QED BY <4>1, <4>2 DEF Staged
      <3>4. CASE PutUnlink(h)
        <4>1. \A u \in Tasks, q \in Paths: staging'[u][q] \in {staging[u][q], NoFile}
          <5>1. staging' = staging \/ staging' = [staging EXCEPT ![t] = [staging[t] EXCEPT ![work[h].path] = NoFile]]
            BY <3>1, <3>4 DEF PutUnlink
          <5>2. staging \in [Tasks -> [Paths -> StagedFile]]
            BY DEF TypeOK
          <5>3. QED BY <5>1, <5>2
        <4>2. QED BY <4>1 DEF Staged, NoFile
      <3>5. QED BY <2>1, <3>2, <3>3, <3>4
    <2>6. ASSUME NEW h \in Handlers, Guard(h) \/ Finalize(h) \/ Begin(h) \/ Crash(h) PROVE NoneAdded
      <3>1. UNCHANGED staging
        BY <2>6 DEF Guard, OpenLock, EnterGuard, LockRefused, Finalize, FinalizeIndex, FinalizeRow, FinalizeAsset,
              FinalizePreflight, PublishStart, PublishFill, PublishDone, FinalizeVerify, FinalizeCommit, RollbackFile,
              RollbackDone, Begin, BeginCreate, BeginPut, BeginCancel, BeginFinalize, StartRequest, Crash, storageVars
      <3>2. QED BY <2>1, <3>1
    <2>7. CASE Environment
      <3>1. CASE UNCHANGED staging
        BY <2>1, <3>1
      <3>2. ASSUME NEW t \in Tasks, NEW p \in Paths, ScpWrite(t, p) PROVE NoneAdded
        <4>1. Mode[t] # "agent" /\ \A u \in Tasks: u # t => staging'[u] = staging[u]
          BY <3>2 DEF ScpWrite, TypeOK
        <4>2. QED BY <4>1 DEF Staged
      <3>3. QED BY <2>7, <3>1, <3>2 DEF Environment, Expire, ScpMark, ExternalWrite, SetAssetArchived, ScanBegins,
                                        ScanEnds, storageVars
    <2>8. QED BY <2>3, <2>4, <2>5, <2>6, <2>7 DEF Next, HandlerStep
  <1>2. Spec => [][NoneAdded]_vars
    BY <1>1, TypeCorrect, TasksCorrect, PTL DEF Spec
  <1>3. QED BY <1>2 DEF NothingStagedLate

-----------------------------------------------------------------------------
(* CatalogueInv: one publisher at a time *)

AssetSteps == {"fin_preflight"} \cup (PublishSteps \ {"fin_undo"})

LEMMA AssetStepNames ==
    AssetSteps = {"fin_preflight", "fin_copy", "fin_fill", "fin_verify", "fin_commit", "fin_rollback"}
  BY DEF AssetSteps, PublishSteps

\* What a step that imports nothing may do to a task
MovesOn(t) ==
    \/ task'[t] = "deleted"
    \/ task[t] \in {"none", "active", "cancelled"} /\ task'[t] \in {"active", "cancelled"}
    \/ task'[t] = task[t] /\ result'[t] = result[t] /\ (task[t] = "completed" => acked'[t] = acked[t])

NothingImported == UNCHANGED records /\ \A t \in Tasks: MovesOn(t)

LEMMA SameCatalogue ==
    ASSUME UNCHANGED <<task, result, records, acked>>
    PROVE  NothingImported
  BY DEF NothingImported, MovesOn

LEMMA ImportsStay ==
    ASSUME TypeOK, CatalogueInv, NothingImported
    PROVE  ContentOnce' /\ ImportedWhole'
  <1>1. ContentOnce'
    BY DEF CatalogueInv, NothingImported, ContentOnce
  <1>2. \A t \in Tasks: FromTask(t)' = FromTask(t)
    BY DEF NothingImported, FromTask
  <1>3. QED BY <1>1, <1>2 DEF CatalogueInv, NothingImported, MovesOn, ImportedWhole

\* A step of h that imports nothing is a question about h only.
LEMMA CatalogueStep ==
    ASSUME TypeOK, CatalogueInv, NEW h \in Handlers, OnlyMoves(h), NothingImported,
           HoldsAssetRow(h)' => /\ HoldsAssetRow(h) \/ AssetRowFree
                                /\ \A p \in work'[h].todo \cup work'[h].done: records[p] = Absent,
           pc'[h] = "fin_commit" => NoDuplicates(h)'
    PROVE  CatalogueInv'
  <1>1. \A g \in Handlers \ {h}: HoldsAssetRow(g)' <=> HoldsAssetRow(g)
    BY DEF OnlyMoves, HoldsAssetRow
  <1>2. \A g, k \in Handlers: HoldsAssetRow(g)' /\ HoldsAssetRow(k)' => g = k
    BY <1>1 DEF CatalogueInv, AssetRowFree
  <1>3. ASSUME NEW g \in Handlers
        PROVE  /\ HoldsAssetRow(g)' => \A p \in work'[g].todo \cup work'[g].done: records'[p] = Absent
               /\ pc'[g] = "fin_commit" => NoDuplicates(g)'
    <2>1. CASE g = h
      BY <2>1 DEF NothingImported
    <2>2. CASE g # h
      <3>1. pc'[g] = pc[g] /\ work'[g] = work[g]
        BY <2>2 DEF OnlyMoves
      <3>2. QED BY <1>1, <2>2, <3>1 DEF CatalogueInv, NothingImported, NoDuplicates
    <2>3. QED BY <2>1, <2>2
  <1>4. QED BY <1>2, <1>3, ImportsStay DEF CatalogueInv

\* Where no row of the asset is taken, only its effect on the tasks counts.
LEMMA CatalogueLeft ==
    ASSUME TypeOK, CatalogueInv, NEW h \in Handlers, OnlyMoves(h), NothingImported, pc'[h] \notin AssetSteps
    PROVE  CatalogueInv'
  BY CatalogueStep, AssetStepNames DEF AssetSteps, HoldsAssetRow

LEMMA CatalogueInit == Init => CatalogueInv
  <1> SUFFICES ASSUME Init PROVE CatalogueInv OBVIOUS
  <1>1. \A t \in Tasks: FromTask(t) = {}
    BY DistinctValues DEF Init, FromTask, Absent
  <1>2. ContentOnce /\ ImportedWhole
    BY <1>1 DEF Init, ContentOnce, ImportedWhole
  <1>3. \A h \in Handlers: pc[h] = "idle"
    BY DEF Init
  <1>4. QED BY <1>2, <1>3 DEF CatalogueInv, HoldsAssetRow, PublishSteps

\* The requests that publish nothing: what they leave alone, and where they go
Aside == {"idle", "open", "flock", "sweep", "sweep_unlink", "insert", "fin_index"} \cup PutSteps \cup CancelSteps \cup SweepSteps

LEMMA AsideNames == Aside \cap (AssetSteps \cup {"fin_undo", "fin_clean", "fin_row", "fin_asset"}) = {}
  BY AssetStepNames DEF Aside, PutSteps, CancelSteps, SweepSteps

LEMMA SweepsAside ==
    ASSUME TypeOK, NEW h \in Handlers, Guard(h) \/ Create(h)
    PROVE  /\ OnlyMoves(h) /\ pc'[h] \in Aside
           /\ UNCHANGED <<records, archive, scanning>> /\ NothingImported
  <1>1. CASE Guard(h)
    <2>1. UNCHANGED <<task, result, records, acked, archive, scanning>>
      BY <1>1 DEF Guard, OpenLock, EnterGuard, LockRefused, dbVars, storageVars, modelVars
    <2>2. OnlyMoves(h)
      BY <1>1 DEF TypeOK, Guard, OpenLock, EnterGuard, LockRefused, Goto, LeaveCandidate, Finish, OnlyMoves
    <2>3. op[h] \in {"create", "put", "cancel", "finalize"}
      BY <1>1 DEF Guard, OpenLock, EnterGuard, LockRefused, TypeOK, LocalsOK, LocalOK, Operation
    <2>4. pc'[h] \in Aside
      BY <1>1, <2>3 DEF TypeOK, Guard, OpenLock, EnterGuard, LockRefused, Goto, LeaveCandidate, Finish,
                        Aside, PutSteps, CancelSteps, SweepSteps
    <2>5. QED BY <2>1, <2>2, <2>4, SameCatalogue
  <1>2. CASE Create(h)
    <2>1. UNCHANGED <<records, archive, scanning>>
      BY <1>2 DEF Create, SweepCandidate, SweepRow, SweepDelete, SweepUnlink, CheckAsset, CreateTask, dbVars, storageVars
    <2>2. OnlyMoves(h) /\ pc'[h] \in Aside
      <3>1. CASE SweepCandidate(h)
        BY <3>1 DEF TypeOK, SweepCandidate, Goto, OnlyMoves, Aside
      <3>2. CASE SweepRow(h)
        BY <3>2 DEF TypeOK, SweepRow, Goto, LeaveCandidate, OnlyMoves, Aside, SweepSteps
      <3>3. CASE SweepDelete(h)
        BY <3>3 DEF TypeOK, SweepDelete, Goto, Finish, OnlyMoves, Aside
      <3>4. CASE SweepUnlink(h)
        BY <3>4 DEF TypeOK, SweepUnlink, LeaveCandidate, OnlyMoves, Aside
      <3>5. CASE CreateTask(h)
        BY <3>5 DEF TypeOK, CreateTask, Finish, OnlyMoves, Aside
      <3>6. CASE CheckAsset(h)
        BY <3>6 DEF TypeOK, CheckAsset, Goto, Finish, OnlyMoves, Aside
      <3>7. QED BY <1>2, <3>1, <3>2, <3>3, <3>4, <3>5, <3>6 DEF Create
    <2>3. \A t \in Tasks: MovesOn(t)
      <3>1. CASE SweepDelete(h)
        BY <3>1 DEF TypeOK, SweepDelete, MovesOn
      <3>2. CASE CreateTask(h)
        BY <3>2 DEF TypeOK, CreateTask, Creatable, MovesOn, modelVars
      <3>3. CASE SweepCandidate(h) \/ SweepRow(h) \/ SweepUnlink(h) \/ CheckAsset(h)
        BY <3>3 DEF SweepCandidate, SweepRow, SweepUnlink, CheckAsset, MovesOn, dbVars, modelVars
      <3>4. QED BY <1>2, <3>1, <3>2, <3>3 DEF Create
    <2>4. QED BY <2>1, <2>2, <2>3 DEF NothingImported
  <1>3. QED BY <1>1, <1>2

LEMMA RequestsAside ==
    ASSUME TypeOK, TaskInv, NEW h \in Handlers, Put(h) \/ Cancel(h) \/ Begin(h) \/ Crash(h)
    PROVE  /\ OnlyMoves(h) /\ pc'[h] \in Aside
           /\ UNCHANGED <<records, archive, scanning>> /\ NothingImported
  <1>1. CASE Put(h)
    <2>1. UNCHANGED <<task, result, records, archive, scanning>>
      BY <1>1 DEF Put, PutValidate, PutInspect, PutStream, PutLink, PutUnlink, dbVars, storageVars
    <2>2. OnlyMoves(h) /\ pc'[h] \in Aside
      <3>1. CASE PutValidate(h) \/ PutLink(h) \/ PutUnlink(h)
        BY <3>1 DEF TypeOK, PutValidate, PutLink, PutUnlink, Goto, Finish, OnlyMoves, Aside, PutSteps
      <3>2. CASE PutInspect(h) \/ PutStream(h)
        BY <3>2 DEF TypeOK, PutInspect, PutStream, Goto, Finish, OnlyMoves, Aside, PutSteps
      <3>3. QED BY <1>1, <3>1, <3>2 DEF Put
    <2>3. \A t \in Tasks: MovesOn(t)
      <3>1. CASE UNCHANGED acked
        BY <2>1, <3>1 DEF MovesOn
      <3>2. CASE PutInspect(h) \/ PutUnlink(h)
        <4>1. task[target[h]] = "active" /\ \A t \in Tasks: t # target[h] => acked'[t] = acked[t]
          BY <3>2 DEF TaskInv, TaskWork, Writing, PutInspect, PutUnlink, TypeOK
        <4>2. QED BY <2>1, <4>1 DEF MovesOn
      <3>3. QED BY <1>1, <3>1, <3>2 DEF Put, PutValidate, PutStream, PutLink, modelVars
    <2>4. QED BY <2>1, <2>2, <2>3 DEF NothingImported
  <1>2. CASE Cancel(h)
    <2>1. UNCHANGED <<result, records, archive, scanning, acked>>
      BY <1>2 DEF Cancel, CancelRow, CleanStaging, dbVars, storageVars
    <2>2. OnlyMoves(h) /\ pc'[h] \in Aside
      BY <1>2 DEF TypeOK, Cancel, CancelRow, CleanStaging, Goto, Finish, OnlyMoves, Aside, CancelSteps
    <2>3. \A t \in Tasks: MovesOn(t)
      BY <1>2, <2>1 DEF TypeOK, Cancel, CancelRow, CleanStaging, Cancellable, TicketValid, Exists, MovesOn, dbVars
    <2>4. QED BY <2>1, <2>2, <2>3 DEF NothingImported
  <1>3. CASE Begin(h) \/ Crash(h)
    <2>1. UNCHANGED <<task, result, records, archive, scanning, acked>>
      BY <1>3 DEF Begin, BeginCreate, BeginPut, BeginCancel, BeginFinalize, StartRequest, Crash, dbVars, storageVars, modelVars
    <2>2. OnlyMoves(h) /\ pc'[h] \in Aside
      BY <1>3 DEF TypeOK, Begin, BeginCreate, BeginPut, BeginCancel, BeginFinalize, StartRequest, Crash, Goto, Finish,
                  OnlyMoves, Aside
    <2>3. QED BY <2>1, <2>2, SameCatalogue
  <1>4. QED BY <1>1, <1>2, <1>3

\* Its first steps, before anything is copied
LEMMA StartMoves ==
    ASSUME TypeOK, NEW h \in Handlers, FinalizeIndex(h) \/ FinalizeRow(h) \/ FinalizeAsset(h)
    PROVE  /\ OnlyMoves(h) /\ UNCHANGED <<task, result, records, acked, archive, scanning>>
           /\ work[h].todo = {} /\ work[h].done = {}
           /\ \/ pc'[h] \in {"idle", "fin_row", "fin_clean", "fin_asset"}
              \/ pc'[h] = "fin_preflight" /\ work'[h] = work[h] /\ AssetRowFree
  <1>1. UNCHANGED <<task, result, records, acked, archive, scanning>>
    BY DEF FinalizeIndex, FinalizeRow, FinalizeAsset, dbVars, storageVars, modelVars
  <1>2. work[h].todo = {} /\ work[h].done = {}
    BY DEF FinalizeIndex, FinalizeRow, FinalizeAsset, TypeOK, LocalsOK, LocalOK, PublishSteps
  <1>3. CASE FinalizeIndex(h)
    BY <1>1, <1>2, <1>3 DEF TypeOK, FinalizeIndex, Goto, Finish, OnlyMoves
  <1>4. CASE FinalizeRow(h)
    BY <1>1, <1>2, <1>4 DEF TypeOK, FinalizeRow, Goto, Finish, OnlyMoves
  <1>5. CASE FinalizeAsset(h)
    BY <1>1, <1>2, <1>5 DEF TypeOK, FinalizeAsset, Goto, Finish, OnlyMoves
  <1>6. QED BY <1>3, <1>4, <1>5

LEMMA PreflightMoves ==
    ASSUME TypeOK, NEW h \in Handlers, FinalizePreflight(h)
    PROVE  /\ OnlyMoves(h) /\ UNCHANGED <<task, result, records, acked, archive, scanning>>
           /\ \/ pc'[h] = "idle"
              \/ /\ pc'[h] = "fin_copy" /\ work'[h].done = {} /\ target'[h] = target[h]
                 /\ \A p \in work'[h].todo: archive[p] = Absent /\ records[p] = Absent
  <1>1. UNCHANGED <<task, result, records, acked, archive, scanning>>
    BY DEF FinalizePreflight, dbVars, storageVars, modelVars
  <1>2. work[h].done = {}
    BY DEF FinalizePreflight, TypeOK, LocalsOK, LocalOK, PublishSteps
  <1>3. CASE Finish(h)
    BY <1>1, <1>3, FinishMoves
  <1>4. CASE /\ Ready(target[h]) /\ Goto(h, "fin_copy") /\ UNCHANGED <<op, target, fd>>
             /\ work' = [work EXCEPT ![h].snapshot = staging[target[h]], ![h].todo = Staged(target[h])]
    <2>1. /\ OnlyMoves(h) /\ pc'[h] = "fin_copy" /\ work'[h].done = work[h].done /\ target'[h] = target[h]
          /\ work'[h].todo = Staged(target[h])
      BY <1>4 DEF TypeOK, Work, Goto, OnlyMoves
    <2>2. QED BY <1>1, <1>2, <1>4, <2>1 DEF Ready
  <1>5. QED BY <1>3, <1>4 DEF FinalizePreflight

\* The copy loop and the compensation, one file each
LEMMA PublishMoves ==
    ASSUME TypeOK, NEW h \in Handlers,
           PublishStart(h) \/ PublishFill(h) \/ PublishDone(h) \/ FinalizeVerify(h) \/ RollbackFile(h)
    PROVE  /\ OnlyMoves(h) /\ UNCHANGED <<task, result, records, acked, scanning>>
           /\ work'[h].todo \cup work'[h].done \subseteq work[h].todo \cup work[h].done
           /\ pc[h] \in PublishSteps /\ pc'[h] \in PublishSteps /\ (pc[h] = "fin_undo" => pc'[h] = "fin_undo")
           /\ target'[h] = target[h] /\ work'[h].snapshot = work[h].snapshot
           /\ pc'[h] = "fin_commit" => NoDuplicates(h)'
  <1>1. UNCHANGED <<task, result, records, acked, scanning>>
    BY DEF PublishStart, PublishFill, PublishDone, FinalizeVerify, RollbackFile, dbVars, storageVars, modelVars
  <1>2. work[h] \in Work /\ work \in [Handlers -> Work] /\ pc \in [Handlers -> Steps]
    BY DEF TypeOK
  <1>3. CASE PublishStart(h)
    <2>1. PICK s \in {"fin_fill", "fin_rollback"}, w \in {work[h]} \cup {[work[h] EXCEPT !.path = p]: p \in work[h].todo}:
             Goto(h, s) /\ work' = [work EXCEPT ![h] = w]
      BY <1>2, <1>3 DEF PublishStart
    <2>2. w.todo = work[h].todo /\ w.done = work[h].done /\ w.snapshot = work[h].snapshot
      BY <1>2 DEF Work
    <2>3. QED BY <1>1, <1>2, <1>3, <2>1, <2>2 DEF PublishStart, Goto, OnlyMoves, PublishSteps
  <1>4. CASE PublishFill(h)
    <2> DEFINE p == work[h].path
    <2>1. PICK s \in {"fin_copy", "fin_rollback"},
               w \in {work[h], [work[h] EXCEPT !.todo = work[h].todo \ {p}, !.done = work[h].done \cup {p}]}:
             Goto(h, s) /\ work' = [work EXCEPT ![h] = w]
      BY <1>2, <1>4 DEF PublishFill
    <2>2. p \in work[h].todo
      BY <1>4 DEF PublishFill, TypeOK, LocalsOK, LocalOK
    <2>3. /\ w.todo \cup w.done \subseteq work[h].todo \cup work[h].done /\ w.snapshot = work[h].snapshot
      <3>1. CASE w = work[h]
        BY <3>1
      <3>2. CASE w = [work[h] EXCEPT !.todo = work[h].todo \ {p}, !.done = work[h].done \cup {p}]
        <4>1. /\ w.todo = work[h].todo \ {p} /\ w.done = work[h].done \cup {p}
              /\ w.snapshot = work[h].snapshot
          BY <1>2, <3>2 DEF Work
        <4>2. QED BY <2>2, <4>1
      <3>3. QED BY <3>1, <3>2
    <2>4. QED BY <1>1, <1>2, <1>4, <2>1, <2>3 DEF PublishFill, Goto, OnlyMoves, PublishSteps
  <1>5. CASE PublishDone(h)
    BY <1>1, <1>2, <1>5 DEF PublishDone, Goto, OnlyMoves, PublishSteps
  <1>6. CASE FinalizeVerify(h)
    BY <1>1, <1>2, <1>6 DEF FinalizeVerify, Goto, OnlyMoves, PublishSteps, NoDuplicates
  <1>7. CASE RollbackFile(h)
    <2>1. PICK p \in work[h].done: work' = [work EXCEPT ![h] = [work[h] EXCEPT !.done = work[h].done \ {p}]]
      BY <1>7 DEF RollbackFile
    <2>2. QED BY <1>1, <1>2, <1>7, <2>1 DEF RollbackFile, OnlyMoves, Work, PublishSteps
  <1>8. QED BY <1>3, <1>4, <1>5, <1>6, <1>7

\* The set of pairs has one for each file.
LEMMA PairsCount ==
    ASSUME NEW S, IsFiniteSet(S), NEW f
    PROVE  Cardinality({<<p, f[p]>>: p \in S}) = Cardinality(S)
  <1> DEFINE T == {<<p, f[p]>>: p \in S}
             b == [p \in S |-> <<p, f[p]>>]
  <1>1. b \in Bijection(S, T)
    <2>1. b \in [S -> T]
      OBVIOUS
    <2>2. \A p, q \in S: b[p] = b[q] => p = q
      OBVIOUS
    <2>3. \A x \in T: \E p \in S: b[p] = x
      OBVIOUS
    <2> HIDE DEF b, T
    <2>4. QED BY <2>1, <2>2, <2>3 DEF Bijection, Injection, Surjection, IsInjective
  <1>2. QED BY <1>1, FS_Bijection DEF ExistsBijection

\* The transaction of an import: all files of the task at once
LEMMA CatalogueImport ==
    ASSUME TypeOK, TaskInv, CatalogueInv, NEW h \in Handlers, pc[h] = "fin_commit", RecordImport(h), UNCHANGED <<acked>>
    PROVE  ContentOnce' /\ ImportedWhole'
  <1>1. PICK t \in Tasks: t = target[h]
    BY TargetType, TypeParts
  <1> DEFINE done == work[h].done
             c(p) == work[h].snapshot[p].content
  <1>2. /\ TaskWork("fin_commit", op[h], t, work[h]) /\ task[t] = "active"
        /\ NoDuplicates(h) /\ \A p \in done: records[p] = Absent
    BY <1>1 DEF TaskInv, TaskWork, Importing, Copying, CatalogueInv, HoldsAssetRow, PublishSteps
  <1>3. /\ done = Snapped(work[h]) /\ done \subseteq Paths /\ \A p \in done: c(p) # Nothing
        /\ \A f \in acked[t]: c(f[1]) = f[2]
        /\ Mode[t] = "agent" /\ Manifest[t] # Nothing => IsFiniteSet(done) /\ Cardinality(done) = Manifest[t].count
    BY <1>2 DEF TaskWork, SnapshotWhole, Snapped, Copying
  <1>4. /\ \A p \in done: records'[p].content = c(p) /\ records'[p].by = t
        /\ \A p \in Paths \ done: records'[p] = records[p]
        /\ task'[t] = "completed" /\ result'[t] = {<<p, c(p)>>: p \in done}
        /\ \A u \in Tasks: u # t => task'[u] = task[u] /\ result'[u] = result[u]
    BY <1>1, <1>3 DEF RecordImport, Published, TypeOK
  <1>5. ContentOnce'
    <2> SUFFICES ASSUME NEW p \in Paths, NEW q \in Paths, p # q, records'[p].content = records'[q].content
                 PROVE  records'[p] = Absent
      BY DEF ContentOnce
    <2>1. CASE p \in done /\ q \in done
      BY <1>2, <1>4, <2>1 DEF NoDuplicates
    <2>2. CASE (p \in done /\ q \notin done) \/ (p \notin done /\ q \in done)
      BY <1>2, <1>4, <2>2 DEF NoDuplicates
    <2>3. CASE p \notin done /\ q \notin done
      BY <1>4, <2>3 DEF CatalogueInv, ContentOnce
    <2>4. QED BY <2>1, <2>2, <2>3
  <1>6. ASSUME NEW u \in Tasks
        PROVE  /\ task'[u] = "completed" =>
                    /\ FromTask(u)' = result'[u]
                    /\ acked'[u] \subseteq result'[u]
                    /\ Mode[u] = "agent" /\ Manifest[u] # Nothing =>
                         Cardinality(result'[u]) = Manifest[u].count
               /\ task'[u] \in {"none", "active", "cancelled"} => FromTask(u)' = {}
    <2>1. CASE u # t
      <3>1. \A p \in Paths: /\ records'[p].by = u <=> records[p].by = u
                            /\ records[p].by = u => records'[p] = records[p]
        BY <1>2, <1>4, <2>1, DistinctValues DEF Absent
      <3>2. FromTask(u)' = FromTask(u)
        BY <3>1 DEF FromTask
      <3>3. QED BY <1>4, <2>1, <3>2 DEF CatalogueInv, ImportedWhole
    <2>2. CASE u = t
      <3>1. ASSUME NEW p \in Paths, records[p].by = t PROVE FALSE
        <4>1. <<p, records[p].content>> \in FromTask(t)
          BY <3>1 DEF FromTask
        <4>2. QED BY <1>2, <4>1 DEF CatalogueInv, ImportedWhole
      <3>2. {p \in Paths: records'[p].by = t} = done
        BY <1>3, <1>4, <3>1
      <3>3. FromTask(t)' = result'[t]
        BY <1>4, <3>2 DEF FromTask
      <3>4. acked[t] \subseteq result'[t]
        <4> SUFFICES ASSUME NEW f \in acked[t] PROVE f \in result'[t]
          OBVIOUS
        <4>1. f[1] \in Paths /\ f[2] \in Contents /\ f = <<f[1], f[2]>>
          BY DEF TypeOK, UploadedFile
        <4>2. f[1] \in done /\ c(f[1]) = f[2]
          BY <1>3, <4>1, NotNothing DEF Snapped
        <4>3. QED BY <1>4, <4>1, <4>2
      <3>5. Mode[t] = "agent" /\ Manifest[t] # Nothing => Cardinality(result'[t]) = Manifest[t].count
        <4> DEFINE d == done
                   f == [p \in Paths |-> c(p)]
        <4>1. result'[t] = {<<p, f[p]>>: p \in d}
          BY <1>3, <1>4
        <4> HIDE DEF d, f
        <4>2. IsFiniteSet(d) => Cardinality({<<p, f[p]>>: p \in d}) = Cardinality(d)
          BY PairsCount
        <4>3. QED BY <1>3, <4>1, <4>2 DEF d
      <3>6. QED BY <1>4, <2>2, <3>3, <3>4, <3>5
    <2>3. QED BY <2>1, <2>2
  <1>7. QED BY <1>5, <1>6 DEF ImportedWhole

LEMMA CatalogueFinalize ==
    ASSUME TypeOK, TaskInv, CatalogueInv, NEW h \in Handlers, Finalize(h)
    PROVE  CatalogueInv'
  <1>1. CASE FinalizeIndex(h) \/ FinalizeRow(h) \/ FinalizeAsset(h)
    BY <1>1, StartMoves, SameCatalogue, CatalogueStep DEF HoldsAssetRow, PublishSteps
  <1>2. CASE FinalizePreflight(h)
    BY <1>2, PreflightMoves, SameCatalogue, CatalogueStep DEF FinalizePreflight, HoldsAssetRow, PublishSteps
  <1>3. CASE PublishStart(h) \/ PublishFill(h) \/ PublishDone(h) \/ FinalizeVerify(h) \/ RollbackFile(h)
    <2>1. HoldsAssetRow(h)' => HoldsAssetRow(h)
      BY <1>3, PublishMoves DEF HoldsAssetRow
    <2>2. HoldsAssetRow(h) => \A p \in work'[h].todo \cup work'[h].done: records[p] = Absent
      BY <1>3, PublishMoves DEF CatalogueInv
    <2>3. QED BY <1>3, <2>1, <2>2, PublishMoves, SameCatalogue, CatalogueStep
  <1>4. CASE RollbackDone(h)
    <2>1. UNCHANGED <<task, result, records, acked>>
      BY <1>4 DEF RollbackDone, dbVars, modelVars
    <2>2. OnlyMoves(h) /\ pc'[h] = "idle"
      BY <1>4, FinishMoves DEF RollbackDone
    <2>3. QED BY <2>1, <2>2, SameCatalogue, CatalogueLeft, AssetStepNames
  <1>5. CASE FinalizeCommit(h)
    <2>1. UNCHANGED <<acked, op, target, work>> /\ pc[h] = "fin_commit" /\ HoldsAssetRow(h)
      BY <1>5 DEF FinalizeCommit, HoldsAssetRow, PublishSteps
    <2>2. ASSUME NEW s \in {"fin_clean", "fin_undo"}, Goto(h, s), RecordImport(h) \/ UNCHANGED <<records, task, result>>
          PROVE  CatalogueInv'
      <3>1. OnlyMoves(h) /\ pc'[h] = s
        BY <2>1, <2>2 DEF TypeOK, Goto, OnlyMoves
      <3>2. CASE UNCHANGED <<records, task, result>>
        BY <2>1, <3>1, <3>2, SameCatalogue, CatalogueLeft, AssetStepNames
      <3>3. CASE RecordImport(h)
        <4>1. \A g \in Handlers: ~HoldsAssetRow(g)'
          BY <2>1, <3>1 DEF CatalogueInv, OnlyMoves, HoldsAssetRow, PublishSteps
        <4>2. \A g \in Handlers: pc'[g] # "fin_commit"
          BY <4>1 DEF HoldsAssetRow, PublishSteps
        <4>3. QED BY <2>1, <3>3, <4>1, <4>2, CatalogueImport DEF CatalogueInv
      <3>4. QED BY <2>2, <3>2, <3>3
    <2>3. QED BY <1>5, <2>2 DEF FinalizeCommit
  <1>6. QED BY <1>1, <1>2, <1>3, <1>4, <1>5 DEF Finalize

\* The handlers' stutter, and what others do around them
LEMMA CatalogueAround ==
    ASSUME CatalogueInv, UNCHANGED <<task, result, records, acked, pc, op, target, work>>
    PROVE  CatalogueInv'
  BY DEF CatalogueInv, HoldsAssetRow, NoDuplicates, ContentOnce, ImportedWhole, FromTask

\* One finalization at a time publishes into the asset, at free paths and with
\* new contents, and imports all files of its task or none.
THEOREM CatalogueCorrect == Spec => []CatalogueInv
  <1>1. TypeOK /\ TaskInv /\ CatalogueInv /\ [Next]_vars => CatalogueInv'
    <2> SUFFICES ASSUME TypeOK, TaskInv, CatalogueInv, [Next]_vars PROVE CatalogueInv'
      OBVIOUS
    <2>1. CASE UNCHANGED vars
      BY <2>1, CatalogueAround DEF vars, dbVars, storageVars, handlerVars, modelVars
    <2>2. CASE Environment
      <3>1. UNCHANGED <<task, result, records, acked, pc, op, target, work>>
        BY <2>2 DEF Environment, Expire, ScpMark, ScpWrite, ExternalWrite, SetAssetArchived, ScanBegins, ScanEnds,
               dbVars, storageVars, handlerVars, modelVars
      <3>2. QED BY <3>1, CatalogueAround
    <2>3. ASSUME NEW h \in Handlers, Guard(h) \/ Create(h) PROVE CatalogueInv'
      BY <2>3, SweepsAside, CatalogueLeft, AsideNames
    <2>4. ASSUME NEW h \in Handlers, Put(h) \/ Cancel(h) \/ Begin(h) \/ Crash(h) PROVE CatalogueInv'
      BY <2>4, RequestsAside, CatalogueLeft, AsideNames
    <2>5. QED BY <2>1, <2>2, <2>3, <2>4, CatalogueFinalize DEF Next, HandlerStep
  <1>2. QED BY <1>1, CatalogueInit, TypeCorrect, TasksCorrect, PTL DEF Spec

\* No two imported files of the asset have the same content (README.md:244).
THEOREM ContentOnceAlways == Spec => []ContentOnce
  <1>1. CatalogueInv => ContentOnce
    BY DEF CatalogueInv
  <1>2. QED BY <1>1, CatalogueCorrect, PTL

\* A completed task is in the index with all its files, an uncompleted one with none.
THEOREM ImportedWholeAlways == Spec => []ImportedWhole
  <1>1. CatalogueInv => ImportedWhole
    BY DEF CatalogueInv
  <1>2. QED BY <1>1, CatalogueCorrect, PTL

-----------------------------------------------------------------------------
(* The refinement of UploadPromise *)

LEMMA SamePromise == UNCHANGED <<task, records>> => UNCHANGED Promise!vars
  BY DEF Promise!vars

\* The transaction of an import is the one step that the promise has for it.
LEMMA ImportPromised ==
    ASSUME TypeOK, TaskInv, CatalogueInv, NEW h \in Handlers, pc[h] = "fin_commit", RecordImport(h)
    PROVE  Promise!Next
  <1>1. PICK t \in Tasks: t = target[h]
    BY TargetType, TypeParts
  <1> DEFINE new == work[h].done
             files == [p \in new |-> work[h].snapshot[p].content]
  <1>2. /\ TaskWork("fin_commit", op[h], t, work[h]) /\ task[t] = "active"
        /\ NoDuplicates(h) /\ \A p \in new: records[p] = Absent
    BY <1>1 DEF TaskInv, TaskWork, Importing, Copying, CatalogueInv, HoldsAssetRow, PublishSteps
  <1>3. new = Snapped(work[h]) /\ new # {} /\ new \subseteq Paths
    BY <1>2 DEF TaskWork, SnapshotWhole, Snapped, Copying
  <1>4. \A p \in new: files[p] \in Contents \ Promise!Known
    <2> SUFFICES ASSUME NEW p \in new PROVE files[p] \in Contents /\ files[p] \notin Promise!Known
      OBVIOUS
    <2>1. p \in Paths /\ files[p] = work[h].snapshot[p].content /\ files[p] # Nothing
      BY <1>3 DEF Snapped
    <2>2. work[h].snapshot[p] \in StagedFile
      BY <2>1 DEF TypeOK, Work
    <2>3. files[p] \in Contents
      BY <2>1, <2>2 DEF StagedFile
    <2>4. \A q \in Paths: records[q].content # files[p]
      BY <1>2, <2>1 DEF NoDuplicates
    <2>5. QED BY <2>3, <2>4 DEF Promise!Known
  <1>5. \A p, q \in new: files[p] = files[q] => p = q
    BY <1>2 DEF NoDuplicates
  <1>6. records' = [p \in Paths |-> IF p \in new THEN [content |-> files[p], by |-> t] ELSE records[p]]
    BY <1>1 DEF RecordImport
  <1>7. task' = [task EXCEPT ![t] = "completed"]
    BY <1>1 DEF RecordImport
  <1>8. new \in (SUBSET {p \in Paths: records[p] = Promise!Absent}) \ {{}}
    BY <1>2, <1>3 DEF Absent, Promise!Absent
  <1>9. files \in [new -> Contents \ Promise!Known]
    BY <1>4
  <1> HIDE DEF new, files
  <1>10. Promise!Import(t)
    BY <1>2, <1>5, <1>6, <1>7, <1>8, <1>9 DEF Promise!Import
  <1>11. QED BY <1>10 DEF Promise!Next

LEMMA StepsPromised ==
    ASSUME TypeOK, GuardInv, TaskInv, CatalogueInv, [Next]_vars
    PROVE  [Promise!Next]_(Promise!vars)
  <1>1. CASE UNCHANGED vars
    BY <1>1, SamePromise DEF vars, dbVars
  <1>2. CASE Environment
    BY <1>2, SamePromise DEF Environment, Expire, ScpMark, ScpWrite, ExternalWrite, SetAssetArchived, ScanBegins,
                             ScanEnds, dbVars
  <1>3. ASSUME NEW h \in Handlers, Guard(h) \/ Put(h) \/ Begin(h) \/ Crash(h)
        PROVE  UNCHANGED Promise!vars
    BY <1>3, SamePromise DEF Guard, OpenLock, EnterGuard, LockRefused, Put, PutValidate, PutInspect, PutStream, PutLink,
        PutUnlink, Begin, BeginCreate, BeginPut, BeginCancel, BeginFinalize, StartRequest, Crash, dbVars
  <1>4. ASSUME NEW h \in Handlers, Create(h) PROVE [Promise!Next]_(Promise!vars)
    <2>1. CASE UNCHANGED <<task, records>>
      BY <2>1, SamePromise
    <2>2. ASSUME NEW t \in Tasks, Creatable(t), task' = [task EXCEPT ![t] = "active"], UNCHANGED records
          PROVE  Promise!Next
      BY <2>2 DEF Creatable, Promise!Next, Promise!Create
    <2>3. CASE SweepDelete(h) /\ task' = [task EXCEPT ![target[h]] = "deleted"]
      <3>1. PICK t \in Tasks: t = target[h]
        BY <2>3, TargetType, TypeParts DEF SweepDelete
      <3>2. Exists(t)
        BY <2>3, <3>1 DEF SweepDelete, GuardInv, GuardLocal, HasRow
      <3>3. Promise!Expire(t)
        BY <2>3, <3>1, <3>2 DEF SweepDelete, Exists, Promise!Expire
      <3>4. QED BY <3>3 DEF Promise!Next
    <2>4. QED BY <1>4, <2>1, <2>2, <2>3 DEF Create, SweepCandidate, SweepRow, SweepDelete, SweepUnlink, CheckAsset, CreateTask, dbVars
  <1>5. ASSUME NEW h \in Handlers, Cancel(h) PROVE [Promise!Next]_(Promise!vars)
    <2>1. CASE UNCHANGED <<task, records>>
      BY <2>1, SamePromise
    <2>2. CASE CancelRow(h) /\ Cancellable(target[h]) /\ task' = [task EXCEPT ![target[h]] = "cancelled"]
      <3>1. PICK t \in Tasks: t = target[h]
        BY <2>2, TargetType, TypeParts DEF CancelRow
      <3>2. UNCHANGED records
        BY <2>2 DEF CancelRow
      <3>3. CASE task[t] = "active"
        <4>1. Promise!Cancel(t)
          BY <2>2, <3>1, <3>2, <3>3 DEF Promise!Cancel
        <4>2. QED BY <4>1 DEF Promise!Next
      <3>4. CASE task[t] = "cancelled"
        BY <2>1, <2>2, <3>1, <3>2, <3>4 DEF TypeOK
      <3>5. QED BY <2>2, <3>1, <3>3, <3>4 DEF Cancellable, TicketValid, Exists
    <2>3. QED BY <1>5, <2>1, <2>2 DEF Cancel, CancelRow, CleanStaging, dbVars
  <1>6. ASSUME NEW h \in Handlers, Finalize(h) PROVE [Promise!Next]_(Promise!vars)
    <2>1. CASE UNCHANGED <<task, records>>
      BY <2>1, SamePromise
    <2>2. CASE FinalizeCommit(h)
      BY <2>1, <2>2, ImportPromised DEF FinalizeCommit
    <2>3. QED
      BY <1>6, <2>1, <2>2 DEF Finalize, FinalizeIndex, FinalizeRow, FinalizeAsset, FinalizePreflight, PublishStart,
         PublishFill, PublishDone, FinalizeVerify, RollbackFile, RollbackDone, dbVars
  <1>7. QED BY <1>1, <1>2, <1>3, <1>4, <1>5, <1>6 DEF Next, HandlerStep

\* Upload tasks implement UploadPromise: a task ends once, and the catalogue changes
\* only by importing a whole task in one step.
THEOREM PromiseKept == Spec => PromiseSpec
  <1>1. Init => Promise!Init
    BY DEF Init, Promise!Init, Absent, Promise!Absent
  <1>2. QED
    BY <1>1, StepsPromised, TypeCorrect, GuardCorrect, TasksCorrect, CatalogueCorrect, PTL
       DEF Spec, PromiseSpec, Promise!Spec

-----------------------------------------------------------------------------
(* CopiesInv: the copies of one finalization *)

\* The three kinds of step that leave archive and records alone
Quiet(h) == Guard(h) \/ Create(h) \/ Put(h) \/ Cancel(h) \/ Begin(h)
Starts(h) == FinalizeIndex(h) \/ FinalizeRow(h) \/ FinalizeAsset(h) \/ FinalizePreflight(h)

LEMMA QuietMoves ==
    ASSUME TypeOK, TaskInv, NEW h \in Handlers, Quiet(h) \/ Crash(h)
    PROVE  OnlyMoves(h) /\ pc'[h] \notin PublishSteps /\ UNCHANGED <<records, archive, scanning>>
  <1>1. Aside \cap PublishSteps = {}
    BY DEF Aside, PutSteps, CancelSteps, SweepSteps, PublishSteps
  <1>2. QED BY <1>1, SweepsAside, RequestsAside DEF Quiet

LEMMA QuietCopies ==
    ASSUME NEW h, Quiet(h) \/ Starts(h)
    PROVE  pc[h] \notin PublishSteps
  <1>1. CASE Quiet(h)
    BY <1>1 DEF Quiet, Guard, OpenLock, EnterGuard, LockRefused, Create, SweepCandidate, SweepRow, SweepDelete, SweepUnlink,
           CheckAsset, CreateTask, Put, PutValidate, PutInspect, PutStream, PutLink, PutUnlink, Cancel, CancelRow,
           CleanStaging, Begin, BeginCreate, BeginPut, BeginCancel, BeginFinalize, StartRequest, PublishSteps
  <1>2. CASE Starts(h)
    BY <1>2 DEF Starts, FinalizeIndex, FinalizeRow, FinalizeAsset, FinalizePreflight, PublishSteps
  <1>3. QED BY <1>1, <1>2

LEMMA StartsMove ==
    ASSUME TypeOK, NEW h \in Handlers, Starts(h)
    PROVE  /\ OnlyMoves(h) /\ UNCHANGED <<records, archive, scanning>>
           /\ pc'[h] \in PublishSteps => pc'[h] = "fin_copy" /\ work'[h].done = {}
  <1>1. CASE FinalizePreflight(h)
    BY <1>1, PreflightMoves DEF PublishSteps
  <1>2. CASE FinalizeIndex(h) \/ FinalizeRow(h) \/ FinalizeAsset(h)
    BY <1>2, StartMoves DEF PublishSteps
  <1>3. QED BY <1>1, <1>2 DEF Starts

\* A step of h that leaves the copies of the others alone
LEMMA CopiesStep ==
    ASSUME CopiesInv, NEW h \in Handlers, OnlyMoves(h), CopiesThere(h)',
           \A g \in Handlers \ {h}: \A q \in Copies(g): archive'[q] = archive[q] /\ q \notin Copies(h)'
    PROVE  CopiesInv'
  <1>1. ASSUME NEW g \in Handlers \ {h}
        PROVE  CopiesThere(g)' /\ Copies(g)' = Copies(g)
    <2>1. pc'[g] = pc[g] /\ target'[g] = target[g] /\ work'[g] = work[g]
      BY DEF OnlyMoves
    <2>2. Copies(g)' = Copies(g)
      BY <2>1 DEF Copies
    <2>3. CopiesThere(g) /\ \A q \in Copies(g): archive'[q] = archive[q]
      BY DEF CopiesInv
    <2>4. /\ pc[g] \in PublishSteps => \A q \in work[g].done: archive'[q] = archive[q]
          /\ pc[g] = "fin_fill" => archive'[work[g].path] = archive[work[g].path]
      BY <2>3 DEF Copies, PublishSteps
    <2>5. CopiesThere(g)'
      BY <2>1, <2>3, <2>4 DEF CopiesThere, StillMine
    <2>6. QED BY <2>2, <2>5
  <1>2. \A g \in Handlers: CopiesThere(g)'
    BY <1>1
  <1>3. ASSUME NEW g \in Handlers, NEW k \in Handlers, g # k PROVE (Copies(g) \cap Copies(k) = {})'
    <2>1. CASE g # h /\ k # h
      BY <1>1, <1>3, <2>1 DEF CopiesInv
    <2>2. CASE g = h
      BY <1>1, <1>3, <2>2
    <2>3. CASE k = h
      BY <1>1, <1>3, <2>3
    <2>4. QED BY <2>1, <2>2, <2>3
  <1>4. QED BY <1>2, <1>3 DEF CopiesInv

\* Where the archive stays and h has no more copies than before, only its own count.
LEMMA CopiesElsewhere ==
    ASSUME CopiesInv, NEW h \in Handlers, OnlyMoves(h), UNCHANGED archive, CopiesThere(h)',
           Copies(h)' \subseteq Copies(h)
    PROVE  CopiesInv'
  <1>1. \A g \in Handlers \ {h}: \A q \in Copies(g): q \notin Copies(h)'
    BY DEF CopiesInv
  <1>2. QED BY <1>1, CopiesStep

LEMMA NoCopies ==
    ASSUME CopiesInv, NEW h \in Handlers, OnlyMoves(h), UNCHANGED archive,
           pc'[h] \in PublishSteps => pc'[h] # "fin_fill" /\ work'[h].done = {}
    PROVE  CopiesInv'
  <1>1. Copies(h)' = {} /\ CopiesThere(h)'
    BY DEF Copies, CopiesThere, PublishSteps
  <1>2. QED BY <1>1, CopiesElsewhere

\* A finished copy, a copy in progress and a free path are three different things.
LEMMA FileKinds ==
    ASSUME TypeOK, NEW h \in Handlers, NEW p \in work[h].todo \cup work[h].done
    PROVE  /\ p \in Paths /\ work[h].snapshot[p].content \in Contents
           /\ Absent.by = Nothing /\ Absent.content = Nothing /\ Nothing # External /\ Nothing \notin Contents
           /\ Partial \notin Contents \cup {Nothing} /\ External \notin Tasks /\ Nothing \notin Tasks
  <1>1. work[h] \in Work /\ work[h].snapshot[p].content # Nothing
    BY DEF TypeOK, LocalsOK, LocalOK
  <1>2. p \in Paths /\ work[h].snapshot[p] \in StagedFile
    BY <1>1 DEF Work
  <1>3. QED BY <1>1, <1>2, DistinctValues DEF StagedFile, Absent

LEMMA LeftGrows ==
    ASSUME TypeOK, UNCHANGED failures \/ Fails \/ \E p: LeavesFile(p)
    PROVE  failures.left \subseteq failures'.left
  BY DEF TypeOK, Fails, LeavesFile

\* The file effects of a finalization, as facts about each path
LEMMA StartFile ==
    ASSUME TypeOK, NEW h \in Handlers, PublishStart(h)
    PROVE  /\ OnlyMoves(h) /\ UNCHANGED <<records, scanning>> /\ target'[h] = target[h]
           /\ work'[h].done = work[h].done /\ work'[h].snapshot = work[h].snapshot
           /\ pc[h] = "fin_copy" /\ failures'.left = failures.left
           /\ \/ pc'[h] = "fin_rollback" /\ UNCHANGED archive
              \/ \E p \in work[h].todo:
                    /\ archive[p] = Absent /\ pc'[h] = "fin_fill" /\ work'[h].path = p
                    /\ archive'[p] = [content |-> Partial, by |-> target[h]]
                    /\ \A q \in Paths \ {p}: archive'[q] = archive[q]
  <1>1. work[h] \in Work /\ work \in [Handlers -> Work] /\ pc \in [Handlers -> Steps] /\ archive \in [Paths -> ArchiveFile]
    BY DEF TypeOK
  <1>2. UNCHANGED <<op, target, records, scanning>> /\ pc[h] = "fin_copy"
    BY DEF PublishStart, dbVars
  <1>3. failures'.left = failures.left
    BY DEF PublishStart, Fails, TypeOK
  <1>4. CASE Goto(h, "fin_rollback") /\ UNCHANGED <<archive, work>>
    BY <1>1, <1>2, <1>3, <1>4 DEF Goto, OnlyMoves
  <1>5. ASSUME NEW p \in work[h].todo, archive[p] = Absent, work' = [work EXCEPT ![h] = [work[h] EXCEPT !.path = p]],
               archive' = [archive EXCEPT ![p] = [content |-> Partial, by |-> target[h]]], Goto(h, "fin_fill")
        PROVE  /\ OnlyMoves(h) /\ work'[h].done = work[h].done
               /\ work'[h].snapshot = work[h].snapshot /\ pc'[h] = "fin_fill" /\ work'[h].path = p
               /\ archive'[p] = [content |-> Partial, by |-> target[h]]
               /\ \A q \in Paths \ {p}: archive'[q] = archive[q]
    BY <1>1, <1>2, <1>5 DEF Work, Goto, OnlyMoves
  <1>6. CASE \E p \in work[h].todo:
               /\ archive[p] = Absent /\ work' = [work EXCEPT ![h] = [work[h] EXCEPT !.path = p]]
               /\ archive' = [archive EXCEPT ![p] = [content |-> Partial, by |-> target[h]]] /\ Goto(h, "fin_fill")
    BY <1>2, <1>3, <1>5, <1>6
  <1>7. QED BY <1>4, <1>6 DEF PublishStart

LEMMA FillFile ==
    ASSUME TypeOK, NEW h \in Handlers, PublishFill(h)
    PROVE  /\ OnlyMoves(h) /\ UNCHANGED <<records, scanning>> /\ target'[h] = target[h]
           /\ work'[h].snapshot = work[h].snapshot /\ work[h].path \in work[h].todo /\ pc[h] = "fin_fill"
           /\ failures.left \subseteq failures'.left
           /\ \A q \in Paths \ {work[h].path}: archive'[q] = archive[q]
           /\ \/ /\ pc'[h] = "fin_rollback" /\ work'[h] = work[h]
                 /\ \/ archive'[work[h].path] = Absent
                    \/ archive'[work[h].path] = archive[work[h].path] /\ work[h].path \in failures'.left
              \/ /\ pc'[h] = "fin_copy" /\ work'[h].done = work[h].done \cup {work[h].path}
                 /\ IF archive[work[h].path] = [content |-> Partial, by |-> target[h]]
                      THEN archive'[work[h].path] =
                             [content |-> work[h].snapshot[work[h].path].content, by |-> target[h]]
                      ELSE archive'[work[h].path] = archive[work[h].path]
  <1> DEFINE p == work[h].path
  <1>1. work[h] \in Work /\ work \in [Handlers -> Work] /\ pc \in [Handlers -> Steps] /\ archive \in [Paths -> ArchiveFile]
    BY DEF TypeOK
  <1>2. UNCHANGED <<op, target, records, scanning>> /\ pc[h] = "fin_fill"
    BY DEF PublishFill, dbVars
  <1>3. p \in work[h].todo /\ p \in Paths
    BY <1>1, <1>2 DEF TypeOK, LocalsOK, LocalOK, Work
  <1>4. failures.left \subseteq failures'.left
    BY LeftGrows DEF PublishFill
  <1>5. CASE /\ Goto(h, "fin_rollback") /\ UNCHANGED work
             /\ archive' = [archive EXCEPT ![p] = Absent] \/ (UNCHANGED archive /\ LeavesFile(p))
    <2>1. OnlyMoves(h) /\ pc'[h] = "fin_rollback" /\ work'[h] = work[h] /\ \A q \in Paths \ {p}: archive'[q] = archive[q]
      BY <1>1, <1>2, <1>3, <1>5 DEF Goto, OnlyMoves
    <2>2. archive'[p] = Absent \/ (archive'[p] = archive[p] /\ p \in failures'.left)
      BY <1>1, <1>3, <1>5 DEF LeavesFile
    <2>3. QED BY <1>2, <1>3, <1>4, <1>5, <2>1, <2>2
  <1>6. CASE /\ Goto(h, "fin_copy")
             /\ work' = [work EXCEPT ![h] = [work[h] EXCEPT !.todo = work[h].todo \ {p}, !.done = work[h].done \cup {p}]]
             /\ staging[target[h]][p] = work[h].snapshot[p]
             /\ archive' = IF archive[p] = [content |-> Partial, by |-> target[h]]
                             THEN [archive EXCEPT ![p] = [archive[p] EXCEPT !.content = staging[target[h]][p].content]]
                             ELSE archive
    <2>1. /\ work'[h].done = work[h].done \cup {p} /\ work'[h].snapshot = work[h].snapshot
          /\ OnlyMoves(h) /\ pc'[h] = "fin_copy"
      BY <1>1, <1>2, <1>6 DEF Work, Goto, OnlyMoves
    <2>2. /\ \A q \in Paths \ {p}: archive'[q] = archive[q]
          /\ IF archive[p] = [content |-> Partial, by |-> target[h]]
               THEN archive'[p] = [content |-> work[h].snapshot[p].content, by |-> target[h]]
               ELSE archive'[p] = archive[p]
      BY <1>1, <1>3, <1>6
    <2>3. QED BY <1>2, <1>3, <1>4, <2>1, <2>2
  <1>7. QED BY <1>5, <1>6 DEF PublishFill

LEMMA RollFile ==
    ASSUME TypeOK, NEW h \in Handlers, RollbackFile(h)
    PROVE  /\ OnlyMoves(h) /\ UNCHANGED <<records, scanning>> /\ target'[h] = target[h] /\ pc'[h] = pc[h]
           /\ work'[h].snapshot = work[h].snapshot /\ pc[h] \in {"fin_rollback", "fin_undo"}
           /\ failures.left \subseteq failures'.left
           /\ \E p \in work[h].done:
                 /\ work'[h].done = work[h].done \ {p}
                 /\ \/ archive'[p] = (IF StillMine(h, p) THEN Absent ELSE archive[p])
                    \/ archive'[p] = archive[p] /\ p \in failures'.left
                 /\ \A q \in Paths \ {p}: archive'[q] = archive[q]
  <1>1. work[h] \in Work /\ work \in [Handlers -> Work] /\ pc \in [Handlers -> Steps] /\ archive \in [Paths -> ArchiveFile]
    BY DEF TypeOK
  <1>2. PICK p \in work[h].done:
          /\ \/ archive' = IF StillMine(h, p) THEN [archive EXCEPT ![p] = Absent] ELSE archive
             \/ LeavesFile(p) /\ UNCHANGED archive
          /\ LeavesFile(p) \/ UNCHANGED failures
          /\ work' = [work EXCEPT ![h] = [work[h] EXCEPT !.done = work[h].done \ {p}]]
    BY DEF RollbackFile
  <1>3. p \in Paths
    BY <1>1 DEF Work
  <1>4. /\ \/ archive'[p] = (IF StillMine(h, p) THEN Absent ELSE archive[p])
           \/ archive'[p] = archive[p] /\ p \in failures'.left
        /\ \A q \in Paths \ {p}: archive'[q] = archive[q]
    BY <1>1, <1>2, <1>3 DEF LeavesFile
  <1>5. work'[h].done = work[h].done \ {p} /\ work'[h].snapshot = work[h].snapshot /\ OnlyMoves(h)
    BY <1>1, <1>2 DEF RollbackFile, OnlyMoves, Work
  <1>6. failures.left \subseteq failures'.left
    BY <1>2 DEF LeavesFile
  <1>7. QED BY <1>4, <1>5, <1>6 DEF RollbackFile, dbVars

\* The steps between the copies: the locals stay, and so does the archive.
LEMMA StayMoves ==
    ASSUME TypeOK, NEW h \in Handlers, PublishDone(h) \/ FinalizeVerify(h) \/ FinalizeCommit(h)
    PROVE  /\ OnlyMoves(h) /\ UNCHANGED <<archive, target, work, scanning>> /\ failures'.left = failures.left
           /\ pc[h] \in {"fin_copy", "fin_verify", "fin_commit"}
           /\ pc'[h] \in {"fin_verify", "fin_commit", "fin_rollback", "fin_undo", "fin_clean"}
           /\ pc'[h] = "fin_clean" => RecordImport(h)
           /\ ~UNCHANGED records => pc[h] = "fin_commit" /\ RecordImport(h)
  <1>1. UNCHANGED <<archive, op, target, work, scanning>> /\ failures'.left = failures.left
    BY DEF PublishDone, FinalizeVerify, FinalizeCommit, Fails, TypeOK, storageVars, modelVars
  <1>2. PICK s \in {"fin_verify", "fin_commit", "fin_rollback", "fin_undo", "fin_clean"}:
           Goto(h, s) /\ (s = "fin_clean" => RecordImport(h))
    BY DEF PublishDone, FinalizeVerify, FinalizeCommit
  <1>3. OnlyMoves(h) /\ pc'[h] = s
    BY <1>1, <1>2 DEF TypeOK, Goto, OnlyMoves
  <1>4. ~UNCHANGED records => pc[h] = "fin_commit" /\ RecordImport(h)
    BY DEF PublishDone, FinalizeVerify, FinalizeCommit, dbVars
  <1>5. QED BY <1>1, <1>2, <1>3, <1>4 DEF PublishDone, FinalizeVerify, FinalizeCommit

LEMMA CopiesPublish ==
    ASSUME TypeOK, CopiesInv, NEW h \in Handlers, PublishStart(h) \/ PublishFill(h) \/ RollbackFile(h)
    PROVE  CopiesInv'
  <1> DEFINE t == target[h]
             p == work[h].path
  <1>1. CopiesThere(h) /\ \A g \in Handlers \ {h}: Copies(g) \cap Copies(h) = {}
    BY DEF CopiesInv
  <1>2. \A g \in Handlers: CopiesThere(g) /\ Copies(g) \subseteq Paths
    BY DEF CopiesInv, Copies, TypeOK, LocalsOK, LocalOK, Work
  <1>3. CASE PublishStart(h)
    <2>1. /\ OnlyMoves(h) /\ target'[h] = t /\ work'[h].done = work[h].done /\ work'[h].snapshot = work[h].snapshot
          /\ pc[h] = "fin_copy" /\ Copies(h) = work[h].done /\ work[h].done \subseteq Paths
      BY <1>3, StartFile DEF Copies, PublishSteps, TypeOK, Work
    <2>2. CASE pc'[h] = "fin_rollback" /\ UNCHANGED archive
      <3>1. Copies(h)' = Copies(h)
        BY <2>1, <2>2 DEF Copies, PublishSteps
      <3>2. CopiesThere(h)'
        BY <1>1, <2>1, <2>2 DEF CopiesThere, StillMine, PublishSteps
      <3>3. QED BY <2>1, <2>2, <3>1, <3>2, CopiesElsewhere
    <2>3. ASSUME NEW q \in work[h].todo, archive[q] = Absent, pc'[h] = "fin_fill", work'[h].path = q,
                 archive'[q] = [content |-> Partial, by |-> t], \A r \in Paths \ {q}: archive'[r] = archive[r]
          PROVE  CopiesInv'
      \* A free path is nobody's copy.
      <3>1. ASSUME NEW g \in Handlers PROVE q \notin Copies(g)
        <4> SUFFICES ASSUME q \in Copies(g) PROVE FALSE
          OBVIOUS
        <4>1. target[g] # Nothing /\ Absent.by = Nothing /\ Nothing # External
          <5>1. pc[g] \in PublishSteps /\ PublishSteps \cap {"idle", "sweep", "insert"} = {}
            BY DEF Copies, PublishSteps
          <5>2. QED BY <5>1, FileKinds DEF TypeOK, LocalsOK, LocalOK
        <4>2. archive[q].by \in {target[g], External}
          <5>1. \/ pc[g] \in PublishSteps /\ q \in work[g].done
                \/ pc[g] = "fin_fill" /\ q = work[g].path
            BY DEF Copies
          <5>2. CopiesThere(g)
            BY <1>2
          <5>3. \/ archive[q].by = External
                \/ \E c: archive[q] = [content |-> c, by |-> target[g]]
            BY <5>1, <5>2 DEF CopiesThere, StillMine
          <5>4. \A c: [content |-> c, by |-> target[g]].by = target[g]
            OBVIOUS
          <5>5. QED BY <5>3, <5>4
        <4>3. QED BY <2>3, <4>1, <4>2
      <3>2. Copies(h)' = Copies(h) \cup {q}
        BY <2>1, <2>3 DEF Copies, PublishSteps
      <3>3. \A g \in Handlers \ {h}: \A r \in Copies(g): archive'[r] = archive[r] /\ r \notin Copies(h)'
        BY <1>1, <1>2, <2>3, <3>1, <3>2
      <3>4. q \notin work[h].done /\ \A r \in work[h].done: archive'[r] = archive[r]
        BY <2>1, <2>3, <3>1
      <3>5. CopiesThere(h)'
        BY <1>1, <2>1, <2>3, <3>4 DEF CopiesThere, StillMine, PublishSteps
      <3>6. QED BY <2>1, <3>3, <3>5, CopiesStep
    <2>4. QED BY <1>3, <2>2, <2>3, StartFile
  <1>4. CASE PublishFill(h)
    <2>1. /\ OnlyMoves(h) /\ target'[h] = t /\ work'[h].snapshot = work[h].snapshot /\ pc[h] = "fin_fill"
          /\ \A q \in Paths \ {p}: archive'[q] = archive[q]
          /\ Copies(h) = work[h].done \cup {p} /\ work[h].done \subseteq Paths
      BY <1>4, FillFile DEF Copies, PublishSteps, TypeOK, Work
    <2>2. p \notin work[h].done /\ \A q \in work[h].done: archive'[q] = archive[q]
      BY <1>1, <2>1 DEF CopiesThere
    <2>3. Copies(h)' \subseteq Copies(h)
      BY <1>4, <2>1, FillFile DEF Copies, PublishSteps
    <2>4. \A g \in Handlers \ {h}: \A q \in Copies(g): archive'[q] = archive[q] /\ q \notin Copies(h)'
      BY <1>1, <1>2, <2>1, <2>3
    <2>5. \A q \in work[h].done: StillMine(h, q)' <=> StillMine(h, q)
      BY <2>1, <2>2 DEF StillMine
    <2>6. \A q \in work[h].done: StillMine(h, q)' \/ archive'[q].by = External
      BY <1>1, <2>1, <2>2, <2>5 DEF CopiesThere, PublishSteps
    <2>7. CASE pc'[h] = "fin_rollback" /\ work'[h] = work[h]
      <3>1. CopiesThere(h)'
        BY <2>6, <2>7 DEF CopiesThere
      <3>2. QED BY <2>1, <2>4, <3>1, CopiesStep
    <2>8. CASE /\ pc'[h] = "fin_copy" /\ work'[h].done = work[h].done \cup {p}
               /\ IF archive[p] = [content |-> Partial, by |-> t]
                    THEN archive'[p] = [content |-> work[h].snapshot[p].content, by |-> t]
                    ELSE archive'[p] = archive[p]
      <3>1. \/ archive'[p] = [content |-> work'[h].snapshot[p].content, by |-> target'[h]]
            \/ archive'[p].by = External
        <4>1. archive[p] = [content |-> Partial, by |-> t] \/ archive[p].by = External
          BY <1>1, <2>1 DEF CopiesThere
        <4>2. CASE archive[p] = [content |-> Partial, by |-> t]
          BY <2>1, <2>8, <4>2
        <4>3. CASE archive[p] # [content |-> Partial, by |-> t]
          BY <2>8, <4>1, <4>3
        <4>4. QED BY <4>2, <4>3
      <3>2. ASSUME NEW q \in work'[h].done PROVE StillMine(h, q)' \/ archive'[q].by = External
        BY <2>6, <2>8, <3>1 DEF StillMine
      <3>3. CopiesThere(h)'
        BY <2>8, <3>2 DEF CopiesThere
      <3>4. QED BY <2>1, <2>4, <3>3, CopiesStep
    <2>9. QED BY <1>4, <2>7, <2>8, FillFile
  <1>5. CASE RollbackFile(h)
    <2>1. /\ OnlyMoves(h) /\ target'[h] = t /\ pc'[h] = pc[h] /\ work'[h].snapshot = work[h].snapshot
          /\ pc[h] \in {"fin_rollback", "fin_undo"} /\ Copies(h) = work[h].done /\ work[h].done \subseteq Paths
      BY <1>5, RollFile DEF Copies, PublishSteps, TypeOK, Work
    <2>2. PICK q \in work[h].done:
            work'[h].done = work[h].done \ {q} /\ \A r \in Paths \ {q}: archive'[r] = archive[r]
      BY <1>5, RollFile
    <2>3. Copies(h)' = work[h].done \ {q}
      BY <2>1, <2>2 DEF Copies, PublishSteps
    <2>4. \A g \in Handlers \ {h}: \A r \in Copies(g): archive'[r] = archive[r] /\ r \notin Copies(h)'
      BY <1>1, <1>2, <2>1, <2>2, <2>3
    <2>5. \A r \in work'[h].done: r \in work[h].done /\ archive'[r] = archive[r]
      BY <2>1, <2>2
    <2>6. CopiesThere(h)'
      BY <1>1, <2>1, <2>5 DEF CopiesThere, StillMine, PublishSteps
    <2>7. QED BY <2>1, <2>4, <2>6, CopiesStep
  <1>6. QED BY <1>3, <1>4, <1>5

LEMMA ArchiveEnvironment ==
    ASSUME TypeOK, Environment
    PROVE  /\ UNCHANGED <<records, pc, target, work>> /\ failures'.left = failures.left
           /\ \A p \in Paths: archive'[p] = archive[p] \/ archive'[p].by = External
  <1>1. UNCHANGED <<records, pc, target, work>> /\ failures'.left = failures.left
    BY DEF Environment, Expire, ScpMark, ScpWrite, ExternalWrite, SetAssetArchived, ScanBegins, ScanEnds, dbVars,
           handlerVars, modelVars
  <1>2. CASE UNCHANGED archive
    BY <1>1, <1>2
  <1>3. ASSUME NEW q \in Paths, ExternalWrite(q) PROVE \A p \in Paths: archive'[p] = archive[p] \/ archive'[p].by = External
    BY <1>3 DEF ExternalWrite, TypeOK
  <1>4. QED BY <1>1, <1>2, <1>3 DEF Environment, Expire, ScpMark, ScpWrite, SetAssetArchived, ScanBegins, ScanEnds, storageVars

\* What a finalization has copied stays its own until it gives it up, also where the database has
\* taken its locks away.
THEOREM CopiesCorrect == Spec => []CopiesInv
  <1>1. TypeOK /\ TaskInv /\ CopiesInv /\ [Next]_vars => CopiesInv'
    <2> SUFFICES ASSUME TypeOK, TaskInv, CopiesInv, [Next]_vars PROVE CopiesInv'
      OBVIOUS
    <2>1. CASE UNCHANGED vars
      <3>1. UNCHANGED <<archive, pc, target, work>>
        BY <2>1 DEF vars, storageVars, handlerVars
      <3>2. QED BY <3>1 DEF CopiesInv, CopiesThere, Copies, StillMine
    <2>2. CASE Environment
      <3>1. ASSUME NEW h \in Handlers PROVE Copies(h)' = Copies(h) /\ Copies(h) \subseteq Paths
        <4>1. Copies(h)' = Copies(h)
          BY <2>2, ArchiveEnvironment DEF Copies
        <4>2. Copies(h) \subseteq Paths
          BY DEF Copies, TypeOK, LocalsOK, LocalOK, Work
        <4>3. QED BY <4>1, <4>2
      <3>2. ASSUME NEW h \in Handlers PROVE CopiesThere(h)'
        <4>1. CopiesThere(h)
          BY DEF CopiesInv
        <4>2. \A p \in Copies(h): archive'[p] = archive[p] \/ archive'[p].by = External
          BY <2>2, <3>1, ArchiveEnvironment
        <4>3. UNCHANGED <<pc, target, work>>
          BY <2>2, ArchiveEnvironment
        <4>4. /\ pc[h] \in PublishSteps => \A p \in work[h].done: archive'[p] = archive[p] \/ archive'[p].by = External
              /\ pc[h] = "fin_fill" => archive'[work[h].path] = archive[work[h].path] \/ archive'[work[h].path].by = External
          BY <4>2 DEF Copies, PublishSteps
        <4>5. QED BY <4>1, <4>3, <4>4 DEF CopiesThere, StillMine
      <3>3. QED BY <3>1, <3>2 DEF CopiesInv
    <2>3. ASSUME NEW h \in Handlers, Quiet(h) \/ Crash(h) PROVE CopiesInv'
      BY <2>3, QuietMoves, NoCopies
    <2>4. ASSUME NEW h \in Handlers, Finalize(h) PROVE CopiesInv'
      <3>1. CASE Starts(h)
        BY <3>1, StartsMove, NoCopies
      <3>2. CASE PublishDone(h) \/ FinalizeVerify(h) \/ FinalizeCommit(h)
        <4>1. /\ OnlyMoves(h) /\ UNCHANGED <<archive, target, work>> /\ pc'[h] # "fin_fill"
              /\ pc[h] \in PublishSteps /\ pc[h] # "fin_fill"
          BY <3>2, StayMoves DEF PublishSteps
        <4>2. CopiesThere(h)
          BY DEF CopiesInv
        <4>3. CopiesThere(h)' /\ Copies(h)' \subseteq Copies(h)
          BY <4>1, <4>2 DEF CopiesThere, Copies, StillMine
        <4>4. QED BY <4>1, <4>3, CopiesElsewhere
      <3>3. CASE RollbackDone(h)
        BY <3>3, FinishMoves, NoCopies DEF RollbackDone, storageVars, PublishSteps
      <3>4. QED BY <2>4, <3>1, <3>2, <3>3, CopiesPublish DEF Finalize, Starts
    <2>5. QED BY <2>1, <2>2, <2>3, <2>4 DEF Next, HandlerStep, Quiet
  <1>2. Init => CopiesInv
    BY DEF Init, CopiesInv, CopiesThere, Copies, PublishSteps
  <1>3. QED BY <1>1, <1>2, TypeCorrect, TasksCorrect, PTL DEF Spec

-----------------------------------------------------------------------------
(* Records and the files they stand for *)

\* A task that is still compensated has no records, if its commit failed as it seemed to.
LEMMA NoneRecorded ==
    ASSUME TypeOK, TaskInv, CatalogueInv, "lost_commit" \notin Events, NEW h \in Handlers,
           pc[h] \in {"fin_rollback", "fin_undo"}, NEW p \in Paths
    PROVE  records[p].by # target[h]
  <1>1. target[h] \in Tasks
    BY TargetType, TypeParts
  <1>2. task[target[h]] = "active"
    BY DEF TaskInv, TaskWork, Importing
  <1>3. FromTask(target[h]) = {}
    BY <1>1, <1>2 DEF CatalogueInv, ImportedWhole
  <1>4. QED BY <1>3 DEF FromTask

LEMMA BackedFinalize ==
    ASSUME TypeOK, TaskInv, CatalogueInv, CopiesInv, RecordsBacked, "lost_commit" \notin Events,
           NEW h \in Handlers, Finalize(h)
    PROVE  RecordsBacked'
  <1>1. CopiesThere(h)
    BY DEF CopiesInv
  <1>2. CASE UNCHANGED <<records, archive>>
    BY <1>2 DEF RecordsBacked
  \* A path that the publisher copies to has no record.
  <1>3. ASSUME NEW p \in Paths, records[p] = Absent, UNCHANGED records, \A q \in Paths \ {p}: archive'[q] = archive[q]
        PROVE  RecordsBacked'
    BY <1>3 DEF RecordsBacked
  <1>4. ASSUME pc[h] \in {"fin_copy", "fin_fill"}, NEW p \in work[h].todo PROVE p \in Paths /\ records[p] = Absent
    BY <1>4 DEF CatalogueInv, HoldsAssetRow, PublishSteps, TypeOK, Work
  <1>5. CASE PublishStart(h)
    BY <1>2, <1>3, <1>4, <1>5, StartFile
  <1>6. CASE PublishFill(h)
    BY <1>3, <1>4, <1>6, FillFile
  <1>7. CASE RollbackFile(h)
    <2>1. PICK p \in work[h].done:
            /\ \/ archive'[p] = (IF StillMine(h, p) THEN Absent ELSE archive[p])
               \/ archive'[p] = archive[p]
            /\ \A q \in Paths \ {p}: archive'[q] = archive[q]
      BY <1>7, RollFile
    <2>2. p \in Paths /\ UNCHANGED records /\ pc[h] \in {"fin_rollback", "fin_undo"}
      BY <1>7, RollFile DEF TypeOK, Work
    <2>3. CASE archive'[p] = archive[p]
      BY <2>1, <2>2, <2>3 DEF RecordsBacked
    <2>4. CASE StillMine(h, p)
      <3>1. archive[p].by = target[h]
        <4>1. [content |-> work[h].snapshot[p].content, by |-> target[h]].by = target[h]
          OBVIOUS
        <4>2. QED BY <2>4, <4>1 DEF StillMine
      <3>2. target[h] # External
        BY <2>2, TargetType, TypeParts, DistinctValues
      <3>3. records[p] = Absent
        BY <2>2, <3>1, <3>2, NoneRecorded DEF RecordsBacked
      <3>4. QED BY <1>3, <2>1, <2>2, <3>3
    <2>5. QED BY <2>1, <2>3, <2>4
  <1>8. CASE /\ UNCHANGED <<archive, work, target>> /\ pc[h] = "fin_commit" /\ RecordImport(h)
    <2> SUFFICES ASSUME NEW p \in Paths, records'[p] # Absent PROVE archive[p].by = External \/ archive[p] = records'[p]
      BY <1>8 DEF RecordsBacked
    <2>1. CASE p \in work[h].done
      <3>1. records'[p] = [content |-> work[h].snapshot[p].content, by |-> target[h]]
        BY <1>8, <2>1 DEF RecordImport
      <3>2. StillMine(h, p) \/ archive[p].by = External
        BY <1>1, <1>8, <2>1 DEF CopiesThere, PublishSteps
      <3>3. QED BY <3>1, <3>2 DEF StillMine
    <2>2. CASE p \notin work[h].done
      BY <1>8, <2>2 DEF RecordImport, RecordsBacked
    <2>3. QED BY <2>1, <2>2
  <1>9. CASE PublishDone(h) \/ FinalizeVerify(h) \/ FinalizeCommit(h)
    BY <1>2, <1>8, <1>9, StayMoves
  <1>10. CASE Starts(h)
    BY <1>2, <1>10, StartsMove
  <1>11. CASE RollbackDone(h)
    BY <1>2, <1>11 DEF RollbackDone, dbVars, storageVars
  <1>12. QED BY <1>5, <1>6, <1>7, <1>9, <1>10, <1>11 DEF Finalize, Starts

\* Every file record stands for a complete archive file with its checksum, as long as no
\* commit's answer is lost; UploadLostCommit shows what happens otherwise.
THEOREM RecordsBackedAlways == ASSUME "lost_commit" \notin Events PROVE Spec => []RecordsBacked
  <1>1. TypeOK /\ TaskInv /\ CatalogueInv /\ CopiesInv /\ RecordsBacked /\ [Next]_vars => RecordsBacked'
    <2> SUFFICES ASSUME TypeOK, TaskInv, CatalogueInv, CopiesInv, RecordsBacked, [Next]_vars PROVE RecordsBacked'
      OBVIOUS
    <2>1. CASE UNCHANGED vars
      BY <2>1 DEF RecordsBacked, vars, dbVars, storageVars
    <2>2. CASE Environment
      BY <2>2, ArchiveEnvironment DEF RecordsBacked
    <2>3. ASSUME NEW h \in Handlers, Quiet(h) \/ Crash(h) PROVE RecordsBacked'
      BY <2>3, QuietMoves DEF RecordsBacked
    <2>4. QED BY <2>1, <2>2, <2>3, BackedFinalize DEF Next, HandlerStep, Quiet
  <1>2. Init => RecordsBacked
    BY DEF Init, RecordsBacked
  <1>3. QED BY <1>1, <1>2, TypeCorrect, TasksCorrect, CatalogueCorrect, CopiesCorrect, PTL DEF Spec

-----------------------------------------------------------------------------
(* What a failed finalization leaves, and what a scan sees *)

Orphaned(p) == archive[p].by \in Tasks /\ archive[p] # records[p]
Awaited(h, p) == p \in Copies(h) /\ target[h] = archive[p].by

LEMMA OrphanNames ==
    NothingLeftBehind <=> \A p \in Paths: Orphaned(p) => p \in failures.left \/ \E h \in Handlers: Awaited(h, p)
  BY DEF NothingLeftBehind, Orphaned, Awaited

\* What the others have still to take back stays so: a step of h is a question about its copies.
LEMMA OrphanStep ==
    ASSUME NothingLeftBehind, NEW h \in Handlers, OnlyMoves(h), failures.left \subseteq failures'.left,
           \A p \in Paths: Orphaned(p)' =>
              \/ p \in failures'.left
              \/ Awaited(h, p)'
              \/ Orphaned(p) /\ archive'[p] = archive[p] /\ ~Awaited(h, p)
    PROVE  NothingLeftBehind'
  <1> SUFFICES ASSUME NEW p \in Paths, Orphaned(p)', p \notin failures'.left, ~Awaited(h, p)'
               PROVE  \E g \in Handlers: Awaited(g, p)'
    BY DEF NothingLeftBehind, Orphaned, Awaited
  <1>1. Orphaned(p) /\ archive'[p] = archive[p] /\ ~Awaited(h, p) /\ p \notin failures.left
    OBVIOUS
  <1>2. PICK g \in Handlers \ {h}: Awaited(g, p)
    BY <1>1, OrphanNames
  <1>3. pc'[g] = pc[g] /\ target'[g] = target[g] /\ work'[g] = work[g]
    BY DEF OnlyMoves
  <1>4. Copies(g)' = Copies(g)
    BY <1>3 DEF Copies
  <1>5. QED BY <1>1, <1>2, <1>3, <1>4 DEF Awaited

\* A step that leaves archive and records alone, and gives up no copy
LEMMA OrphanElsewhere ==
    ASSUME NothingLeftBehind, NEW h \in Handlers, OnlyMoves(h), failures.left \subseteq failures'.left,
           UNCHANGED <<records, archive>>,
           \A p \in Copies(h): p \in failures'.left \/ (p \in Copies(h)' /\ target'[h] = target[h])
    PROVE  NothingLeftBehind'
  <1>1. \A p \in Paths: Orphaned(p)' => Orphaned(p)
    BY DEF Orphaned
  <1>2. \A p \in Paths: Awaited(h, p) => p \in failures'.left \/ Awaited(h, p)'
    BY DEF Awaited
  <1>3. QED BY <1>1, <1>2, OrphanStep

LEMMA LeftKept ==
    ASSUME TypeOK, NEW h \in Handlers, Quiet(h) \/ Starts(h) \/ RollbackDone(h) \/ Crash(h)
    PROVE  failures.left \subseteq failures'.left
  <1>1. UNCHANGED failures \/ Fails \/ Crash(h)
    BY DEF Quiet, Guard, OpenLock, EnterGuard, LockRefused, Create, SweepCandidate, SweepRow, SweepDelete, SweepUnlink,
           CheckAsset, CreateTask, RemoveStaging, RemoveSomeStaging, Put, PutValidate, PutInspect, PutStream, PutLink,
           PutUnlink, Cancel, CancelRow, CleanStaging, Begin, BeginCreate, BeginPut, BeginCancel, BeginFinalize,
           StartRequest, Starts, FinalizeIndex, FinalizeRow, FinalizeAsset, FinalizePreflight, RollbackDone, modelVars
  <1>2. QED BY <1>1, LeftGrows DEF Crash, TypeOK

LEMMA OrphanFinalize ==
    ASSUME TypeOK, CopiesInv, NothingLeftBehind, NEW h \in Handlers, Finalize(h)
    PROVE  NothingLeftBehind'
  <1> DEFINE t == target[h]
  <1>1. CopiesThere(h) /\ Absent.by \notin Tasks /\ External \notin Tasks
    BY DistinctValues DEF CopiesInv, Absent
  <1>2. CASE Starts(h)
    <2>1. Copies(h) = {}
      BY <1>2, QuietCopies DEF Copies
    <2>2. QED BY <1>2, <2>1, StartsMove, LeftKept, OrphanElsewhere
  <1>3. CASE RollbackDone(h)
    <2>1. Copies(h) = {}
      BY <1>3 DEF RollbackDone, Copies
    <2>2. QED BY <1>3, <2>1, FinishMoves, LeftKept, OrphanElsewhere DEF RollbackDone, dbVars, storageVars
  <1>4. CASE PublishDone(h) \/ FinalizeVerify(h) \/ FinalizeCommit(h)
    <2>1. /\ OnlyMoves(h) /\ UNCHANGED <<archive, target, work>> /\ failures'.left = failures.left
          /\ pc[h] \in PublishSteps \ {"fin_fill"} /\ Copies(h) = work[h].done
      BY <1>4, StayMoves DEF PublishSteps, Copies
    <2>2. CASE UNCHANGED records /\ pc'[h] # "fin_clean"
      <3>1. Copies(h)' = Copies(h)
        BY <1>4, <2>1, <2>2, StayMoves DEF PublishSteps, Copies
      <3>2. QED BY <2>1, <2>2, <3>1, OrphanElsewhere
    <2>3. CASE RecordImport(h)
      <3>1. ASSUME NEW p \in Paths, Orphaned(p)'
            PROVE  Orphaned(p) /\ p \notin work[h].done
        <4>1. CASE p \in work[h].done
          <5>1. records'[p] = [content |-> work[h].snapshot[p].content, by |-> t]
            BY <2>3, <4>1 DEF RecordImport
          <5>2. archive[p] = records'[p] \/ archive[p].by = External
            BY <1>1, <2>1, <4>1, <5>1 DEF CopiesThere, StillMine
          <5>3. QED BY <1>1, <2>1, <3>1, <5>2 DEF Orphaned
        <4>2. CASE p \notin work[h].done
          BY <2>1, <2>3, <3>1, <4>2 DEF RecordImport, Orphaned
        <4>3. QED BY <4>1, <4>2
      <3>2. QED BY <2>1, <3>1, OrphanStep DEF Awaited
    <2>4. QED BY <1>4, <2>2, <2>3, StayMoves
  <1>5. CASE PublishStart(h)
    <2>1. /\ OnlyMoves(h) /\ UNCHANGED records /\ target'[h] = t /\ work'[h].done = work[h].done
          /\ pc[h] = "fin_copy" /\ Copies(h) = work[h].done /\ failures'.left = failures.left
      BY <1>5, StartFile DEF Copies, PublishSteps
    <2>2. CASE pc'[h] = "fin_rollback" /\ UNCHANGED archive
      <3>1. Copies(h)' = Copies(h)
        BY <2>1, <2>2 DEF Copies, PublishSteps
      <3>2. QED BY <2>1, <2>2, <3>1, OrphanElsewhere
    <2>3. ASSUME NEW q \in work[h].todo, pc'[h] = "fin_fill", work'[h].path = q,
                 archive'[q] = [content |-> Partial, by |-> t], \A r \in Paths \ {q}: archive'[r] = archive[r]
          PROVE  NothingLeftBehind'
      <3>1. Copies(h)' = Copies(h) \cup {q} /\ archive'[q].by = t
        BY <2>1, <2>3 DEF Copies, PublishSteps
      <3>2. ASSUME NEW r \in Paths, Orphaned(r)' PROVE Awaited(h, r)' \/ (Orphaned(r) /\ archive'[r] = archive[r] /\ ~Awaited(h, r))
        <4>1. CASE r = q
          BY <2>1, <3>1, <4>1 DEF Awaited
        <4>2. CASE r # q
          BY <2>1, <2>3, <3>1, <3>2, <4>2 DEF Awaited, Orphaned
        <4>3. QED BY <4>1, <4>2
      <3>3. QED BY <2>1, <3>2, OrphanStep
    <2>4. QED BY <1>5, <2>2, <2>3, StartFile
  <1>6. CASE PublishFill(h)
    <2>1. PICK p \in Paths: p = work[h].path
      BY <1>6, FillFile DEF TypeOK, Work
    <2>2. /\ OnlyMoves(h) /\ UNCHANGED records /\ target'[h] = t /\ pc[h] = "fin_fill" /\ failures.left \subseteq failures'.left
          /\ \A q \in Paths \ {p}: archive'[q] = archive[q]
          /\ Copies(h) = work[h].done \cup {p}
      BY <1>6, <2>1, FillFile DEF Copies, PublishSteps
    <2>3. CASE /\ pc'[h] = "fin_rollback" /\ work'[h] = work[h]
               /\ archive'[p] = Absent \/ p \in failures'.left
      <3>1. Copies(h)' = work[h].done
        BY <2>3 DEF Copies, PublishSteps
      <3>2. ASSUME NEW r \in Paths, Orphaned(r)', r \notin failures'.left
            PROVE  Awaited(h, r)' \/ (Orphaned(r) /\ archive'[r] = archive[r] /\ ~Awaited(h, r))
        <4>1. r # p
          BY <1>1, <2>3, <3>2 DEF Orphaned
        <4>2. QED BY <2>2, <3>1, <3>2, <4>1 DEF Awaited, Orphaned
      <3>3. QED BY <2>2, <3>2, OrphanStep
    <2>4. CASE /\ pc'[h] = "fin_copy" /\ work'[h].done = work[h].done \cup {p}
               /\ archive'[p] = archive[p] \/ archive'[p].by = t
      <3>1. Copies(h)' = Copies(h)
        BY <2>2, <2>4 DEF Copies, PublishSteps
      <3>2. ASSUME NEW r \in Paths, Orphaned(r)'
            PROVE  Awaited(h, r)' \/ (Orphaned(r) /\ archive'[r] = archive[r] /\ ~Awaited(h, r))
        <4>1. CASE archive'[r] = archive[r]
          BY <2>2, <3>1, <3>2, <4>1 DEF Awaited, Orphaned
        <4>2. CASE archive'[r] # archive[r]
          <5>1. r = p /\ archive'[p].by = t
            BY <2>2, <2>4, <4>2
          <5>2. QED BY <2>2, <3>1, <5>1 DEF Awaited
        <4>3. QED BY <4>1, <4>2
      <3>3. QED BY <2>2, <3>2, OrphanStep
    <2>5. \A c: [content |-> c, by |-> t].by = t
      OBVIOUS
    <2>6. \/ /\ pc'[h] = "fin_rollback" /\ work'[h] = work[h]
             /\ archive'[p] = Absent \/ p \in failures'.left
          \/ /\ pc'[h] = "fin_copy" /\ work'[h].done = work[h].done \cup {p}
             /\ \/ archive'[p] = archive[p]
                \/ archive'[p] = [content |-> work[h].snapshot[p].content, by |-> t]
      BY <1>6, <2>1, FillFile
    <2>7. QED BY <2>3, <2>4, <2>5, <2>6
  <1>7. CASE RollbackFile(h)
    <2>1. /\ OnlyMoves(h) /\ UNCHANGED records /\ target'[h] = t /\ pc'[h] = pc[h] /\ failures.left \subseteq failures'.left
          /\ pc[h] \in {"fin_rollback", "fin_undo"} /\ Copies(h) = work[h].done /\ work[h].done \subseteq Paths
      BY <1>7, RollFile DEF Copies, PublishSteps, TypeOK, Work
    <2>2. PICK p \in work[h].done:
            /\ work'[h].done = work[h].done \ {p}
            /\ \/ archive'[p] = (IF StillMine(h, p) THEN Absent ELSE archive[p])
               \/ archive'[p] = archive[p] /\ p \in failures'.left
            /\ \A q \in Paths \ {p}: archive'[q] = archive[q]
      BY <1>7, RollFile
    <2>3. archive'[p].by \notin Tasks \/ p \in failures'.left
      BY <1>1, <2>1, <2>2 DEF CopiesThere, PublishSteps
    <2>4. Copies(h)' = work[h].done \ {p}
      BY <2>1, <2>2 DEF Copies, PublishSteps
    <2>5. ASSUME NEW r \in Paths, Orphaned(r)', r \notin failures'.left
          PROVE  Awaited(h, r)' \/ (Orphaned(r) /\ archive'[r] = archive[r] /\ ~Awaited(h, r))
      <3>1. r # p
        BY <2>3, <2>5 DEF Orphaned
      <3>2. QED BY <2>1, <2>2, <2>4, <2>5, <3>1 DEF Awaited, Orphaned
    <2>6. QED BY <2>1, <2>5, OrphanStep
  <1>8. QED BY <1>2, <1>3, <1>4, <1>5, <1>6, <1>7 DEF Finalize, Starts

\* A finalization that fails takes back what it published, at whichever step it fails, and while the
\* database still has its locks or has taken them away; what stays, a kill or a failed unlink has left.
THEOREM NothingLeftAlways == Spec => []NothingLeftBehind
  <1>1. TypeOK /\ TaskInv /\ CopiesInv /\ NothingLeftBehind /\ [Next]_vars => NothingLeftBehind'
    <2> SUFFICES ASSUME TypeOK, TaskInv, CopiesInv, NothingLeftBehind, [Next]_vars PROVE NothingLeftBehind'
      OBVIOUS
    <2>1. CASE UNCHANGED vars
      <3>1. UNCHANGED <<records, archive, pc, target, work, failures>>
        BY <2>1 DEF vars, dbVars, storageVars, handlerVars, modelVars
      <3>2. QED BY <3>1 DEF NothingLeftBehind, Copies
    <2>2. CASE Environment
      <3>1. \A h \in Handlers: Copies(h)' = Copies(h)
        BY <2>2, ArchiveEnvironment DEF Copies
      <3>2. \A p \in Paths: Orphaned(p)' => Orphaned(p) /\ archive'[p] = archive[p]
        BY <2>2, ArchiveEnvironment, DistinctValues DEF Orphaned
      <3>3. QED BY <2>2, <3>1, <3>2, ArchiveEnvironment DEF NothingLeftBehind, Orphaned
    <2>3. ASSUME NEW h \in Handlers, Quiet(h) PROVE NothingLeftBehind'
      <3>1. Copies(h) = {}
        BY <2>3, QuietCopies DEF Copies
      <3>2. QED BY <2>3, <3>1, QuietMoves, LeftKept, OrphanElsewhere
    <2>4. ASSUME NEW h \in Handlers, Crash(h) PROVE NothingLeftBehind'
      <3>1. Copies(h) \subseteq failures'.left
        BY <2>4 DEF Crash, TypeOK
      <3>2. QED BY <2>4, <3>1, QuietMoves, LeftKept, OrphanElsewhere
    <2>5. QED BY <2>1, <2>2, <2>3, <2>4, OrphanFinalize DEF Next, HandlerStep, Quiet
  <1>2. Init => NothingLeftBehind
    BY DistinctValues DEF Init, NothingLeftBehind, Absent
  <1>3. QED BY <1>1, <1>2, TypeCorrect, TasksCorrect, CopiesCorrect, PTL DEF Spec

IndexSteps == {"fin_row", "fin_asset", "fin_preflight", "fin_copy", "fin_fill", "fin_verify", "fin_commit", "fin_rollback"}

LEMMA IndexStepNames ==
    /\ FinalizeSteps \ {"fin_index", "fin_undo", "fin_clean"} = IndexSteps
    /\ Aside \cap IndexSteps = {}
  BY DEF FinalizeSteps, PublishSteps, IndexSteps, Aside, PutSteps, CancelSteps, SweepSteps

\* While a scan holds the index lock, no finalization holds it.
THEOREM IndexExclusive == Spec => []IndexInv
  <1>1. TypeOK /\ TaskInv /\ IndexInv /\ [Next]_vars => IndexInv'
    <2> SUFFICES ASSUME TypeOK, TaskInv, IndexInv, [Next]_vars PROVE IndexInv'
      OBVIOUS
    <2> USE IndexStepNames
    <2>1. CASE UNCHANGED vars
      BY <2>1 DEF vars, handlerVars, IndexInv, HoldsIndex
    \* A handler takes the lock where no scan has it.
    <2>2. ASSUME NEW h \in Handlers, OnlyMoves(h), UNCHANGED scanning,
                 pc'[h] \in IndexSteps => pc[h] \in IndexSteps \/ ~scanning
          PROVE  IndexInv'
      BY <2>2 DEF OnlyMoves, IndexInv, HoldsIndex
    <2>3. CASE Environment
      <3>1. UNCHANGED pc
        BY <2>3 DEF Environment, Expire, ScpMark, ScpWrite, ExternalWrite, SetAssetArchived, ScanBegins, ScanEnds,
                    handlerVars
      <3>2. scanning' => scanning \/ \A h \in Handlers: ~HoldsIndex(h)
        BY <2>3 DEF Environment, Expire, ScpMark, ScpWrite, ExternalWrite, SetAssetArchived, ScanBegins, ScanEnds
      <3>3. QED BY <3>1, <3>2 DEF IndexInv, HoldsIndex
    <2>4. ASSUME NEW h \in Handlers, Guard(h) \/ Create(h) \/ Put(h) \/ Cancel(h) \/ Begin(h) \/ Crash(h)
          PROVE  IndexInv'
      <3>1. OnlyMoves(h) /\ pc'[h] \in Aside /\ UNCHANGED scanning
        BY <2>4, SweepsAside, RequestsAside
      <3>2. pc'[h] \notin IndexSteps
        BY <3>1
      <3>3. QED BY <2>2, <3>1, <3>2
    <2>5. ASSUME NEW h \in Handlers, Finalize(h) PROVE IndexInv'
      <3>1. CASE FinalizeIndex(h)
        <4>1. OnlyMoves(h) /\ UNCHANGED scanning
          BY <3>1, StartMoves
        <4>2. scanning => pc'[h] = "idle"
          BY <3>1, FinishMoves DEF FinalizeIndex
        <4>3. pc'[h] \in IndexSteps => ~scanning
          BY <4>2 DEF IndexSteps
        <4>4. QED BY <2>2, <4>1, <4>3
      <3>2. CASE FinalizeRow(h) \/ FinalizeAsset(h)
        BY <2>2, <3>2, StartMoves DEF FinalizeRow, FinalizeAsset, IndexSteps
      <3>3. CASE FinalizePreflight(h)
        BY <2>2, <3>3, PreflightMoves DEF FinalizePreflight, IndexSteps
      <3>4. CASE PublishStart(h) \/ PublishFill(h) \/ PublishDone(h) \/ FinalizeVerify(h) \/ RollbackFile(h)
        BY <2>2, <3>4, PublishMoves DEF IndexSteps, PublishSteps
      <3>5. CASE FinalizeCommit(h)
        <4>1. OnlyMoves(h) /\ UNCHANGED scanning /\ pc[h] = "fin_commit"
          BY <3>5 DEF TypeOK, FinalizeCommit, Goto, OnlyMoves
        <4>2. QED BY <2>2, <4>1 DEF IndexSteps
      <3>6. CASE RollbackDone(h)
        BY <2>2, <3>6, FinishMoves DEF RollbackDone, IndexSteps
      <3>7. QED BY <2>5, <3>1, <3>2, <3>3, <3>4, <3>5, <3>6 DEF Finalize
    <2>6. QED BY <2>1, <2>3, <2>4, <2>5 DEF Next, HandlerStep
  <1>2. Init => IndexInv
    BY DEF Init, IndexInv
  <1>3. QED BY <1>1, <1>2, TypeCorrect, TasksCorrect, PTL DEF Spec

\* A scan meets no file of an upload that is not committed, except files that nobody can take back any
\* more and those of a compensation that the database has taken the locks from.
THEOREM ScanSeesCommittedAlways == Spec => []ScanSeesCommitted
  <1>1. IndexInv /\ NothingLeftBehind => ScanSeesCommitted
    <2> SUFFICES ASSUME IndexInv, NothingLeftBehind, scanning, NEW p \in Paths,
                        archive[p].by \in Tasks, archive[p] # records[p], p \notin failures.left
                 PROVE  \E h \in Handlers: pc[h] = "fin_undo" /\ p \in work[h].done /\ target[h] = archive[p].by
      BY DEF ScanSeesCommitted
    <2>1. PICK h \in Handlers: p \in Copies(h) /\ target[h] = archive[p].by
      BY DEF NothingLeftBehind
    <2>2. pc[h] = "fin_undo"
      BY <2>1 DEF IndexInv, HoldsIndex, FinalizeSteps, PublishSteps, Copies
    <2>3. QED BY <2>1, <2>2 DEF Copies
  <1>2. QED BY <1>1, IndexExclusive, NothingLeftAlways, PTL

=============================================================================
