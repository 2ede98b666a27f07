-------------------------- MODULE IndexLockProofs ---------------------------
(***************************************************************************)
(* Proofs about IndexLock, for every number of handlers and workers: types,*)
(* the process lock matches its holders, and both locks together implement *)
(* ArchiveAccess.                                                          *)
(***************************************************************************)
EXTENDS IndexLock, FiniteSetTheorems, TLAPS

InGuard == {"advise", "inside", "publish", "compensate", "lost", "undone", "ended"}

\* A request has an operation, and only a finalization publishes and unlinks.
OpMatches == \A h \in Handlers:
    /\ op[h] = "none" <=> pc[h] = "idle"
    /\ pc[h] \in {"publish", "compensate", "lost", "undone"} => op[h] = "finalize"

\* Inside one process a scan is alone.
LocalExclusion == \A g, h \in Handlers:
    (/\ WorkerOf[g] = WorkerOf[h]
     /\ {pc[g], pc[h]} \subseteq InGuard
     /\ op[g] = "scan") => g = h

\* A release decrements the counter and clears the flag; that the counter stays
\* a number and the flag right needs the match and the exclusion.
LocalInv == TypeOK /\ OpMatches /\ LockMatchesHolders /\ LocalExclusion

-----------------------------------------------------------------------------
(* The holders in one worker before and after a step *)

LEMMA InsideGuard ==
    ASSUME TypeOK, NEW w, NEW o
    PROVE  Inside(w, o) = {h \in Handlers: WorkerOf[h] = w /\ op[h] = o /\ pc[h] \in InGuard}
  BY DEF Inside, InGuard, TypeOK, Steps

LEMMA InsideFinite ==
    ASSUME NEW w, NEW o
    PROVE  IsFiniteSet(Inside(w, o)) /\ Cardinality(Inside(w, o)) \in Nat
<1>1. Inside(w, o) \subseteq Handlers
  BY DEF Inside
<1> QED
  BY <1>1, HandlersFinite, FS_Subset, FS_CardinalityType

\* A handler enters for operation o: it is added to one set.
LEMMA Enter ==
    ASSUME TypeOK, NEW h \in Handlers, NEW o, pc[h] = "idle",
           op' = [op EXCEPT ![h] = o], pc' = [pc EXCEPT ![h] = "advise"]
    PROVE  \A w, u: /\ Inside(w, u)' = IF w = WorkerOf[h] /\ u = o THEN Inside(w, u) \cup {h}
                                                                  ELSE Inside(w, u)
                    /\ h \notin Inside(w, u)
  BY DEF TypeOK, Inside

\* A handler leaves: it is taken from the set of its worker and operation.
LEMMA Exit ==
    ASSUME TypeOK, NEW h \in Handlers, pc[h] \in InGuard,
           op' = op, pc' = [pc EXCEPT ![h] = "left"]
    PROVE  /\ \A w, u: Inside(w, u)' = IF w = WorkerOf[h] /\ u = op[h] THEN Inside(w, u) \ {h}
                                                                      ELSE Inside(w, u)
           /\ h \in Inside(WorkerOf[h], op[h])
  BY DEF TypeOK, Inside, InGuard

\* A step inside the guard, or outside of it, changes no set.
LEMMA Stay ==
    ASSUME TypeOK, NEW h \in Handlers, NEW s,
           pc' = [pc EXCEPT ![h] = s],
           \/ pc[h] \in InGuard /\ s \in InGuard /\ op' = op
           \/ pc[h] \in {"left", "dead"} /\ s = "idle" /\ op' = [op EXCEPT ![h] = "none"]
    PROVE  \A w, u: Inside(w, u)' = Inside(w, u)
  BY DEF TypeOK, Inside, InGuard

-----------------------------------------------------------------------------
(* The process lock *)

LEMMA AcquireLocalKeeps ==
    ASSUME LocalInv, NEW h \in Handlers, NEW o \in {"scan", "finalize"}, AcquireLocal(h, o)
    PROVE  LocalInv'
<1> DEFINE w == WorkerOf[h]
<1>0. w \in Workers
  BY WorkerOfType
<1>1. \A v, u: /\ Inside(v, u)' = IF v = w /\ u = o THEN Inside(v, u) \cup {h} ELSE Inside(v, u)
               /\ h \notin Inside(v, u)
  BY Enter DEF AcquireLocal, LocalInv
<1>2. TypeOK'
  <2>1. readers' \in [Workers -> Nat]
    BY <1>0 DEF AcquireLocal, LocalInv, TypeOK
  <2>2. writer' \in [Workers -> BOOLEAN]
    BY Zenon, <1>0 DEF AcquireLocal, LocalInv, TypeOK
  <2>3. op' \in [Handlers -> {"none", "scan", "finalize"}] /\ pc' \in [Handlers -> Steps]
    BY DEF AcquireLocal, LocalInv, TypeOK, Steps
  <2> QED
    BY <2>1, <2>2, <2>3 DEF AcquireLocal, LocalInv, TypeOK
<1>3. OpMatches'
  BY DEF AcquireLocal, LocalInv, TypeOK, OpMatches
<1>4. LockMatchesHolders'
  <2>1. CASE o = "finalize"
    <3>1. Cardinality(Inside(w, o) \cup {h}) = Cardinality(Inside(w, o)) + 1
      BY <1>1, InsideFinite, FS_AddElement
    <3>2. readers' = [readers EXCEPT ![w] = @ + 1] /\ writer' = writer
      BY <2>1 DEF AcquireLocal
    <3>3. ASSUME NEW v \in Workers
          PROVE  readers'[v] = Cardinality(Inside(v, "finalize")')
      BY <1>0, <1>1, <2>1, <3>1, <3>2 DEF LocalInv, TypeOK, LockMatchesHolders
    <3>4. ASSUME NEW v \in Workers
          PROVE  writer'[v] <=> Inside(v, "scan")' # {}
      BY <1>1, <2>1, <3>2 DEF LocalInv, LockMatchesHolders
    <3> QED
      BY <3>3, <3>4 DEF LockMatchesHolders
  <2>2. CASE o = "scan"
    <3>1. readers' = readers /\ writer' = [writer EXCEPT ![w] = TRUE]
      BY <2>2 DEF AcquireLocal
    <3>2. ASSUME NEW v \in Workers
          PROVE  /\ readers[v] = Cardinality(Inside(v, "finalize"))
                 /\ writer[v] <=> Inside(v, "scan") # {}
      BY DEF LocalInv, LockMatchesHolders
    <3>3. ASSUME NEW v \in Workers
          PROVE  readers'[v] = Cardinality(Inside(v, "finalize")')
      BY <1>1, <2>2, <3>1, <3>2
    <3>4. ASSUME NEW v \in Workers
          PROVE  writer'[v] <=> Inside(v, "scan")' # {}
      <4>1. CASE v = w
        BY Zenon, <1>1, <2>2, <3>1, <4>1 DEF LocalInv, TypeOK
      <4>2. CASE v # w
        <5>1. writer'[v] = writer[v]
          BY Zenon, <3>1, <4>2 DEF LocalInv, TypeOK
        <5> QED
          BY <1>1, <2>2, <3>2, <4>2, <5>1
      <4> QED
        BY <4>1, <4>2
    <3> QED
      BY <3>3, <3>4 DEF LockMatchesHolders
  <2> QED
    BY <2>1, <2>2
<1>5. LocalExclusion'
  <2>1. \A g \in Handlers: WorkerOf[g] = w /\ pc[g] \in InGuard /\ op[g] = "scan" => FALSE
    <3>1. Inside(w, "scan") = {}
      BY <1>0 DEF AcquireLocal, Refuses, LocalInv, LockMatchesHolders
    <3> QED
      BY <3>1, InsideGuard DEF LocalInv
  <2>2. o = "scan" => \A g \in Handlers: ~(WorkerOf[g] = w /\ pc[g] \in InGuard)
    <3> SUFFICES ASSUME o = "scan"
                 PROVE  \A g \in Handlers: ~(WorkerOf[g] = w /\ pc[g] \in InGuard)
      OBVIOUS
    <3>1. readers[w] = 0
      BY <1>0 DEF AcquireLocal, Refuses, LocalInv, TypeOK
    <3>2. Inside(w, "finalize") = {}
      BY <1>0, <3>1, InsideFinite, FS_EmptySet DEF LocalInv, LockMatchesHolders
    <3>3. \A g \in Handlers: pc[g] \in InGuard => op[g] \in {"scan", "finalize"}
      BY DEF LocalInv, TypeOK, OpMatches, InGuard
    <3> QED
      BY <2>1, <3>2, <3>3, InsideGuard DEF LocalInv
  <2>3. pc[h] \notin InGuard
    BY DEF AcquireLocal, InGuard
  <2> QED
    BY <2>1, <2>2, <2>3 DEF AcquireLocal, LocalInv, TypeOK, LocalExclusion
<1> QED
  BY <1>2, <1>3, <1>4, <1>5 DEF LocalInv

\* Leaving the guard, by an answer, an exception or an advisory refusal
LEMMA LeaveKeeps ==
    ASSUME LocalInv, NEW h \in Handlers, pc[h] \in InGuard, ReleaseLocal(h),
           op' = op, pc' = [pc EXCEPT ![h] = "left"], advisory' = advisory
    PROVE  LocalInv'
<1> DEFINE w == WorkerOf[h]
<1>0. w \in Workers /\ op[h] \in {"scan", "finalize"}
  BY WorkerOfType DEF LocalInv, TypeOK, OpMatches, InGuard
<1>1. /\ \A v, u: Inside(v, u)' = IF v = w /\ u = op[h] THEN Inside(v, u) \ {h} ELSE Inside(v, u)
      /\ h \in Inside(w, op[h])
  BY Exit DEF LocalInv
<1>2. Cardinality(Inside(w, op[h]) \ {h}) = Cardinality(Inside(w, op[h])) - 1
  BY <1>1, InsideFinite, FS_RemoveElement
<1>3. Cardinality(Inside(w, op[h]) \ {h}) \in Nat
  BY <1>2, InsideFinite, FS_Subset, FS_CardinalityType
<1>4. TypeOK'
  <2>1. readers' \in [Workers -> Nat]
    <3>1. CASE op[h] = "finalize"
      <4>1. readers[w] - 1 \in Nat
        BY <1>0, <1>2, <1>3, <3>1 DEF LocalInv, LockMatchesHolders
      <4> QED
        BY <1>0, <3>1, <4>1 DEF ReleaseLocal, LocalInv, TypeOK
    <3>2. CASE op[h] = "scan"
      BY <3>2 DEF ReleaseLocal, LocalInv, TypeOK
    <3> QED
      BY <1>0, <3>1, <3>2
  <2>2. writer' \in [Workers -> BOOLEAN]
    BY Zenon, <1>0 DEF ReleaseLocal, LocalInv, TypeOK
  <2>3. op' \in [Handlers -> {"none", "scan", "finalize"}] /\ pc' \in [Handlers -> Steps]
    BY DEF LocalInv, TypeOK, Steps
  <2> QED
    BY <2>1, <2>2, <2>3 DEF LocalInv, TypeOK
<1>5. OpMatches'
  BY DEF LocalInv, TypeOK, OpMatches, InGuard
<1>6. LockMatchesHolders'
  <2>1. CASE op[h] = "finalize"
    <3>1. readers' = [readers EXCEPT ![w] = @ - 1] /\ writer' = writer
      BY <2>1 DEF ReleaseLocal
    <3>2. ASSUME NEW v \in Workers
          PROVE  readers'[v] = Cardinality(Inside(v, "finalize")')
      BY <1>0, <1>1, <1>2, <2>1, <3>1 DEF LocalInv, TypeOK, LockMatchesHolders
    <3>3. ASSUME NEW v \in Workers
          PROVE  writer'[v] <=> Inside(v, "scan")' # {}
      BY <1>1, <2>1, <3>1 DEF LocalInv, LockMatchesHolders
    <3> QED
      BY <3>2, <3>3 DEF LockMatchesHolders
  <2>2. CASE op[h] = "scan"
    <3>1. Inside(w, "scan") = {h}
      BY <1>1, <2>2, InsideGuard DEF LocalInv, LocalExclusion
    <3> QED
      BY <1>0, <1>1, <2>2, <3>1 DEF ReleaseLocal, LocalInv, TypeOK, LockMatchesHolders
  <2> QED
    BY <1>0, <2>1, <2>2
<1>7. LocalExclusion'
  BY DEF LocalInv, TypeOK, LocalExclusion, InGuard
<1> QED
  BY <1>4, <1>5, <1>6, <1>7 DEF LocalInv

\* Steps that leave the process lock alone
LEMMA StayKeeps ==
    ASSUME LocalInv, NEW h \in Handlers, NEW s \in Steps,
           pc' = [pc EXCEPT ![h] = s],
           \/ /\ pc[h] \in InGuard /\ s \in InGuard /\ op' = op
              /\ s \in {"publish", "compensate", "lost", "undone"} => op[h] = "finalize"
           \/ pc[h] \in {"left", "dead"} /\ s = "idle" /\ op' = [op EXCEPT ![h] = "none"],
           UNCHANGED <<readers, writer>>,
           advisory' \in [Handlers -> {"none", "shared", "exclusive"}]
    PROVE  LocalInv'
<1>1. \A v, u: Inside(v, u)' = Inside(v, u)
  BY Stay DEF LocalInv
<1>2. TypeOK'
  BY DEF LocalInv, TypeOK
<1>3. OpMatches'
  BY DEF LocalInv, TypeOK, OpMatches, InGuard
<1>4. LockMatchesHolders'
  BY <1>1 DEF LocalInv, LockMatchesHolders
<1>5. LocalExclusion'
  BY DEF LocalInv, TypeOK, LocalExclusion, InGuard
<1> QED
  BY <1>2, <1>3, <1>4, <1>5 DEF LocalInv

LEMMA CrashKeeps ==
    ASSUME LocalInv, NEW w \in Workers, Crash(w)
    PROVE  LocalInv'
<1>1. \A v, u: Inside(v, u)' = IF v = w THEN {} ELSE Inside(v, u)
  BY DEF Crash, Running, Inside, LocalInv, TypeOK
<1>2. TypeOK'
  BY DEF Crash, LocalInv, TypeOK, Steps
<1>3. OpMatches'
  BY DEF Crash, Running, LocalInv, TypeOK, OpMatches
<1>4. LockMatchesHolders'
  BY <1>1, FS_EmptySet DEF Crash, LocalInv, TypeOK, LockMatchesHolders
<1>5. LocalExclusion'
  BY DEF Crash, LocalInv, TypeOK, LocalExclusion, InGuard
<1> QED
  BY <1>2, <1>3, <1>4, <1>5 DEF LocalInv

LEMMA LocalStep ==
    ASSUME LocalInv, [Next]_vars
    PROVE  LocalInv'
<1>1. ASSUME NEW h \in Handlers, NEW o \in {"scan", "finalize"}, AcquireLocal(h, o)
      PROVE  LocalInv'
  BY <1>1, AcquireLocalKeeps
<1>2. ASSUME NEW h \in Handlers, AdvisoryRefuse(h) \/ LeaveGuard(h)
      PROVE  LocalInv'
  BY <1>2, LeaveKeeps DEF AdvisoryRefuse, LeaveGuard, InGuard
<1>3. ASSUME NEW h \in Handlers,
             \/ AdvisoryGrant(h) \/ Publish(h) \/ Commit(h) \/ Fail(h)
             \/ DatabaseFails(h) \/ Compensate(h) \/ RollBack(h)
      PROVE  LocalInv'
  <2>1. /\ op' = op /\ UNCHANGED <<readers, writer>>
        /\ advisory' \in [Handlers -> {"none", "shared", "exclusive"}]
    BY <1>3 DEF AdvisoryGrant, Mode, Publish, Commit, Fail, DatabaseFails, Compensate, RollBack,
                LocalInv, TypeOK
  <2>2. PICK s \in InGuard: /\ pc[h] \in InGuard /\ pc' = [pc EXCEPT ![h] = s]
                            /\ s \notin {"inside", "ended"} => op[h] = "finalize"
    BY <1>3 DEF AdvisoryGrant, Publish, Commit, Fail, DatabaseFails, Compensate, RollBack, InGuard,
                LocalInv, OpMatches
  <2>3. s \in Steps
    BY DEF InGuard, Steps
  <2> QED
    BY <2>1, <2>2, <2>3, StayKeeps
<1>4. ASSUME NEW h \in Handlers, EndRequest(h) \/ Reap(h)
      PROVE  LocalInv'
  BY <1>4, StayKeeps DEF EndRequest, Reap, LocalInv, TypeOK, Steps
<1>5. ASSUME NEW w \in Workers, Crash(w)
      PROVE  LocalInv'
  BY <1>5, CrashKeeps
<1>6. CASE UNCHANGED vars
  <2>1. \A v, u: Inside(v, u)' = Inside(v, u)
    BY <1>6 DEF vars, Inside
  <2> QED
    BY <1>6, <2>1 DEF vars, LocalInv, TypeOK, OpMatches, LockMatchesHolders, LocalExclusion
<1> QED
  BY <1>1, <1>2, <1>3, <1>4, <1>5, <1>6 DEF Next

LEMMA LocalInit == Init => LocalInv
<1> SUFFICES ASSUME Init
             PROVE  LocalInv
  OBVIOUS
<1>1. \A w, o: Inside(w, o) = {}
  BY DEF Init, Inside
<1> QED
  BY <1>1, FS_EmptySet DEF Init, LocalInv, TypeOK, Steps, OpMatches, LockMatchesHolders,
                           LocalExclusion, InGuard

\* The counter and the flag of every worker agree with the requests inside its
\* guard, whatever the requests, refusals, failures and restarts before
\* (_LocalStorageIndexLock.acquire under storage_index_guard).
THEOREM LockNeverLeaks == Spec => [](TypeOK /\ LockMatchesHolders)
<1>1. Spec => []LocalInv
  BY LocalInit, LocalStep, PTL DEF Spec
<1>2. LocalInv => TypeOK /\ LockMatchesHolders
  BY DEF LocalInv
<1> QED
  BY <1>1, <1>2, PTL

-----------------------------------------------------------------------------
(* Both locks *)

\* Who holds what: on PostgreSQL the advisory lock covers every step between
\* AdvisoryGrant and the end of the transaction, by whichever side; elsewhere
\* it does not exist.
AdvisoryInv ==
    /\ \A h \in Handlers:
         /\ PostgreSQL /\ pc[h] \in {"inside", "publish", "compensate"}
              => advisory[h] = Mode(h)
         /\ ~PostgreSQL \/ pc[h] \in {"idle", "advise", "lost", "ended"} => advisory[h] = "none"
    /\ \A g, h \in Handlers: g # h /\ advisory[g] = "exclusive" => advisory[h] = "none"

LockInv == LocalInv /\ AdvisoryInv

LEMMA LockInvInit == Init => LockInv
<1> SUFFICES ASSUME Init
             PROVE  AdvisoryInv
  BY LocalInit DEF LockInv
<1> QED
  BY DEF Init, AdvisoryInv

LEMMA AdvisoryStep ==
    ASSUME LockInv, [Next]_vars
    PROVE  AdvisoryInv'
<1> USE DEF LockInv, LocalInv, TypeOK, AdvisoryInv, Mode
<1>1. ASSUME NEW h \in Handlers, NEW o \in {"scan", "finalize"}, AcquireLocal(h, o)
      PROVE  AdvisoryInv'
  BY <1>1 DEF AcquireLocal
<1>2. ASSUME NEW h \in Handlers, AdvisoryGrant(h)
      PROVE  AdvisoryInv'
  BY <1>2, SharedLock DEF AdvisoryGrant, Conflicts
<1>3. ASSUME NEW h \in Handlers,
             AdvisoryRefuse(h) \/ Publish(h) \/ Fail(h) \/ Compensate(h) \/ LeaveGuard(h)
      PROVE  AdvisoryInv'
  BY <1>3 DEF AdvisoryRefuse, Publish, Fail, Compensate, LeaveGuard
<1>4. ASSUME NEW h \in Handlers,
             Commit(h) \/ DatabaseFails(h) \/ RollBack(h) \/ EndRequest(h) \/ Reap(h)
      PROVE  AdvisoryInv'
  BY <1>4 DEF Commit, DatabaseFails, RollBack, EndRequest, Reap
<1>5. ASSUME NEW w \in Workers, Crash(w)
      PROVE  AdvisoryInv'
  BY <1>5 DEF Crash
<1>6. CASE UNCHANGED vars
  BY <1>6 DEF vars
<1> QED
  BY <1>1, <1>2, <1>3, <1>4, <1>5, <1>6 DEF Next

LEMMA LockInvStep == LockInv /\ [Next]_vars => LockInv'
  BY LocalStep, AdvisoryStep DEF LockInv

\* Two requests of which one is a scan are never both past the locks.
ScansAlone == \A g \in Scanning, h \in Publishing \cup Scanning: g = h

LEMMA ScanAlone == LockInv => ScansAlone
<1> SUFFICES ASSUME LockInv, NEW g \in Scanning, NEW h \in Publishing \cup Scanning
             PROVE  g = h
  BY DEF ScansAlone
<1>1. CASE PostgreSQL
  <2>1. g \in Handlers /\ advisory[g] = "exclusive"
    BY <1>1 DEF LockInv, AdvisoryInv, Scanning, Mode
  <2>2. h \in Handlers /\ advisory[h] # "none"
    BY <1>1 DEF LockInv, AdvisoryInv, Scanning, Publishing, Mode
  <2> QED
    BY <2>1, <2>2 DEF LockInv, AdvisoryInv
<1>2. CASE ~PostgreSQL
  <2>1. /\ g \in Handlers /\ op[g] = "scan" /\ pc[g] \in InGuard
        /\ h \in Handlers /\ pc[h] \in InGuard
    BY <1>2 DEF LockInv, AdvisoryInv, Scanning, Publishing, InGuard
  <2> QED
    BY <1>2, <2>1, SharedLock DEF LockInv, LocalInv, LocalExclusion
<1> QED
  BY <1>1, <1>2, SharedLock

-----------------------------------------------------------------------------
(* The refinement *)

LEMMA AccessInit == Init => Access!Init
  BY DEF Init, Access!Init, Publishing, Exposed, Scanning

\* A finalization that publishes becomes visible; no scan is running.
LEMMA PublishBegins ==
    ASSUME LockInv, ScansAlone', NEW h \in Handlers, Publish(h)
    PROVE  Access!BeginPublish(h)
<1> USE DEF LockInv, LocalInv, TypeOK
<1>1. Publishing' = Publishing \cup {h} /\ Exposed' = Exposed /\ Scanning' = Scanning
  BY DEF Publish, Publishing, Exposed, Scanning
<1>2. ASSUME NEW g \in Scanning'
      PROVE  FALSE
  <2>1. h \in Publishing'
    BY <1>1
  <2>2. g = h
    BY <2>1 DEF ScansAlone
  <2> QED
    BY <2>2 DEF Publish, Scanning
<1> QED
  BY <1>1, <1>2 DEF Access!BeginPublish

\* A finalization loses its transaction while it has the advisory lock.
LEMMA ExposeBegins ==
    ASSUME LockInv, ScansAlone, NEW h \in Handlers, DatabaseFails(h), pc[h] # "inside"
    PROVE  Access!Expose(h)
<1> USE DEF LockInv, LocalInv, TypeOK
<1>1. h \in Publishing /\ h \notin Scanning
  BY DEF DatabaseFails, Publishing, Scanning
<1>2. /\ Publishing' = Publishing \ {h}
      /\ Exposed' = Exposed \cup {h}
  BY DEF DatabaseFails, Publishing, Exposed
<1>3. Scanning = {} /\ Scanning' = Scanning
  BY <1>1 DEF ScansAlone, DatabaseFails, Scanning
<1> QED
  BY <1>2, <1>3 DEF Access!Expose

\* The process lock keeps a scan away from the exposed files of its own process.
LEMMA ScanBegins ==
    ASSUME LockInv, ScansAlone', NEW h \in Handlers, AdvisoryGrant(h), op[h] = "scan"
    PROVE  Access!BeginScan(h)
<1> USE DEF LockInv, LocalInv, TypeOK
<1>1. Publishing' = Publishing /\ Exposed' = Exposed /\ Scanning' = Scanning \cup {h}
  BY DEF AdvisoryGrant, Publishing, Exposed, Scanning
<1>2. ASSUME NEW g \in Publishing \cup Scanning
      PROVE  FALSE
  <2>1. g \in Publishing' \cup Scanning' /\ h \in Scanning'
    BY <1>1
  <2>2. g = h
    BY <2>1 DEF ScansAlone
  <2> QED
    BY <2>2 DEF AdvisoryGrant, Publishing, Scanning
<1>3. ASSUME NEW g \in Exposed
      PROVE  WorkerOf[g] # WorkerOf[h]
  BY DEF AdvisoryGrant, Exposed, LocalExclusion, InGuard
<1> QED
  BY <1>1, <1>2, <1>3 DEF Access!BeginScan

\* Every other step adds nobody.
LEMMA OthersEnd ==
    ASSUME LockInv, [Next]_vars,
           \A h \in Handlers: /\ ~Publish(h)
                              /\ ~(AdvisoryGrant(h) /\ op[h] = "scan")
                              /\ ~(DatabaseFails(h) /\ pc[h] # "inside")
    PROVE  Access!End
<1> USE DEF LockInv, LocalInv, TypeOK, Publishing, Exposed, Scanning, Access!End
<1>1. ASSUME NEW h \in Handlers, \E o \in {"scan", "finalize"}: AcquireLocal(h, o)
      PROVE  Access!End
  BY <1>1 DEF AcquireLocal
<1>2. ASSUME NEW h \in Handlers, AdvisoryGrant(h), op[h] # "scan"
      PROVE  Access!End
  BY <1>2 DEF AdvisoryGrant, Mode
<1>3. ASSUME NEW h \in Handlers, AdvisoryRefuse(h)
      PROVE  Access!End
  <2>1. op[h] = "scan" => advisory[h] # "exclusive"
    BY <1>3 DEF AdvisoryRefuse, AdvisoryInv
  <2> QED
    BY <1>3, <2>1 DEF AdvisoryRefuse
<1>4. ASSUME NEW h \in Handlers, Commit(h) \/ Fail(h) \/ Compensate(h) \/ RollBack(h)
      PROVE  Access!End
  BY <1>4 DEF Commit, Fail, Compensate, RollBack
<1>5. ASSUME NEW h \in Handlers, DatabaseFails(h), pc[h] = "inside"
      PROVE  Access!End
  BY <1>5 DEF DatabaseFails
<1>6. ASSUME NEW h \in Handlers, LeaveGuard(h) \/ EndRequest(h) \/ Reap(h)
      PROVE  Access!End
  <2>1. pc[h] = "ended" => advisory[h] = "none"
    BY <1>6 DEF AdvisoryInv
  <2> QED
    BY <1>6, <2>1 DEF LeaveGuard, EndRequest, Reap, OpMatches
<1>7. ASSUME NEW w \in Workers, Crash(w)
      PROVE  Access!End
  BY <1>7 DEF Crash
<1>8. CASE UNCHANGED vars
  BY <1>8 DEF vars
<1> QED
  BY <1>1, <1>2, <1>3, <1>4, <1>5, <1>6, <1>7, <1>8 DEF Next

\* A scan never reads the archive while it holds files of a finalization whose
\* transaction is open, and never overlaps another scan; on PostgreSQL that
\* lasts until the scan has committed.  When the database has ended the
\* transaction, the scans of the same process stay away until the files are
\* unlinked (storage_index_guard).
THEOREM LockImplementsAccess == Spec => AccessSpec
<1>1. LockInv /\ ScansAlone /\ ScansAlone' /\ [Next]_vars => [Access!Next]_(Access!vars)
  <2> SUFFICES ASSUME LockInv, ScansAlone, ScansAlone', [Next]_vars
               PROVE  Access!Next
    OBVIOUS
  <2>1. CASE \E h \in Handlers: Publish(h)
    BY <2>1, PublishBegins DEF Access!Next
  <2>2. CASE \E h \in Handlers: AdvisoryGrant(h) /\ op[h] = "scan"
    BY <2>2, ScanBegins DEF Access!Next
  <2>3. CASE \E h \in Handlers: DatabaseFails(h) /\ pc[h] # "inside"
    BY <2>3, ExposeBegins DEF Access!Next
  <2>4. CASE \A h \in Handlers: /\ ~Publish(h)
                                /\ ~(AdvisoryGrant(h) /\ op[h] = "scan")
                                /\ ~(DatabaseFails(h) /\ pc[h] # "inside")
    BY <2>4, OthersEnd DEF Access!Next
  <2> QED
    BY <2>1, <2>2, <2>3, <2>4
<1>2. Spec => []LockInv
  BY LockInvInit, LockInvStep, PTL DEF Spec
<1> QED
  BY <1>1, <1>2, ScanAlone, AccessInit, PTL DEF Spec, AccessSpec, Access!Spec

=============================================================================
