------------------------- MODULE UpdateAgentProofs --------------------------
(***************************************************************************)
(* Proofs about UpdateAgent: whatever fails and whenever the agent ends,   *)
(* there is a way back to the old release, what the page says is so, and   *)
(* the backup of the update is kept, for any number of services, releases, *)
(* backups and faults.                                                     *)
(***************************************************************************)
EXTENDS UpdateAgent, FiniteSetTheorems, TLAPS

-----------------------------------------------------------------------------
(* The invariant *)

StatusRecord ==
    [phase: Phases, interrupted: BusyPhases \cup {"none"}, checked: BOOLEAN, latest: Releases,
     old: {0} \cup Releases, target: {0} \cup Releases, images: SUBSET Services,
     backup: {0} \cup BackupIds, saving: BOOLEAN,
     outcome: {"none", "error", "stopped", "verified", "restored", "manual"}]

LatePhases == UpdatePhases \ {"protecting_images"}
Forward    == LatePhases \cup {"prune"}
Backward   == RollbackSteps \cup {"report"}

\* The phase that status.json has tells a restarted agent how far it came.
PhaseInv ==
    /\ pc \in BusyPhases => status.phase = pc
    /\ pc = "prune" => status.phase = "database_backup"
    /\ pc = "recommit" => status.phase = "interrupted_recovery" /\ status.interrupted = "committed"
    /\ pc \in Backward => status.phase \in LatePhases \cup {"interrupted_recovery"} /\ status.old # 0
    /\ pc \in {"free", "scheduled"} => status.phase \notin BusyPhases \ {"preflight"}
    /\ status.phase \in {"available", "preflight"} => status.old = 0
    /\ status.phase = "preflight" => status.backup = 0
    /\ \/ status.phase \in UpdatePhases
       \/ status.phase = "interrupted_recovery" /\ status.interrupted \in UpdatePhases
       => status.old # 0 /\ status.target # 0
    /\ status.phase \in LatePhases => status.images = Services
    /\ status.outcome # "none" => pc \in {"free", "scheduled", "down"}

OldRuns == head = status.old /\ running = [s \in Services |-> status.old]

\* The rollback tags stand for what ran, as long as something else may run, and
\* a service without one has not changed.
WayBack ==
    /\ status.old = before.head
    /\ \A s \in Services: tags[s] \in {0, before.running[s]}
    /\ \/ status.images = Services
       \/ head = status.old /\ \A s \in Services \ status.images: image[s] = before.image[s]
    /\ \/ head = status.old /\ running = before.running
       \/ \A s \in status.images: tags[s] = before.running[s]
       \/ OldRuns

WayInv ==
    /\ status.old # 0 => WayBack
    /\ pc \in Forward \cup {"restart", "recheck"} => \A s \in status.images: tags[s] = before.running[s]
    /\ pc = "protecting_images" =>
        /\ head = status.old /\ running = before.running /\ schema = before.schema /\ image = before.image
        /\ \A s \in status.images: tags[s] = before.running[s]
    /\ pc \in Backward \ {"reset"} => head = status.old
    /\ pc \in {"cleanup", "report"} => OldRuns

\* What was verified still serves when the outcome is written.
OutcomeInv ==
    /\ pc \in {"cleanup", "report"} => Serves(status.old)
    /\ pc \in {"committed", "recommit"} => Serves(status.target)
    /\ OutcomeTrue

\* A prune brings the backups back to the limit; each fault can leave one more.
BackupInv ==
    /\ BackupKept
    /\ IsFiniteSet(backups)
    /\ Cardinality(backups) <= Retention + faults + (IF pc = "prune" THEN 1 ELSE 0)

AgentInv == TypeOK /\ PhaseInv /\ WayInv /\ OutcomeInv /\ BackupInv

-----------------------------------------------------------------------------
(* Releases and backups *)

LEMMA ReleasesAre ==
    /\ 1 \in Releases /\ 0 \notin Releases /\ Releases \subseteq Nat
    /\ Migrations \subseteq Releases
  BY AgentTypes DEF Releases

\* A set of numbers up to a bound has a largest one: the interval that starts
\* there has no other inside it.
LEMMA LargestExists ==
    ASSUME NEW K \in Nat, NEW M \in SUBSET (1..K), M # {}
    PROVE  \E m \in M: \A n \in M: n <= m
  <1> DEFINE From(m) == {k \in 1..K: m <= k}
             T == {From(m): m \in M}
  <1>1. IsWellFoundedOn(StrictSubsetOrdering(1..K), FiniteSubsetsOf(1..K))
    BY FS_StrictSubsetOrderingWellFounded
  <1>2. T \subseteq FiniteSubsetsOf(1..K) /\ T # {}
    <2>1. IsFiniteSet(1..K)
      BY FS_Interval
    <2>2. FiniteSubsetsOf(1..K) = SUBSET (1..K)
      BY <2>1, FS_FiniteSubsetsOfFinite
    <2>3. \A m \in M: From(m) \in SUBSET (1..K)
      OBVIOUS
    <2>4. T \subseteq SUBSET (1..K) /\ T # {}
      <3> HIDE DEF From
      <3>1. QED BY <2>3
    <2> HIDE DEF T
    <2>5. QED BY <2>2, <2>4
  <1>3. PICK x \in T: \A y \in T: <<y, x>> \notin StrictSubsetOrdering(1..K)
    <2> HIDE DEF T
    <2>1. QED BY <1>1, <1>2, WFMin
  <1>4. PICK m \in M: x = From(m)
    OBVIOUS
  <1>5. ASSUME NEW n \in M PROVE n <= m
    <2>1. CASE m < n
      <3>1. From(n) \subseteq From(m) /\ m \in From(m) /\ m \notin From(n)
        BY <2>1
      <3>2. <<From(n), From(m)>> \in StrictSubsetOrdering(1..K)
        BY <3>1 DEF StrictSubsetOrdering
      <3>3. QED BY <1>3, <1>4, <3>2
    <2>2. QED BY <2>1
  <1>6. QED BY <1>5

LEMMA RevisionType ==
    ASSUME NEW r \in Releases
    PROVE  Revision(r) \in Releases
  <1>1. CASE \E m \in Migrations: m <= r
    <2> DEFINE M == {m \in Migrations: m <= r}
    <2>1. M \in SUBSET (1..MaxRelease) /\ M # {} /\ MaxRelease \in Nat
      <3>1. M \subseteq Releases /\ MaxRelease \in Nat
        BY AgentTypes, ReleasesAre
      <3>2. QED BY <1>1, <3>1 DEF Releases
    <2>2. PICK m \in M: \A n \in M: n <= m
      BY <2>1, LargestExists
    <2>3. \E k \in Migrations: k <= r /\ \A n \in Migrations: n <= r => n <= k
      BY <2>2
    <2>4. Revision(r) \in Migrations
      BY <1>1, <2>3 DEF Revision
    <2>5. QED BY <2>4, ReleasesAre
  <1>2. CASE ~\E m \in Migrations: m <= r
    BY <1>2, ReleasesAre DEF Revision
  <1>3. QED BY <1>1, <1>2

LEMMA MigratedType ==
    ASSUME TypeOK, NEW r \in Releases
    PROVE  Migrated(r) \in Releases
  BY RevisionType DEF Migrated, TypeOK

\* There is always a name that no backup and no status has.
LEMMA NewIs ==
    ASSUME TypeOK, IsFiniteSet(backups), Cardinality(backups) <= Retention + faults, NEW time \in 1..MaxClock
    PROVE  /\ New(time) \in Backup
           /\ New(time).id \in BackupIds /\ New(time).id # status.backup
  <1> DEFINE id == [b \in backups |-> b.id]
             used == {id[b]: b \in backups}
  <1>1. id \in Surjection(backups, used)
    BY DEF Surjection
  <1>2. IsFiniteSet(used) /\ Cardinality(used) <= Cardinality(backups)
    <2> HIDE DEF id, used
    <2>1. QED BY <1>1, FS_Surjection
  <1>3. IsFiniteSet(used \cup {status.backup}) /\ Cardinality(used \cup {status.backup}) <= Cardinality(backups) + 1
    <2> HIDE DEF used
    <2>1. Cardinality(used) \in Nat /\ Cardinality(backups) \in Nat
      BY <1>2, FS_CardinalityType
    <2>2. /\ IsFiniteSet(used \cup {status.backup})
          /\ Cardinality(used \cup {status.backup}) = IF status.backup \in used THEN Cardinality(used)
                                                                               ELSE Cardinality(used) + 1
      BY <1>2, FS_AddElement
    <2>3. QED BY <1>2, <2>1, <2>2
  <1>4. ~(BackupIds \subseteq used \cup {status.backup})
    <2> HIDE DEF used
    <2>1. ASSUME BackupIds \subseteq used \cup {status.backup} PROVE FALSE
      <3>1. Cardinality(BackupIds) <= Cardinality(used \cup {status.backup})
        BY <1>3, <2>1, FS_Subset
      <3>2. /\ Cardinality(BackupIds) \in Nat /\ Cardinality(backups) \in Nat
            /\ Cardinality(used \cup {status.backup}) \in Nat
        BY <1>3, AgentTypes, FS_CardinalityType
      <3>3. faults \in Nat /\ faults <= MaxFaults
        BY AgentTypes DEF TypeOK
      <3>4. QED BY <1>3, <3>1, <3>2, <3>3, AgentTypes
    <2>2. QED BY <2>1
  <1>5. \E name \in BackupIds: name # status.backup /\ \A b \in backups: b.id # name
    BY <1>4
  <1> DEFINE free == CHOOSE name \in BackupIds: name # status.backup /\ \A b \in backups: b.id # name
  <1>6. free \in BackupIds /\ free # status.backup
    BY <1>5
  <1>7. New(time) = [id |-> free, time |-> time]
    BY DEF New
  <1> HIDE DEF free
  <1>8. QED BY <1>6, <1>7 DEF Backup

\* What a prune keeps
LEMMA RetainedIs ==
    ASSUME NEW all, IsFiniteSet(all), NEW current \in all, NEW kept \in Retained(all, current)
    PROVE  kept \subseteq all /\ current \in kept /\ IsFiniteSet(kept) /\ Cardinality(kept) <= Retention
  <1>1. PICK newest \in Newest(all):
          LET both == newest \cup {current} IN
          IF Cardinality(both) <= Retention THEN kept = both
          ELSE \E oldest \in both \ {current}: kept = both \ {oldest}
    BY DEF Retained
  <1> DEFINE both == newest \cup {current}
  <1>2. newest \subseteq all /\ Cardinality(newest) <= Retention
    <2>1. newest \subseteq all /\ (Cardinality(newest) = Retention \/ (newest = all /\ Cardinality(all) < Retention))
      BY DEF Newest
    <2>2. QED BY <2>1, AgentTypes, FS_CardinalityType
  <1>3. IsFiniteSet(newest) /\ Cardinality(newest) \in Nat
    BY <1>2, FS_Subset, FS_CardinalityType
  <1>4. IsFiniteSet(both) /\ Cardinality(both) <= Retention + 1
    <2>1. /\ IsFiniteSet(both)
          /\ Cardinality(both) = IF current \in newest THEN Cardinality(newest) ELSE Cardinality(newest) + 1
      BY <1>3, FS_AddElement
    <2> HIDE DEF both
    <2>2. QED BY <1>2, <1>3, <2>1, AgentTypes
  <1>5. CASE Cardinality(both) <= Retention
    BY <1>1, <1>2, <1>4, <1>5
  <1>6. CASE ~(Cardinality(both) <= Retention)
    <2>1. PICK oldest \in both \ {current}: kept = both \ {oldest}
      BY <1>1, <1>6
    <2> HIDE DEF both
    <2>2. Cardinality(both) \in Nat /\ IsFiniteSet(kept) /\ Cardinality(kept) = Cardinality(both) - 1
      BY <1>4, <2>1, FS_RemoveElement, FS_CardinalityType
    <2>3. Cardinality(kept) <= Retention
      BY <1>4, <2>2, AgentTypes
    <2>4. QED BY <1>2, <2>1, <2>2, <2>3 DEF both
  <1>7. QED BY <1>5, <1>6

LEMMA FaultCounted ==
    ASSUME TypeOK, Fault \/ NoFault
    PROVE  faults' \in 0..MaxFaults /\ faults \in Nat /\ (Fault => faults' = faults + 1)
  BY AgentTypes DEF TypeOK, Fault, NoFault

\* A prune, whether it comes to its end or not, keeps the current backup, and one
\* that ends brings the number down.
LEMMA PruneIs ==
    ASSUME TypeOK, NEW all, IsFiniteSet(all), Cardinality(all) <= Retention + faults + 1,
           NEW current \in all, Prune(all, current)
    PROVE  /\ backups' \subseteq all /\ current \in backups' /\ IsFiniteSet(backups')
           /\ Cardinality(backups') <= Retention + faults' /\ (Fault \/ NoFault)
  <1>1. PICK kept \in Retained(all, current):
          \/ NoFault /\ backups' = kept
          \/ Fault /\ backups' \in {some \in SUBSET all: kept \subseteq some}
    BY DEF Prune
  <1>2. kept \subseteq all /\ current \in kept /\ IsFiniteSet(kept) /\ Cardinality(kept) <= Retention
    BY RetainedIs
  <1>3. Fault \/ NoFault
    BY <1>1
  <1>4. faults' \in Nat /\ faults \in Nat /\ (Fault => faults' = faults + 1)
    BY <1>3, FaultCounted
  <1>5. CASE NoFault /\ backups' = kept
    BY <1>2, <1>4, <1>5, AgentTypes, FS_CardinalityType
  <1>6. CASE Fault /\ backups' \in {some \in SUBSET all: kept \subseteq some}
    <2>1. backups' \subseteq all /\ current \in backups'
      BY <1>2, <1>6
    <2>2. IsFiniteSet(backups') /\ Cardinality(backups') <= Cardinality(all)
      BY <2>1, FS_Subset
    <2>3. Cardinality(backups') \in Nat /\ Cardinality(all) \in Nat
      BY <2>2, FS_CardinalityType
    <2>4. Cardinality(backups') <= Retention + faults'
      BY <1>4, <1>6, <2>2, <2>3, AgentTypes
    <2>5. QED BY <1>3, <2>1, <2>2, <2>4
  <1>7. QED BY <1>1, <1>5, <1>6

-----------------------------------------------------------------------------
(* What is written to status.json *)

LEMMA PhasesAre ==
    /\ UpdatePhases \subseteq BusyPhases /\ BusyPhases \subseteq Phases
    /\ {"fetch", "preflight", "interrupted_recovery"} \subseteq BusyPhases
    /\ {"idle", "available", "complete", "failed"} \subseteq Phases
    /\ UpdatePhases = {"protecting_images", "database_backup", "git_merge", "docker_build",
                       "compose_up", "health_check", "committed"}
  BY DEF Phases, BusyPhases, UpdatePhases

LEMMA InspectedIs ==
    ASSUME TypeOK
    PROVE  /\ Inspected \in StatusRecord /\ Inspected.phase \in {"idle", "available"}
           /\ Inspected.old = 0 /\ Inspected.target = 0 /\ Inspected.images = {} /\ Inspected.backup = 0
           /\ Inspected.outcome = "none"
  <1>1. status \in StatusRecord /\ origin \in Releases
    BY DEF TypeOK, StatusRecord
  <1>2. FirstStatus \in StatusRecord
    BY ReleasesAre DEF FirstStatus, StatusRecord, Phases
  <1>3. Inspected = [FirstStatus EXCEPT !.phase = Inspected.phase, !.checked = status.checked, !.latest = origin]
    BY DEF Inspected, FirstStatus
  <1>4. Inspected.phase \in {"idle", "available"}
    BY DEF Inspected, FirstStatus
  <1>5. QED BY <1>1, <1>2, <1>3, <1>4 DEF FirstStatus, StatusRecord, Phases

LEMMA FailedIs ==
    ASSUME TypeOK, NEW base \in StatusRecord, NEW outcome \in {"error", "stopped", "restored", "manual"}
    PROVE  LET f == FailedFrom(base, outcome) IN
           /\ f \in StatusRecord /\ f.phase = "failed" /\ f.outcome = outcome /\ f.backup = status.backup
           /\ f.old = base.old /\ f.target = base.target /\ f.images = base.images
  <1>1. status.backup \in {0} \cup BackupIds
    BY DEF TypeOK
  <1>2. QED BY <1>1, PhasesAre DEF FailedFrom, StatusRecord

LEMMA SucceededIs ==
    ASSUME TypeOK
    PROVE  /\ Succeeded \in StatusRecord /\ Succeeded.phase = "complete" /\ Succeeded.outcome = "verified"
           /\ Succeeded.old = 0
  <1>1. Inspected \in StatusRecord /\ Inspected.old = 0 /\ status \in StatusRecord
    BY InspectedIs DEF TypeOK, StatusRecord
  <1>2. QED BY <1>1 DEF Succeeded, StatusRecord, Phases

\* The status after each kind of step
LEMMA StatusWritten ==
    ASSUME TypeOK, BackupInv, [Next]_vars
    PROVE  status' \in StatusRecord
  <1>1. status \in StatusRecord /\ {head, origin, upstream} \subseteq Releases
    BY DEF TypeOK, StatusRecord
  <1>2. CASE UNCHANGED status
    BY <1>1, <1>2
  <1>3. CASE Request
    BY <1>1, <1>3, PhasesAre DEF Request, BeginCheck, BeginUpdate, BeginBackup, StatusRecord
  <1>4. CASE PerformCheck
    <2>1. FirstStatus \in StatusRecord
      BY ReleasesAre DEF FirstStatus, StatusRecord, Phases
    <2>2. PICK phase \in {"idle", "available"}:
            status' = [FirstStatus EXCEPT !.phase = phase, !.checked = TRUE, !.latest = upstream]
      BY <1>4 DEF PerformCheck, Finish
    <2>3. upstream \in Releases /\ phase \in Phases
      BY <1>1, PhasesAre
    <2>4. QED BY <2>1, <2>2, <2>3 DEF StatusRecord
  <1>5. CASE \/ CheckFails \/ PreflightFails \/ ProtectFails \/ ReportRestored \/ RollbackFails \/ RollbackStepFails
             \/ RecoverCheck
    <2>1. \E base \in {status, Inspected}, outcome \in {"error", "stopped", "restored", "manual"}:
            status' = FailedFrom(base, outcome)
      BY <1>5 DEF CheckFails, PreflightFails, ProtectFails, ReportRestored, RollbackFails, RollbackStepFails,
                  RecoverCheck, Finish
    <2>2. QED BY <1>1, <2>1, FailedIs, InspectedIs
  <1>6. CASE AcceptUpdate
    <2>1. Inspected \in StatusRecord
      BY InspectedIs
    <2>2. QED BY <1>1, <1>6, <2>1, PhasesAre DEF AcceptUpdate, StatusRecord
  <1>7. CASE \E s \in Services: ProtectImage(s)
    BY <1>1, <1>7 DEF ProtectImage, StatusRecord
  <1>8. CASE ImagesProtected \/ PruneBackups \/ GitMerge \/ DockerBuild \/ ComposeUp \/ HealthCheck
    <2>1. \E phase \in UpdatePhases, outcome \in {"none", status.outcome}:
            status' = [status EXCEPT !.phase = phase, !.outcome = outcome]
      BY <1>1, <1>8, PhasesAre DEF ImagesProtected, PruneBackups, GitMerge, DockerBuild, ComposeUp, HealthCheck, Enter,
                                   StatusRecord
    <2>2. QED BY <1>1, <2>1, PhasesAre DEF StatusRecord
  <1>9. CASE CompleteUpdate \/ Recommit
    BY <1>9, SucceededIs DEF CompleteUpdate, Recommit, Finish
  <1>10. CASE ScheduledBackup
    BY <1>1, <1>10 DEF ScheduledBackup, Finish, StatusRecord
  <1>11. CASE Boot
    <2>1. CASE Interrupted
      <3>1. /\ status' = [status EXCEPT !.interrupted = status.phase, !.phase = "interrupted_recovery",
                                        !.outcome = "none", !.saving = FALSE]
            /\ status.phase \in BusyPhases
        BY <1>11, <2>1 DEF Boot, Interrupted, BusyPhases, UpdatePhases
      <3>2. QED BY <1>1, <3>1, PhasesAre DEF StatusRecord
    <2>2. CASE ~Interrupted
      <3>1. CASE status' = [status EXCEPT !.saving = FALSE]
        BY <1>1, <3>1 DEF StatusRecord
      <3>2. CASE status' = Inspected
        BY <3>2, InspectedIs
      <3>3. CASE status' = [FailedFrom(status, "error") EXCEPT !.backup = 0, !.saving = FALSE]
        <4>1. FailedFrom(status, "error") \in StatusRecord
          BY <1>1, FailedIs
        <4>2. QED BY <3>3, <4>1 DEF StatusRecord
      <3>4. QED BY <1>11, <2>2, <3>1, <3>2, <3>3 DEF Boot, Finish
    <2>3. QED BY <2>1, <2>2
  <1>12. CASE BackupDatabase
    <2>1. PICK time \in 1..MaxClock: status' = [status EXCEPT !.backup = New(time).id]
      BY <1>12 DEF BackupDatabase
    <2>2. New(time).id \in BackupIds
      <3>1. IsFiniteSet(backups) /\ Cardinality(backups) <= Retention + faults + 0
        BY <1>12 DEF BackupDatabase, BackupInv
      <3>2. Retention + faults + 0 = Retention + faults
        BY AgentTypes DEF TypeOK
      <3>3. QED BY <3>1, <3>2, NewIs
    <2>3. QED BY <1>1, <2>1, <2>2 DEF StatusRecord
  <1>13. QED BY <1>2, <1>3, <1>4, <1>5, <1>6, <1>7, <1>8, <1>9, <1>10, <1>11, <1>12
         DEF Next, Update, Rollback, Recovery, vars, HealthCheckFails, UpdateStepFails, PreflightConflict,
             Finish, ResetWorktree, RestoreImages,
             RestartOld, CheckOld, RemoveRollbackImages, Reverify, ReverifyFails, RecoverOld, Crash, Publish,
             OperatorFetches, OperatorEdits

-----------------------------------------------------------------------------
(* Phases *)

LEMMA PhaseStep ==
    ASSUME AgentInv, [Next]_vars
    PROVE  PhaseInv'
  <1>1. TypeOK /\ PhaseInv /\ status \in StatusRecord
    BY DEF AgentInv, TypeOK, StatusRecord
  <1> USE DEF UpdatePhases, BusyPhases, RollbackSteps, LatePhases, Backward
  <1>2. CASE UNCHANGED <<pc, status>>
    BY <1>1, <1>2 DEF PhaseInv
  <1>3. CASE Request
    <2>1. CASE BeginCheck
      <3>1. pc' = "fetch" /\ status'.phase = "fetch" /\ status'.outcome = "none"
        BY <1>1, <2>1 DEF BeginCheck, StatusRecord
      <3>2. QED BY <3>1 DEF PhaseInv
    <2>2. CASE BeginUpdate
      <3>1. /\ pc' = "preflight" /\ status'.phase = "preflight" /\ status'.outcome = "none" /\ status'.backup = 0
            /\ status'.old = status.old /\ status.phase = "available"
        BY <1>1, <2>2 DEF BeginUpdate, StatusRecord
      <3>2. QED BY <1>1, <3>1 DEF PhaseInv
    <2>3. CASE BeginBackup
      <3>1. /\ pc = "free" /\ pc' = "scheduled"
            /\ status'.phase = status.phase /\ status'.old = status.old /\ status'.target = status.target
            /\ status'.images = status.images /\ status'.outcome = status.outcome /\ status'.backup = status.backup
            /\ status'.interrupted = status.interrupted
        BY <1>1, <2>3 DEF BeginBackup, StatusRecord
      <3>2. QED BY <1>1, <3>1 DEF PhaseInv
    <2>4. QED BY <1>3, <2>1, <2>2, <2>3 DEF Request
  <1>4. CASE PerformCheck \/ CompleteUpdate \/ Recommit
    <2>1. pc' = "free" /\ status'.phase \in {"idle", "available", "complete"} /\ status'.old = 0
      BY <1>1, <1>4, SucceededIs DEF PerformCheck, CompleteUpdate, Recommit, Finish, FirstStatus
    <2>2. QED BY <2>1 DEF PhaseInv
  <1>5. CASE \/ CheckFails \/ PreflightFails \/ ProtectFails \/ ReportRestored \/ RollbackFails \/ RollbackStepFails
             \/ RecoverCheck
    <2>1. pc' = "free" /\ \E base \in {status, Inspected}, outcome \in {"error", "stopped", "restored", "manual"}:
            status' = FailedFrom(base, outcome)
      BY <1>5 DEF CheckFails, PreflightFails, ProtectFails, ReportRestored, RollbackFails, RollbackStepFails,
                  RecoverCheck, Finish
    <2>2. status'.phase = "failed"
      BY <1>1, <2>1, FailedIs, InspectedIs
    <2>3. QED BY <2>1, <2>2 DEF PhaseInv
  <1>6. CASE AcceptUpdate
    <2>1. /\ pc' = "protecting_images" /\ status'.phase = "protecting_images" /\ status'.outcome = "none"
          /\ status'.old = head /\ status'.target = status.latest
      BY <1>1, <1>6, InspectedIs DEF AcceptUpdate, StatusRecord
    <2>2. head # 0 /\ status.latest # 0
      BY <1>1, ReleasesAre DEF TypeOK
    <2>3. QED BY <2>1, <2>2 DEF PhaseInv
  <1>7. CASE \E s \in Services: ProtectImage(s)
    <2>1. /\ pc = "protecting_images" /\ pc' = pc
          /\ status'.phase = status.phase /\ status'.old = status.old /\ status'.target = status.target
          /\ status'.outcome = status.outcome
      BY <1>1, <1>7 DEF ProtectImage, StatusRecord
    <2>2. QED BY <1>1, <2>1 DEF PhaseInv
  <1>8. CASE ImagesProtected \/ PruneBackups \/ GitMerge \/ DockerBuild \/ ComposeUp \/ HealthCheck
    <2>1. /\ pc' \in LatePhases /\ status'.phase = pc' /\ status'.old = status.old /\ status'.target = status.target
          /\ status'.images = status.images /\ status'.outcome \in {"none", status.outcome}
          /\ pc \in UpdatePhases \cup {"prune"}
      BY <1>1, <1>8 DEF ImagesProtected, PruneBackups, GitMerge, DockerBuild, ComposeUp, HealthCheck, Enter,
                        StatusRecord
    <2>2. status.images = Services
      BY <1>1, <1>8 DEF ImagesProtected, AllProtected, PruneBackups, GitMerge, DockerBuild, ComposeUp, HealthCheck,
                        PhaseInv
    <2>3. status.old # 0 /\ status.target # 0 /\ status.outcome = "none"
      BY <1>1, <2>1 DEF PhaseInv
    <2>4. QED BY <2>1, <2>2, <2>3 DEF PhaseInv
  <1>9. CASE BackupDatabase
    <2>1. /\ pc = "database_backup" /\ pc' = "prune"
          /\ status'.phase = status.phase /\ status'.old = status.old /\ status'.target = status.target
          /\ status'.images = status.images /\ status'.outcome = status.outcome
      BY <1>1, <1>9 DEF BackupDatabase, StatusRecord
    <2>2. QED BY <1>1, <2>1 DEF PhaseInv
  <1>10. CASE PreflightConflict
    BY <1>1, <1>10 DEF PreflightConflict, Finish, PhaseInv
  <1>11. CASE ScheduledBackup
    <2>1. /\ pc = "scheduled" /\ pc' = "free"
          /\ status'.phase = status.phase /\ status'.old = status.old /\ status'.target = status.target
          /\ status'.images = status.images /\ status'.outcome = status.outcome /\ status'.backup = status.backup
          /\ status'.interrupted = status.interrupted
      BY <1>1, <1>11 DEF ScheduledBackup, Finish, StatusRecord
    <2>2. QED BY <1>1, <2>1 DEF PhaseInv
  <1>12. CASE Boot
    <2>1. CASE Interrupted
      <3>1. /\ pc' = "interrupted_recovery" /\ status'.phase = "interrupted_recovery" /\ status'.outcome = "none"
            /\ status'.interrupted = status.phase
            /\ status'.old = status.old /\ status'.target = status.target
        BY <1>1, <1>12, <2>1 DEF Boot, Interrupted, StatusRecord
      <3>2. QED BY <1>1, <3>1 DEF PhaseInv
    <2>2. CASE ~Interrupted
      <3>1. pc' = "free" /\ (status' = [status EXCEPT !.saving = FALSE] \/ status' = Inspected
              \/ status' = [FailedFrom(status, "error") EXCEPT !.backup = 0, !.saving = FALSE])
        BY <1>12, <2>2 DEF Boot, Finish
      <3>2. CASE status' = [status EXCEPT !.saving = FALSE]
        <4>1. /\ status'.phase = status.phase /\ status'.old = status.old /\ status'.target = status.target
              /\ status'.images = status.images /\ status'.backup = status.backup
          BY <1>1, <3>2 DEF StatusRecord
        <4>2. QED BY <1>1, <2>2, <3>1, <4>1 DEF PhaseInv, Interrupted
      <3>3. CASE status' = Inspected
        BY <1>1, <3>1, <3>3, InspectedIs DEF PhaseInv
      <3>4. CASE status' = [FailedFrom(status, "error") EXCEPT !.backup = 0, !.saving = FALSE]
        <4>1. status'.phase = "failed"
          BY <1>1, <3>4, FailedIs DEF StatusRecord
        <4>2. QED BY <3>1, <4>1 DEF PhaseInv
      <3>5. QED BY <3>1, <3>2, <3>3, <3>4
    <2>3. QED BY <2>1, <2>2
  <1>13. CASE HealthCheckFails \/ UpdateStepFails
    <2>1. UNCHANGED status /\ pc' = "reset" /\ pc \in LatePhases
      BY <1>13 DEF HealthCheckFails, UpdateStepFails
    <2>2. QED BY <1>1, <2>1 DEF PhaseInv
  <1>14. CASE ResetWorktree \/ RestoreImages \/ RestartOld \/ CheckOld \/ RemoveRollbackImages
    <2>1. UNCHANGED status /\ pc' \in Backward /\ pc \in Backward
      BY <1>14 DEF ResetWorktree, RestoreImages, RestartOld, CheckOld, RemoveRollbackImages
    <2>2. QED BY <1>1, <2>1 DEF PhaseInv
  <1>15. CASE Reverify \/ ReverifyFails \/ RecoverOld
    <2>1. /\ UNCHANGED status /\ pc = "interrupted_recovery"
          /\ \/ pc' = "recommit" /\ status.interrupted = "committed"
             \/ pc' = "reset" /\ (status.interrupted = "committed" \/ status.old # 0)
      BY <1>15 DEF Reverify, ReverifyFails, RecoverOld, Restorable
    <2>2. QED BY <1>1, <2>1 DEF PhaseInv
  <1>16. CASE Crash
    <2>1. UNCHANGED status /\ pc' = "down"
      BY <1>16 DEF Crash
    <2>2. QED BY <1>1, <2>1 DEF PhaseInv
  <1>17. QED BY <1>2, <1>3, <1>4, <1>5, <1>6, <1>7, <1>8, <1>9, <1>10, <1>11, <1>12, <1>13, <1>14, <1>15, <1>16
         DEF Next, Update, Rollback, Recovery, vars, Publish, OperatorFetches, OperatorEdits

-----------------------------------------------------------------------------
(* The way back *)

\* Whatever a step leaves behind that did not come to its end
LEMMA PartialKeepsWay ==
    ASSUME AgentInv, PartialEffect, before' = before, pc' \in {"reset", "free", "down"},
           status'.old = status.old, status'.images = status.images
    PROVE  WayInv'
  <1>1. TypeOK /\ PhaseInv /\ WayInv
    BY DEF AgentInv
  <1> USE DEF UpdatePhases, BusyPhases, RollbackSteps, LatePhases, Forward, Backward
  <1>2. ASSUME status.old # 0 PROVE WayBack'
    <2>1. WayBack
      BY <1>1, <1>2 DEF WayInv
    <2>2. CASE UNCHANGED <<head, image, running, tags>>
      BY <2>1, <2>2 DEF WayBack, OldRuns
    <2>3. CASE /\ pc \in {"git_merge", "reset"}
               /\ head' = IF pc = "reset" THEN status.old ELSE status.target
               /\ UNCHANGED <<image, running, tags>>
      <3>1. pc = "git_merge" => status.images = Services /\ \A s \in status.images: tags[s] = before.running[s]
        BY <1>1 DEF PhaseInv, WayInv
      <3>2. QED BY <2>1, <2>3, <3>1 DEF WayBack, OldRuns
    <2>4. CASE /\ pc \in {"docker_build", "retag"}
               /\ \E some \in SUBSET (IF pc = "retag" THEN {s \in status.images: tags[s] # 0} ELSE Services):
                      image' = [s \in Services |-> IF s \notin some THEN image[s]
                                                   ELSE IF pc = "retag" THEN tags[s] ELSE status.target]
               /\ UNCHANGED <<head, running, tags>>
      <3>1. pc = "docker_build" => status.images = Services
        BY <1>1 DEF PhaseInv
      <3>2. pc = "retag" => \A s \in Services \ status.images: image'[s] = image[s]
        BY <2>4
      <3>3. QED BY <2>1, <2>4, <3>1, <3>2 DEF WayBack, OldRuns
    <2>5. CASE pc \in {"compose_up", "restart"} /\ UNCHANGED <<head, image, tags>>
      <3>1. \A s \in status.images: tags[s] = before.running[s]
        BY <1>1, <2>5 DEF WayInv
      <3>2. QED BY <2>1, <2>5, <3>1 DEF WayBack
    <2>6. CASE /\ pc = "cleanup"
               /\ \A s \in Services: tags'[s] \in {0, tags[s]}
               /\ UNCHANGED <<head, image, running>>
      <3>1. OldRuns
        BY <1>1, <2>6 DEF WayInv
      <3>2. QED BY <2>1, <2>6, <3>1 DEF WayBack, OldRuns
    <2>7. QED BY <2>2, <2>3, <2>4, <2>5, <2>6 DEF PartialEffect, gitVars, dockerVars, dbVars
  <1>3. QED BY <1>2 DEF WayInv

\* Nothing happens to worktree and containers.
LEMMA IdleKeepsWay ==
    ASSUME WayInv, UNCHANGED <<head, image, running, tags, before>>,
           \/ status'.old = status.old /\ status'.images = status.images
           \/ status'.old = 0,
           pc' \notin Forward \cup Backward \cup {"protecting_images"} \/ pc' = "reset"
    PROVE  WayInv'
  <1>1. CASE status'.old = 0
    BY <1>1 DEF WayInv, Forward, Backward, RollbackSteps, LatePhases, UpdatePhases
  <1>2. CASE status'.old = status.old /\ status'.images = status.images
    <2>1. status.old # 0 => WayBack'
      BY <1>2 DEF WayInv, WayBack, OldRuns
    <2>2. QED BY <1>2, <2>1 DEF WayInv, Forward, Backward, RollbackSteps, LatePhases, UpdatePhases
  <1>3. QED BY <1>1, <1>2

LEMMA WayStep ==
    ASSUME AgentInv, [Next]_vars
    PROVE  WayInv'
  <1>1. TypeOK /\ PhaseInv /\ WayInv /\ status \in StatusRecord
    BY DEF AgentInv, TypeOK, StatusRecord
  <1> USE DEF UpdatePhases, BusyPhases, RollbackSteps, LatePhases, Forward, Backward
  <1>2. CASE UNCHANGED <<pc, status, head, image, running, tags, schema, before>>
    BY <1>1, <1>2 DEF WayInv, WayBack, OldRuns
  <1>3. CASE \/ Request \/ PerformCheck \/ PreflightConflict \/ HealthCheckFails \/ Reverify \/ ReverifyFails
             \/ RecoverOld \/ ScheduledBackup
    <2>1. UNCHANGED <<head, image, running, tags, before>> /\ pc' \in {"fetch", "preflight", "scheduled", "free",
            "reset", "recommit"}
      BY <1>3 DEF Request, BeginCheck, BeginUpdate, BeginBackup, PerformCheck, PreflightConflict, HealthCheckFails,
                  Reverify, ReverifyFails, RecoverOld, ScheduledBackup, Finish, Unmoved, gitVars, dockerVars, modelVars
    <2>2. \/ status'.old = status.old /\ status'.images = status.images
          \/ status'.old = 0
      BY <1>1, <1>3 DEF Request, BeginCheck, BeginUpdate, BeginBackup, PerformCheck, PreflightConflict,
                  HealthCheckFails, Reverify, ReverifyFails, RecoverOld, ScheduledBackup, Finish, FirstStatus,
                  StatusRecord
    <2>3. QED BY <1>1, <2>1, <2>2, IdleKeepsWay
  <1>4. CASE CheckFails \/ PreflightFails \/ ReportRestored \/ RollbackFails \/ RecoverCheck
    <2>1. /\ UNCHANGED <<head, image, running, tags, before>> /\ pc' = "free"
          /\ \E base \in {status, Inspected}, outcome \in {"error", "stopped", "restored", "manual"}:
                  status' = FailedFrom(base, outcome)
      BY <1>4 DEF CheckFails, PreflightFails, ReportRestored, RollbackFails, RecoverCheck, Finish, Unmoved,
                  gitVars, dockerVars, modelVars
    <2>2. \/ status'.old = status.old /\ status'.images = status.images
          \/ status'.old = 0
      BY <1>1, <2>1, FailedIs, InspectedIs
    <2>3. QED BY <1>1, <2>1, <2>2, IdleKeepsWay
  <1>5. CASE Boot
    <2>1. UNCHANGED <<head, image, running, tags, before>> /\ pc' \in {"interrupted_recovery", "free"}
      BY <1>5 DEF Boot, Finish, Unmoved, gitVars, dockerVars, modelVars
    <2>2. \/ status'.old = status.old /\ status'.images = status.images
          \/ status'.old = 0
      <3>1. CASE Interrupted \/ status.phase \in {"complete", "failed"}
        BY <1>1, <1>5, <3>1 DEF Boot, Finish, Interrupted, StatusRecord
      <3>2. CASE status' = Inspected
        BY <1>1, <3>2, InspectedIs
      <3>3. CASE status' = [FailedFrom(status, "error") EXCEPT !.backup = 0, !.saving = FALSE]
        <4>1. /\ FailedFrom(status, "error") \in StatusRecord
              /\ FailedFrom(status, "error").old = status.old /\ FailedFrom(status, "error").images = status.images
          BY <1>1, FailedIs
        <4>2. QED BY <3>3, <4>1 DEF StatusRecord
      <3>4. QED BY <1>5, <3>1, <3>2, <3>3 DEF Boot, Finish
    <2>3. QED BY <1>1, <2>1, <2>2, IdleKeepsWay
  <1>6. CASE AcceptUpdate
    <2>1. /\ pc' = "protecting_images" /\ status'.old = head /\ status'.images = {}
          /\ UNCHANGED <<head, image, running, schema>> /\ \A s \in Services: tags'[s] = 0
          /\ before' = [head |-> head, running |-> running, image |-> image, schema |-> schema]
      BY <1>1, <1>6, InspectedIs DEF AcceptUpdate, gitVars, dbVars, StatusRecord
    <2>2. QED BY <2>1 DEF WayInv, WayBack
  <1>7. ASSUME NEW s \in Services, ProtectImage(s) PROVE WayInv'
    <2>1. /\ pc = "protecting_images" /\ pc' = pc /\ UNCHANGED <<head, image, running, schema, before>>
          /\ status'.old = status.old /\ status'.images = status.images \cup {s}
          /\ tags' = [tags EXCEPT ![s] = running[s]]
      BY <1>1, <1>7 DEF ProtectImage, gitVars, dbVars, modelVars, StatusRecord
    <2>2. /\ status.old # 0 /\ head = status.old /\ running = before.running /\ schema = before.schema
          /\ image = before.image /\ WayBack /\ \A q \in status.images: tags[q] = before.running[q]
      BY <1>1, <2>1 DEF WayInv, PhaseInv
    <2>3. /\ \A q \in Services: tags'[q] = IF q = s THEN running[s] ELSE tags[q]
          /\ status.images \subseteq Services
      BY <1>1, <2>1 DEF TypeOK, StatusRecord
    <2>4. /\ \A q \in status'.images: tags'[q] = before.running[q]
          /\ \A q \in Services: tags'[q] \in {0, before.running[q]}
      BY <2>1, <2>2, <2>3 DEF WayBack
    <2>5. WayBack'
      BY <2>1, <2>2, <2>4 DEF WayBack
    <2>6. QED BY <2>1, <2>2, <2>4, <2>5 DEF WayInv
  <1>8. CASE ProtectFails
    <2>1. /\ pc = "protecting_images" /\ pc' = "free" /\ UNCHANGED <<head, image, running, before>>
          /\ \A s \in Services: tags'[s] \in {0, tags[s]}
          /\ \E outcome \in {"error", "stopped", "restored", "manual"}: status' = FailedFrom(status, outcome)
      BY <1>8 DEF ProtectFails, RemoveTags, Finish, gitVars, modelVars
    <2>2. status'.old = status.old /\ status'.images = status.images
      BY <1>1, <2>1, FailedIs
    <2>3. status.old # 0 /\ head = status.old /\ running = before.running /\ WayBack
      BY <1>1, <2>1 DEF WayInv, PhaseInv
    <2>4. QED BY <2>1, <2>2, <2>3 DEF WayInv, WayBack
  <1>9. CASE ImagesProtected \/ BackupDatabase \/ PruneBackups \/ HealthCheck
    <2>1. /\ pc \in Forward \cup {"protecting_images"} /\ pc' \in Forward
          /\ UNCHANGED <<head, image, running, tags, before>>
          /\ status'.old = status.old /\ status'.images = status.images
      BY <1>1, <1>9 DEF ImagesProtected, BackupDatabase, PruneBackups, HealthCheck, Enter, Unmoved, gitVars, dockerVars,
                        modelVars, StatusRecord
    <2>2. \A s \in status.images: tags[s] = before.running[s]
      BY <1>1, <2>1 DEF WayInv
    <2>3. QED BY <1>1, <2>1, <2>2 DEF WayInv, WayBack, OldRuns
  <1>10. CASE GitMerge \/ DockerBuild \/ ComposeUp
    <2>1. /\ pc \in LatePhases /\ pc' \in Forward /\ UNCHANGED <<tags, before>>
          /\ status'.old = status.old /\ status'.images = status.images
      BY <1>1, <1>10 DEF GitMerge, DockerBuild, ComposeUp, StartContainers, Enter, gitVars, dockerVars,
                         modelVars, StatusRecord
    <2>2. status.images = Services /\ \A s \in status.images: tags[s] = before.running[s]
      BY <1>1, <2>1 DEF WayInv, PhaseInv
    <2>3. QED BY <1>1, <2>1, <2>2 DEF WayInv, WayBack
  <1>11. CASE CompleteUpdate \/ Recommit
    <2>1. pc' = "free" /\ status'.old = 0
      BY <1>1, <1>11, SucceededIs DEF CompleteUpdate, Recommit, Finish
    <2>2. QED BY <2>1 DEF WayInv
  <1>12. CASE ResetWorktree
    <2>1. /\ pc' = "retag" /\ head' = status.old /\ UNCHANGED <<status, image, running, tags, before>>
          /\ status.old # 0
      BY <1>1, <1>12 DEF ResetWorktree, dockerVars, modelVars, PhaseInv
    <2>2. QED BY <1>1, <2>1 DEF WayInv, WayBack, OldRuns
  <1>13. CASE RestoreImages
    <2>1. /\ pc = "retag" /\ pc' = "restart" /\ UNCHANGED <<status, head, running, tags, before>>
          /\ \A s \in Services: image'[s] = IF s \in status.images THEN tags[s] ELSE image[s]
          /\ \A s \in status.images: tags[s] # 0
      BY <1>13 DEF RestoreImages, TagsComplete, gitVars, modelVars
    <2>2. WayBack /\ head = status.old /\ status.images \subseteq Services
      BY <1>1, <2>1 DEF PhaseInv, WayInv, StatusRecord
    <2>3. \A s \in status.images: tags[s] = before.running[s]
      BY <2>1, <2>2 DEF WayBack
    <2>4. WayBack'
      BY <2>1, <2>2, <2>3 DEF WayBack
    <2>5. QED BY <2>1, <2>2, <2>3, <2>4 DEF WayInv
  <1>14. CASE RestartOld
    <2>1. pc = "restart" /\ pc' = "recheck" /\ UNCHANGED <<status, head, image, tags, before>>
      BY <1>14 DEF RestartOld, StartContainers, gitVars, modelVars
    <2>2. (\A s \in status.images: tags[s] = before.running[s]) /\ head = status.old /\ WayBack
      BY <1>1, <2>1 DEF WayInv, PhaseInv
    <2>3. QED BY <2>1, <2>2 DEF WayInv, WayBack
  <1>15. CASE CheckOld
    <2>1. /\ pc = "recheck" /\ pc' = "cleanup" /\ UNCHANGED <<status, head, image, running, tags, before>>
          /\ \A s \in Services: running[s] = status.old
      BY <1>15 DEF CheckOld, Healthy, Unmoved, gitVars, dockerVars, modelVars
    <2>2. head = status.old /\ WayBack /\ running = [s \in Services |-> status.old]
      BY <1>1, <2>1 DEF WayInv, PhaseInv, TypeOK
    <2>3. QED BY <2>1, <2>2 DEF WayInv, WayBack, OldRuns
  <1>16. CASE RemoveRollbackImages
    <2>1. /\ pc = "cleanup" /\ pc' = "report" /\ UNCHANGED <<status, head, image, running, before>>
          /\ \A s \in Services: tags'[s] \in {0, tags[s]}
      BY <1>16 DEF RemoveRollbackImages, RemoveTags, gitVars, modelVars
    <2>2. head = status.old /\ WayBack /\ OldRuns
      BY <1>1, <2>1 DEF WayInv, PhaseInv
    <2>3. QED BY <2>1, <2>2 DEF WayInv, WayBack, OldRuns
  <1>17. CASE UpdateStepFails \/ RollbackStepFails \/ Crash
    <2>1. PartialEffect /\ before' = before /\ pc' \in {"reset", "free", "down"}
      BY <1>17 DEF UpdateStepFails, RollbackStepFails, Crash, Finish, modelVars
    <2>2. status'.old = status.old /\ status'.images = status.images
      BY <1>1, <1>17, FailedIs DEF UpdateStepFails, RollbackStepFails, Crash, Finish
    <2>3. QED BY <2>1, <2>2, PartialKeepsWay
  <1>18. QED BY <1>2, <1>3, <1>4, <1>5, <1>6, <1>7, <1>8, <1>9, <1>10, <1>11, <1>12, <1>13, <1>14, <1>15, <1>16, <1>17
         DEF Next, Update, Rollback, Recovery, vars, gitVars, dockerVars, dbVars, modelVars, Publish, OperatorFetches,
             OperatorEdits

-----------------------------------------------------------------------------
(* Outcomes *)

LEMMA HealthyServes ==
    ASSUME TypeOK, NEW r, Healthy(r)
    PROVE  Serves(r)
  BY DEF TypeOK, Healthy, Serves

\* A step that writes an outcome
LEMMA OutcomeWritten ==
    ASSUME AgentInv, [Next]_vars, status'.outcome # "none"
    PROVE  OutcomeTrue'
  <1>1. TypeOK /\ PhaseInv /\ WayInv /\ OutcomeInv /\ status \in StatusRecord
    BY DEF AgentInv, TypeOK, StatusRecord
  <1> USE DEF UpdatePhases, BusyPhases, RollbackSteps, LatePhases, Backward
  <1>2. CASE UNCHANGED <<head, running, schema, before>> /\ status'.outcome = status.outcome
    BY <1>1, <1>2 DEF OutcomeInv, OutcomeTrue, Serves
  <1>3. CASE status'.outcome \in {"error", "stopped", "manual"}
    BY <1>3 DEF OutcomeTrue
  <1>4. CASE Request \/ PerformCheck
    <2>1. BeginBackup
      BY <1>1, <1>4 DEF Request, BeginCheck, BeginUpdate, PerformCheck, Finish, FirstStatus, StatusRecord
    <2>2. QED BY <1>1, <1>2, <2>1 DEF BeginBackup, Unmoved, gitVars, dockerVars, dbVars, modelVars, StatusRecord
  <1>5. CASE CheckFails \/ PreflightFails \/ RollbackFails \/ RollbackStepFails \/ RecoverCheck
    <2>1. \E base \in {status, Inspected}, outcome \in {"error", "stopped", "manual"}:
            status' = FailedFrom(base, outcome)
      BY <1>5 DEF CheckFails, PreflightFails, RollbackFails, RollbackStepFails, RecoverCheck, Finish
    <2>2. status'.outcome \in {"error", "stopped", "manual"}
      BY <1>1, <2>1, FailedIs, InspectedIs
    <2>3. QED BY <1>3, <2>2
  <1>6. CASE ProtectFails
    <2>1. PICK outcome \in {"error", "restored", "manual"}: status' = FailedFrom(status, outcome)
      BY <1>6 DEF ProtectFails, Finish
    <2>2. status'.outcome # "verified"
      BY <1>1, <2>1, FailedIs
    <2>3. /\ head = before.head /\ running = before.running /\ schema = before.schema
          /\ UNCHANGED <<head, running, schema, before>>
      <3>1. pc = "protecting_images" /\ UNCHANGED <<head, running, schema, before>>
        BY <1>6 DEF ProtectFails, gitVars, dbVars, modelVars
      <3>2. status.old # 0 => status.old = before.head
        BY <1>1 DEF WayInv, WayBack
      <3>3. QED BY <1>1, <3>1, <3>2 DEF WayInv, PhaseInv
    <2>4. QED BY <2>2, <2>3 DEF OutcomeTrue
  <1>7. CASE CompleteUpdate \/ Recommit
    <2>1. pc \in {"committed", "recommit"} /\ status' = Succeeded /\ UNCHANGED <<head, running, schema, before>>
      BY <1>7 DEF CompleteUpdate, Recommit, Finish, gitVars, dbVars, modelVars
    <2>2. status'.outcome = "verified"
      BY <1>1, <2>1, SucceededIs
    <2>3. Serves(status.target) /\ status.target \in Releases
      <3>1. status.target # 0
        BY <1>1, <2>1 DEF PhaseInv
      <3>2. QED BY <1>1, <2>1, <3>1 DEF OutcomeInv, StatusRecord
    <2>4. QED BY <2>1, <2>2, <2>3 DEF OutcomeTrue, Serves
  <1>8. CASE ReportRestored
    <2>1. /\ pc = "report" /\ UNCHANGED <<head, running, schema, before>>
          /\ \E base \in {status, Inspected}: status' = FailedFrom(base, "restored")
      BY <1>8 DEF ReportRestored, Finish, Unmoved, gitVars, dockerVars, dbVars, modelVars
    <2>2. status'.outcome = "restored"
      BY <1>1, <2>1, FailedIs, InspectedIs
    <2>3. head = before.head /\ Serves(before.head)
      BY <1>1, <2>1 DEF PhaseInv, WayInv, WayBack, OutcomeInv
    <2>4. QED BY <2>1, <2>2, <2>3 DEF OutcomeTrue, Serves
  <1>9. CASE ScheduledBackup \/ Boot \/ PreflightConflict
    <2>1. UNCHANGED <<head, running, schema, before>>
      BY <1>9 DEF ScheduledBackup, Boot, PreflightConflict, Unmoved, gitVars, dockerVars, dbVars, modelVars
    <2>2. CASE ScheduledBackup \/ PreflightConflict
      <3>1. status'.outcome = status.outcome
        BY <1>1, <2>2 DEF ScheduledBackup, PreflightConflict, Finish, StatusRecord
      <3>2. QED BY <1>2, <2>1, <3>1
    <2>3. CASE Boot
      <3>1. status'.outcome \in {"none", "error", status.outcome}
        <4>1. Inspected.outcome = "none" /\ FailedFrom(status, "error") \in StatusRecord
              /\ FailedFrom(status, "error").outcome = "error"
          BY <1>1, InspectedIs, FailedIs
        <4>2. QED BY <1>1, <2>3, <4>1 DEF Boot, Finish, StatusRecord
      <3>2. QED BY <1>2, <1>3, <2>1, <3>1
    <2>4. QED BY <1>9, <2>2, <2>3
  <1>10. CASE Crash
    <2>1. pc \in {"free", "scheduled", "down"} /\ UNCHANGED status
      BY <1>1, <1>10 DEF Crash, PhaseInv
    <2>2. UNCHANGED <<head, running, schema, before>>
      BY <1>10, <2>1 DEF Crash, PartialEffect, gitVars, dockerVars, dbVars, modelVars
    <2>3. QED BY <1>2, <2>1, <2>2
  <1>11. CASE UNCHANGED vars \/ Publish \/ OperatorFetches \/ OperatorEdits
    BY <1>2, <1>11 DEF vars, gitVars, dockerVars, dbVars, modelVars, Publish, OperatorFetches, OperatorEdits
  <1>12. CASE pc' \notin {"free", "scheduled", "down"}
    <2>1. PhaseInv'
      BY PhaseStep
    <2>2. QED BY <1>12, <2>1 DEF PhaseInv
  <1>13. CASE \/ AcceptUpdate \/ (\E s \in Services: ProtectImage(s)) \/ ImagesProtected \/ BackupDatabase
              \/ PruneBackups \/ GitMerge \/ DockerBuild \/ ComposeUp \/ HealthCheck \/ HealthCheckFails
              \/ UpdateStepFails \/ ResetWorktree \/ RestoreImages \/ RestartOld \/ CheckOld \/ RemoveRollbackImages
              \/ Reverify \/ ReverifyFails \/ RecoverOld
    <2>1. pc' \notin {"free", "scheduled", "down"}
      BY <1>13 DEF AcceptUpdate, ProtectImage, ImagesProtected, BackupDatabase, PruneBackups, GitMerge, DockerBuild,
           ComposeUp, HealthCheck, HealthCheckFails, UpdateStepFails, ResetWorktree, RestoreImages, RestartOld, CheckOld,
           RemoveRollbackImages, Reverify, ReverifyFails, RecoverOld, Enter
    <2>2. QED BY <1>12, <2>1
  <1>14. QED BY <1>4, <1>5, <1>6, <1>7, <1>8, <1>9, <1>10, <1>11, <1>13 DEF Next, Update, Rollback, Recovery

LEMMA OutcomeStep ==
    ASSUME AgentInv, [Next]_vars
    PROVE  OutcomeInv'
  <1>1. TypeOK /\ PhaseInv /\ WayInv /\ OutcomeInv /\ status \in StatusRecord
    BY DEF AgentInv, TypeOK, StatusRecord
  <1>2. OutcomeTrue'
    <2>1. CASE status'.outcome # "none"
      BY <2>1, OutcomeWritten
    <2>2. CASE status'.outcome = "none"
      BY <2>2 DEF OutcomeTrue
    <2>3. QED BY <2>1, <2>2
  <1>3. CASE pc' \notin {"cleanup", "report", "committed", "recommit"}
    BY <1>2, <1>3 DEF OutcomeInv
  <1>4. CASE UNCHANGED <<pc, status, running, schema>>
    BY <1>1, <1>2, <1>4 DEF OutcomeInv, Serves
  <1>5. CASE CheckOld \/ RemoveRollbackImages
    <2>1. UNCHANGED <<status, running, schema>> /\ pc' \in {"cleanup", "report"}
      BY <1>5 DEF CheckOld, RemoveRollbackImages, Unmoved, dockerVars, dbVars
    <2>2. Serves(status.old)
      BY <1>1, <1>5, HealthyServes DEF CheckOld, RemoveRollbackImages, OutcomeInv
    <2>3. QED BY <1>2, <2>1, <2>2 DEF OutcomeInv, Serves
  <1>6. CASE HealthCheck \/ Reverify
    <2>1. UNCHANGED <<running, schema>> /\ status'.target = status.target /\ pc' \in {"committed", "recommit"}
      BY <1>1, <1>6 DEF HealthCheck, Reverify, Unmoved, dockerVars, dbVars, StatusRecord
    <2>2. Serves(status.target)
      BY <1>1, <1>6, HealthyServes DEF HealthCheck, Reverify
    <2>3. QED BY <1>2, <2>1, <2>2 DEF OutcomeInv, Serves
  <1>7. CASE Request \/ PerformCheck \/ CheckFails \/ PreflightFails \/ PreflightConflict \/ AcceptUpdate \/ ProtectFails
             \/ ImagesProtected \/ BackupDatabase \/ PruneBackups \/ GitMerge \/ DockerBuild \/ ComposeUp
             \/ HealthCheckFails \/ CompleteUpdate \/ UpdateStepFails \/ ScheduledBackup
             \/ \E s \in Services: ProtectImage(s)
    <2>1. pc' \notin {"cleanup", "report", "committed", "recommit"}
      BY <1>7 DEF Request, BeginCheck, BeginUpdate, BeginBackup, PerformCheck, CheckFails, PreflightFails,
                  PreflightConflict, AcceptUpdate, ProtectFails, ImagesProtected, BackupDatabase, PruneBackups,
                  GitMerge, DockerBuild, ComposeUp, HealthCheckFails, CompleteUpdate, UpdateStepFails, ScheduledBackup,
                  ProtectImage, Enter, Finish
    <2>2. QED BY <1>3, <2>1
  <1>8. CASE \/ ResetWorktree \/ RestoreImages \/ RestartOld \/ ReportRestored \/ RollbackFails \/ RollbackStepFails
             \/ ReverifyFails \/ Recommit \/ RecoverOld \/ RecoverCheck \/ Boot \/ Crash
    <2>1. pc' \notin {"cleanup", "report", "committed", "recommit"}
      BY <1>8 DEF ResetWorktree, RestoreImages, RestartOld, ReportRestored, RollbackFails, RollbackStepFails,
                  ReverifyFails, Recommit, RecoverOld, RecoverCheck, Boot, Crash, Finish
    <2>2. QED BY <1>3, <2>1
  <1>9. QED BY <1>4, <1>5, <1>6, <1>7, <1>8
        DEF Next, Update, Rollback, Recovery, vars, gitVars, dockerVars, dbVars, Publish, OperatorFetches, OperatorEdits

-----------------------------------------------------------------------------
(* Backups *)

\* Nothing but a prune removes a backup, and a prune keeps the current one.
LEMMA PartialBackups ==
    ASSUME AgentInv, PartialEffect, Fault
    PROVE  /\ backups' \subseteq Backup /\ IsFiniteSet(backups') /\ Cardinality(backups') <= Retention + faults'
           /\ (\E b \in backups: b.id = status.backup) => \E b \in backups': b.id = status.backup
  <1>1. TypeOK /\ BackupInv /\ backups \subseteq Backup /\ IsFiniteSet(backups) /\ Cardinality(backups) \in Nat
    BY FS_CardinalityType DEF AgentInv, TypeOK, BackupInv
  <1>2. faults \in Nat /\ faults' = faults + 1 /\ Retention \in Nat
    BY <1>1, AgentTypes, FaultCounted
  <1>3. Cardinality(backups) <= Retention + faults'
    BY <1>1, <1>2 DEF BackupInv
  <1>4. CASE UNCHANGED backups
    BY <1>1, <1>3, <1>4
  <1>5. CASE /\ pc \in {"database_backup", "scheduled"}
             /\ \E time \in 1..MaxClock: backups' = backups \cup {New(time)}
    <2>1. PICK time \in 1..MaxClock: backups' = backups \cup {New(time)}
      BY <1>5
    <2>2. Cardinality(backups) <= Retention + faults
      BY <1>1, <1>2, <1>5 DEF BackupInv
    <2>3. New(time) \in Backup
      BY <1>1, <2>2, NewIs
    <2>4. IsFiniteSet(backups') /\ Cardinality(backups') <= Cardinality(backups) + 1
      <3>1. /\ IsFiniteSet(backups \cup {New(time)})
            /\ Cardinality(backups \cup {New(time)}) =
                 IF New(time) \in backups THEN Cardinality(backups) ELSE Cardinality(backups) + 1
        BY <1>1, FS_AddElement
      <3>2. QED BY <1>1, <2>1, <3>1
    <2>5. Cardinality(backups') \in Nat
      BY <2>4, FS_CardinalityType
    <2>6. QED BY <1>1, <1>2, <2>1, <2>2, <2>3, <2>4, <2>5
  <1>6. CASE /\ pc = "prune"
             /\ \E b \in backups: b.id = status.backup /\ \E kept \in Retained(backups, b):
                    backups' \in {some \in SUBSET backups: kept \subseteq some}
    <2>1. PICK b \in backups:
            b.id = status.backup /\ \E kept \in Retained(backups, b):
                backups' \in {some \in SUBSET backups: kept \subseteq some}
      BY <1>6
    <2>2. b \in backups' /\ backups' \subseteq backups
      BY <1>1, <2>1, RetainedIs
    <2>3. IsFiniteSet(backups') /\ Cardinality(backups') <= Cardinality(backups)
      BY <1>1, <2>1, FS_Subset
    <2>4. Cardinality(backups') \in Nat
      BY <2>3, FS_CardinalityType
    <2>5. QED BY <1>1, <1>2, <1>3, <2>1, <2>2, <2>3, <2>4
  <1>7. QED BY <1>4, <1>5, <1>6 DEF PartialEffect, dbVars

\* A step that leaves the backups alone and does not make an old phase busy again
LEMMA SameBackups ==
    ASSUME AgentInv, UNCHANGED backups, Fault \/ NoFault, pc = "prune" => pc' = "prune" \/ Fault,
           \/ status'.backup = 0
           \/ status'.phase \notin BusyPhases
           \/ status'.backup = status.backup /\ status.phase \in BusyPhases
    PROVE  BackupInv'
  <1>1. TypeOK /\ BackupInv /\ IsFiniteSet(backups) /\ Cardinality(backups) \in Nat
    BY FS_CardinalityType DEF AgentInv, BackupInv
  <1>2. faults \in Nat /\ (faults' = faults \/ faults' = faults + 1) /\ (Fault => faults' = faults + 1) /\ Retention \in Nat
    BY <1>1, AgentTypes, FaultCounted DEF Fault, NoFault
  <1>3. Cardinality(backups) <= Retention + faults + (IF pc = "prune" THEN 1 ELSE 0)
    BY <1>1 DEF BackupInv
  <1>4. Cardinality(backups') <= Retention + faults' + (IF pc' = "prune" THEN 1 ELSE 0)
    <2>1. CASE pc = "prune"
      BY <1>1, <1>2, <1>3, <2>1
    <2>2. CASE pc # "prune"
      BY <1>1, <1>2, <1>3, <2>2
    <2>3. QED BY <2>1, <2>2
  <1>5. BackupKept'
    BY <1>1 DEF BackupInv, BackupKept
  <1>6. QED BY <1>1, <1>4, <1>5 DEF BackupInv

LEMMA BackupStep ==
    ASSUME AgentInv, [Next]_vars
    PROVE  BackupInv' /\ backups' \subseteq Backup
  <1>1. /\ TypeOK /\ PhaseInv /\ BackupInv /\ status \in StatusRecord
        /\ backups \subseteq Backup /\ IsFiniteSet(backups) /\ Cardinality(backups) \in Nat
    BY FS_CardinalityType DEF AgentInv, TypeOK, StatusRecord, BackupInv
  <1> USE DEF UpdatePhases, BusyPhases
  <1>2. CASE UNCHANGED <<pc, status, backups>> /\ (Fault \/ NoFault)
    <2>1. CASE status.phase \in BusyPhases
      BY <1>1, <1>2, <2>1, SameBackups
    <2>2. CASE status.phase \notin BusyPhases
      BY <1>1, <1>2, <2>2, SameBackups
    <2>3. QED BY <2>1, <2>2
  <1>3. CASE Request \/ PreflightConflict
    <2>1. UNCHANGED backups /\ NoFault /\ pc \in {"free", "preflight"}
      BY <1>3 DEF Request, BeginCheck, BeginUpdate, BeginBackup, PreflightConflict, Unmoved, dbVars
    <2>2. CASE BeginBackup \/ PreflightConflict
      <3>1. status'.backup = status.backup /\ status'.phase = status.phase
        BY <1>1, <2>2 DEF BeginBackup, PreflightConflict, Finish, StatusRecord
      <3>2. QED BY <1>1, <2>1, <3>1, SameBackups
    <2>3. CASE BeginCheck \/ BeginUpdate
      <3>1. status'.backup = 0
        BY <1>1, <2>3 DEF BeginCheck, BeginUpdate, StatusRecord
      <3>2. QED BY <1>1, <2>1, <3>1, SameBackups
    <2>4. QED BY <1>3, <2>2, <2>3 DEF Request
  <1>4. CASE PerformCheck \/ CompleteUpdate \/ Recommit
    <2>1. UNCHANGED backups /\ (Fault \/ NoFault) /\ pc # "prune"
      BY <1>4 DEF PerformCheck, CompleteUpdate, Recommit, RemoveTags, dbVars
    <2>2. status'.phase \in {"idle", "available", "complete"}
      BY <1>1, <1>4, SucceededIs DEF PerformCheck, CompleteUpdate, Recommit, Finish, FirstStatus
    <2>3. QED BY <1>1, <2>1, <2>2, SameBackups
  <1>5. CASE CheckFails \/ PreflightFails \/ ProtectFails \/ ReportRestored \/ RollbackFails \/ RecoverCheck
    <2>1. UNCHANGED backups /\ (Fault \/ NoFault) /\ pc # "prune"
      BY <1>5 DEF CheckFails, PreflightFails, ProtectFails, ReportRestored, RollbackFails, RecoverCheck, RemoveTags,
                  Unmoved, dbVars
    <2>2. \E base \in {status, Inspected}, outcome \in {"error", "stopped", "restored", "manual"}:
            status' = FailedFrom(base, outcome)
      BY <1>5 DEF CheckFails, PreflightFails, ProtectFails, ReportRestored, RollbackFails, RecoverCheck, Finish
    <2>3. status'.phase = "failed"
      BY <1>1, <2>2, FailedIs, InspectedIs
    <2>4. QED BY <1>1, <2>1, <2>3, SameBackups
  <1>6. CASE AcceptUpdate
    <2>1. UNCHANGED backups /\ NoFault /\ pc # "prune" /\ status'.backup = 0
      BY <1>1, <1>6, InspectedIs DEF AcceptUpdate, dbVars, StatusRecord
    <2>2. QED BY <1>1, <2>1, SameBackups
  <1>7. CASE \/ (\E s \in Services: ProtectImage(s)) \/ ImagesProtected \/ GitMerge \/ DockerBuild \/ ComposeUp
             \/ HealthCheck
    <2>1. UNCHANGED backups /\ NoFault /\ pc \in UpdatePhases /\ status'.backup = status.backup
      BY <1>1, <1>7 DEF ProtectImage, ImagesProtected, GitMerge, DockerBuild, ComposeUp, StartContainers, HealthCheck,
                        Enter, Unmoved, dbVars, StatusRecord
    <2>2. status.phase \in BusyPhases /\ pc # "prune"
      BY <1>1, <2>1 DEF PhaseInv
    <2>3. QED BY <1>1, <2>1, <2>2, SameBackups
  <1>8. CASE BackupDatabase
    <2>1. PICK time \in 1..MaxClock: /\ backups' = backups \cup {New(time)}
                                     /\ status' = [status EXCEPT !.backup = New(time).id]
      BY <1>8 DEF BackupDatabase
    <2>2. pc = "database_backup" /\ pc' = "prune" /\ faults' = faults
      BY <1>8 DEF BackupDatabase, NoFault
    <2>3. faults \in Nat /\ Retention \in Nat /\ Cardinality(backups) <= Retention + faults
      BY <1>1, <2>2, AgentTypes DEF BackupInv, TypeOK
    <2>4. New(time) \in Backup
      BY <1>1, <2>3, NewIs
    <2>5. IsFiniteSet(backups') /\ Cardinality(backups') <= Cardinality(backups) + 1
      <3>1. /\ IsFiniteSet(backups \cup {New(time)})
            /\ Cardinality(backups \cup {New(time)}) =
                 IF New(time) \in backups THEN Cardinality(backups) ELSE Cardinality(backups) + 1
        BY <1>1, FS_AddElement
      <3>2. QED BY <1>1, <2>1, <3>1
    <2>6. Cardinality(backups') <= Retention + faults' + 1
      <3>1. Cardinality(backups') \in Nat
        BY <2>5, FS_CardinalityType
      <3>2. QED BY <1>1, <2>2, <2>3, <2>5, <3>1
    <2>7. BackupKept'
      <3>1. status'.backup = New(time).id /\ New(time) \in backups'
        BY <1>1, <2>1 DEF StatusRecord
      <3>2. QED BY <3>1 DEF BackupKept
    <2>8. QED BY <1>1, <2>1, <2>2, <2>4, <2>5, <2>6, <2>7 DEF BackupInv
  <1>9. CASE PruneBackups
    <2>1. PICK b \in backups: b.id = status.backup /\ Prune(backups, b)
      BY <1>9 DEF PruneBackups
    <2>2. faults \in Nat /\ Retention \in Nat /\ Cardinality(backups) <= Retention + faults + 1
      BY <1>1, <1>9, AgentTypes DEF PruneBackups, BackupInv, TypeOK
    <2>3. /\ backups' \subseteq backups /\ b \in backups' /\ IsFiniteSet(backups')
          /\ Cardinality(backups') <= Retention + faults' /\ (Fault \/ NoFault)
      BY <1>1, <2>1, <2>2, PruneIs
    <2>4. pc' = "git_merge" /\ status'.backup = status.backup
      BY <1>1, <1>9 DEF PruneBackups, Enter, StatusRecord
    <2>5. BackupKept'
      BY <2>1, <2>3, <2>4 DEF BackupKept
    <2>6. Cardinality(backups') <= Retention + faults' + 0
      BY <1>1, <2>2, <2>3, FaultCounted
    <2>7. QED BY <1>1, <2>3, <2>4, <2>5, <2>6 DEF BackupInv
  <1>10. CASE ScheduledBackup
    <2>1. status'.backup = status.backup /\ status'.phase = status.phase /\ pc' = "free" /\ pc = "scheduled"
      BY <1>1, <1>10 DEF ScheduledBackup, Finish, StatusRecord
    <2>2. status.phase \in BusyPhases => status.backup = 0
      BY <1>1, <2>1 DEF PhaseInv
    <2>3. CASE UNCHANGED backups /\ Fault
      BY <1>1, <2>1, <2>2, <2>3, SameBackups
    <2>4. ASSUME NEW time \in 1..MaxClock, Prune(backups \cup {New(time)}, New(time))
          PROVE  BackupInv' /\ backups' \subseteq Backup
      <3>1. faults \in Nat /\ Retention \in Nat /\ Cardinality(backups) <= Retention + faults
        BY <1>1, <2>1, AgentTypes DEF BackupInv, TypeOK
      <3>2. New(time) \in Backup
        BY <1>1, <3>1, NewIs
      <3> DEFINE all == backups \cup {New(time)}
      <3>3. IsFiniteSet(all) /\ Cardinality(all) <= Retention + faults + 1
        <4>1. /\ IsFiniteSet(all)
              /\ Cardinality(all) = IF New(time) \in backups THEN Cardinality(backups) ELSE Cardinality(backups) + 1
          BY <1>1, FS_AddElement
        <4> HIDE DEF all
        <4>2. QED BY <1>1, <3>1, <4>1
      <3>4. New(time) \in all /\ all \subseteq Backup /\ Prune(all, New(time))
        BY <1>1, <2>4, <3>2
      <3> HIDE DEF all
      <3>5. /\ backups' \subseteq all /\ IsFiniteSet(backups')
            /\ Cardinality(backups') <= Retention + faults' /\ (Fault \/ NoFault)
        BY <1>1, <3>3, <3>4, PruneIs
      <3>6. BackupKept'
        BY <2>1, <2>2 DEF BackupKept
      <3>7. Cardinality(backups') <= Retention + faults' + 0
        BY <1>1, <3>1, <3>5, FaultCounted
      <3>8. QED BY <2>1, <3>4, <3>5, <3>6, <3>7 DEF BackupInv
    <2>5. QED BY <1>10, <2>3, <2>4 DEF ScheduledBackup
  <1>11. CASE UpdateStepFails \/ RollbackStepFails \/ Crash
    <2>1. PartialEffect /\ Fault /\ pc' # "prune"
      BY <1>11 DEF UpdateStepFails, RollbackStepFails, Crash, Finish
    <2>2. /\ backups' \subseteq Backup /\ IsFiniteSet(backups') /\ Cardinality(backups') <= Retention + faults'
          /\ (\E b \in backups: b.id = status.backup) => \E b \in backups': b.id = status.backup
      BY <2>1, PartialBackups
    <2>3. BackupKept'
      <3>1. CASE UNCHANGED status
        BY <1>1, <2>2, <3>1 DEF BackupInv, BackupKept
      <3>2. CASE RollbackStepFails
        <4>1. status'.phase = "failed"
          BY <1>1, <3>2, FailedIs DEF RollbackStepFails, Finish
        <4>2. QED BY <4>1 DEF BackupKept
      <3>3. QED BY <1>11, <3>1, <3>2 DEF UpdateStepFails, Crash
    <2>4. Cardinality(backups') <= Retention + faults' + 0
      <3>1. faults' \in Nat /\ Retention \in Nat
        BY <1>1, <2>1, AgentTypes, FaultCounted
      <3>2. QED BY <2>2, <3>1
    <2>5. QED BY <2>1, <2>2, <2>3, <2>4 DEF BackupInv
  <1>12. CASE \/ ResetWorktree \/ RestoreImages \/ RestartOld \/ CheckOld \/ RemoveRollbackImages \/ HealthCheckFails
              \/ Reverify \/ ReverifyFails \/ RecoverOld
    <2>1. UNCHANGED <<status, backups>> /\ (Fault \/ NoFault) /\ pc # "prune"
      BY <1>12 DEF ResetWorktree, RestoreImages, RestartOld, StartContainers, CheckOld, RemoveRollbackImages, RemoveTags,
                   HealthCheckFails, Reverify, ReverifyFails, RecoverOld, Unmoved, dbVars
    <2>2. QED BY <1>1, <2>1, SameBackups
  <1>13. CASE Boot
    <2>1. UNCHANGED backups /\ (Fault \/ NoFault) /\ pc = "down"
      BY <1>13 DEF Boot, Unmoved, dbVars
    <2>2. CASE Interrupted
      <3>1. status'.backup = status.backup /\ status.phase \in BusyPhases
        BY <1>1, <1>13, <2>2 DEF Boot, Interrupted, StatusRecord
      <3>2. QED BY <1>1, <2>1, <3>1, SameBackups
    <2>3. CASE ~Interrupted
      <3>1. status'.phase \notin BusyPhases
        <4>1. Inspected.phase \in {"idle", "available"} /\ FailedFrom(status, "error") \in StatusRecord
              /\ FailedFrom(status, "error").phase = "failed"
          BY <1>1, InspectedIs, FailedIs
        <4>2. QED BY <1>1, <1>13, <2>3, <4>1 DEF Boot, Finish, Interrupted, StatusRecord
      <3>2. QED BY <1>1, <2>1, <3>1, SameBackups
    <2>4. QED BY <2>2, <2>3
  <1>14. CASE Publish \/ OperatorFetches \/ OperatorEdits
    BY <1>2, <1>14 DEF Publish, OperatorFetches, OperatorEdits, dbVars
  <1>15. CASE UNCHANGED vars
    BY <1>2, <1>15 DEF vars, dbVars, NoFault
  <1>16. QED BY <1>3, <1>4, <1>5, <1>6, <1>7, <1>8, <1>9, <1>10, <1>11, <1>12, <1>13, <1>14, <1>15
         DEF Next, Update, Rollback, Recovery

-----------------------------------------------------------------------------
(* Types *)

\* Everything but the status and the backups
Rest ==
    /\ pc \in {"down", "free", "scheduled", "prune", "fetch", "preflight", "report"}
                  \cup UpdatePhases \cup RollbackSteps \cup RecoverySteps
    /\ head \in Releases /\ origin \in Releases /\ upstream \in Releases /\ schema \in Releases /\ dirty \in BOOLEAN
    /\ image \in [Services -> Releases]
    /\ running \in [Services -> {0} \cup Releases] /\ tags \in [Services -> {0} \cup Releases]
    /\ before \in [head: Releases, running: [Services -> {0} \cup Releases], image: [Services -> Releases],
                  schema: Releases]
    /\ passed \in BOOLEAN /\ faults \in 0..MaxFaults

LEMMA TypeParts == TypeOK <=> Rest /\ status \in StatusRecord /\ backups \subseteq Backup
  BY DEF TypeOK, Rest, StatusRecord

LEMMA PartialTypes ==
    ASSUME AgentInv, PartialEffect
    PROVE  /\ head' \in Releases /\ origin' = origin /\ upstream' = upstream /\ dirty' = dirty /\ schema' \in Releases
           /\ image' \in [Services -> Releases]
           /\ running' \in [Services -> {0} \cup Releases] /\ tags' \in [Services -> {0} \cup Releases]
  <1>1. TypeOK /\ Rest /\ PhaseInv /\ status \in StatusRecord
    BY TypeParts DEF AgentInv
  <1> USE DEF UpdatePhases, BusyPhases, RollbackSteps, LatePhases, Backward
  <1>2. CASE UNCHANGED <<gitVars, dockerVars, schema>>
    BY <1>1, <1>2 DEF Rest, gitVars, dockerVars
  <1>3. CASE /\ pc \in {"git_merge", "reset"}
             /\ head' = IF pc = "reset" THEN status.old ELSE status.target
             /\ UNCHANGED <<origin, upstream, dirty, dockerVars, dbVars>>
    <2>1. (pc = "reset" => status.old \in Releases) /\ (pc = "git_merge" => status.target \in Releases)
      BY <1>1 DEF PhaseInv, StatusRecord
    <2>2. QED BY <1>1, <1>3, <2>1 DEF Rest, dockerVars, dbVars
  <1>4. CASE /\ pc \in {"docker_build", "retag"}
             /\ \E some \in SUBSET (IF pc = "retag" THEN {s \in status.images: tags[s] # 0} ELSE Services):
                    image' = [s \in Services |-> IF s \notin some THEN image[s]
                                                 ELSE IF pc = "retag" THEN tags[s] ELSE status.target]
             /\ UNCHANGED <<gitVars, running, tags, dbVars>>
    <2>1. pc = "docker_build" => status.target \in Releases
      BY <1>1 DEF PhaseInv, StatusRecord
    <2>2. image' \in [Services -> Releases]
      <3>1. CASE pc = "retag"
        <4>1. PICK some \in SUBSET {s \in status.images: tags[s] # 0}:
                image' = [s \in Services |-> IF s \notin some THEN image[s] ELSE tags[s]]
          BY <1>4, <3>1
        <4>2. \A s \in Services: s \in some => tags[s] \in Releases
          BY <1>1 DEF Rest
        <4>3. QED BY <1>1, <4>1, <4>2 DEF Rest
      <3>2. CASE pc = "docker_build"
        BY <1>1, <1>4, <2>1, <3>2 DEF Rest
      <3>3. QED BY <1>4, <3>1, <3>2
    <2>3. QED BY <1>1, <1>4, <2>2 DEF Rest, gitVars, dbVars
  <1>5. CASE /\ pc \in {"compose_up", "restart"}
             /\ running' \in {r \in [Services -> {0} \cup Releases]: \A s \in Services: r[s] \in {0, running[s], image[s]}}
             /\ schema' \in {schema, Migrated(image[backend])}
             /\ UNCHANGED <<gitVars, image, tags, backups>>
    <2>1. Migrated(image[backend]) \in Releases
      BY <1>1, AgentTypes, MigratedType DEF Rest
    <2>2. QED BY <1>1, <1>5, <2>1 DEF Rest, gitVars
  <1>6. CASE /\ pc = "cleanup"
             /\ tags' \in {t \in [Services -> {0} \cup Releases]: \A s \in Services: t[s] \in {0, tags[s]}}
             /\ UNCHANGED <<gitVars, image, running, dbVars>>
    BY <1>1, <1>6 DEF Rest, gitVars, dbVars
  <1>7. QED BY <1>2, <1>3, <1>4, <1>5, <1>6 DEF PartialEffect, dbVars

LEMMA TypeStep ==
    ASSUME AgentInv, [Next]_vars
    PROVE  TypeOK'
  <1>1. TypeOK /\ Rest /\ PhaseInv /\ BackupInv /\ status \in StatusRecord
    BY TypeParts DEF AgentInv
  <1>2. status' \in StatusRecord /\ backups' \subseteq Backup
    BY <1>1, StatusWritten, BackupStep
  <1> USE DEF UpdatePhases, BusyPhases, RollbackSteps, RecoverySteps
  <1>3. ASSUME Fault \/ NoFault PROVE faults' \in 0..MaxFaults
    BY <1>1, <1>3, FaultCounted
  <1>4. Rest'
    <2>1. CASE \/ Request \/ CheckFails \/ PreflightFails \/ PreflightConflict \/ ImagesProtected
               \/ BackupDatabase \/ PruneBackups \/ HealthCheck \/ HealthCheckFails \/ ScheduledBackup
      <3>1. Fault \/ NoFault
        BY <2>1 DEF Request, BeginCheck, BeginUpdate, BeginBackup, CheckFails, PreflightFails, PreflightConflict,
             ImagesProtected, BackupDatabase, PruneBackups, Prune, HealthCheck, HealthCheckFails, ScheduledBackup
      <3>2. /\ pc' \in {"fetch", "preflight", "scheduled", "free", "database_backup", "prune", "git_merge", "committed",
                        "reset"}
            /\ origin' \in {origin, upstream} /\ passed' \in {passed, TRUE}
            /\ UNCHANGED <<head, upstream, dirty, dockerVars, schema, before>>
        BY <2>1 DEF Request, BeginCheck, BeginUpdate, BeginBackup, CheckFails, PreflightFails, PreflightConflict,
             ImagesProtected, BackupDatabase, PruneBackups, HealthCheck, HealthCheckFails, ScheduledBackup, Enter,
             Finish, Unmoved, gitVars, dbVars, modelVars
      <3>3. QED BY <1>1, <1>3, <3>1, <3>2 DEF Rest, dockerVars
    <2>2. CASE PerformCheck \/ AcceptUpdate \/ \E s \in Services: ProtectImage(s)
      <3>1. CASE PerformCheck
        BY <1>1, <1>3, <3>1 DEF PerformCheck, Finish, Rest, dockerVars, dbVars, modelVars
      <3>2. CASE AcceptUpdate
        BY <1>1, <1>3, <3>2 DEF AcceptUpdate, Rest, gitVars, dbVars
      <3>3. CASE \E s \in Services: ProtectImage(s)
        BY <1>1, <1>3, <3>3 DEF ProtectImage, Rest, gitVars, dbVars, modelVars
      <3>4. QED BY <2>2, <3>1, <3>2, <3>3
    <2>3. CASE ProtectFails \/ CompleteUpdate \/ RemoveRollbackImages \/ Recommit
      <3>1. PICK kept \in SUBSET status.images: tags' = [s \in Services |-> IF s \in status.images \ kept THEN 0 ELSE tags[s]]
        BY <2>3 DEF ProtectFails, CompleteUpdate, RemoveRollbackImages, Recommit, RemoveTags
      <3>2. tags' \in [Services -> {0} \cup Releases]
        BY <1>1, <3>1 DEF Rest
      <3>3. /\ pc' \in {"free", "report"} /\ (Fault \/ NoFault)
            /\ UNCHANGED <<gitVars, image, running, dbVars, modelVars>>
        BY <2>3 DEF ProtectFails, CompleteUpdate, RemoveRollbackImages, Recommit, RemoveTags, Finish
      <3>4. QED BY <1>1, <1>3, <3>2, <3>3 DEF Rest, gitVars, dbVars, modelVars
    <2>4. CASE GitMerge \/ DockerBuild
      <3>1. status.target \in Releases
        BY <1>1, <2>4 DEF GitMerge, DockerBuild, PhaseInv, StatusRecord
      <3>2. CASE GitMerge
        BY <1>1, <1>3, <3>1, <3>2 DEF GitMerge, Enter, Rest, dockerVars, dbVars, modelVars
      <3>3. CASE DockerBuild
        BY <1>1, <1>3, <3>1, <3>3 DEF DockerBuild, Enter, Rest, gitVars, dbVars, modelVars
      <3>4. QED BY <2>4, <3>2, <3>3
    <2>5. CASE ComposeUp \/ RestartOld
      <3>1. StartContainers /\ pc' \in {"health_check", "recheck"}
        BY <2>5 DEF ComposeUp, RestartOld, Enter
      <3>2. Migrated(image[backend]) \in Releases
        BY <1>1, AgentTypes, MigratedType DEF Rest
      <3>3. QED BY <1>1, <1>3, <3>1, <3>2 DEF StartContainers, Rest, gitVars, modelVars
    <2>6. CASE ResetWorktree
      <3>1. status.old \in Releases
        BY <1>1, <2>6 DEF ResetWorktree, PhaseInv, StatusRecord, Backward
      <3>2. dirty' \in BOOLEAN
        BY <1>1, <2>6 DEF ResetWorktree, Rest
      <3>3. QED BY <1>1, <1>3, <2>6, <3>1, <3>2 DEF ResetWorktree, Rest, dockerVars, dbVars, modelVars
    <2>7. CASE RestoreImages
      <3>1. \A s \in status.images: tags[s] \in Releases
        BY <1>1, <2>7 DEF RestoreImages, TagsComplete, Rest, StatusRecord
      <3>2. image' \in [Services -> Releases]
        BY <1>1, <2>7, <3>1 DEF RestoreImages, Rest
      <3>3. QED BY <1>1, <1>3, <2>7, <3>2 DEF RestoreImages, Rest, gitVars, dbVars, modelVars
    <2>8. CASE \/ CheckOld \/ ReportRestored \/ RollbackFails \/ Reverify \/ ReverifyFails \/ RecoverOld \/ RecoverCheck
               \/ Boot
      <3>1. /\ pc' \in {"cleanup", "free", "recommit", "reset", "interrupted_recovery"} /\ (Fault \/ NoFault)
            /\ passed' \in {passed, FALSE} /\ UNCHANGED <<gitVars, dockerVars, dbVars, before>>
        BY <2>8 DEF CheckOld, ReportRestored, RollbackFails, Reverify, ReverifyFails, RecoverOld, RecoverCheck, Boot,
                    Finish, Unmoved, modelVars
      <3>2. QED BY <1>1, <1>3, <3>1 DEF Rest, gitVars, dockerVars, dbVars
    <2>9. CASE UpdateStepFails \/ RollbackStepFails \/ Crash
      <3>1. PartialEffect /\ Fault /\ pc' \in {"reset", "free", "down"} /\ UNCHANGED modelVars
        BY <2>9 DEF UpdateStepFails, RollbackStepFails, Crash, Finish
      <3>2. QED BY <1>1, <1>3, <3>1, PartialTypes DEF Rest, modelVars
    <2>10. CASE Publish
      <3>1. upstream' \in Releases
        BY <1>1, <2>10, AgentTypes DEF Publish, Rest, Releases
      <3>2. QED BY <1>1, <1>3, <2>10, <3>1 DEF Publish, Rest, dockerVars, dbVars, modelVars
    <2>11. CASE OperatorFetches
      BY <1>1, <1>3, <2>11 DEF OperatorFetches, Rest, dockerVars, dbVars, modelVars
    <2>12. CASE OperatorEdits
      BY <1>1, <1>3, <2>12 DEF OperatorEdits, Rest, dockerVars, dbVars, modelVars
    <2>13. CASE UNCHANGED vars
      BY <1>1, <2>13 DEF vars, Rest, gitVars, dockerVars, dbVars, modelVars
    <2>14. QED BY <2>1, <2>2, <2>3, <2>4, <2>5, <2>6, <2>7, <2>8, <2>9, <2>10, <2>11, <2>12, <2>13
           DEF Next, Update, Rollback, Recovery
  <1>5. QED
    <2>1. (Rest /\ status \in StatusRecord /\ backups \subseteq Backup => TypeOK)'
      BY DEF TypeOK, Rest, StatusRecord
    <2>2. QED BY <1>2, <1>4, <2>1

LEMMA AgentInit == Init => AgentInv
  <1> SUFFICES ASSUME Init PROVE AgentInv
    OBVIOUS
  <1>1. status \in StatusRecord /\ status.phase = "idle" /\ status.old = 0 /\ status.outcome = "none" /\ status.backup = 0
    BY ReleasesAre, PhasesAre DEF Init, FirstStatus, StatusRecord
  <1>2. Rest
    <2>1. /\ image \in [Services -> Releases] /\ running \in [Services -> {0} \cup Releases]
          /\ tags \in [Services -> {0} \cup Releases]
      BY ReleasesAre DEF Init
    <2>2. before = [head |-> 1, running |-> running, image |-> image, schema |-> 1]
      BY DEF Init
    <2>3. 0 \in 0..MaxFaults
      BY AgentTypes
    <2>4. /\ pc = "free" /\ head = 1 /\ origin = 1 /\ upstream = 1 /\ dirty = FALSE /\ schema = 1 /\ passed = FALSE
          /\ faults = 0
      BY DEF Init
    <2>5. QED BY <2>1, <2>2, <2>3, <2>4, ReleasesAre DEF Rest
  <1>3. TypeOK
    BY <1>1, <1>2, TypeParts DEF Init
  <1>4. PhaseInv /\ WayInv /\ OutcomeInv
    BY <1>1 DEF Init, PhaseInv, WayInv, OutcomeInv, OutcomeTrue, Forward, Backward, LatePhases, UpdatePhases, BusyPhases,
                RollbackSteps
  <1>5. BackupInv
    <2>1. Cardinality(backups) = 0 /\ IsFiniteSet(backups) /\ pc = "free" /\ faults = 0
      BY FS_EmptySet DEF Init
    <2>2. BackupKept
      BY <1>1 DEF BackupKept
    <2>3. QED BY <2>1, <2>2, AgentTypes DEF BackupInv
  <1>6. QED BY <1>3, <1>4, <1>5 DEF AgentInv

LEMMA AgentHolds == Spec => []AgentInv
  <1>1. AgentInv /\ [Next]_vars => AgentInv'
    BY TypeStep, PhaseStep, WayStep, OutcomeStep, BackupStep DEF AgentInv
  <1>2. QED BY <1>1, AgentInit, PTL DEF Spec

-----------------------------------------------------------------------------
(* The properties *)

\* Every variable keeps its type: in particular an image name stands for a release
\* and a backup always finds a free name.
THEOREM TypeCorrect == Spec => []TypeOK
  BY AgentHolds, PTL DEF AgentInv

\* Whenever the worktree or the containers are not what they were when the update was
\* accepted, a restarted agent has what it needs to go back (_protect_running_images,
\* _recover_interrupted_update).
THEOREM WayBackAlways == Spec => []RollbackPoint
  <1>1. AgentInv => RollbackPoint
    <2> SUFFICES ASSUME AgentInv, status.old # 0, head # status.old \/ running # before.running
                 PROVE  /\ status.old = before.head
                        /\ \/ \A s \in status.images: tags[s] = before.running[s]
                           \/ head = status.old /\ running = [s \in Services |-> status.old]
                        /\ \/ status.images = Services
                           \/ head = status.old /\ \A s \in Services \ status.images: image[s] = before.image[s]
      BY DEF RollbackPoint
    <2>1. WayBack
      BY DEF AgentInv, WayInv
    <2>2. QED BY <2>1 DEF WayBack, OldRuns
  <1>2. QED BY <1>1, AgentHolds, PTL

\* An update is reported as successful, or as undone, only if it is (_set_failure,
\* _perform_update, _recover_interrupted_update).
THEOREM OutcomeIsTrue == Spec => []OutcomeTrue
  <1>1. AgentInv => OutcomeTrue
    BY DEF AgentInv, OutcomeInv
  <1>2. QED BY <1>1, AgentHolds, PTL

\* No prune removes the backup of an update that is being made or recovered
\* (_prune_backups).
THEOREM BackupAlwaysKept == Spec => []BackupKept
  <1>1. AgentInv => BackupKept
    BY DEF AgentInv, BackupInv
  <1>2. QED BY <1>1, AgentHolds, PTL

=============================================================================
