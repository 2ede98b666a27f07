---------------------------- MODULE UpdateAgent ----------------------------
(***************************************************************************)
(* The host update agent (UpdateManager of deploy/sage_updater.py): check, *)
(* update, rollback, recovery after a restart, scheduled backup.           *)
(*                                                                         *)
(* All operations run under _operation_lock, so one program counter is     *)
(* enough: pc is the step in progress, "free" when the lock is, and "down" *)
(* while the agent does not run.  During an update the names of the steps  *)
(* are the phases of the source.  A refused request changes nothing.       *)
(*                                                                         *)
(* Releases are numbered along origin/main; 0 stands for none.             *)
(*                                                                         *)
(* A definition whose name starts with Wrong is the one after it with a    *)
(* mistake in it, and no part of Spec.                                     *)
(***************************************************************************)
EXTENDS Naturals, FiniteSets

CONSTANTS
    Services,     \* backend, frontend
    backend,      \* the service that migrates the database when it starts
    MaxRelease,   \* bound: releases published
    Migrations,   \* releases with a database migration
    Broken,       \* releases that never become healthy
    BackupIds,    \* names of backups, enough that one is always free
    Retention,    \* backup_retention_count
    MaxClock,     \* bound: the clock of the host takes values up to it, in any order
    MaxFaults,    \* bound: commands that fail, ends of the agent, edits in the worktree
    Operators     \* what people do in the worktree: "fetch", "edit"

ASSUME AgentTypes ==
    /\ backend \in Services /\ IsFiniteSet(Services)
    /\ MaxRelease \in Nat \ {0}
    /\ Migrations \subseteq 2..MaxRelease /\ Broken \subseteq 2..MaxRelease
    /\ 0 \notin BackupIds /\ IsFiniteSet(BackupIds)
    /\ Cardinality(BackupIds) >= Retention + MaxFaults + 2
    /\ Retention \in Nat \ {0} /\ MaxClock \in Nat \ {0} /\ MaxFaults \in Nat
    /\ Operators \subseteq {"fetch", "edit"}

VARIABLES
    \* the agent
    pc,        \* the step in progress
    status,    \* _state, and status.json: every change is written at once
    \* the worktree and its remote
    head, origin, upstream,
    dirty,     \* uncommitted content in the worktree
    \* Docker
    image,     \* image[s]: release the image name of s stands for
    running,   \* running[s]: release of the container of s, 0 without one
    tags,      \* tags[s]: release under the rollback tag of s of the last operation, 0 without one
    \* PostgreSQL and its backups
    schema,    \* the release whose migration was the last
    backups,   \* dump files
    \* bookkeeping of the model
    before,    \* what ran when the last update was accepted
    passed,    \* the update passed its verification and none has failed since
    faults

gitVars     == <<head, origin, upstream, dirty>>
dockerVars  == <<image, running, tags>>
dbVars      == <<schema, backups>>
modelVars   == <<before, passed>>
vars        == <<pc, status, gitVars, dockerVars, dbVars, modelVars, faults>>

Releases == 1..MaxRelease
Backup   == [id: BackupIds, time: 1..MaxClock]

UpdatePhases   == {"protecting_images", "database_backup", "git_merge", "docker_build",
                   "compose_up", "health_check", "committed"}   \* and prune, with the phase before it
RollbackSteps  == {"reset", "retag", "restart", "recheck", "cleanup"}
RecoverySteps  == {"interrupted_recovery", "recommit"}
BusyPhases     == UpdatePhases \cup {"fetch", "preflight", "interrupted_recovery"}
Phases         == BusyPhases \cup {"idle", "available", "complete", "failed"}

\* _state as __init__ builds it, for a worktree at release 1
FirstStatus == [phase |-> "idle", interrupted |-> "none", checked |-> FALSE, latest |-> 1, old |-> 0, target |-> 0,
                images |-> {}, backup |-> 0, saving |-> FALSE, outcome |-> "none"]

\* The migration the code of release r expects to be the last one
Revision(r) == IF \E m \in Migrations: m <= r
                 THEN CHOOSE m \in Migrations: m <= r /\ \A n \in Migrations: n <= r => n <= m
                 ELSE 1

Init ==
    /\ pc = "free"
    /\ status = FirstStatus
    /\ head = 1 /\ origin = 1 /\ upstream = 1 /\ dirty = FALSE
    /\ image = [s \in Services |-> 1] /\ running = [s \in Services |-> 1]
    /\ tags = [s \in Services |-> 0]
    /\ schema = 1 /\ backups = {}
    /\ before = [head |-> 1, running |-> running, image |-> image, schema |-> schema]
    /\ passed = FALSE /\ faults = 0

\* One of the commands of a step fails, the agent ends, or somebody edits
Fault   == faults < MaxFaults /\ faults' = faults + 1
NoFault == faults' = faults

-----------------------------------------------------------------------------
(* How the state changes *)

\* _set_progress, before the step of this name
Enter(phase) ==
    /\ pc' = phase
    /\ status' = [status EXCEPT !.phase = phase, !.outcome = "none"]

\* _set_failure, and the end of the operation; the keys it does not name stay.
FailedFrom(base, outcome) == [base EXCEPT !.phase = "failed", !.outcome = outcome, !.backup = status.backup]

WrongFinish(state) == pc' = pc /\ status' = state
Finish(state) == pc' = "free" /\ status' = state

\* _replace_state(_inspect_repository(...)): everything about the last update goes.
Inspected == [FirstStatus EXCEPT !.phase = IF head < origin THEN "available" ELSE "idle",
                                 !.checked = status.checked,
                                 !.latest = origin]

Unmoved == UNCHANGED <<gitVars, dockerVars, dbVars, modelVars>>

-----------------------------------------------------------------------------
(* Check *)

BeginCheck ==
    /\ pc = "free"
    /\ pc' = "fetch"
    /\ status' = [status EXCEPT !.phase = "fetch", !.outcome = "none", !.backup = 0]
    /\ NoFault /\ Unmoved

\* A dirty worktree is refused before the fetch.
PerformCheck ==
    /\ pc = "fetch" /\ ~dirty
    /\ origin' = upstream
    /\ Finish([FirstStatus EXCEPT !.phase = IF head < upstream THEN "available" ELSE "idle",
                                  !.checked = TRUE, !.latest = upstream])
    /\ NoFault
    /\ UNCHANGED <<head, upstream, dirty, dockerVars, dbVars, modelVars>>

CheckFails ==
    /\ pc = "fetch"
    /\ \/ dirty /\ NoFault /\ origin' = origin
       \/ Fault /\ origin' \in {origin, IF dirty THEN origin ELSE upstream}
    /\ Finish(FailedFrom(status, "error"))
    /\ UNCHANGED <<head, upstream, dirty, dockerVars, dbVars, modelVars>>

-----------------------------------------------------------------------------
(* Update *)

\* The request names the release of the last check (any other is refused).
BeginUpdate ==
    /\ pc = "free"
    /\ status.phase = "available" /\ status.checked
    /\ pc' = "preflight"
    /\ status' = [status EXCEPT !.phase = "preflight", !.outcome = "none", !.backup = 0]
    /\ NoFault /\ Unmoved

PreflightFails ==
    /\ pc = "preflight" /\ (Fault \/ (dirty /\ NoFault))
    /\ Finish(FailedFrom(status, "error"))
    /\ Unmoved

\* The UpdateConflictError of a changed origin/main leaves the state as it is.
PreflightConflict ==
    /\ pc = "preflight" /\ ~dirty /\ origin # status.latest
    /\ Finish(status)
    /\ NoFault /\ Unmoved

AcceptUpdate ==
    /\ pc = "preflight" /\ ~dirty /\ origin = status.latest
    /\ pc' = "protecting_images"
    /\ status' = [Inspected EXCEPT !.phase = "protecting_images", !.old = head, !.target = status.latest]
    /\ tags' = [s \in Services |-> 0]
    /\ before' = [head |-> head, running |-> running, image |-> image, schema |-> schema]
    /\ passed' = FALSE
    /\ NoFault
    /\ UNCHANGED <<gitVars, image, running, dbVars>>

WrongAllProtected == backend \in status.images
AllProtected == status.images = Services

ProtectImage(s) ==
    /\ pc = "protecting_images" /\ ~AllProtected
    /\ s \notin status.images /\ backend \in status.images \cup {s}
    /\ running[s] # 0
    /\ tags' = [tags EXCEPT ![s] = running[s]]
    /\ status' = [status EXCEPT !.images = @ \cup {s}]
    /\ NoFault
    /\ UNCHANGED <<pc, gitVars, image, running, dbVars, modelVars>>

\* Removes rollback tags; a docker image rm that fails is only logged.
RemoveTags(services) ==
    \E kept \in SUBSET services:
        /\ Fault \/ (kept = {} /\ NoFault)
        /\ tags' = [s \in Services |-> IF s \in services \ kept THEN 0 ELSE tags[s]]

\* The handler has no images to restore, so its rollback only looks at HEAD.  The
\* state keeps the images.  "error": the thread could not be started.
ProtectFails ==
    /\ pc = "protecting_images" /\ ~AllProtected
    /\ RemoveTags(status.images)
    /\ \E outcome \in {"restored", "manual", "error"}:
           /\ NoFault => outcome = "restored" /\ \E s \in Services: running[s] = 0
           /\ Finish(FailedFrom(status, outcome))
    /\ UNCHANGED <<gitVars, image, running, dbVars, modelVars>>

ImagesProtected ==
    /\ pc = "protecting_images" /\ AllProtected
    /\ Enter("database_backup")
    /\ NoFault /\ Unmoved

\* The newest backups, up to the limit; equal times in any order
Newest(all) == {some \in SUBSET all:
    /\ Cardinality(some) = Retention \/ (some = all /\ Cardinality(all) < Retention)
    /\ \A b \in some, c \in all \ some: b.time >= c.time}

WrongRetained(all, current) == Newest(all)
\* _prune_backups: the newest and the current one; if that is one too many, the
\* oldest of the others goes.
Retained(all, current) ==
    {kept \in SUBSET all: \E newest \in Newest(all):
        LET both == newest \cup {current} IN
        IF Cardinality(both) <= Retention THEN kept = both
        ELSE \E oldest \in both \ {current}:
                 /\ \A b \in both \ {current}: oldest.time <= b.time
                 /\ kept = both \ {oldest}}

\* A name carries the time and the operation: nothing has had it before.
New(time) == [id |-> CHOOSE id \in BackupIds: id # status.backup /\ \A b \in backups: b.id # id,
              time |-> time]

\* A prune that fails or is cut off has removed some of what it should.
Prune(all, current) ==
    \E kept \in Retained(all, current):
        \/ NoFault /\ backups' = kept
        \/ Fault /\ backups' \in {some \in SUBSET all: kept \subseteq some}

BackupDatabase ==
    /\ pc = "database_backup"
    /\ \E time \in 1..MaxClock:
           /\ backups' = backups \cup {New(time)}
           /\ status' = [status EXCEPT !.backup = New(time).id]
    /\ pc' = "prune"
    /\ NoFault
    /\ UNCHANGED <<gitVars, dockerVars, schema, modelVars>>

\* A failure is only logged.
PruneBackups ==
    /\ pc = "prune"
    /\ \E b \in backups: b.id = status.backup /\ Prune(backups, b)
    /\ Enter("git_merge")
    /\ UNCHANGED <<gitVars, dockerVars, schema, modelVars>>

GitMerge ==
    /\ pc = "git_merge"
    /\ head' = status.target
    /\ Enter("docker_build")
    /\ NoFault
    /\ UNCHANGED <<origin, upstream, dirty, dockerVars, dbVars, modelVars>>

DockerBuild ==
    /\ pc = "docker_build"
    /\ image' = [s \in Services |-> status.target]
    /\ Enter("compose_up")
    /\ NoFault
    /\ UNCHANGED <<gitVars, running, tags, dbVars, modelVars>>

\* The backend runs "alembic upgrade head" when it starts; it does not go back.
Migrated(r) == IF Revision(r) > schema THEN Revision(r) ELSE schema

StartContainers ==
    /\ running' = image
    /\ schema' = Migrated(image[backend])
    /\ NoFault
    /\ UNCHANGED <<gitVars, image, tags, backups, modelVars>>

ComposeUp ==
    /\ pc = "compose_up"
    /\ StartContainers
    /\ Enter("health_check")

WrongHealthy(r) == r \notin Broken /\ \A s \in Services: running[s] = r
\* _wait_for_health: both containers run release r, and the database has the
\* revision its code expects.
Healthy(r) ==
    /\ \A s \in Services: running[s] = r
    /\ schema = Revision(r)
    /\ r \notin Broken

HealthCheck ==
    /\ pc = "health_check" /\ Healthy(status.target)
    /\ pc' = "committed"
    /\ status' = [status EXCEPT !.phase = "committed"]
    /\ passed' = TRUE
    /\ NoFault
    /\ UNCHANGED <<gitVars, dockerVars, dbVars, before>>

HealthCheckFails ==
    /\ pc = "health_check" /\ ~Healthy(status.target)
    /\ pc' = "reset"
    /\ UNCHANGED status
    /\ NoFault /\ Unmoved

Succeeded == [Inspected EXCEPT !.phase = "complete", !.outcome = "verified", !.backup = status.backup]

\* A rollback image that cannot be removed is only logged.
CompleteUpdate ==
    /\ pc = "committed"
    /\ Finish(Succeeded)
    /\ RemoveTags(status.images)
    /\ UNCHANGED <<gitVars, image, running, dbVars, modelVars>>

-----------------------------------------------------------------------------
(* Rollback: by the exception handler of _perform_update, or by a recovery *)

Recovering == status.phase = "interrupted_recovery"

ResetWorktree ==
    /\ pc = "reset"
    /\ head' = status.old
    /\ dirty' = (dirty /\ head = status.old)
    /\ pc' = "retag"
    /\ NoFault
    /\ UNCHANGED <<status, origin, upstream, dockerVars, dbVars, modelVars>>

WrongTagsComplete == status.images # {}
TagsComplete == \A s \in status.images: tags[s] # 0

RestoreImages ==
    /\ pc = "retag" /\ TagsComplete
    /\ image' = [s \in Services |-> IF s \in status.images THEN tags[s] ELSE image[s]]
    /\ pc' = "restart"
    /\ NoFault
    /\ UNCHANGED <<status, gitVars, running, tags, dbVars, modelVars>>

RestartOld ==
    /\ pc = "restart"
    /\ StartContainers
    /\ pc' = "recheck"
    /\ UNCHANGED status

CheckOld ==
    /\ pc = "recheck" /\ Healthy(status.old)
    /\ pc' = "cleanup"
    /\ UNCHANGED status
    /\ NoFault /\ Unmoved

RemoveRollbackImages ==
    /\ pc = "cleanup"
    /\ RemoveTags(status.images)
    /\ pc' = "report"
    /\ UNCHANGED <<status, gitVars, image, running, dbVars, modelVars>>

\* A recovery looks at the repository once more before it reports.
ReportRestored ==
    /\ pc = "report"
    /\ Finish(FailedFrom(IF Recovering THEN Inspected ELSE status, "restored"))
    /\ NoFault /\ Unmoved

\* Needs no failing command: a rollback tag is gone, or the old release does not
\* become healthy.
RollbackFails ==
    /\ \/ pc = "retag" /\ ~TagsComplete
       \/ pc = "recheck" /\ ~Healthy(status.old)
    /\ Finish(FailedFrom(status, "manual"))
    /\ NoFault /\ Unmoved

-----------------------------------------------------------------------------
(* Recovery of an interrupted operation *)

Restorable == status.old # 0 /\ status.images # {}

Reverify ==
    /\ pc = "interrupted_recovery" /\ status.interrupted = "committed"
    /\ Healthy(status.target)
    /\ pc' = "recommit"
    /\ UNCHANGED status
    /\ NoFault /\ Unmoved

ReverifyFails ==
    /\ pc = "interrupted_recovery" /\ status.interrupted = "committed"
    /\ Fault \/ (~Healthy(status.target) /\ NoFault)
    /\ passed' = FALSE
    /\ pc' = "reset"
    /\ UNCHANGED <<status, gitVars, dockerVars, dbVars, before>>

Recommit ==
    /\ pc = "recommit"
    /\ Finish(Succeeded)
    /\ RemoveTags(status.images)
    /\ UNCHANGED <<gitVars, image, running, dbVars, modelVars>>

RecoverOld ==
    /\ pc = "interrupted_recovery" /\ status.interrupted # "committed"
    /\ Restorable
    /\ pc' = "reset"
    /\ UNCHANGED status
    /\ NoFault /\ Unmoved

RecoverCheck ==
    /\ pc = "interrupted_recovery" /\ status.interrupted # "committed"
    /\ ~Restorable
    /\ Finish(FailedFrom(Inspected, "stopped"))
    /\ NoFault /\ Unmoved

-----------------------------------------------------------------------------
(* Failing commands and the end of the agent *)

\* What a step leaves behind that did not come to its end; a cleanup or a prune
\* that fails goes on, and differs from one that is cut off by what follows.
PartialEffect ==
    \/ UNCHANGED <<gitVars, dockerVars, dbVars>>
    \/ /\ pc \in {"database_backup", "scheduled"}
       /\ \E time \in 1..MaxClock: backups' = backups \cup {New(time)}
       /\ UNCHANGED <<gitVars, dockerVars, schema>>
    \/ /\ pc \in {"git_merge", "reset"}
       /\ head' = IF pc = "reset" THEN status.old ELSE status.target
       /\ UNCHANGED <<origin, upstream, dirty, dockerVars, dbVars>>
    \/ /\ pc \in {"docker_build", "retag"}
       /\ \E some \in SUBSET (IF pc = "retag" THEN {s \in status.images: tags[s] # 0} ELSE Services):
              image' = [s \in Services |-> IF s \notin some THEN image[s]
                                           ELSE IF pc = "retag" THEN tags[s] ELSE status.target]
       /\ UNCHANGED <<gitVars, running, tags, dbVars>>
    \/ /\ pc \in {"compose_up", "restart"}
       /\ running' \in {r \in [Services -> {0} \cup Releases]: \A s \in Services: r[s] \in {0, running[s], image[s]}}
       /\ schema' \in {schema, Migrated(image[backend])}
       /\ UNCHANGED <<gitVars, image, tags, backups>>
    \/ /\ pc = "cleanup"
       /\ tags' \in {t \in [Services -> {0} \cup Releases]: \A s \in Services: t[s] \in {0, tags[s]}}
       /\ UNCHANGED <<gitVars, image, running, dbVars>>
    \/ /\ pc = "prune"
       /\ \E b \in backups: b.id = status.backup /\ \E kept \in Retained(backups, b):
              backups' \in {some \in SUBSET backups: kept \subseteq some}
       /\ UNCHANGED <<gitVars, dockerVars, schema>>

UpdateStepFails ==
    /\ Fault
    /\ pc \in UpdatePhases \ {"protecting_images"}
    /\ PartialEffect
    /\ pc' = "reset"
    /\ UNCHANGED <<status, modelVars>>

RollbackStepFails ==
    /\ Fault
    /\ \/ pc \in {"reset", "retag", "restart", "recheck", "interrupted_recovery", "recommit"}
       \/ pc = "report" /\ Recovering
    /\ PartialEffect
    /\ Finish(FailedFrom(status, "manual"))
    /\ UNCHANGED modelVars

\* Kill, power failure, or a restart by systemd after an update of the agent
Crash ==
    /\ pc # "down" /\ Fault
    /\ PartialEffect
    /\ pc' = "down"
    /\ UNCHANGED <<status, modelVars>>

Interrupted == status.phase \in BusyPhases

\* __init__: an interrupted operation is recovered before anything else.
Boot ==
    /\ pc = "down"
    /\ \/ /\ Interrupted /\ NoFault
          /\ pc' = "interrupted_recovery"
          /\ status' = [status EXCEPT !.interrupted = status.phase, !.phase = "interrupted_recovery",
                                      !.outcome = "none", !.saving = FALSE]
       \/ /\ ~Interrupted /\ status.phase \in {"complete", "failed"} /\ NoFault
          /\ Finish([status EXCEPT !.saving = FALSE])
       \/ /\ ~Interrupted /\ status.phase \in {"idle", "available"} /\ NoFault
          /\ Finish(Inspected)
       \/ /\ Fault /\ status.phase \in {"idle", "available"}
          /\ Finish([FailedFrom(status, "error") EXCEPT !.backup = 0, !.saving = FALSE])
    /\ Unmoved

-----------------------------------------------------------------------------
(* Scheduled backups, and the world outside *)

BeginBackup ==
    /\ pc = "free"
    /\ pc' = "scheduled"
    /\ status' = [status EXCEPT !.saving = TRUE]
    /\ NoFault /\ Unmoved

ScheduledBackup ==
    /\ pc = "scheduled"
    /\ \/ \E time \in 1..MaxClock: Prune(backups \cup {New(time)}, New(time))
       \/ Fault /\ UNCHANGED backups
    /\ Finish([status EXCEPT !.saving = FALSE])
    /\ UNCHANGED <<gitVars, dockerVars, schema, modelVars>>

Publish ==
    /\ upstream < MaxRelease
    /\ upstream' = upstream + 1
    /\ NoFault
    /\ UNCHANGED <<pc, status, head, origin, dirty, dockerVars, dbVars, modelVars>>

OperatorFetches ==
    /\ "fetch" \in Operators /\ origin # upstream
    /\ origin' = upstream
    /\ NoFault
    /\ UNCHANGED <<pc, status, head, upstream, dirty, dockerVars, dbVars, modelVars>>

\* Somebody edits a file, which counts as a fault, or reverts the edit.
OperatorEdits ==
    /\ "edit" \in Operators
    /\ \/ ~dirty /\ dirty' = TRUE /\ Fault
       \/ dirty /\ dirty' = FALSE /\ NoFault
    /\ UNCHANGED <<pc, status, head, origin, upstream, dockerVars, dbVars, modelVars>>

-----------------------------------------------------------------------------

Request == BeginCheck \/ BeginUpdate \/ BeginBackup

Update == \/ PerformCheck \/ CheckFails \/ PreflightFails \/ PreflightConflict \/ AcceptUpdate
          \/ \E s \in Services: ProtectImage(s)
          \/ ProtectFails \/ ImagesProtected \/ BackupDatabase \/ PruneBackups \/ GitMerge \/ DockerBuild \/ ComposeUp
          \/ HealthCheck \/ HealthCheckFails \/ CompleteUpdate \/ UpdateStepFails \/ ScheduledBackup

Rollback == \/ ResetWorktree \/ RestoreImages \/ RestartOld \/ CheckOld \/ RemoveRollbackImages
            \/ ReportRestored \/ RollbackFails \/ RollbackStepFails

Recovery == Reverify \/ ReverifyFails \/ Recommit \/ RecoverOld \/ RecoverCheck

Next == \/ Request \/ Update \/ Rollback \/ Recovery \/ Boot \/ Crash
        \/ Publish \/ OperatorFetches \/ OperatorEdits

Spec == Init /\ [][Next]_vars

\* The threads of the agent are scheduled, every command has a timeout, and
\* systemd restarts the agent (Restart=always).
FairSpec == Spec /\ WF_vars(Update \/ Rollback \/ Recovery \/ Boot)

-----------------------------------------------------------------------------
(* Properties *)

\* Phases, releases and backups have their types; in particular an image name always
\* stands for a release, which a rollback by a missing tag would break.
TypeOK ==
    /\ pc \in {"down", "free", "scheduled", "prune", "fetch", "preflight", "report"}
                  \cup UpdatePhases \cup RollbackSteps \cup RecoverySteps
    /\ status \in [phase: Phases, interrupted: BusyPhases \cup {"none"}, checked: BOOLEAN, latest: Releases,
                   old: {0} \cup Releases, target: {0} \cup Releases, images: SUBSET Services,
                   backup: {0} \cup BackupIds, saving: BOOLEAN,
                   outcome: {"none", "error", "stopped", "verified", "restored", "manual"}]
    /\ {head, origin, upstream, schema} \subseteq Releases /\ dirty \in BOOLEAN
    /\ image \in [Services -> Releases]
    /\ {running, tags} \subseteq [Services -> {0} \cup Releases]
    /\ backups \subseteq Backup
    /\ before \in [head: Releases, running: [Services -> {0} \cup Releases], image: [Services -> Releases],
                  schema: Releases]
    /\ passed \in BOOLEAN /\ faults \in 0..MaxFaults

\* Whenever the worktree or the containers are not what they were when the update
\* was accepted, the agent, however often it is restarted, finds in its state and in
\* Docker what it needs to go back: the rollback tags, which are complete before
\* anything is merged or built (_protect_running_images, README.md:84).
RollbackPoint ==
    status.phase \in BusyPhases /\ status.old # 0
      /\ (head # status.old \/ running # before.running)
    => /\ status.old = before.head
       /\ \/ \A s \in status.images: tags[s] = before.running[s]
          \/ head = status.old /\ running = [s \in Services |-> status.old]
       /\ \/ status.images = Services
          \/ head = status.old /\ \A s \in Services \ status.images: image[s] = before.image[s]

\* Release r serves requests on the schema it was written for
Serves(r) == running = [s \in Services |-> r] /\ schema = Revision(r)

\* What the page says is so: after a successful update one release serves, and a
\* failed one that claims to have restored the old application either did, or
\* never touched it (README.md:97).
OutcomeTrue ==
    /\ status.outcome = "verified" => \E r \in Releases: Serves(r)
    /\ status.outcome = "restored" => /\ head = before.head
                                      /\ \/ Serves(before.head)
                                         \/ running = before.running /\ schema = before.schema

\* From the merge on, and through all recovery, the backup of this update exists,
\* whatever pruning by retention and clocks did (README.md:85, 97).
BackupKept ==
    status.phase \in BusyPhases /\ status.backup # 0
    => \E b \in backups: b.id = status.backup

\* An operation ends, also one that a restart interrupted (README.md:89).
OperationsEnd == pc # "free" ~> pc = "free"

\* A verified update is rolled back only after it failed to verify again
\* (docs/architecture.md:95).
VerifiedStays == Recovering /\ pc \in RollbackSteps => ~passed

\* If no command fails, a failed update ends with the old application restored
\* (README.md:87).
RollbackSucceeds == status.outcome # "manual"
=============================================================================
