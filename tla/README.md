# Verification of SageDataManager

TLA+ models of SageDataManager (a catalogue and archive for research data: FastAPI
backend on PostgreSQL and one storage directory, Vue client, host update agent), the TLC
configurations that check them on small instances, and proofs checked by TLAPS.
Line numbers refer to the sources under `src/` that `PROJECT.json` maps.

## Inventory

| Component | State | Operations | What is hard |
| --- | --- | --- | --- |
| Upload tasks (`services/transfers.py`, `routes/agent.py`, `routes/archive.py`) | `upload_tasks` rows, staging directories `.uploads/<id>`, temporary files `.uploads/.parts`, lock files, archive files, `file_records` | create (with a sweep of expired tasks), PUT, cancel, finalize, status | requests of one task in any interleaving, unlinked lock files, kills, failing operations, lost answers, an scp client nobody controls |
| Storage index lock (`services/storage.py`) | reader/writer counts of the process, PostgreSQL advisory lock | shared and exclusive try-lock | two locks with different lifetimes, several workers |
| Archive scan (`services/archive.py`) | `file_records`, `unclaimed_files`, `scan_runs` | scan | reads statement by statement against commits in between |
| Unclaimed files (`services/unclaimed.py`) | `unclaimed_files`, `file_records` | claim, synchronize | claims against scans and registrations; files changing on disk |
| Host update agent (`deploy/sage_updater.py`) | `status.json`, Git worktree, Docker images and containers, backups | check, update, recover, scheduled backup | crash at every step, a second crash during recovery, state left by earlier operations |
| Accounts, invitations, sessions (`services/accounts.py`, `services/security.py`, `routes/auth.py`) | `users` with a session generation, `account_invitations` | set-up, invite, renew, accept, update, login | revocation against requests already authenticated, unlocked reads |
| Access tokens (`services/access_tokens.py`) | `personal_access_tokens` | create, revoke, authenticate, record use | as above |
| File access grants (`services/file_access.py`, `routes/files.py`) | `file_access_grants`, activities | issue, authorize, deliver | first access by two requests, state that changes before delivery |
| Asset catalogue (`services/assets.py`) | `assets`, versions, tags, relations | create, import, update, archive, restore, versions, relations | lost updates, lock order, unique constraints |
| Publication identity (`services/paper_identity.py`) | `publication_identity_keys` | resolve, synchronize | check then insert |
| Read-only and static parts (dashboard, health, citations, activity queries, web client, migrations, seed scripts, proxy configuration) | none, or written by the others | queries | none a model would reach |

The components meet in three places: file records (written by finalizations, scans and
claims), the storage root (finalizations, scans, claims, deliveries, and people with shell
access) and row locks on tasks and assets. Authentication reads accounts and tokens before every
operation. The update agent shares nothing with the backend but the Docker host.

What makes each one correct: an upload imports its files once, whole or not at all; the index
says what is on disk; a scan sees no uncommitted file that is still to be taken back and forgets no claim; an update
ends with the old or the verified new version; a revoked credential stays revoked; an edit is
not lost. The hazards, each at its line, are in `PROJECT.json`.

## Modules

| Module | Contents |
| --- | --- |
| `UploadTasks` | the request handlers of upload tasks, step by step, and their properties |
| `UploadPromise` | the abstract life of a task: it ends once and imports atomically |
| `MCUploadTasks` | definitions for the TLC instances |
| `UploadTasksProofs` | types and the upload guard of `UploadTasks` |
| `UploadImportProofs` | the other theorems about `UploadTasks`, and that it implements `UploadPromise` |
| `IndexLock` | the storage index lock: process lock and advisory lock, with their users |
| `ArchiveAccess` | what the lock promises: scans and uncommitted files exclude each other |
| `MCIndexLock` | definitions for the TLC instances |
| `IndexLockProofs` | the theorems about `IndexLock` |
| `ArchiveScan` | scans, claims, registrations, uploads and changing files |
| `MCArchiveScan` | definitions for the TLC instances |
| `ArchiveScanProofs` | the theorems about `ArchiveScan` |
| `UpdateAgent` | the host update agent: check, update, rollback, recovery, backups |
| `MCUpdateAgent` | the module the TLC instances name |
| `UpdateAgentProofs` | the theorems about `UpdateAgent` |
| `Accounts` | accounts, invitation links, browser sessions, access tokens |
| `MCAccounts` | symmetry for the TLC instances |
| `AccountsProofs` | the theorems about `Accounts` |
| `FileAccess` | delivery of one file by grants and access tokens, against revocations |
| `MCFileAccess` | the module the TLC instance names |
| `FileAccessProofs` | the theorems about `FileAccess` |
| `AssetCatalogue` | imports, edits, versions, archiving and relations of assets; publication identities |
| `MCAssetCatalogue` | the imports and edits of the TLC instance |
| `AssetCatalogueProofs` | the theorems about `AssetCatalogue` |

### UploadTasks

*State.* `task`, `expired` and `result` are the rows of `upload_tasks`; `records` the
`file_records` of the asset; `assetArchived` its `archived_at`. `staging`, `marker`, `orphanParts`
and `archive` are the storage root. `lockFile[t]` is the inode the name of the lock file stands
for and whether the name is linked. A handler is a request in progress: `pc` is the step it takes
next, `fd` the inode of the lock file it has open, `work` its local variables. A flock is held by
a handler past `EnterGuard` until it finishes; row locks and the shared index lock are held at the
steps `HoldsTaskRow`, `HoldsAssetRow` and `HoldsIndex` name. `acked`, `externals` and
`failures` are bookkeeping of the model; `failures.left` has the archive files that a kill or a failing unlink
left without anybody to take them back.

*Steps.* One step is one lock, one database statement or one file-system effect; what happens
between two such effects in one thread is invisible to the others. So `upload_task_guard` is
`OpenLock` (open with `O_CREAT`) and then `EnterGuard` or `LockRefused` (flock, non-blocking);
`complete_agent_file_upload` is `PutLink` and `PutUnlink`; `_finalize_upload` is the row of the task, the row of
the asset, the check of everything staged, then for each file `PublishStart` (the destination
is created with `O_EXCL`) and `PublishFill` (bytes copied, source compared with its snapshot),
then verification, commit, clean-up, or compensation file by file. The compensation has two forms. After a failed copy
or check the transaction is still open, and its locks cover the compensation (`fin_rollback`). After a failed
statement, flush or COMMIT (transfers.py:1608, 1665, 1666) PostgreSQL has ended the transaction, and the files are
unlinked without row locks and index lock (`fin_undo`), under the flock alone. In both a file that cannot be unlinked is passed over
(transfers.py:1214). A task is created in two steps: the asset is read without a lock (`CheckAsset`), and the INSERT waits for
the row of the asset, which its foreign key refers to (`CreateTask`, models.py:208), while a finalization has it FOR UPDATE.

*Environment.* `Crash` kills a handler: the kernel drops its flock, PostgreSQL rolls its
transaction back, files stay. Handlers may belong to different workers, which
`docs/architecture.md:115` provides for; the death of a whole worker is several `Crash` steps. `Expire` passes
`expires_at`. `ScpWrite` and `ScpMark` are what the generated command does, at any time and
more than once. `ExternalWrite` is a person with access to the storage. `SetAssetArchived`, `ScanBegins` and
`ScanEnds` are the other components as far as this one notices them. `Fails` lets a file
operation, a statement or a commit fail where the code has a handler for it, `LeavesFile` the unlink that would take a file back.

*Abstractions.* One asset and one target directory, so that a staged path names its archive
path. A content stands for bytes and SHA-256. The mtime of a staged file is the number of scp
writes before it. Checks of path syntax, symbolic links and permissions are left out: they
reject a request before it changes anything. Removal of empty directories is left out. Only
tokens that match their task are presented; expiry is the part of the credential that changes
while a request runs.

### UploadPromise

Four actions on a status per task and a catalogue. `Import` puts a non-empty set of files into the
catalogue in one step, at free paths and with contents the catalogue does not have. `UploadTasks`
implements it with `catalogue <- records` (`PromiseSpec`).

### IndexLock and ArchiveAccess

`UploadTasks` takes the storage index lock for one lock. `IndexLock` looks inside: `readers` and
`writer` are the fields of each worker's `_LocalStorageIndexLock`, `advisory` is the mode of the
transaction's advisory lock. `AcquireLocal` and `AdvisoryGrant`/`AdvisoryRefuse` are the two halves of
`storage_index_guard`; a refusal by the process lock changes nothing and is no step. The locks end at
different times: a finalization ends its transaction (`Commit`, `RollBack`) inside the guard, a scan
leaves the guard (`LeaveGuard`) before its route commits (`EndRequest`). `Crash(w)` kills all requests
of a worker and its successor starts with a fresh process lock, while PostgreSQL keeps the dead
requests' advisory locks until `Reap`. `Fail` is a failed copy or check: the transaction stays open until the
files are unlinked. `DatabaseFails` is a failed statement, a failed COMMIT or a lost connection: the advisory lock is gone at once, and
the process lock is all that covers the compensation. With `PostgreSQL = FALSE` (the databases of the tests)
there is no advisory lock and all requests share one process. A COMMIT whose answer is lost is left to
`UploadTasks`.

`ArchiveAccess` is what of architecture.md:100 the locks can promise: the sets `publishing` (finalizations whose files
are in the archive under an open transaction) and `scanning` (scans that walk or have not
committed) exclude each other, and a scan is alone. When the database ends a transaction, the finalization becomes `exposed`
until its files are gone: no scan runs at that moment, and then only the scans of its own process are kept away. `IndexLock` implements it with
`publishing <- Publishing`, `exposed <- Exposed`, `scanning <- Scanning`. Without PostgreSQL a scan counts until it leaves the guard only.
A killed finalization stops publishing in this sense; that it leaves files behind is said under Runs.

### ArchiveScan

`records` is the table of file records by path, `unclaimed` the table of unclaimed files, `disk` the
storage root. The scan reads assets, claims and records in three statements (`ReadAssets`, `ReadClaims`,
`ReadRecords`), each seeing what was committed before it, then visits the files one by one
(`Visit`, `SkipFile`). It writes at the end only. `FinishScan` is one step because the FOR UPDATE of all
unclaimed rows waits for the claims in progress, later claims wait for the scan's commit, and uploads are
kept out by the index lock. `Scanned` and `Synced` are the rows the scan wants; `Flushed` writes the
columns that differ from what was loaded, as the ORM does, so a column the scan does not touch keeps what others wrote.
If a claim inserted a record the scan wants to insert too, the whole scan is lost (`relative_path` is
unique); `AbortScan` covers all other ends.

A claim locks the row (`BeginClaim`), opens the file and compares it with the snapshot
(`OpenSource`), reads the record and refuses another owner (`ReadRecord`), checks the file once
more and flushes (`FlushClaim`), and commits. `AbortClaim` is a failed check, a failed request or a
kill. A file may change at any time, also between the last check and the commit.

*Abstraction.* A version stands for size, mtime, content and checksum; file names, kinds and MIME types
follow from the path. Archived assets stay in the index and only refuse claims and uploads, so
the model has registered assets only. An upload is one step here; `UploadTasks` has its steps. With
`"restore"` an earlier version may come back with its mtime. `absent` and `calm` are bookkeeping: which
paths had no file at some time during the scan, and which paths it covers that nothing has touched since it began
(a change of the file, a claim, an upload, the registration of the asset of its directory; a skipped file is not covered, and a scan that
is lost covers nothing). `SettledIndex` asks of each such path that it is `Exact`, whatever happens to the others. Where a file is claimed and
lies in the directory of another registered asset, either may have the record: the code prefers the directory
(`FoundAsset`), the documentation the claim, and `ClaimKept` states the latter (see Runs).

### UpdateAgent

*State.* `status` is `_state`, which `_persist_state` writes at every change, so a restart finds what was there;
of its keys the model has the phase, the interrupted phase, the last check, the old and the target
commit, the protected images, the backup and the outcome the page reports. `head`, `origin`, `upstream` and
`dirty` are the worktree, its remote-tracking branch, the remote and uncommitted edits; `image`, `running`
and `tags` are what image names, containers and rollback tags stand for; `schema` is the last migration applied
and `backups` the dump files with their mtimes. Everything runs under `_operation_lock`, taken without waiting, so one
program counter `pc` is enough: `"free"` when nobody has the lock, `"down"` when the agent does not run.

*Steps.* One step is one phase of `_perform_update`, one command of `_rollback_application` or one branch of
`_recover_interrupted_update`. `UpdateStepFails` and `RollbackStepFails` are the exception handlers; `Crash` is a kill, a
power failure or a restart by systemd; `PartialEffect` is what a step may have done when it is cut off (one of two
images built, one of two containers replaced, the migration applied or not). `Boot` is `__init__`.
A container of release `r` is healthy when the database has the migration `r` expects as its last one (health.py:33), and
migrations go forwards only (`alembic upgrade head`).

*Abstractions.* Releases are numbers along `origin/main`; a wrong branch, a wrong remote and local commits fail a
check as a failing command does. The branch of the preflight that finds the worktree already current cannot be reached, as
nobody but the agent moves HEAD here. The timer of the scheduled backup is left out (it may come due
at any time), and so are the logs, a status file that cannot be written or read (the agent then refuses
all requests) and a kill during the clean-up after a failed protection. A backup takes a
time up to `MaxClock` in any order, as clocks may be set back. `before`, `passed` and `faults` are bookkeeping.

### Transactions in Accounts, FileAccess and AssetCatalogue

In these three modules a request is one database transaction, and what can go wrong is in PostgreSQL's
rules, which the modules share as definitions marked external in `PROJECT.json`:

- READ COMMITTED: a statement sees what was committed before it began. The ORM keeps the copy of a row it
  loaded first, also when `SELECT ... FOR UPDATE` reads the row again without `populate_existing`; `row`, `page`,
  `seen` and `meta` in a request are such copies.
- A row that is locked FOR UPDATE, updated or deleted stays locked until the transaction ends, and a row that refers to
  it by a foreign key cannot be inserted meanwhile (`Referable`, `ReferTo`). A value inserted into a unique
  index makes others that insert it wait (`Unblocked`).
- Transactions that wait for each other are found, and one of them is ended (`DeadlockVictim`; in `Accounts` this is
  one of the ends `Abort` stands for). `Abort` is any other
  error, a disconnected database or a killed worker; the transaction leaves nothing.

A step is a statement that may have to wait, or that reads what others may change. A request that is
authenticated is authenticated once, when it arrives (`Arrive`, `Begin...`), and goes on although its credential
may be revoked. A definition `WrongX` is the definition `X` with a mistake in it, which a run must notice;
no specification uses it.

### Accounts

*State.* `user[u]` is a row of `users` (registered, active, owner, what its password is, session
generation), `invitation[i]` a link, `token[t]` an access token, `sessions` the session tokens that were handed
out, each with the generation it names. `lock[u]` is the request that holds the row of `u`. `era[u]` is
bookkeeping: it counts deactivations and password resets of `u`, whatever the code does with the generation.

*Steps.* Set-up, login, creation of accounts by link, renewal, acceptance, deactivation and activation, creation and
revocation of tokens. Those that change an account lock it (`Lock`), flush their writes (`Flush`) and commit.
Set-up locks nothing and relies on the unique index on `is_instance_owner` (`Ownerless`). Login locks nothing
either; with `SharedPassword` the first login of an account without a hash stores the shared one and
writes the next generation from the copy it loaded (`Upgraded`).

*Abstractions.* A password is none, the shared one or the owner's; texts, names and throttling of attempts are left
out. Scopes of tokens are fixed with the row and checked per route. `MaxRaises` bounds the new
session generations of all accounts together: from then on no deactivation and no acceptance begins, but an activation
may, once, so that an account is deactivated and activated again in the run (test_accounts.py:538).

### FileAccess

*State.* One file: its version on disk, the version its record has, and whether the record is offered (healthy,
asset not archived). `grant[g]` is a row of `file_access_grants`, `account` and `token` the owners' credentials,
`userLock` and `rowLock` the row locks, `audits[g]` the activities of a grant's accesses. `served` and `outlived` are
bookkeeping: something was delivered by the grant; it was there when a revocation of its owner committed.

*Steps.* A ticket is issued (`DeleteExpired`, `InsertGrant`); a GET or HEAD with a grant claims its first access by an
`UPDATE ... WHERE first_accessed_at IS NULL` (`FirstAccess`), checks the actor, reads the record, opens the file and
compares it with the record, refers to the account in its activity, commits and sends (`Deliver`). `DeliverToAgent` is the same file
for an AI client. A revocation locks the account, deletes its grants and commits; its deletions wait for
first accesses, whose activities wait for the account: the deadlock is in the code, and `RequestsServed` says that
everybody is answered all the same. `FileChanges` changes disk and record at any time.

*Abstractions.* Expiry passes at any time (`Expire`). Byte ranges, headers and the stream after the first byte are left out: the
descriptor is open by then.

### AssetCatalogue

*State.* `asset` (metadata as the identities its title and details give), `key` (`publication_identity_keys`), `tags`,
`version`, `relation`. A request has the rows it has locked FOR UPDATE (`locked`) or referred to (`shared`), those
still to come (`todo`), and the unique values it has inserted (`pending`).

*Steps.* An import checks all its items, then creates them one by one (`CheckItem`, `InsertTag` for each name in the order of
the names, `Flush`); a registration is an import of one item. An edit starts with the page its editor saw
(`OpenPage`), locks the row, compares the revision and flushes the changed keys. Versions, archiving and restoring lock one row; a
relation locks two in the order of their ids (`LinkOrder`), while its removal refers to the source first and the
target then. So two imports may deadlock on tags, and an added and a removed relation on their assets.

*Abstractions.* An identity is a DOI, an official id or a title with its first author, already normalized; two publications match
when they share one. Publications without keys, which versions before the key table left, are not modelled. Titles and
details that give no identity, searches and lists are left out. An import lists a slug and an identity
once (`BatchesChecked`: `import_assets` refuses others before it reads anything else).

## Runs

The upload runs use at most two handlers; each of their hazards needs two requests. `MaxFailures = 1`: one failure at any place, of
the import itself or of the unlink that compensates for a source or destination that changed; the theorems allow any number. Two
paths are enough for a batch that fails after its first file and for two files with equal
content; two contents for a replay that differs from what is staged.
The scan runs take two paths, one inside an asset's directory and one outside any; two assets where a
claim is contested or a directory changes owner; two claims for a race; and three versions where a
file is listed as one, uploaded over as another and then changed from outside.
The update run takes three releases, so that `origin/main` can move after a check; a migration in the last and a second that never
becomes healthy, so that rollbacks with and without a migration happen; two faults, each a failing command, an end of
the agent or an edit in the worktree, at any place, so that a recovery may itself fail or be cut off; and a retention of one, the tightest.
In the last three components every hazard is a race of two transactions, so two requests at a time suffice for what is checked; both may serve any
number of operations one after the other. The instances are large enough for each waiting rule to matter: two links for one account, so that a renewal
closes an open one; two accounts, one the owner's, and two new generations, so that an invited account is deactivated after its registration, or
activated and used again; an instance that
starts empty or with two administrators; two versions of a file and one grant that two requests present; two
imports of the same two assets and tags in opposite orders, one with a publication that an edit claims too.

| Run | Instance | Checks | Shows |
| --- | --- | --- | --- |
| `UploadGuard` | one HTTP task with a manifest of two files, two handlers, two contents, kills, expiry, archiving, lost commits (1.45M states) | `TypeOK`, `OneHolder`, `AckedKept`, `LimitsRespected`, `ImportedWhole`, `NothingLeftBehind`, `NothingStagedLate`, `PromiseSpec` | one holder per task although lock files come and go; acknowledged files survive, limits hold, imports are whole and happen once, only kills and failing unlinks leave files without records |
| `UploadImport` | an HTTP task of one file and an scp task, two paths, one content, two scp writes, an external writer, a scan (1.66M states) | `RecordsBacked`, `ContentOnce`, `NothingLeftBehind`, `ScanSeesCommitted` | concurrent finalizations and compensation, with and without the locks of the transaction, with sources and destinations that change during the import |
| `UploadProgress` | two HTTP tasks, expiry, fairness (300,000 states) | `RequestsAnswered` | no request waits for ever, for a flock, a row of a task or the row of the asset |
| `IndexLock` | three requests, two workers, PostgreSQL, kills | `LockMatchesHolders`, `AccessSpec` | no leaked process lock; the two locks give the exclusion of `ArchiveAccess`, database failures included |
| `ScanIndex` | two paths, two assets, two claims at a time, three versions, skipped files | `TypeOK`, `SettledIndex`, `ChecksumFresh`, `ClaimFinal`, `ClaimOwns` | a scan indexes exactly what nothing touched meanwhile, whatever happened before and to other files; claims against claims, scans and uploads; checksums are those of the indexed version unless old versions come back |
| `UpdateAgent` | two services, three releases, a migration, two faults, people who fetch and edit | `TypeOK`, `RollbackPoint`, `OutcomeTrue`, `BackupKept`, `OperationsEnd` | there is always a way back; a reported success or restoration is one; the backup of an update survives pruning; every operation ends, across restarts |
| `Accounts` | two accounts, two requests, two links, one token; starts empty or with two administrators; `MaxRaises = 2` (1.12M states) | `TypeOK`, `SessionsEnd`, `InvitationsFit`, `OwnerStays`, `TokensRevoked` | sessions end for good, also when the account is activated again, links are redeemed once and fit, there is always an active owner, no token survives a revocation |
| `FileAccess` | one administrator, two requests, one grant, two versions, fairness | `TypeOK`, `AuditedOnce`, `GrantsRevoked`, `DeliveredIndexed`, `RequestsServed` | a first access is recorded once, revocations are complete, only indexed versions are sent, and every request is answered across deadlocks |
| `AssetCatalogue` | four assets of which two are edited, two requests, two imports, one identity, two tags, two versions | `TypeOK`, `IdentitiesUnique`, `OneCurrent`, `NoLostUpdate`, `LinksActive` | publications stay unique, edits and versions do not overwrite each other, relations lead to active assets (630,100 states) |

Three runs show disagreements with the documentation; TLC must find them violated.

| Run | Property | Disagreement |
| --- | --- | --- |
| `UploadLostCommit` | `RecordsBacked` | a COMMIT whose answer was lost is compensated although it took effect (README.md:168) |
| `UpdateRollback` | `RollbackSucceeds` | the old image cannot start on a migrated database, so after a migration no rollback succeeds (README.md:87) |
| `AccountLegacy` | `SessionsEnd` | a first login with the shared password writes a generation from an unlocked copy, and a session that was ended is valid again (architecture.md:89) |

More disagreements were met. Seven have a property in their module that TLC refutes on the instance given here,
though no run is kept for them:

- `PartsReclaimed` of `UploadTasks`: temporary files of killed workers are never reclaimed (README.md:170). `Tasks = {t1}`,
  `Handlers = {h1, h2}`, `Paths = {p1, p2}`, `Contents = {c1}`, `UnitSize`, `AgentMode`, `NoManifest`, `MaxFailures = 0`,
  `Events = {"crash", "expire"}`.
- `CompensationCovered` of `UploadTasks` and `CompensationUnseen` of `IndexLock`: a flush or COMMIT that fails has ended the
  transaction, and the locks that "must cover filesystem compensation too" (transfers.py:1673) are gone before the
  first file is unlinked; a scan in another worker sees the files (architecture.md:100). Constants as in
  `UploadImport.cfg` and `IndexLock.cfg`. The scans of the same worker are kept away by the process lock.
- `ClaimKept` of `ArchiveScan`: an asset registered over a claimed file takes its record over at the next scan
  (`FoundAsset`; README.md:135 says that later scans keep the association). Constants as in `ScanIndex.cfg`.
- `MissingMeansAbsent` of `ArchiveScan`: a claim that commits between the scan's reads of claims and records has its
  healthy record marked missing until the next scan (test_unclaimed.py:453). `Paths = {p1}`, `Assets = {a1, a2}`, `Claimers = {c1}`,
  `MaxVersion = 1`, `Events = {}`.
- `VerifiedStays` of `UpdateAgent`: the second restart in a row forgets that the interrupted update was committed, and rolls it back
  (architecture.md:95). `MaxRelease = 2`, no migrations or broken releases, `MaxFaults = 2`, nobody else at work.
- `RevocationHolds` of `Accounts`: a token created by a request that was authenticated before its account was deactivated,
  and that waited for the account's row, is valid when the account is activated again; it was inserted after the revocation
  (architecture.md:89, test_accounts.py:388). Constants as in `Accounts.cfg`.

Others follow from single actions:

- A worker that dies after publishing leaves files without records, since compensation is an `except` clause; so does a compensating
  unlink that fails, which is swallowed (transfers.py:1214). README.md:168 knows no such exceptions; `NothingLeftBehind` and
  `ScanSeesCommitted` name them (`failures.left`) and say that there are no others.
- With `"restore"` `ScanIndex` violates `ChecksumFresh`: a claim rewrites size and mtime of a record and keeps its checksum
  (architecture.md:98). The theorems on claims hold with `"restore"` too.
- A conflict in the preflight leaves the state at `checking` (`PreflightConflict`), where the page disables the buttons
  (SettingsView.vue:154) while the message asks to check again.
- Two administrators who manage each other at the same time lock one account each and then refer to the other in their activities
  (accounts.py:368, 240): one request is lost to a deadlock. Likewise two imports with the same tags in different assets, and
  adding against removing a relation (`DeadlockVictim`). Nothing wrong is stored; the documentation does not speak of it.

Handlers and claimers are symmetric and permuted, except where liveness is checked; `UploadImport`
permutes the two paths as well, which nothing in it tells apart. `IndexLock` is checked with
PostgreSQL; that one process lock suffices without it (`PostgreSQL = FALSE`) is part of the theorem
`LockImplementsAccess`.

*Fairness* (`FairSpec`). Weak fairness of every handler: threads are scheduled and the system
calls they make return. Strong fairness of each handler's `FinalizeAsset` or `CreateTask`: both wait for the row of the asset, and
PostgreSQL serves the waiters of a row lock in turn. The row of a task needs none: only holders of its flock take it. Nothing is assumed of clients, kills, the clock or scans. `EnterGuard` needs no fairness of its own
because flock is a try-lock. For the update agent: weak fairness of its threads and of its start, since every command has a
timeout and systemd restarts the agent (`Restart=always`); nothing is assumed of requests or people. For `FileAccess`: strong
fairness of the steps of each request, since PostgreSQL grants row locks to waiters in the order they came and detects every
deadlock; nothing of arrivals, revocations or the clock. `Accounts` and `AssetCatalogue` state safety only: who loses a
deadlock gets an error and may try again.

Links, requests and version names are permuted in the runs of `Accounts` and `AssetCatalogue`; accounts and assets are not, as the start, the
imports and the order of ids name them. `FileAccess` checks liveness and permutes nothing.

## Proofs

For all values of the constants, from the assumptions each module names (such as `DistinctValues` and
`ConfigurationTypes` in `UploadTasks`), TLAPS proves the following. Every safety property and every refinement a passing run
checks is among the statements.

| Theorem | Statement |
| --- | --- |
| `TypeCorrect` | `Spec => []TypeOK` of `UploadTasks` |
| `GuardCorrect` | `Spec => []GuardInv` of `UploadTasks` |
| `OneHolderAlways` | `Spec => []OneHolder` of `UploadTasks` |
| `AckedKeptAlways` | `Spec => []AckedKept` of `UploadTasks` |
| `LimitsAlways` | `Spec => []LimitsRespected` of `UploadTasks` |
| `NothingStagedLateAlways` | `Spec => NothingStagedLate` of `UploadTasks` |
| `ContentOnceAlways` | `Spec => []ContentOnce` of `UploadTasks` |
| `ImportedWholeAlways` | `Spec => []ImportedWhole` of `UploadTasks` |
| `PromiseKept` | `Spec => PromiseSpec` of `UploadTasks` |
| `RecordsBackedAlways` | no lost commits: `Spec => []RecordsBacked` of `UploadTasks` |
| `CopiesCorrect` | `Spec => []CopiesInv` of `UploadTasks` |
| `NothingLeftAlways` | `Spec => []NothingLeftBehind` of `UploadTasks` |
| `ScanSeesCommittedAlways` | `Spec => []ScanSeesCommitted` of `UploadTasks` |
| `LockNeverLeaks` | `Spec => [](TypeOK /\ LockMatchesHolders)` of `IndexLock` |
| `LockImplementsAccess` | `Spec => AccessSpec` of `IndexLock` |
| `ClaimsAreFinal` | `Spec => ClaimFinal` of `ArchiveScan` |
| `ClaimsOwn` | `Spec => ClaimOwns` of `ArchiveScan` |
| `ScanTypes` | `Spec => []TypeOK` of `ArchiveScan` |
| `ScanSettles` | `Spec => []SettledIndex` of `ArchiveScan` |
| `ChecksumsFresh` | no old file comes back: `Spec => []ChecksumFresh` of `ArchiveScan` |
| `TypeCorrect` | `Spec => []TypeOK` of `UpdateAgent` |
| `WayBackAlways` | `Spec => []RollbackPoint` of `UpdateAgent` |
| `OutcomeIsTrue` | `Spec => []OutcomeTrue` of `UpdateAgent` |
| `BackupAlwaysKept` | `Spec => []BackupKept` of `UpdateAgent` |
| `TypeCorrect` | `Spec => []TypeOK` of `Accounts` |
| `SessionsEndForGood` | `~SharedPassword => (Spec => []SessionsEnd)` of `Accounts` |
| `OwnerStaysHolds` | `Spec => []OwnerStays` of `Accounts` |
| `LinksRedeemedOnce` | `Spec => []InvitationsFit` of `Accounts` |
| `TokensAreRevoked` | `Spec => []TokensRevoked` of `Accounts` |
| `TypeCorrect` | `Spec => []TypeOK` of `FileAccess` |
| `FirstAccessOnce` | `Spec => []AuditedOnce` of `FileAccess` |
| `RevocationComplete` | `Spec => []GrantsRevoked` of `FileAccess` |
| `SendsIndexed` | `Spec => []DeliveredIndexed` of `FileAccess` |
| `TypeCorrect` | `Spec => []TypeOK` of `AssetCatalogue` |
| `IdentitiesStayUnique` | `Spec => []IdentitiesUnique` of `AssetCatalogue` |
| `OneCurrentHolds` | `Spec => []OneCurrent` of `AssetCatalogue` |
| `NoUpdateIsLost` | `Spec => NoLostUpdate` of `AssetCatalogue` |
| `LinksStayActive` | `Spec => LinksActive` of `AssetCatalogue` |

`TypeOK` is inductive because it says, with `LocalsOK`, which local variables a step may rely on.
The proof goes through groups of variables (database, storage, handlers, model), one lemma for
each group of actions.

`OneHolder` is not inductive: that two handlers are past the flock of one task says nothing about
which inodes they have. `GuardInv` adds that: while the row exists, whoever is past `OpenLock` has
the linked inode; a file is unlinked only when the row is gone (`sweep_unlink`), a row never
comes back, and two flocks on one inode exclude each other. `OneHolder` follows: two holders of
an existing task would have the same inode. The proof has one step per action.

The other invariants of `UploadTasks` are layered, each proved on top of those before.

- `TaskInv` (`TasksCorrect`) says what a handler's checks are still worth when it acts. `AckedKept` alone is not inductive: a sweep
  that has read its list must only meet tasks that are expired for good, a PUT that undoes its link must not
  hold the name of an acknowledged file. `LimitsRespected` needs that the capacity a PUT counted before the body came is
  still free when it links: only the holder of the guard adds to the directory, which is where `GuardInv` comes in. A
  finalization copies a snapshot with every acknowledged file and the declared number (`SnapshotWhole`). The sizes are
  cardinalities (`StagedBytes`), followed with the library's theorems.
- `CatalogueInv` (`CatalogueCorrect`) adds that at most one handler has the row of the asset, that the paths it publishes are free
  in the index, and that nothing it is about to commit has a content twice. `ContentOnce` and `ImportedWhole` are inductive with that.
- `PromiseKept` follows step by step (`StepsPromised`): the commit of a finalization is `Import`, the statements that create, cancel
  and delete a row are their counterparts, and everything else stutters.
- `CopiesInv` (`CopiesCorrect`): the files a finalization has copied are still its own, unless somebody replaced them from outside,
  and no path is the copy of two finalizations. The row of the asset cannot be the reason, since a finalization that compensates after a database
  failure no longer has it. It is that a destination is created with `O_EXCL` where no file is, and that a finalization
  unlinks its own copies only.
- Compensation therefore removes no file that has a record, which gives `RecordsBacked` together with `CatalogueInv`. Here the theorem assumes
  that no answer to a COMMIT is lost; the run `UploadLostCommit` shows that it fails otherwise.
- `NothingLeftBehind` is inductive with `CopiesInv`: every step that takes a path out of `Copies` of a finalization commits its record, unlinks the file,
  finds that it is somebody else's, or adds it to `failures.left`. It holds for all events, kills and lost commits included.
- With `IndexInv` (`IndexExclusive`: the holders of the index lock and a scan exclude each other) `ScanSeesCommitted` follows: a finalization
  that still accounts for a file during a scan is one without the lock, so one whose transaction was ended.

`RecordsBackedAlways` excludes lost commits, which the run `UploadImport` leaves out too; the other theorems hold for every set of events.

For `IndexLock` types alone are not inductive: that a release leaves a natural number needs the match of
counter and holders, and that it may clear the flag needs `LocalExclusion` (a scan is alone in its
process). `LocalInv` joins them; the counter is followed with the library's theorems on cardinalities.
`AdvisoryInv` says which steps hold the advisory lock and that an exclusive mode is alone. From both,
`ScanAlone`: on PostgreSQL by the advisory modes, elsewhere by the process lock. The refinement maps
`Publish` to `BeginPublish`, `AdvisoryGrant` of a scan to `BeginScan`, `DatabaseFails` after a publication to `Expose`, and every
other step to `End` or a stutter. That a scan of the same process stays away from an exposed finalization comes from the process lock alone.

For `ArchiveScan`, `ClaimInv` joins the types with `RowHeld` (a claim in progress is alone on its row, which
stays as it was read) and `LoadedCurrent` (the record it found is still the current one: uploads insert only,
and a scan does not end meanwhile). Both action properties follow: only `FinishScan` and `CommitClaim`
write the rows, the first keeps every association (`SyncedKeeps`), the second writes what
`CommitIs` says. `ScanTypes` is a consequence of the same invariant.

`SettledIndex` speaks of the time between scans only. `SettledInv` says for each calm path that what a scan at work has read of it is what is there
(`ScanCurrent`), and that files are claimed for registered assets; the end of a scan is then a computation on `Scanned`,
`Synced` and `Flushed`, path by path. `ChecksumFresh` needs to know why a claim, which keeps the checksum of the record it finds, never
meets one of another version. `FreshInv`: a record with a checksum was uploaded into a directory of a registered asset, after every row
for its path, and versions on disk only grow, so the file the row lists is gone. That is where `"restore"` is
excluded: an old file that comes back has its old version, and the property then fails (see Runs).

For `UpdateAgent` the four properties are proved together, from `AgentInv`. `PhaseInv` relates the program counter to the phase that was last
written, which is all a restarted agent has. `WayInv` says for each stage what of worktree, containers, images and
tags is still, or again, as it was: `RollbackPoint` speaks of the status alone and would not survive a crash inside a
rollback without it. `OutcomeInv` adds that what was verified serves until the outcome is written. `BackupKept` is inductive only
with a count (`BackupInv`): every prune comes down to the retention, and each fault may leave one backup more, so there
are always fewer backups than names and a new one overwrites none (`NewIs`).
`PartialEffect`, where a step is cut off anywhere, is one lemma for each invariant.

The three modules of transactions have the same kind of invariant, `Base`: the types, the exclusion the locks give, and for every
request what its locks protect (`Works`, in the catalogue `Shape` for the stages and `Work` for the rows). A lemma
`OthersWork` shows once that a step of one request which keeps to `Respects` (it writes only rows it has locked, or values it has inserted) leaves the
`Works` of every other request true; each action is then a question about its own request.

*Accounts.* `Works` says that a locked account is as the request loaded it, although the ORM never reads it again, and that requests
work on different links and tokens. From it: the generation an update or a reset writes is greater than all
before (`Grows`), so a session's generation tells whether it was handed out in the current era (`SessionInv`).
That is where `~SharedPassword` is needed: the login with the shared password holds no lock, and the run `AccountLegacy` shows
what then happens. For links, a request that has flushed holds the row of the account and closes
every open link there is (`Settles`): others would have to refer to the locked account to insert one, except for an account that is
only being created. `Revokes` says the same of tokens. `OwnerStays` is inductive together with `Base`.

*FileAccess.* A first access holds the lock of its grant and has not yet written `first`; a revocation holds the account and all
grants of it (`GrantsOf`), and no grant of it can be inserted meanwhile, since the insertion refers to the account. `AuditedOnce` and
`GrantsRevoked` are inductive with that. For what is sent, `SentInv` adds that the version a request read is among those
indexed since.

*AssetCatalogue.* Row locks keep what versions, edits and relations read. Identities are checked before they are inserted, without a
lock: `Work` says that whatever an import or an edit has flushed is in its `pending` and still free in `key`, and `Exclusive` that no two
requests have one value pending. With `KeysMatch` (the keys are those of the metadata) and `BatchesChecked` the commit
keeps `IdentitiesUnique`.

The inductive invariants were checked with TLC on the instances of the runs before they were proved; they are not
properties of the runs, which check what follows from them.

Only model-checked: `RequestsAnswered`, `OperationsEnd` and `RequestsServed`. Liveness under fairness is beyond the prover. The properties of
the three runs that show disagreements are false, so there is nothing to prove about them.

## Plan

1. `UploadTasks`, `UploadPromise`: done, with their theorems.
2. `IndexLock`, `ArchiveAccess`, `ArchiveScan`: done, with their theorems.
3. `UpdateAgent`: done, with its theorems. Next: an abstract specification (the application runs the old or the verified
   new version, or a person is asked) and the refinement.
4. `Accounts` with tokens and sessions, `FileAccess`, `AssetCatalogue` with publication identity: done, with their theorems.

## Not modelled

- The update proxy of the backend: one request forwarded over a Unix socket; its state is the agent's.
- Branding: one settings row and one image file, written by one request.
- The activity log: rows appended in the transactions of the other components, where `FileAccess` counts those that matter.
- Dashboard, health, citations, searches and the queries on activities: they only read.
- The web client, migrations, seed scripts, installation and proxy configuration: no state of their own while the system runs, or run once.
- Of modelled components: several assets in one upload task, display names, scopes, the timer of the scheduled backup, a
  status file that cannot be read, publications without keys.

`PROJECT.json` lists each with its reason.
