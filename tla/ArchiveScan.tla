---------------------------- MODULE ArchiveScan -----------------------------
(***************************************************************************)
(* The archive index: a scan of the storage root (_scan_storage of         *)
(* app/services/archive.py with sync_unclaimed_file_snapshots) against     *)
(* claims of files (claim_unclaimed_file of app/services/unclaimed.py),    *)
(* registrations, uploads and whatever else happens to the files.          *)
(*                                                                         *)
(* PostgreSQL runs every statement on the data committed before it.  The   *)
(* scan writes at its end only: its FOR UPDATE of all unclaimed rows waits *)
(* for the claims in progress, and whoever comes later waits for its       *)
(* commit, so this last part is one step.                                  *)
(*                                                                         *)
(* A definition whose name starts with Wrong is the one after it with a    *)
(* mistake in it, and no part of Spec.                                     *)
(***************************************************************************)
EXTENDS Naturals

CONSTANTS
    Paths,       \* relative paths under the storage root
    Assets,
    SlugOf,      \* SlugOf[p]: the asset whose <type>/<slug> directory holds p, or Nothing
    Claimers,    \* claim requests that may run at the same time
    MaxVersion,  \* bound: versions a file can have in a behaviour
    Events,      \* what may happen: "restore", "skip"
    Nothing

ASSUME PathTypes ==
    /\ SlugOf \in [Paths -> Assets \cup {Nothing}]
    /\ Nothing \notin Assets \cup Paths
    /\ MaxVersion \in Nat
    /\ Events \subseteq {"restore", "skip"}

VARIABLES
    \* the storage root
    disk,        \* disk[p]: version of the file at p, 0 without one
    clock,       \* versions given out so far
    \* PostgreSQL
    registered,  \* assets that exist
    records,     \* records[p]: the FileRecord of p
    unclaimed,   \* unclaimed[p]: the UnclaimedFile row of p
    \* requests
    scan,        \* the scan and its local variables
    claim,       \* claim[c]: a claim and its local variables
    \* bookkeeping of the model
    absent,      \* paths without a file at some time since the scan began
    calm         \* paths that the scan at work, or else the last one, covers and nothing
                 \* has touched since it began

dbVars == <<registered, records, unclaimed>>
vars   == <<disk, clock, dbVars, scan, claim, absent, calm>>

\* A version stands for size and mtime, and for the content: the checksum of a
\* file is its version.  No file, no checksum and no row have version 0.
Versions == 0..MaxVersion
NoRecord == [asset |-> Nothing, version |-> 0, health |-> "none", checksum |-> 0]
NoRow    == [version |-> 0, claimed |-> Nothing]
Owner    == Assets \cup {Nothing}

FileRecord == [asset: Owner, version: Versions, health: {"none", "healthy", "missing"},
               checksum: Versions]
UnclaimedFile == [version: Versions, claimed: Owner]

NoScan  == [pc |-> "idle", assets |-> {}, claims |-> [p \in Paths |-> Nothing],
            loaded |-> [p \in Paths |-> NoRecord], todo |-> {}, seen |-> [p \in Paths |-> 0]]
NoClaim == [pc |-> "idle", path |-> Nothing, asset |-> Nothing, version |-> 0, loaded |-> NoRecord]

Init == /\ disk = [p \in Paths |-> 0]
        /\ clock = 0
        /\ registered = {}
        /\ records = [p \in Paths |-> NoRecord]
        /\ unclaimed = [p \in Paths |-> NoRow]
        /\ scan = NoScan
        /\ claim = [c \in Claimers |-> NoClaim]
        /\ absent = {}
        /\ calm = {}

-----------------------------------------------------------------------------
(* The environment: files, assets and uploads *)

Touch(S) == calm' = calm \ S

\* Somebody writes, replaces or restores the file at p, or removes it.
ChangeFile(p) ==
    /\ \/ /\ clock < MaxVersion
          /\ clock' = clock + 1
          /\ disk' = [disk EXCEPT ![p] = clock']
       \/ /\ disk[p] # 0
          /\ disk' = [disk EXCEPT ![p] = 0]
          /\ UNCHANGED clock
       \/ /\ "restore" \in Events
          /\ \E v \in 1..clock: disk' = [disk EXCEPT ![p] = v]
          /\ UNCHANGED clock
    /\ absent' = IF disk'[p] = 0 THEN absent \cup {p} ELSE absent
    /\ Touch({p})
    /\ UNCHANGED <<dbVars, scan, claim>>

Register(a) ==
    /\ a \notin registered
    /\ registered' = registered \cup {a}
    /\ Touch({p \in Paths: SlugOf[p] = a})
    /\ UNCHANGED <<disk, clock, records, unclaimed, scan, claim, absent>>

\* A finalized upload of UploadTasks: the index lock keeps it apart from scans,
\* the row of its asset from claims for the same asset, the unique path from
\* a claim that has inserted its record.
Upload(p) ==
    /\ scan.pc = "idle"
    /\ \A c \in Claimers: claim[c].asset # SlugOf[p] /\ (claim[c].pc = "commit" => claim[c].path # p)
    /\ SlugOf[p] \in registered
    /\ disk[p] = 0 /\ records[p] = NoRecord
    /\ clock < MaxVersion
    /\ clock' = clock + 1
    /\ disk' = [disk EXCEPT ![p] = clock']
    /\ records' = [records EXCEPT ![p] =
                     [asset |-> SlugOf[p], version |-> clock', health |-> "healthy", checksum |-> clock']]
    /\ Touch({p})
    /\ UNCHANGED <<registered, unclaimed, scan, claim, absent>>

-----------------------------------------------------------------------------
(* A scan: four reads, then one step at the end *)

BeginScan == /\ scan.pc = "idle"
             /\ scan' = [scan EXCEPT !.pc = "assets"]
             /\ absent' = {p \in Paths: disk[p] = 0}
             /\ calm' = Paths
             /\ UNCHANGED <<disk, clock, dbVars, claim>>

ReadAssets == /\ scan.pc = "assets"
              /\ scan' = [scan EXCEPT !.pc = "claims", !.assets = registered]
              /\ UNCHANGED <<disk, clock, dbVars, claim, absent, calm>>

ReadClaims == /\ scan.pc = "claims"
              /\ scan' = [scan EXCEPT !.pc = "records",
                                      !.claims = [p \in Paths |-> unclaimed[p].claimed]]
              /\ UNCHANGED <<disk, clock, dbVars, claim, absent, calm>>

ReadRecords == /\ scan.pc = "records"
               /\ scan' = [scan EXCEPT !.pc = "walk", !.loaded = records, !.todo = Paths]
               /\ UNCHANGED <<disk, clock, dbVars, claim, absent, calm>>

Visit(p) == /\ scan.pc = "walk" /\ p \in scan.todo
            /\ scan' = [scan EXCEPT !.todo = @ \ {p}, !.seen[p] = disk[p]]
            /\ UNCHANGED <<disk, clock, dbVars, claim, absent, calm>>

\* stat fails, or p lies in a directory that cannot be read.
SkipFile(p) == /\ "skip" \in Events
               /\ scan.pc = "walk" /\ p \in scan.todo /\ disk[p] # 0
               /\ scan' = [scan EXCEPT !.todo = @ \ {p}]
               /\ Touch({p})
               /\ UNCHANGED <<disk, clock, dbVars, claim, absent>>

\* The asset the scan finds for a file: by directory, else by claim
InAssetDirectory(p) == SlugOf[p] \in scan.assets
FoundAsset(p) == IF InAssetDirectory(p) THEN SlugOf[p]
                 ELSE IF scan.claims[p] \in scan.assets THEN scan.claims[p] ELSE Nothing

WrongIndexed(p) == scan.seen[p] # 0 /\ InAssetDirectory(p)
Indexed(p) == scan.seen[p] # 0 /\ FoundAsset(p) # Nothing

WrongScanned(p) ==
    IF Indexed(p)
      THEN [asset    |-> FoundAsset(p),
            version  |-> scan.seen[p],
            health   |-> "healthy",
            checksum |-> scan.loaded[p].checksum]
      ELSE IF scan.loaded[p] # NoRecord THEN [scan.loaded[p] EXCEPT !.health = "missing"]
                                        ELSE NoRecord
\* The FileRecord as the scan wants it
Scanned(p) ==
    IF Indexed(p)
      THEN [asset    |-> FoundAsset(p),
            version  |-> scan.seen[p],
            health   |-> "healthy",
            checksum |-> IF scan.loaded[p].version = scan.seen[p] THEN scan.loaded[p].checksum ELSE 0]
      ELSE IF scan.loaded[p] # NoRecord THEN [scan.loaded[p] EXCEPT !.health = "missing"]
                                        ELSE NoRecord

\* An ORM object writes the columns that differ from what it was loaded with.
Flushed(current, loaded, wanted) ==
    [column \in DOMAIN NoRecord |->
        IF wanted[column] # loaded[column] THEN wanted[column] ELSE current[column]]

WrongSynced(p) ==
    IF scan.seen[p] # 0 /\ ~InAssetDirectory(p) THEN [unclaimed[p] EXCEPT !.version = scan.seen[p]]
    ELSE IF scan.claims[p] = Nothing THEN NoRow
    ELSE unclaimed[p]
\* sync_unclaimed_file_snapshots: a file outside the asset directories has a row
\* (claimed or not), another row stays only if it is claimed.
Synced(p) ==
    IF scan.seen[p] # 0 /\ ~InAssetDirectory(p) THEN [unclaimed[p] EXCEPT !.version = scan.seen[p]]
    ELSE IF unclaimed[p].claimed = Nothing THEN NoRow
    ELSE unclaimed[p]

\* The rows are selected FOR UPDATE, so no claim is in progress.
FinishScan ==
    /\ scan.pc = "walk" /\ scan.todo = {}
    /\ \A c \in Claimers: claim[c].pc = "idle"
    /\ IF \E p \in Paths: Indexed(p) /\ scan.loaded[p] = NoRecord /\ records[p] # NoRecord
         THEN calm' = {} /\ UNCHANGED dbVars  \* relative_path is unique
         ELSE /\ records' = [p \in Paths |->
                               IF scan.loaded[p] = NoRecord /\ ~Indexed(p) THEN records[p]
                               ELSE Flushed(records[p], scan.loaded[p], Scanned(p))]
              /\ unclaimed' = [p \in Paths |-> Synced(p)]
              /\ UNCHANGED <<registered, calm>>
    /\ scan' = NoScan
    /\ absent' = {}
    /\ UNCHANGED <<disk, clock, claim>>

\* The storage root cannot be opened, the request fails or its worker ends.
AbortScan == /\ scan.pc # "idle"
             /\ scan' = NoScan
             /\ absent' = {}
             /\ calm' = {}
             /\ UNCHANGED <<disk, clock, dbVars, claim>>

-----------------------------------------------------------------------------
(* A claim of the unclaimed file p for asset a *)

RowFree(p) == \A c \in Claimers: claim[c].path # p

Claimable(p) == unclaimed[p] # NoRow /\ unclaimed[p].claimed = Nothing

\* Locks the row of p and the row of a; a refusal here ends the request.
BeginClaim(c, p, a) ==
    /\ claim[c].pc = "idle"
    /\ RowFree(p)
    /\ Claimable(p)
    /\ a \in registered
    /\ claim' = [claim EXCEPT ![c] = [NoClaim EXCEPT !.pc = "open", !.path = p, !.asset = a,
                                                     !.version = unclaimed[p].version]]
    /\ UNCHANGED <<disk, clock, dbVars, scan, absent, calm>>

\* Opens the file, which has to be the one of the snapshot.
OpenSource(c) ==
    /\ claim[c].pc = "open"
    /\ disk[claim[c].path] = claim[c].version
    /\ claim' = [claim EXCEPT ![c].pc = "record"]
    /\ UNCHANGED <<disk, clock, dbVars, scan, absent, calm>>

OwnerFits(c) == records[claim[c].path].asset \in {Nothing, claim[c].asset}

ReadRecord(c) ==
    /\ claim[c].pc = "record"
    /\ OwnerFits(c)
    /\ claim' = [claim EXCEPT ![c].pc = "flush", ![c].loaded = records[claim[c].path]]
    /\ UNCHANGED <<disk, clock, dbVars, scan, absent, calm>>

StaleClaimed(c) == [claim[c].loaded EXCEPT !.asset = IF @ = Nothing THEN claim[c].asset ELSE @,
                                           !.health = "healthy"]
WrongClaimed(c) == [claim[c].loaded EXCEPT !.version = claim[c].version, !.health = "healthy"]
\* The FileRecord as the claim wants it; an owner stays, a checksum stays.
Claimed(c) == [claim[c].loaded EXCEPT !.asset = IF @ = Nothing THEN claim[c].asset ELSE @,
                                      !.version = claim[c].version,
                                      !.health = "healthy"]

\* The file is still the one that was opened, and an insert finds the path free.
FlushClaim(c) ==
    LET p == claim[c].path IN
    /\ claim[c].pc = "flush"
    /\ disk[p] = claim[c].version
    /\ claim[c].loaded = NoRecord => records[p] = NoRecord
    /\ claim' = [claim EXCEPT ![c].pc = "commit"]
    /\ UNCHANGED <<disk, clock, dbVars, scan, absent, calm>>

CommitClaim(c) ==
    LET p == claim[c].path IN
    /\ claim[c].pc = "commit"
    /\ records' = [records EXCEPT ![p] = Flushed(@, claim[c].loaded, Claimed(c))]
    /\ unclaimed' = [unclaimed EXCEPT ![p].claimed = claim[c].asset]
    /\ claim' = [claim EXCEPT ![c] = NoClaim]
    /\ Touch({p})
    /\ UNCHANGED <<disk, clock, registered, scan, absent>>

\* One of the checks fails, the request fails or its worker ends.
AbortClaim(c) ==
    /\ claim[c].pc # "idle"
    /\ claim' = [claim EXCEPT ![c] = NoClaim]
    /\ UNCHANGED <<disk, clock, dbVars, scan, absent, calm>>

-----------------------------------------------------------------------------

Scan == \/ BeginScan \/ ReadAssets \/ ReadClaims \/ ReadRecords \/ FinishScan \/ AbortScan
        \/ \E p \in Paths: Visit(p) \/ SkipFile(p)

Claim(c) == \/ \E p \in Paths, a \in Assets: BeginClaim(c, p, a)
            \/ OpenSource(c) \/ ReadRecord(c) \/ FlushClaim(c) \/ CommitClaim(c) \/ AbortClaim(c)

Next == \/ Scan
        \/ \E c \in Claimers: Claim(c)
        \/ \E p \in Paths: ChangeFile(p) \/ Upload(p)
        \/ \E a \in Assets: Register(a)

Spec == Init /\ [][Next]_vars

-----------------------------------------------------------------------------
(* Properties *)

\* A record has an owner, and a request at work has its file and asset.
TypeOK ==
    /\ disk \in [Paths -> Versions] /\ clock \in Versions
    /\ registered \subseteq Assets
    /\ records \in [Paths -> FileRecord]
    /\ \A p \in Paths: records[p] = NoRecord <=> records[p].asset = Nothing
    /\ unclaimed \in [Paths -> UnclaimedFile]
    /\ scan \in [pc: {"idle", "assets", "claims", "records", "walk"}, assets: SUBSET Assets,
                 claims: [Paths -> Owner], loaded: [Paths -> FileRecord],
                 todo: SUBSET Paths, seen: [Paths -> Versions]]
    /\ claim \in [Claimers -> [pc: {"idle", "open", "record", "flush", "commit"}, path: Paths \cup {Nothing},
                               asset: Owner, version: Versions, loaded: FileRecord]]
    /\ \A c \in Claimers: claim[c] = NoClaim \/ Nothing \notin {claim[c].path, claim[c].asset}
    /\ absent \subseteq Paths
    /\ calm \subseteq Paths

\* Who may own the file: the asset in whose directory it lies, and its claim
Owners(p) == ({SlugOf[p]} \cap registered) \cup ({unclaimed[p].claimed} \ {Nothing})

\* The file of an owner is healthy in its version, another record is not, and
\* the file has an unclaimed row only outside of the asset directories.
Exact(p) ==
    /\ IF disk[p] # 0 /\ Owners(p) # {}
         THEN /\ records[p].asset \in Owners(p)
              /\ records[p].version = disk[p]
              /\ records[p].health = "healthy"
         ELSE records[p].health # "healthy"
    /\ unclaimed[p].claimed = Nothing =>
         unclaimed[p].version = IF SlugOf[p] \in registered THEN 0 ELSE disk[p]

\* What a scan has covered while nothing touched it is indexed exactly, whatever
\* happened before, and to other files, assets and claims meanwhile
\* (_scan_storage and sync_unclaimed_file_snapshots).
SettledIndex == scan.pc = "idle" => \A p \in calm: Exact(p)

\* What src/README.md:135 says of a claim, "later scans keep the association":
\* the record of a claimed file is never handed to another asset.  A scan after
\* the directory was registered for another asset refutes it; the README lists it.
ClaimKept == [][\A p \in Paths:
    records[p].asset = unclaimed[p].claimed /\ unclaimed[p].claimed # Nothing =>
        records'[p].asset = records[p].asset]_vars

\* A claim is for good: no scan takes the association of a file away, even if
\* the claim was committed after the scan had read the claims
\* (unclaimed.py:215 reads it again under the row locks).
ClaimFinal == [][\A p \in Paths:
    unclaimed[p].claimed # Nothing => unclaimed'[p].claimed = unclaimed[p].claimed]_vars

\* A claim that succeeds leaves the record of the file with its asset and in the
\* version that was listed, whatever scans, uploads and other claims did
\* meanwhile (unclaimed.py:256-301).
ClaimOwns == [][\A p \in Paths:
    unclaimed'[p].claimed # unclaimed[p].claimed =>
        /\ records'[p].asset = unclaimed'[p].claimed
        /\ records'[p].version = unclaimed[p].version
        /\ records'[p].health = "healthy"]_vars

\* A checksum in the index is that of the version in the index
\* (architecture.md:98 on _indexed_snapshot_matches).
ChecksumFresh == \A p \in Paths: records[p].checksum \in {0, records[p].version}

\* A scan declares a healthy record missing only if the file was absent at
\* some time during the scan (test_unclaimed.py:453).
MissingMeansAbsent == [][\A p \in Paths:
    records[p].health = "healthy" /\ records'[p].health = "missing" => p \in absent]_vars

=============================================================================
