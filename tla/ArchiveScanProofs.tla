------------------------- MODULE ArchiveScanProofs --------------------------
(***************************************************************************)
(* Proofs about ArchiveScan, for every number of paths, assets, claims and *)
(* versions: claims are final and leave the record with their asset, a     *)
(* scan makes the index exact for every file that nothing touches, and     *)
(* checksums are those of the indexed versions unless old files come back. *)
(***************************************************************************)
EXTENDS ArchiveScan, TLAPS

Active(c) == claim[c].pc # "idle"

ClaimRecord == [pc: {"idle", "open", "record", "flush", "commit"}, path: Paths \cup {Nothing},
                asset: Owner, version: Versions, loaded: FileRecord]

ScanRecord == [pc: {"idle", "assets", "claims", "records", "walk"}, assets: SUBSET Assets,
               claims: [Paths -> Owner], loaded: [Paths -> FileRecord],
               todo: SUBSET Paths, seen: [Paths -> Versions]]

\* The types the claims depend on; a claim at work has its file and asset.
Types ==
    /\ disk \in [Paths -> Versions] /\ clock \in Versions
    /\ registered \subseteq Assets
    /\ records \in [Paths -> FileRecord]
    /\ unclaimed \in [Paths -> UnclaimedFile]
    /\ scan \in ScanRecord
    /\ claim \in [Claimers -> ClaimRecord]
    /\ \A c \in Claimers: IF Active(c) THEN claim[c].path \in Paths /\ claim[c].asset \in Assets
                                       ELSE claim[c] = NoClaim

\* A claim in progress has the row lock: nobody else claims its path, and the
\* row stays as it was read until the claim commits.
RowHeld == \A c \in Claimers: Active(c) =>
    /\ unclaimed[claim[c].path].claimed = Nothing
    /\ unclaimed[claim[c].path].version = claim[c].version
    /\ \A d \in Claimers \ {c}: claim[d].path # claim[c].path

\* A claim that found a record still has the current one, and it is its asset's.
LoadedCurrent == \A c \in Claimers: claim[c].pc \in {"flush", "commit"} =>
    /\ claim[c].loaded # NoRecord \/ claim[c].pc = "commit" => claim[c].loaded = records[claim[c].path]
    /\ claim[c].loaded.asset \in {Nothing, claim[c].asset}

ClaimInv == Types /\ RowHeld /\ LoadedCurrent

-----------------------------------------------------------------------------
(* Records *)

LEMMA ZeroVersion == 0 \in Versions
  BY PathTypes DEF Versions

LEMMA NothingKnown ==
    /\ NoRecord \in FileRecord
    /\ NoClaim \in ClaimRecord
    /\ NoRow \in UnclaimedFile
    /\ NoScan \in ScanRecord
  BY ZeroVersion DEF NoRecord, FileRecord, NoClaim, ClaimRecord, NoRow, UnclaimedFile, NoScan,
                     ScanRecord, Owner

LEMMA FlushedType ==
    ASSUME NEW current \in FileRecord, NEW loaded \in FileRecord, NEW wanted \in FileRecord
    PROVE  Flushed(current, loaded, wanted) \in FileRecord
  BY DEF Flushed, NoRecord, FileRecord

\* What was loaded and is still current is replaced by what is wanted.
LEMMA FlushedCurrent ==
    ASSUME NEW current \in FileRecord, NEW wanted \in FileRecord
    PROVE  /\ Flushed(current, current, wanted).asset = wanted.asset
           /\ Flushed(current, current, wanted).version = wanted.version
           /\ Flushed(current, current, wanted).health = wanted.health
  BY DEF Flushed, NoRecord, FileRecord

LEMMA ScannedType ==
    ASSUME Types, NEW p \in Paths
    PROVE  Scanned(p) \in FileRecord
  BY ZeroVersion, NothingKnown, PathTypes
     DEF Types, Scanned, Indexed, FoundAsset, InAssetDirectory, ScanRecord, FileRecord, Owner

\* The end of a scan changes no claim.
LEMMA SyncedKeeps ==
    ASSUME Types, NEW p \in Paths
    PROVE  Synced(p) \in UnclaimedFile /\ Synced(p).claimed = unclaimed[p].claimed
  BY ZeroVersion DEF Types, Synced, ScanRecord, UnclaimedFile, NoRow, Owner

LEMMA ClaimedIs ==
    ASSUME Types, NEW c \in Claimers
    PROVE  /\ Claimed(c) \in FileRecord
           /\ Claimed(c).asset = IF claim[c].loaded.asset = Nothing THEN claim[c].asset
                                                                   ELSE claim[c].loaded.asset
           /\ Claimed(c).version = claim[c].version
           /\ Claimed(c).health = "healthy"
<1>1. claim[c].loaded \in FileRecord /\ claim[c].asset \in Owner /\ claim[c].version \in Versions
  BY DEF Types, ClaimRecord
<1> QED
  BY <1>1 DEF Claimed, FileRecord

-----------------------------------------------------------------------------
(* The invariant *)

LEMMA InvInit == Init => ClaimInv
<1> SUFFICES ASSUME Init
             PROVE  ClaimInv
  OBVIOUS
<1>1. Types
  BY ZeroVersion, NothingKnown DEF Init, Types, Active, NoClaim
<1>2. RowHeld /\ LoadedCurrent
  BY DEF Init, RowHeld, LoadedCurrent, Active, NoClaim
<1> QED
  BY <1>1, <1>2 DEF ClaimInv

\* Files come and go, assets are registered.
LEMMA EnvironmentKeeps ==
    ASSUME ClaimInv,
           \/ \E p \in Paths: ChangeFile(p)
           \/ \E a \in Assets: Register(a)
    PROVE  ClaimInv'
<1>1. UNCHANGED <<records, unclaimed, scan, claim>>
  BY DEF ChangeFile, Register, dbVars
<1>2. disk' \in [Paths -> Versions] /\ clock' \in Versions /\ registered' \subseteq Assets
  BY PathTypes, ZeroVersion DEF ClaimInv, Types, ChangeFile, Register, Touch, dbVars, Versions
<1> QED
  BY <1>1, <1>2 DEF ClaimInv, Types, RowHeld, LoadedCurrent, Active

\* An upload adds a record where there was none.
LEMMA UploadKeeps ==
    ASSUME ClaimInv, NEW p \in Paths, Upload(p)
    PROVE  ClaimInv'
<1>1. clock' \in Versions
  BY PathTypes DEF ClaimInv, Types, Upload, Versions
<1>2. SlugOf[p] \in Assets
  BY DEF ClaimInv, Types, Upload
<1>3. Types'
  BY <1>1, <1>2 DEF ClaimInv, Types, Upload, FileRecord, Owner, Active
<1>4. LoadedCurrent'
  BY DEF ClaimInv, Types, LoadedCurrent, Upload, Active
<1>5. RowHeld'
  BY DEF ClaimInv, RowHeld, Upload, Active
<1> QED
  BY <1>3, <1>4, <1>5 DEF ClaimInv

\* The scan up to its end has local effects only.
LEMMA ScanReadsKeep ==
    ASSUME ClaimInv,
           \/ BeginScan \/ ReadAssets \/ ReadClaims \/ ReadRecords \/ AbortScan
           \/ \E p \in Paths: Visit(p) \/ SkipFile(p)
    PROVE  ClaimInv'
<1>1. UNCHANGED <<disk, clock, registered, records, unclaimed, claim>>
  BY DEF BeginScan, ReadAssets, ReadClaims, ReadRecords, AbortScan, Visit, SkipFile, dbVars
<1>2. scan' \in ScanRecord
  <2>1. CASE BeginScan \/ ReadAssets \/ ReadRecords
    BY <2>1 DEF BeginScan, ReadAssets, ReadRecords, ClaimInv, Types, ScanRecord
  <2>2. CASE ReadClaims
    BY <2>2 DEF ReadClaims, ClaimInv, Types, ScanRecord, UnclaimedFile
  <2>3. CASE AbortScan
    BY <2>3, NothingKnown DEF AbortScan
  <2>4. CASE \E p \in Paths: Visit(p) \/ SkipFile(p)
    <3>1. PICK p \in Paths: Visit(p) \/ SkipFile(p)
      BY <2>4
    <3>2. disk[p] \in Versions
      BY DEF ClaimInv, Types
    <3>3. CASE Visit(p)
      BY <3>2, <3>3 DEF Visit, ClaimInv, Types, ScanRecord
    <3>4. CASE SkipFile(p)
      BY <3>4 DEF SkipFile, ClaimInv, Types, ScanRecord
    <3> QED
      BY <3>1, <3>3, <3>4
  <2> QED
    BY <2>1, <2>2, <2>3, <2>4
<1> QED
  BY <1>1, <1>2 DEF ClaimInv, Types, RowHeld, LoadedCurrent, Active

\* The end of a scan meets no claim in progress.
LEMMA FinishScanKeeps ==
    ASSUME ClaimInv, FinishScan
    PROVE  ClaimInv'
<1>1. claim' = claim /\ \A c \in Claimers: ~Active(c)
  BY DEF FinishScan, Active
<1>2. records' \in [Paths -> FileRecord]
  <2>1. \A p \in Paths: Flushed(records[p], scan.loaded[p], Scanned(p)) \in FileRecord
    BY FlushedType, ScannedType DEF ClaimInv, Types, ScanRecord
  <2> QED
    BY <2>1 DEF FinishScan, ClaimInv, Types, dbVars
<1>3. unclaimed' \in [Paths -> UnclaimedFile]
  BY SyncedKeeps DEF FinishScan, ClaimInv, Types, dbVars
<1>4. UNCHANGED <<disk, clock, registered>> /\ scan' \in ScanRecord
  BY NothingKnown DEF FinishScan, dbVars
<1> QED
  BY <1>1, <1>2, <1>3, <1>4 DEF ClaimInv, Types, RowHeld, LoadedCurrent, Active

LEMMA BeginClaimKeeps ==
    ASSUME ClaimInv, NEW c \in Claimers, NEW p \in Paths, NEW a \in Assets, BeginClaim(c, p, a)
    PROVE  ClaimInv'
<1> DEFINE new == [NoClaim EXCEPT !.pc = "open", !.path = p, !.asset = a, !.version = unclaimed[p].version]
<1>1. /\ new \in ClaimRecord /\ new.pc = "open" /\ new.path = p /\ new.asset = a
      /\ new.version = unclaimed[p].version
  BY NothingKnown DEF NoClaim, ClaimRecord, ClaimInv, Types, UnclaimedFile, Owner
<1>2. claim' = [claim EXCEPT ![c] = new] /\ UNCHANGED <<disk, clock, dbVars, scan>>
  BY DEF BeginClaim
<1> HIDE DEF new
<1>3. Types'
  BY <1>1, <1>2 DEF ClaimInv, Types, Active, dbVars
<1>4. RowHeld'
  <2>1. unclaimed[p].claimed = Nothing /\ \A d \in Claimers: claim[d].path # p
    BY DEF BeginClaim, Claimable, RowFree
  <2> QED
    BY <1>1, <1>2, <2>1 DEF ClaimInv, Types, RowHeld, Active, dbVars
<1>5. LoadedCurrent'
  BY <1>1, <1>2 DEF ClaimInv, Types, LoadedCurrent, dbVars
<1> QED
  BY <1>3, <1>4, <1>5 DEF ClaimInv

LEMMA ClaimGoesOn ==
    ASSUME ClaimInv, NEW c \in Claimers, OpenSource(c) \/ ReadRecord(c) \/ FlushClaim(c) \/ AbortClaim(c)
    PROVE  ClaimInv'
<1>1. UNCHANGED <<disk, clock, registered, records, unclaimed, scan>>
  BY DEF OpenSource, ReadRecord, FlushClaim, AbortClaim, dbVars
<1>2. PICK new \in ClaimRecord:
         /\ claim' = [claim EXCEPT ![c] = new]
         /\ \/ new = NoClaim
            \/ /\ new.pc \in {"record", "flush", "commit"}
               /\ new.path = claim[c].path /\ new.asset = claim[c].asset
               /\ new.version = claim[c].version
               /\ new.pc \in {"flush", "commit"} =>
                    /\ new.loaded = records[claim[c].path]
                    /\ new.loaded.asset \in {Nothing, claim[c].asset}
  <2>1. CASE OpenSource(c)
    <3> DEFINE new == [claim[c] EXCEPT !.pc = "record"]
    <3>1. claim[c] \in ClaimRecord
      BY DEF ClaimInv, Types
    <3>2. /\ new \in ClaimRecord /\ new.pc = "record"
          /\ new.path = claim[c].path /\ new.asset = claim[c].asset
          /\ new.version = claim[c].version
      BY <3>1 DEF ClaimRecord
    <3>3. claim' = [claim EXCEPT ![c] = new]
      BY <2>1 DEF OpenSource
    <3> QED
      BY <3>2, <3>3
  <2>2. CASE ReadRecord(c)
    <3>1. claim[c].path \in Paths
      BY <2>2 DEF ReadRecord, ClaimInv, Types, Active
    <3> DEFINE new == [claim[c] EXCEPT !.pc = "flush", !.loaded = records[claim[c].path]]
    <3>2. claim[c] \in ClaimRecord /\ records[claim[c].path] \in FileRecord
      BY <3>1 DEF ClaimInv, Types
    <3>3. /\ new \in ClaimRecord /\ new.pc = "flush" /\ new.loaded = records[claim[c].path]
          /\ new.path = claim[c].path /\ new.asset = claim[c].asset
          /\ new.version = claim[c].version
      BY <3>2 DEF ClaimRecord
    <3>4. claim' = [claim EXCEPT ![c] = new]
      BY <2>2 DEF ReadRecord
    <3>5. new.loaded.asset \in {Nothing, claim[c].asset}
      BY <2>2, <3>3 DEF ReadRecord, OwnerFits
    <3> QED
      BY <3>3, <3>4, <3>5
  <2>3. CASE FlushClaim(c)
    <3> DEFINE new == [claim[c] EXCEPT !.pc = "commit"]
    <3>1. claim[c] \in ClaimRecord
      BY DEF ClaimInv, Types
    <3>2. /\ new \in ClaimRecord /\ new.pc = "commit" /\ new.loaded = claim[c].loaded
          /\ new.path = claim[c].path /\ new.asset = claim[c].asset
          /\ new.version = claim[c].version
      BY <3>1 DEF ClaimRecord
    <3>3. claim' = [claim EXCEPT ![c] = new]
      BY <2>3 DEF FlushClaim
    <3>4. /\ claim[c].loaded = records[claim[c].path]
          /\ claim[c].loaded.asset \in {Nothing, claim[c].asset}
      BY <2>3 DEF FlushClaim, ClaimInv, LoadedCurrent
    <3> HIDE DEF new
    <3> QED
      BY <3>2, <3>3, <3>4
  <2>4. CASE AbortClaim(c)
    BY <2>4, NothingKnown DEF AbortClaim
  <2> QED
    BY <2>1, <2>2, <2>3, <2>4
<1>3. Active(c)
  BY DEF OpenSource, ReadRecord, FlushClaim, AbortClaim, Active
<1>4. NoClaim.pc = "idle" /\ NoClaim.path = Nothing
  BY DEF NoClaim
<1>5. Types'
  BY <1>1, <1>2, <1>3, <1>4 DEF ClaimInv, Types, Active
<1>6. RowHeld'
  BY <1>1, <1>2, <1>3, <1>4, PathTypes DEF ClaimInv, Types, RowHeld, Active
<1>7. LoadedCurrent'
  BY <1>1, <1>2, <1>4 DEF ClaimInv, Types, LoadedCurrent
<1> QED
  BY <1>5, <1>6, <1>7 DEF ClaimInv

\* What a successful claim writes
LEMMA CommitIs ==
    ASSUME ClaimInv, NEW c \in Claimers, CommitClaim(c)
    PROVE  LET p == claim[c].path IN
           /\ p \in Paths /\ claim[c].asset \in Assets
           /\ \E r \in FileRecord: /\ records' = [records EXCEPT ![p] = r]
                                   /\ r.asset = claim[c].asset
                                   /\ r.version = unclaimed[p].version /\ r.health = "healthy"
           /\ unclaimed' = [unclaimed EXCEPT ![p].claimed = claim[c].asset]
           /\ claim' = [claim EXCEPT ![c] = NoClaim]
<1> DEFINE p == claim[c].path
           r == Flushed(records[p], claim[c].loaded, Claimed(c))
<1>1. p \in Paths /\ claim[c].asset \in Assets /\ claim[c].pc = "commit"
  BY DEF CommitClaim, ClaimInv, Types, Active
<1>2. records[p] \in FileRecord /\ claim[c].loaded \in FileRecord
  BY <1>1 DEF ClaimInv, Types, ClaimRecord
<1>3. claim[c].loaded = records[p]
  BY <1>1 DEF CommitClaim, ClaimInv, LoadedCurrent
<1>4. /\ r \in FileRecord /\ r.version = claim[c].version /\ r.health = "healthy"
      /\ r.asset = Claimed(c).asset
  <2>1. Claimed(c) \in FileRecord /\ Claimed(c).version = claim[c].version /\ Claimed(c).health = "healthy"
    BY ClaimedIs DEF ClaimInv
  <2>2. r = Flushed(records[p], records[p], Claimed(c))
    BY <1>3
  <2> HIDE DEF r
  <2> QED
    BY <1>2, <2>1, <2>2, FlushedType, FlushedCurrent
<1>5. r.asset = claim[c].asset
  BY <1>1, <1>4, ClaimedIs DEF ClaimInv, LoadedCurrent
<1>6. claim[c].version = unclaimed[p].version
  BY <1>1 DEF ClaimInv, RowHeld, Active
<1> QED
  BY <1>1, <1>4, <1>5, <1>6 DEF CommitClaim

LEMMA CommitClaimKeeps ==
    ASSUME ClaimInv, NEW c \in Claimers, CommitClaim(c)
    PROVE  ClaimInv'
<1> DEFINE p == claim[c].path
<1>1. /\ p \in Paths /\ claim[c].asset \in Assets
      /\ \E r \in FileRecord: records' = [records EXCEPT ![p] = r]
      /\ unclaimed' = [unclaimed EXCEPT ![p].claimed = claim[c].asset]
      /\ claim' = [claim EXCEPT ![c] = NoClaim]
  BY CommitIs
<1>2. UNCHANGED <<disk, clock, registered, scan>>
  BY DEF CommitClaim
<1>3. NoClaim.pc = "idle" /\ NoClaim.path = Nothing /\ NoClaim \in ClaimRecord
  BY NothingKnown DEF NoClaim
<1>4. \A d \in Claimers \ {c}: claim[d].path # p
  BY DEF CommitClaim, ClaimInv, RowHeld, Active
<1>5. Types'
  BY <1>1, <1>2, <1>3 DEF ClaimInv, Types, Active, UnclaimedFile, Owner
<1>6. RowHeld'
  BY <1>1, <1>3, <1>4, PathTypes DEF ClaimInv, Types, RowHeld, Active
<1>7. LoadedCurrent'
  BY <1>1, <1>3, <1>4 DEF ClaimInv, Types, LoadedCurrent, Active
<1> QED
  BY <1>5, <1>6, <1>7 DEF ClaimInv

LEMMA InvStep == ClaimInv /\ [Next]_vars => ClaimInv'
<1> SUFFICES ASSUME ClaimInv, [Next]_vars
             PROVE  ClaimInv'
  OBVIOUS
<1>1. CASE Scan
  BY <1>1, ScanReadsKeep, FinishScanKeeps DEF Scan
<1>2. ASSUME NEW c \in Claimers, Claim(c)
      PROVE  ClaimInv'
  BY <1>2, BeginClaimKeeps, ClaimGoesOn, CommitClaimKeeps DEF Claim
<1>3. CASE \E p \in Paths: ChangeFile(p) \/ Upload(p)
  BY <1>3, EnvironmentKeeps, UploadKeeps
<1>4. CASE \E a \in Assets: Register(a)
  BY <1>4, EnvironmentKeeps
<1>5. CASE UNCHANGED vars
  BY <1>5 DEF vars, dbVars, ClaimInv, Types, RowHeld, LoadedCurrent, Active
<1> QED
  BY <1>1, <1>2, <1>3, <1>4, <1>5 DEF Next

LEMMA InvHolds == Spec => []ClaimInv
  BY InvInit, InvStep, PTL DEF Spec

-----------------------------------------------------------------------------
(* The two promises of a claim *)

\* Only the end of a scan and of a claim write to the rows.
LEMMA RowsWritten ==
    ASSUME [Next]_vars
    PROVE  FinishScan \/ (\E c \in Claimers: CommitClaim(c)) \/ UNCHANGED unclaimed
  BY DEF Next, vars, dbVars, Scan, BeginScan, ReadAssets, ReadClaims, ReadRecords, AbortScan, Visit,
         SkipFile, Claim, BeginClaim, OpenSource, ReadRecord, FlushClaim, AbortClaim, ChangeFile, Upload, Register

\* The end of a scan changes no association.
LEMMA ScanKeepsClaims ==
    ASSUME ClaimInv, FinishScan, NEW p \in Paths
    PROVE  unclaimed'[p].claimed = unclaimed[p].claimed
  BY SyncedKeeps DEF FinishScan, ClaimInv, dbVars

\* Once a file is claimed, no scan and no other claim changes for whom, even if
\* the scan read the claims before this one was committed (unclaimed.py:195-216,
\* 256-260).
THEOREM ClaimsAreFinal == Spec => ClaimFinal
<1>1. ASSUME ClaimInv, [Next]_vars, NEW p \in Paths, unclaimed[p].claimed # Nothing
      PROVE  unclaimed'[p].claimed = unclaimed[p].claimed
  <2>1. ASSUME NEW c \in Claimers, CommitClaim(c)
        PROVE  unclaimed'[p].claimed = unclaimed[p].claimed
    <3>1. unclaimed[claim[c].path].claimed = Nothing
      BY <1>1, <2>1 DEF CommitClaim, ClaimInv, RowHeld, Active
    <3> QED
      BY <1>1, <2>1, <3>1, CommitIs DEF ClaimInv, Types
  <2> QED
    BY <1>1, <2>1, RowsWritten, ScanKeepsClaims
<1>2. ClaimInv /\ [Next]_vars =>
        [\A p \in Paths: unclaimed[p].claimed # Nothing
                          => unclaimed'[p].claimed = unclaimed[p].claimed]_vars
  BY <1>1
<1> QED
  BY <1>2, InvHolds, PTL DEF Spec, ClaimFinal

\* A claim that succeeds leaves a healthy record of the listed version with its
\* asset (unclaimed.py:256-301).
THEOREM ClaimsOwn == Spec => ClaimOwns
<1>1. ASSUME ClaimInv, [Next]_vars, NEW p \in Paths, unclaimed'[p].claimed # unclaimed[p].claimed
      PROVE  /\ records'[p].asset = unclaimed'[p].claimed
             /\ records'[p].version = unclaimed[p].version
             /\ records'[p].health = "healthy"
  <2>1. PICK c \in Claimers: CommitClaim(c)
    BY <1>1, RowsWritten, ScanKeepsClaims
  <2>2. p = claim[c].path
    BY <1>1, <2>1, CommitIs DEF ClaimInv, Types
  <2>3. unclaimed'[p].claimed = claim[c].asset
    <3>1. unclaimed' = [unclaimed EXCEPT ![p].claimed = claim[c].asset]
      BY <1>1, <2>1, <2>2, CommitIs
    <3>2. unclaimed \in [Paths -> UnclaimedFile]
      BY <1>1 DEF ClaimInv, Types
    <3> QED
      BY <1>1, <3>1, <3>2 DEF UnclaimedFile
  <2>4. PICK r \in FileRecord: /\ records' = [records EXCEPT ![p] = r]
                              /\ r.asset = claim[c].asset
                              /\ r.version = unclaimed[p].version /\ r.health = "healthy"
    BY <1>1, <2>1, <2>2, CommitIs
  <2> QED
    BY <1>1, <2>3, <2>4 DEF ClaimInv, Types
<1>2. ClaimInv /\ [Next]_vars =>
        [\A p \in Paths: unclaimed'[p].claimed # unclaimed[p].claimed =>
            /\ records'[p].asset = unclaimed'[p].claimed
            /\ records'[p].version = unclaimed[p].version
            /\ records'[p].health = "healthy"]_vars
  BY <1>1
<1> QED
  BY <1>2, InvHolds, PTL DEF Spec, ClaimOwns

-----------------------------------------------------------------------------
(* The invariant of the records *)

\* A record that the scan has loaded is still there, and has an owner.
RecordInv ==
    /\ \A p \in Paths: records[p] = NoRecord <=> records[p].asset = Nothing
    /\ \A p \in Paths: scan.loaded[p] # NoRecord => Nothing \notin {records[p].asset, scan.loaded[p].asset}
    /\ absent \subseteq Paths
    /\ calm \subseteq Paths

-----------------------------------------------------------------------------
(* The invariant of a scan and a file that nothing touches *)

\* What the scan has read of p so far is what is there.
ScanCurrent(p) ==
    /\ scan.pc \in {"claims", "records", "walk"} =>
          /\ SlugOf[p] \in scan.assets <=> SlugOf[p] \in registered
          /\ unclaimed[p].claimed \in scan.assets \cup {Nothing}
    /\ scan.pc \in {"records", "walk"} => scan.claims[p] = unclaimed[p].claimed
    /\ scan.pc = "walk" => /\ scan.loaded[p] = records[p]
                           /\ p \notin scan.todo => scan.seen[p] = disk[p]

Settled(p) == IF scan.pc = "idle" THEN Exact(p) ELSE ScanCurrent(p)

\* Files are claimed for assets that exist.
ClaimsRegistered ==
    /\ \A p \in Paths: unclaimed[p].claimed \in registered \cup {Nothing}
    /\ \A c \in Claimers: claim[c].asset \in registered \cup {Nothing}

SettledInv == ClaimsRegistered /\ \A p \in calm: Settled(p)

-----------------------------------------------------------------------------
(* The invariant of the checksums *)

\* A record with a checksum was uploaded into the directory of its asset, after
\* every row for its path: what was listed before is not there any more.
Uploaded(p) ==
    /\ SlugOf[p] \in registered
    /\ scan.pc \notin {"idle", "assets"} => SlugOf[p] \in scan.assets
    /\ unclaimed[p].version < records[p].checksum
    /\ disk[p] # 0 => records[p].checksum <= disk[p]

\* No version is larger than the clock, and a claim is of a file that was there.
VersionsPast ==
    /\ \A p \in Paths: {disk[p], records[p].checksum, unclaimed[p].version, scan.seen[p]} \subseteq 0..clock
    /\ \A c \in Claimers: Active(c) => claim[c].version # 0

\* What the requests at work know of the checksums
ChecksumsKnown ==
    /\ scan.pc = "walk" => \A p \in Paths: scan.loaded[p].checksum = records[p].checksum
    /\ \A c \in Claimers: claim[c].pc = "commit" => records[claim[c].path].checksum = 0

FreshInv ==
    /\ VersionsPast
    /\ \A p \in Paths: records[p].checksum # 0 => Uploaded(p)
    /\ ChecksumsKnown
    /\ ChecksumFresh

-----------------------------------------------------------------------------
(* What the end of a scan writes *)

LEMMA FlushedColumns ==
    ASSUME NEW current \in FileRecord, NEW loaded \in FileRecord, NEW wanted \in FileRecord
    PROVE  LET f == Flushed(current, loaded, wanted) IN
           /\ f.asset = IF wanted.asset # loaded.asset THEN wanted.asset ELSE current.asset
           /\ f.version = IF wanted.version # loaded.version THEN wanted.version ELSE current.version
           /\ f.health = IF wanted.health # loaded.health THEN wanted.health ELSE current.health
           /\ f.checksum = IF wanted.checksum # loaded.checksum THEN wanted.checksum ELSE current.checksum
  BY DEF Flushed, NoRecord, FileRecord

LEMMA ScannedIs ==
    ASSUME Types, NEW p \in Paths
    PROVE  /\ Indexed(p) =>
                /\ Scanned(p).asset = FoundAsset(p) /\ Scanned(p).version = scan.seen[p] /\ Scanned(p).health = "healthy"
                /\ Scanned(p).checksum = IF scan.loaded[p].version = scan.seen[p] THEN scan.loaded[p].checksum ELSE 0
           /\ ~Indexed(p) /\ scan.loaded[p] # NoRecord =>
                /\ Scanned(p).asset = scan.loaded[p].asset /\ Scanned(p).version = scan.loaded[p].version
                /\ Scanned(p).checksum = scan.loaded[p].checksum /\ Scanned(p).health = "missing"
  BY DEF Types, Scanned, ScanRecord, FileRecord

LEMMA ScannedRecord ==
    ASSUME Types, FinishScan, NEW p \in Paths
    PROVE  \/ UNCHANGED dbVars
           \/ records'[p] = records[p] /\ scan.loaded[p] = NoRecord /\ ~Indexed(p)
           \/ /\ Indexed(p) \/ scan.loaded[p] # NoRecord
              /\ scan.loaded[p] = NoRecord => records[p] = NoRecord
              /\ records'[p] = Flushed(records[p], scan.loaded[p], Scanned(p))
  BY DEF FinishScan, Types

-----------------------------------------------------------------------------
(* Types *)

\* A record once made keeps an owner; what a scan has loaded is not deleted meanwhile.
LEMMA RecordsOwned ==
    ASSUME ClaimInv, RecordInv, NEW p \in Paths, NEW r,
           records' = [records EXCEPT ![p] = r], r.asset \in Assets, UNCHANGED <<scan, absent>>,
           calm' \subseteq Paths
    PROVE  RecordInv'
  <1>1. r # NoRecord /\ Nothing \notin Assets /\ NoRecord.asset = Nothing
    BY PathTypes DEF NoRecord
  <1>2. records'[p] = r /\ \A q \in Paths: q # p => records'[q] = records[q]
    BY DEF ClaimInv, Types
  <1>3. ASSUME NEW q \in Paths
        PROVE  /\ records'[q] = NoRecord <=> records'[q].asset = Nothing
               /\ scan'.loaded[q] # NoRecord => Nothing \notin {records'[q].asset, scan'.loaded[q].asset}
    BY <1>1, <1>2 DEF RecordInv
  <1>4. QED BY <1>3 DEF RecordInv

LEMMA RecordFinish == ASSUME ClaimInv, RecordInv, FinishScan PROVE RecordInv'
  <1>1. Types /\ Nothing \notin Assets /\ NoRecord.asset = Nothing
    BY PathTypes DEF ClaimInv, NoRecord
  <1>2. ASSUME NEW p \in Paths PROVE records'[p] = NoRecord <=> records'[p].asset = Nothing
    <2>1. CASE records'[p] = records[p]
      BY <2>1 DEF RecordInv
    <2>2. CASE /\ Indexed(p) \/ scan.loaded[p] # NoRecord
               /\ records'[p] = Flushed(records[p], scan.loaded[p], Scanned(p))
      <3>1. records[p] \in FileRecord /\ scan.loaded[p] \in FileRecord /\ Scanned(p) \in FileRecord
        BY <1>1, ScannedType DEF Types, ScanRecord
      <3>2. records'[p].asset = IF Scanned(p).asset # scan.loaded[p].asset THEN Scanned(p).asset ELSE records[p].asset
        BY <2>2, <3>1, FlushedColumns
      <3>3. CASE Indexed(p)
        <4>1. Scanned(p).asset # Nothing
          BY <1>1, <3>3, ScannedIs DEF Indexed
        <4>2. Scanned(p).asset = scan.loaded[p].asset => records[p].asset # Nothing
          BY <1>1, <4>1 DEF RecordInv
        <4>3. QED BY <1>1, <3>2, <4>1, <4>2
      <3>4. CASE ~Indexed(p) /\ scan.loaded[p] # NoRecord
        <4>1. Scanned(p).asset = scan.loaded[p].asset
          BY <1>1, <3>4, ScannedIs
        <4>2. records[p].asset # Nothing
          BY <3>4 DEF RecordInv
        <4>3. QED BY <1>1, <3>2, <4>1, <4>2
      <3>5. QED BY <2>2, <3>3, <3>4
    <2>3. QED BY <1>1, <2>1, <2>2, ScannedRecord DEF dbVars
  <1>3. scan' = NoScan /\ absent' = {} /\ calm' \subseteq Paths
    BY DEF FinishScan, RecordInv
  <1>4. \A p \in Paths: scan'.loaded[p] = NoRecord
    BY <1>3 DEF NoScan
  <1>5. QED BY <1>2, <1>3, <1>4 DEF RecordInv

LEMMA RecordStep == ClaimInv /\ RecordInv /\ [Next]_vars => RecordInv'
  <1> SUFFICES ASSUME ClaimInv, RecordInv, [Next]_vars PROVE RecordInv'
    OBVIOUS
  <1>1. calm' \subseteq Paths /\ absent' \subseteq Paths
    BY DEF RecordInv, Touch, Next, vars, Scan, BeginScan, ReadAssets, ReadClaims, ReadRecords, FinishScan, AbortScan, Visit, SkipFile,
           Claim, BeginClaim, OpenSource, ReadRecord, FlushClaim, CommitClaim, AbortClaim, ChangeFile, Upload, Register
  <1>2. CASE UNCHANGED records /\ scan'.loaded = scan.loaded
    BY <1>1, <1>2 DEF RecordInv
  <1>3. CASE UNCHANGED vars
    BY <1>2, <1>3 DEF vars, dbVars
  <1>4. ASSUME NEW p \in Paths, Upload(p) PROVE RecordInv'
    <2> DEFINE r == [asset |-> SlugOf[p], version |-> clock', health |-> "healthy", checksum |-> clock']
    <2>1. r.asset \in Assets
      BY <1>4 DEF Upload, ClaimInv, Types
    <2>2. UNCHANGED <<scan, absent>> /\ records' = [records EXCEPT ![p] = r]
      BY <1>4 DEF Upload
    <2>3. QED BY <1>1, <2>1, <2>2, RecordsOwned
  <1>5. CASE BeginScan \/ ReadAssets \/ ReadClaims \/ \E p \in Paths: Visit(p) \/ SkipFile(p)
    <2>1. UNCHANGED records /\ scan'.loaded = scan.loaded
      BY <1>5 DEF BeginScan, ReadAssets, ReadClaims, Visit, SkipFile, dbVars, ClaimInv, Types, ScanRecord
    <2>2. QED BY <1>2, <2>1
  <1>6. CASE ReadRecords
    <2>1. scan'.loaded = records /\ UNCHANGED records
      BY <1>6 DEF ReadRecords, dbVars, ClaimInv, Types, ScanRecord
    <2>2. QED BY <1>1, <2>1 DEF RecordInv
  <1>7. CASE AbortScan
    <2>1. (\A p \in Paths: scan'.loaded[p] = NoRecord) /\ UNCHANGED records
      BY <1>7 DEF AbortScan, NoScan, dbVars
    <2>2. QED BY <1>1, <2>1 DEF RecordInv
  <1>8. ASSUME NEW c \in Claimers, Claim(c) PROVE RecordInv'
    <2>1. CASE CommitClaim(c)
      <3> DEFINE p == claim[c].path
      <3>1. PICK r \in FileRecord: records' = [records EXCEPT ![p] = r] /\ r.asset = claim[c].asset
        BY <2>1, CommitIs
      <3>2. p \in Paths /\ r.asset \in Assets /\ UNCHANGED <<scan, absent>>
        BY <2>1, <3>1, CommitIs DEF CommitClaim
      <3> HIDE DEF p
      <3>3. QED BY <1>1, <3>1, <3>2, RecordsOwned
    <2>2. CASE ~CommitClaim(c)
      BY <1>2, <1>8, <2>2 DEF Claim, BeginClaim, OpenSource, ReadRecord, FlushClaim, AbortClaim, dbVars
    <2>3. QED BY <2>1, <2>2
  <1>9. CASE (\E p \in Paths: ChangeFile(p)) \/ \E a \in Assets: Register(a)
    BY <1>2, <1>9 DEF ChangeFile, Register, dbVars
  <1>10. QED BY <1>3, <1>4, <1>5, <1>6, <1>7, <1>8, <1>9, RecordFinish DEF Next, Scan

LEMMA RecordInit == Init => RecordInv
  BY DEF Init, RecordInv, NoScan, NoRecord

\* The rows and the requests have their types; a record has an owner, and a request at
\* work its file and asset.
THEOREM ScanTypes == Spec => []TypeOK
  <1>1. Spec => []RecordInv
    BY RecordInit, RecordStep, InvHolds, PTL DEF Spec
  <1>2. ClaimInv /\ RecordInv => TypeOK
    <2>1. ClaimInv => \A c \in Claimers: claim[c] = NoClaim \/ Nothing \notin {claim[c].path, claim[c].asset}
      BY PathTypes DEF ClaimInv, Types
    <2>2. QED BY <2>1 DEF ClaimInv, Types, RecordInv, TypeOK, ScanRecord, ClaimRecord
  <1>3. QED BY <1>1, <1>2, InvHolds, PTL

-----------------------------------------------------------------------------
(* A scan and the files nothing touches *)

LEMMA RegisteredStep ==
    ASSUME ClaimInv, ClaimsRegistered, [Next]_vars
    PROVE  ClaimsRegistered'
  <1>1. CASE \E c \in Claimers: CommitClaim(c)
    <2>1. PICK c \in Claimers: CommitClaim(c)
      BY <1>1
    <2>2. /\ claim[c].path \in Paths
          /\ unclaimed' = [unclaimed EXCEPT ![claim[c].path].claimed = claim[c].asset]
          /\ claim' = [claim EXCEPT ![c] = NoClaim] /\ UNCHANGED registered
      BY <2>1, CommitIs DEF CommitClaim
    <2>3. /\ unclaimed \in [Paths -> UnclaimedFile] /\ claim \in [Claimers -> ClaimRecord]
          /\ NoClaim.asset = Nothing
      BY DEF ClaimInv, Types, NoClaim
    <2>4. QED BY <2>2, <2>3 DEF ClaimsRegistered, UnclaimedFile
  <1>2. ASSUME NEW c \in Claimers, NEW p \in Paths, NEW a \in Assets, BeginClaim(c, p, a)
        PROVE  ClaimsRegistered'
    <2> DEFINE new == [NoClaim EXCEPT !.pc = "open", !.path = p, !.asset = a, !.version = unclaimed[p].version]
    <2>1. new.asset = a /\ a \in registered
      BY <1>2 DEF NoClaim, BeginClaim
    <2>2. claim' = [claim EXCEPT ![c] = new] /\ UNCHANGED dbVars
      BY <1>2 DEF BeginClaim
    <2> HIDE DEF new
    <2>3. QED BY <2>1, <2>2 DEF ClaimsRegistered, dbVars, ClaimInv, Types
  <1>3. ASSUME NEW c \in Claimers, OpenSource(c) \/ ReadRecord(c) \/ FlushClaim(c) \/ AbortClaim(c)
        PROVE  ClaimsRegistered'
    <2>1. \A d \in Claimers: claim'[d].asset \in {claim[d].asset, Nothing}
      BY <1>3 DEF OpenSource, ReadRecord, FlushClaim, AbortClaim, ClaimInv, Types, ClaimRecord, NoClaim
    <2>2. UNCHANGED dbVars
      BY <1>3 DEF OpenSource, ReadRecord, FlushClaim, AbortClaim
    <2>3. QED BY <2>1, <2>2 DEF ClaimsRegistered, dbVars
  <1>4. CASE FinishScan
    <2>1. \A p \in Paths: unclaimed'[p].claimed = unclaimed[p].claimed
      BY <1>4, ScanKeepsClaims
    <2>2. UNCHANGED <<registered, claim>>
      BY <1>4 DEF FinishScan, dbVars
    <2>3. QED BY <2>1, <2>2 DEF ClaimsRegistered
  <1>5. CASE registered \subseteq registered' /\ UNCHANGED <<unclaimed, claim>>
    BY <1>5 DEF ClaimsRegistered
  <1>6. CASE (\E p \in Paths: ChangeFile(p) \/ Upload(p)) \/ \E a \in Assets: Register(a)
    BY <1>5, <1>6 DEF ChangeFile, Upload, Register, dbVars
  <1>7. CASE \/ BeginScan \/ ReadAssets \/ ReadClaims \/ ReadRecords \/ AbortScan
             \/ \E p \in Paths: Visit(p) \/ SkipFile(p)
    BY <1>5, <1>7 DEF BeginScan, ReadAssets, ReadClaims, ReadRecords, AbortScan, Visit, SkipFile, dbVars
  <1>8. CASE UNCHANGED vars
    BY <1>5, <1>8 DEF vars, dbVars
  <1>9. QED BY <1>1, <1>2, <1>3, <1>4, <1>6, <1>7, <1>8 DEF Next, Scan, Claim

\* The scan finds an owner for a file that has one.
LEMMA FoundIsOwner ==
    ASSUME ClaimInv, NEW p \in Paths, ScanCurrent(p), scan.pc = "walk"
    PROVE  /\ FoundAsset(p) # Nothing <=> Owners(p) # {}
           /\ FoundAsset(p) # Nothing => FoundAsset(p) \in Owners(p)
  BY PathTypes DEF ClaimInv, Types, ScanRecord, ScanCurrent, FoundAsset, InAssetDirectory, Owners

\* The end of a scan leaves a free row for each file outside of assets.
LEMMA SyncedVersion ==
    ASSUME ClaimInv, NEW p \in Paths, unclaimed[p].claimed = Nothing
    PROVE  Synced(p).version = IF scan.seen[p] # 0 /\ SlugOf[p] \notin scan.assets THEN scan.seen[p] ELSE 0
  BY DEF ClaimInv, Types, Synced, InAssetDirectory, NoRow, UnclaimedFile

\* What the end of a scan writes for an untouched file is what there is.
LEMMA FinishSettles ==
    ASSUME ClaimInv, FinishScan, NEW p \in Paths, ScanCurrent(p), p \in calm'
    PROVE  Exact(p)'
  <1>1. /\ scan.pc = "walk" /\ scan.loaded[p] = records[p] /\ UNCHANGED <<disk, registered>>
        /\ scan.seen[p] = disk[p] /\ (SlugOf[p] \in scan.assets <=> SlugOf[p] \in registered)
    BY DEF FinishScan, ScanCurrent, dbVars
  <1>2. /\ unclaimed' = [q \in Paths |-> Synced(q)]
        /\ records' = [q \in Paths |-> IF scan.loaded[q] = NoRecord /\ ~Indexed(q) THEN records[q]
                                       ELSE Flushed(records[q], scan.loaded[q], Scanned(q))]
    BY DEF FinishScan
  <1>3. unclaimed'[p] = Synced(p) /\ unclaimed'[p].claimed = unclaimed[p].claimed
    BY <1>2, ScanKeepsClaims
  <1>4. /\ Owners(p)' = Owners(p)
        /\ Indexed(p) <=> disk'[p] # 0 /\ Owners(p)' # {}
        /\ Indexed(p) => FoundAsset(p) \in Owners(p)'
    BY <1>1, <1>3, FoundIsOwner DEF Indexed, Owners
  <1>5. records[p] \in FileRecord /\ Scanned(p) \in FileRecord /\ Types
    BY ScannedType DEF ClaimInv, Types
  <1>6. unclaimed'[p].claimed = Nothing =>
          unclaimed'[p].version = IF SlugOf[p] \in registered' THEN 0 ELSE disk'[p]
    BY <1>1, <1>3, SyncedVersion
  <1>7. CASE Indexed(p)
    <2>1. records'[p] = Flushed(records[p], records[p], Scanned(p))
      BY <1>1, <1>2, <1>7
    <2>2. /\ Scanned(p).asset = FoundAsset(p) /\ Scanned(p).version = disk[p]
          /\ Scanned(p).health = "healthy"
      BY <1>1, <1>5, <1>7, ScannedIs
    <2>3. /\ records'[p].asset = FoundAsset(p) /\ records'[p].version = disk'[p]
          /\ records'[p].health = "healthy"
      BY <1>1, <1>5, <2>1, <2>2, FlushedCurrent
    <2>4. QED BY <1>4, <1>6, <1>7, <2>3 DEF Exact
  <1>8. CASE ~Indexed(p)
    <2>1. CASE records[p] = NoRecord
      <3>1. records'[p] = records[p]
        BY <1>1, <1>2, <1>8, <2>1
      <3>2. records'[p].health # "healthy"
        BY <2>1, <3>1 DEF NoRecord
      <3>3. QED BY <1>4, <1>6, <1>8, <3>2 DEF Exact
    <2>2. CASE records[p] # NoRecord
      <3>1. records'[p] = Flushed(records[p], records[p], Scanned(p))
        BY <1>1, <1>2, <1>8, <2>2
      <3>2. Scanned(p).health = "missing"
        BY <1>1, <1>5, <1>8, <2>2, ScannedIs
      <3>3. records'[p].health # "healthy"
        BY <1>5, <3>1, <3>2, FlushedCurrent
      <3>4. QED BY <1>4, <1>6, <1>8, <3>3 DEF Exact
    <2>3. QED BY <2>1, <2>2
  <1>9. QED BY <1>7, <1>8

\* What a step leaves as it was, and what the scan knows of it
LEMMA UntouchedKeeps ==
    ASSUME NEW p \in Paths, Settled(p), UNCHANGED scan,
           UNCHANGED <<disk[p], records[p], unclaimed[p]>>,
           SlugOf[p] \in registered' <=> SlugOf[p] \in registered
    PROVE  Settled(p)'
  <1>1. Owners(p)' = Owners(p)
    BY DEF Owners
  <1>2. Exact(p)' <=> Exact(p)
    BY <1>1 DEF Exact
  <1>3. ScanCurrent(p)' <=> ScanCurrent(p)
    BY DEF ScanCurrent
  <1>4. QED BY <1>2, <1>3 DEF Settled

\* The scan reads what is there.
LEMMA ReadsKeep ==
    ASSUME ClaimInv, ClaimsRegistered, NEW p \in Paths, p \in calm',
           \/ BeginScan
           \/ Settled(p) /\ (ReadAssets \/ ReadClaims \/ ReadRecords \/ \E q \in Paths: Visit(q) \/ SkipFile(q))
    PROVE  Settled(p)'
  <1>1. scan \in ScanRecord
    BY DEF ClaimInv, Types
  <1>2. CASE BeginScan
    <2>1. scan'.pc = "assets"
      BY <1>1, <1>2 DEF BeginScan, ScanRecord
    <2>2. QED BY <2>1 DEF Settled, ScanCurrent
  <1>3. CASE ReadAssets
    <2>1. scan'.pc = "claims" /\ scan'.assets = registered /\ UNCHANGED <<registered, unclaimed>>
      BY <1>1, <1>3 DEF ReadAssets, ScanRecord, dbVars
    <2>2. QED BY <2>1 DEF Settled, ScanCurrent, ClaimsRegistered
  <1>4. CASE ReadClaims /\ Settled(p)
    <2>1. /\ scan'.pc = "records" /\ scan'.assets = scan.assets /\ scan.pc = "claims"
          /\ scan'.claims = [q \in Paths |-> unclaimed[q].claimed] /\ UNCHANGED <<registered, unclaimed>>
      BY <1>1, <1>4 DEF ReadClaims, ScanRecord, dbVars
    <2>2. QED BY <1>4, <2>1 DEF Settled, ScanCurrent
  <1>5. CASE ReadRecords /\ Settled(p)
    <2>1. /\ scan'.pc = "walk" /\ scan'.assets = scan.assets /\ scan.pc = "records"
          /\ scan'.claims = scan.claims /\ scan'.loaded = records /\ scan'.todo = Paths
          /\ UNCHANGED <<registered, records, unclaimed>>
      BY <1>1, <1>5 DEF ReadRecords, ScanRecord, dbVars
    <2>2. QED BY <1>5, <2>1 DEF Settled, ScanCurrent
  <1>6. ASSUME NEW q \in Paths, Visit(q) \/ SkipFile(q), Settled(p)
        PROVE  Settled(p)'
    <2>1. /\ scan'.pc = "walk" /\ scan.pc = "walk" /\ scan'.assets = scan.assets
          /\ scan'.claims = scan.claims /\ scan'.loaded = scan.loaded
          /\ UNCHANGED <<disk, registered, records, unclaimed>>
      BY <1>1, <1>6 DEF Visit, SkipFile, ScanRecord, dbVars
    <2>2. p \notin scan'.todo =>
            \/ scan'.seen[p] = disk[p]
            \/ p \notin scan.todo /\ scan'.seen[p] = scan.seen[p]
      <3>1. CASE Visit(q)
        <4>1. scan'.todo = scan.todo \ {q} /\ scan'.seen = [scan.seen EXCEPT ![q] = disk[q]]
          BY <1>1, <3>1 DEF Visit, ScanRecord
        <4>2. QED BY <1>1, <4>1 DEF ScanRecord
      <3>2. CASE SkipFile(q)
        <4>1. scan'.todo = scan.todo \ {q} /\ scan'.seen = scan.seen /\ p # q
          BY <1>1, <3>2 DEF SkipFile, Touch, ScanRecord
        <4>2. QED BY <4>1
      <3>3. QED BY <1>6, <3>1, <3>2
    <2>3. QED BY <1>6, <2>1, <2>2 DEF Settled, ScanCurrent
  <1>7. QED BY <1>2, <1>3, <1>4, <1>5, <1>6

\* What others write they touch.
LEMMA OthersTouch ==
    ASSUME ClaimInv, NEW p \in calm', calm \subseteq Paths,
           \/ \E q \in Paths: ChangeFile(q) \/ Upload(q)
           \/ \E a \in Assets: Register(a)
           \/ \E c \in Claimers: Claim(c)
    PROVE  /\ p \in calm /\ UNCHANGED <<scan, disk[p], records[p], unclaimed[p]>>
           /\ SlugOf[p] \in registered' <=> SlugOf[p] \in registered
  <1>1. disk \in [Paths -> Versions] /\ records \in [Paths -> FileRecord] /\ unclaimed \in [Paths -> UnclaimedFile]
    BY DEF ClaimInv, Types
  <1>2. ASSUME NEW q \in Paths, ChangeFile(q)
        PROVE  /\ p \in calm /\ UNCHANGED <<scan, disk[p], records[p], unclaimed[p]>>
               /\ SlugOf[p] \in registered' <=> SlugOf[p] \in registered
    BY <1>1, <1>2 DEF ChangeFile, Touch, dbVars
  <1>3. ASSUME NEW q \in Paths, Upload(q)
        PROVE  /\ p \in calm /\ UNCHANGED <<scan, disk[p], records[p], unclaimed[p]>>
               /\ SlugOf[p] \in registered' <=> SlugOf[p] \in registered
    BY <1>1, <1>3 DEF Upload, Touch
  <1>4. ASSUME NEW a \in Assets, Register(a)
        PROVE  /\ p \in calm /\ UNCHANGED <<scan, disk[p], records[p], unclaimed[p]>>
               /\ SlugOf[p] \in registered' <=> SlugOf[p] \in registered
    BY <1>4 DEF Register, Touch
  <1>5. ASSUME NEW c \in Claimers, Claim(c)
        PROVE  /\ p \in calm /\ UNCHANGED <<scan, disk[p], records[p], unclaimed[p]>>
               /\ SlugOf[p] \in registered' <=> SlugOf[p] \in registered
    <2>1. CASE CommitClaim(c)
      <3>1. UNCHANGED <<scan, disk, registered>> /\ p \in calm /\ p # claim[c].path
        BY <2>1 DEF CommitClaim, Touch
      <3>2. /\ \E r: records' = [records EXCEPT ![claim[c].path] = r]
            /\ \E r: unclaimed' = [unclaimed EXCEPT ![claim[c].path] = r]
        BY <2>1 DEF CommitClaim
      <3>3. UNCHANGED <<records[p], unclaimed[p]>>
        BY <1>1, <3>1, <3>2
      <3>4. QED BY <3>1, <3>3
    <2>2. CASE ~CommitClaim(c)
      BY <1>5, <2>2 DEF Claim, BeginClaim, OpenSource, ReadRecord, FlushClaim, AbortClaim, dbVars
    <2>3. QED BY <2>1, <2>2
  <1>6. QED BY <1>2, <1>3, <1>4, <1>5

LEMMA SettledStep ==
    ASSUME ClaimInv, calm \subseteq Paths, SettledInv, [Next]_vars
    PROVE  SettledInv'
  <1>1. ClaimsRegistered /\ ClaimsRegistered'
    BY RegisteredStep DEF SettledInv
  <1> SUFFICES ASSUME NEW p \in calm'
               PROVE  Settled(p)'
    BY <1>1 DEF SettledInv
  <1>2. CASE UNCHANGED vars
    <2>1. p \in calm /\ Settled(p) /\ p \in Paths
      BY <1>2 DEF vars, SettledInv
    <2>2. QED BY <1>2, <2>1, UntouchedKeeps DEF vars, dbVars
  <1>3. CASE BeginScan \/ ReadAssets \/ ReadClaims \/ ReadRecords \/ \E q \in Paths: Visit(q) \/ SkipFile(q)
    <2>1. p \in Paths /\ (BeginScan \/ Settled(p))
      BY <1>3 DEF BeginScan, ReadAssets, ReadClaims, ReadRecords, Visit, SkipFile, Touch, SettledInv
    <2>2. QED BY <1>1, <1>3, <2>1, ReadsKeep
  <1>4. CASE FinishScan
    <2>1. p \in calm /\ p \in Paths /\ scan.pc = "walk" /\ scan'.pc = "idle"
      BY <1>4 DEF FinishScan, NoScan
    <2>2. ScanCurrent(p)
      BY <2>1 DEF SettledInv, Settled
    <2>3. QED BY <1>4, <2>1, <2>2, FinishSettles DEF Settled
  <1>5. CASE AbortScan
    BY <1>5 DEF AbortScan
  <1>6. CASE \/ \E q \in Paths: ChangeFile(q) \/ Upload(q)
             \/ \E a \in Assets: Register(a)
             \/ \E c \in Claimers: Claim(c)
    <2>1. /\ p \in calm /\ p \in Paths /\ UNCHANGED <<scan, disk[p], records[p], unclaimed[p]>>
          /\ SlugOf[p] \in registered' <=> SlugOf[p] \in registered
      BY <1>6, OthersTouch
    <2>2. QED BY <2>1, UntouchedKeeps DEF SettledInv
  <1>7. QED BY <1>2, <1>3, <1>4, <1>5, <1>6 DEF Next, Scan

LEMMA SettledInit == Init => SettledInv
  BY DEF Init, SettledInv, ClaimsRegistered, NoRow, NoClaim

\* Whatever happened before a scan, and to other files while it ran: a file that
\* it covered and nothing touched since it began is indexed exactly
\* (_scan_storage and sync_unclaimed_file_snapshots).
THEOREM ScanSettles == Spec => []SettledIndex
  <1>1. ClaimInv /\ RecordInv /\ SettledInv /\ [Next]_vars => SettledInv'
    BY SettledStep DEF RecordInv
  <1>2. Spec => []SettledInv
    BY <1>1, SettledInit, RecordInit, RecordStep, InvHolds, PTL DEF Spec
  <1>3. SettledInv => SettledIndex
    BY DEF SettledInv, Settled, SettledIndex
  <1>4. QED BY <1>2, <1>3, PTL

-----------------------------------------------------------------------------
(* Checksums *)

LEMMA VersionsAre ==
    ASSUME Types, VersionsPast, NEW p \in Paths
    PROVE  /\ clock \in Nat /\ disk[p] \in 0..clock /\ records[p].checksum \in 0..clock
           /\ unclaimed[p].version \in 0..clock /\ scan.seen[p] \in 0..clock
  BY PathTypes DEF Types, VersionsPast, Versions

\* Files change: a new version is larger than every checksum.
LEMMA FreshFile ==
    ASSUME "restore" \notin Events, ClaimInv, FreshInv, NEW p \in Paths, ChangeFile(p)
    PROVE  FreshInv'
  <1>1. /\ UNCHANGED <<registered, records, unclaimed, scan, claim>> /\ Types /\ VersionsPast
        /\ disk' = [disk EXCEPT ![p] = disk'[p]]
        /\ \/ clock' = clock + 1 /\ disk'[p] = clock'
           \/ clock' = clock /\ disk'[p] = 0
    BY DEF ChangeFile, dbVars, ClaimInv, Types, FreshInv
  <1>2. ASSUME NEW q \in Paths
        PROVE  /\ {disk'[q], records'[q].checksum, unclaimed'[q].version, scan'.seen[q]} \subseteq 0..clock'
               /\ disk'[q] # 0 /\ records[q].checksum # 0 => records[q].checksum <= disk'[q]
    <2>1. disk'[q] = IF q = p THEN disk'[p] ELSE disk[q]
      BY <1>1 DEF Types
    <2>2. records[q].checksum # 0 /\ disk[q] # 0 => records[q].checksum <= disk[q]
      BY DEF FreshInv, Uploaded
    <2>3. QED BY <1>1, <2>1, <2>2, VersionsAre
  <1>3. VersionsPast' /\ ChecksumsKnown' /\ ChecksumFresh'
    BY <1>1, <1>2 DEF FreshInv, VersionsPast, ChecksumsKnown, ChecksumFresh, Active
  <1>4. ASSUME NEW q \in Paths, records'[q].checksum # 0 PROVE Uploaded(q)'
    BY <1>1, <1>2, <1>4 DEF FreshInv, Uploaded
  <1>5. QED BY <1>3, <1>4 DEF FreshInv

\* An upload writes the newest version, its row is older.
LEMMA FreshUpload ==
    ASSUME ClaimInv, FreshInv, NEW p \in Paths, Upload(p)
    PROVE  FreshInv'
  <1> DEFINE r == [asset |-> SlugOf[p], version |-> clock', health |-> "healthy", checksum |-> clock']
  <1>1. /\ UNCHANGED <<registered, unclaimed, scan, claim>> /\ Types /\ VersionsPast
        /\ disk' = [disk EXCEPT ![p] = clock'] /\ clock' = clock + 1
        /\ records' = [records EXCEPT ![p] = r]
        /\ scan.pc = "idle" /\ SlugOf[p] \in registered
        /\ \A c \in Claimers: claim[c].pc = "commit" => claim[c].path # p
    BY DEF Upload, dbVars, ClaimInv, FreshInv
  <1>2. r.version = clock' /\ r.checksum = clock'
    OBVIOUS
  <1> HIDE DEF r
  <1>3. ASSUME NEW q \in Paths
        PROVE  /\ disk'[q] = IF q = p THEN clock' ELSE disk[q]
               /\ records'[q] = IF q = p THEN r ELSE records[q]
    BY <1>1 DEF Types
  <1>4. VersionsPast'
    <2>1. ASSUME NEW q \in Paths
          PROVE  {disk'[q], records'[q].checksum, unclaimed'[q].version, scan'.seen[q]} \subseteq 0..clock'
      BY <1>1, <1>2, <1>3, VersionsAre
    <2>2. QED BY <1>1, <2>1 DEF VersionsPast, Active
  <1>5. ChecksumsKnown'
    <2>1. ASSUME NEW c \in Claimers, claim'[c].pc = "commit" PROVE records'[claim'[c].path].checksum = 0
      <3>1. claim[c].path \in Paths /\ claim[c].path # p
        BY <1>1, <2>1 DEF Types, Active
      <3>2. QED BY <1>1, <1>3, <2>1, <3>1 DEF FreshInv, ChecksumsKnown
    <2>2. QED BY <1>1, <2>1 DEF ChecksumsKnown
  <1>6. ChecksumFresh'
    BY <1>2, <1>3 DEF FreshInv, ChecksumFresh
  <1>7. ASSUME NEW q \in Paths, records'[q].checksum # 0 PROVE Uploaded(q)'
    <2>1. CASE q = p
      <3>1. records'[q].checksum = clock' /\ disk'[q] = clock'
        BY <1>2, <1>3, <2>1
      <3>2. unclaimed'[q].version < clock'
        BY <1>1, <2>1, VersionsAre
      <3>3. clock' <= clock'
        BY <1>1, VersionsAre
      <3>4. QED BY <1>1, <2>1, <3>1, <3>2, <3>3 DEF Uploaded
    <2>2. CASE q # p
      BY <1>1, <1>3, <1>7, <2>2 DEF FreshInv, Uploaded
    <2>3. QED BY <2>1, <2>2
  <1>8. QED BY <1>4, <1>5, <1>6, <1>7 DEF FreshInv

\* Assets are registered; the scan reads, or gives up.
LEMMA FreshReads ==
    ASSUME ClaimInv, FreshInv,
           \/ \E a \in Assets: Register(a)
           \/ BeginScan \/ ReadAssets \/ ReadClaims \/ ReadRecords \/ AbortScan
           \/ \E p \in Paths: Visit(p) \/ SkipFile(p)
    PROVE  FreshInv'
  <1>1. /\ UNCHANGED <<disk, clock, records, unclaimed, claim>> /\ registered \subseteq registered'
        /\ Types /\ VersionsPast
    BY DEF Register, BeginScan, ReadAssets, ReadClaims, ReadRecords, AbortScan, Visit, SkipFile, dbVars,
           ClaimInv, FreshInv
  <1>2. scan \in ScanRecord
    BY <1>1 DEF Types
  <1>3. \A p \in Paths: scan'.seen[p] \in {0, disk[p], scan.seen[p]}
    <2>1. CASE \E p \in Paths: Visit(p)
      <3>1. PICK p \in Paths: Visit(p)
        BY <2>1
      <3>2. scan'.seen = [scan.seen EXCEPT ![p] = disk[p]]
        BY <1>2, <3>1 DEF Visit, ScanRecord
      <3>3. QED BY <1>2, <3>2 DEF ScanRecord
    <2>2. CASE AbortScan
      BY <2>2 DEF AbortScan, NoScan
    <2>3. CASE ~AbortScan /\ ~\E p \in Paths: Visit(p)
      <3>1. scan'.seen = scan.seen
        BY <1>2, <2>3 DEF Register, BeginScan, ReadAssets, ReadClaims, ReadRecords, SkipFile, ScanRecord
      <3>2. QED BY <3>1
    <2>4. QED BY <2>1, <2>2, <2>3
  <1>4. /\ scan'.pc \notin {"idle", "assets"} =>
             \/ scan'.assets = registered
             \/ scan.pc \notin {"idle", "assets"} /\ scan'.assets = scan.assets
        /\ scan'.pc = "walk" =>
             \/ scan'.loaded = records
             \/ scan.pc = "walk" /\ scan'.loaded = scan.loaded
    <2>1. CASE BeginScan \/ AbortScan
      BY <1>2, <2>1 DEF BeginScan, AbortScan, NoScan, ScanRecord
    <2>2. CASE ReadAssets \/ ReadClaims
      BY <1>2, <2>2 DEF ReadAssets, ReadClaims, ScanRecord
    <2>3. CASE ReadRecords
      BY <1>2, <2>3 DEF ReadRecords, ScanRecord
    <2>4. CASE \E p \in Paths: Visit(p) \/ SkipFile(p)
      BY <1>2, <2>4 DEF Visit, SkipFile, ScanRecord
    <2>5. CASE \E a \in Assets: Register(a)
      BY <2>5 DEF Register
    <2>6. QED BY <2>1, <2>2, <2>3, <2>4, <2>5
  <1>5. VersionsPast'
    <2>1. ASSUME NEW q \in Paths
          PROVE  {disk'[q], records'[q].checksum, unclaimed'[q].version, scan'.seen[q]} \subseteq 0..clock'
      BY <1>1, <1>3, VersionsAre
    <2>2. QED BY <1>1, <2>1 DEF VersionsPast, Active
  <1>6. ChecksumsKnown' /\ ChecksumFresh'
    BY <1>1, <1>4 DEF FreshInv, ChecksumsKnown, ChecksumFresh
  <1>7. ASSUME NEW q \in Paths, records'[q].checksum # 0 PROVE Uploaded(q)'
    BY <1>1, <1>4, <1>7 DEF FreshInv, Uploaded
  <1>8. QED BY <1>5, <1>6, <1>7 DEF FreshInv

\* A scan keeps the checksum of a version or drops it.
LEMMA FinishChecksum ==
    ASSUME ClaimInv, ChecksumsKnown, FinishScan, NEW p \in Paths
    PROVE  \/ records'[p].checksum = 0
           \/ records'[p].checksum = records[p].checksum /\ records'[p].version = records[p].version
  <1>1. Types /\ scan.pc = "walk"
    BY DEF ClaimInv, FinishScan
  <1>2. CASE records'[p] = records[p]
    BY <1>2
  <1>3. CASE /\ Indexed(p) \/ scan.loaded[p] # NoRecord
             /\ scan.loaded[p] = NoRecord => records[p] = NoRecord
             /\ records'[p] = Flushed(records[p], scan.loaded[p], Scanned(p))
    <2>1. records[p] \in FileRecord /\ scan.loaded[p] \in FileRecord /\ Scanned(p) \in FileRecord
      BY <1>1, ScannedType DEF Types, ScanRecord
    <2>2. /\ records'[p].version = IF Scanned(p).version # scan.loaded[p].version THEN Scanned(p).version
                                                                                 ELSE records[p].version
          /\ records'[p].checksum = IF Scanned(p).checksum # scan.loaded[p].checksum THEN Scanned(p).checksum
                                                                                    ELSE records[p].checksum
      BY <1>3, <2>1, FlushedColumns
    <2>3. scan.loaded[p].checksum = records[p].checksum
      BY <1>1 DEF ChecksumsKnown
    <2>4. CASE Indexed(p)
      <3>1. /\ Scanned(p).version = scan.seen[p]
            /\ Scanned(p).checksum = IF scan.loaded[p].version = scan.seen[p] THEN scan.loaded[p].checksum ELSE 0
        BY <1>1, <2>4, ScannedIs
      <3>2. QED BY <2>2, <2>3, <3>1
    <2>5. CASE ~Indexed(p)
      <3>1. Scanned(p).version = scan.loaded[p].version /\ Scanned(p).checksum = scan.loaded[p].checksum
        BY <1>1, <1>3, <2>5, ScannedIs
      <3>2. QED BY <2>2, <3>1
    <2>6. QED BY <2>4, <2>5
  <1>4. QED BY <1>1, <1>2, <1>3, ScannedRecord DEF dbVars

LEMMA FreshFinish ==
    ASSUME ClaimInv, FreshInv, FinishScan
    PROVE  FreshInv'
  <1>1. /\ UNCHANGED <<disk, clock, registered, claim>> /\ scan' = NoScan /\ scan.pc = "walk"
        /\ \A c \in Claimers: claim[c].pc = "idle"
        /\ Types /\ VersionsPast /\ ChecksumsKnown
    BY DEF FinishScan, dbVars, ClaimInv, FreshInv
  <1>2. ASSUME NEW p \in Paths
        PROVE  /\ \/ records'[p].checksum = 0
                  \/ records'[p].checksum = records[p].checksum /\ records'[p].version = records[p].version
               /\ unclaimed'[p].version \in {0, unclaimed[p].version, scan.seen[p]}
               /\ records[p].checksum # 0 => unclaimed'[p].version \in {0, unclaimed[p].version}
    <2>1. unclaimed'[p] \in {unclaimed[p], Synced(p)}
      BY DEF FinishScan, dbVars
    <2>2. Synced(p).version \in {0, unclaimed[p].version, scan.seen[p]}
      BY <1>1 DEF Types, Synced, UnclaimedFile, NoRow
    <2>3. InAssetDirectory(p) => Synced(p).version \in {0, unclaimed[p].version}
      BY DEF Synced, NoRow
    <2>4. records[p].checksum # 0 => InAssetDirectory(p)
      BY <1>1 DEF FreshInv, Uploaded, InAssetDirectory
    <2>5. QED BY <1>1, <2>1, <2>2, <2>3, <2>4, FinishChecksum
  <1>3. VersionsPast'
    <2>1. ASSUME NEW q \in Paths
          PROVE  {disk'[q], records'[q].checksum, unclaimed'[q].version, scan'.seen[q]} \subseteq 0..clock'
      <3>1. scan'.seen[q] = 0
        BY <1>1 DEF NoScan
      <3>2. QED BY <1>1, <1>2, <3>1, VersionsAre
    <2>2. QED BY <1>1, <2>1 DEF VersionsPast, Active
  <1>4. ChecksumsKnown'
    BY <1>1 DEF ChecksumsKnown, NoScan
  <1>5. ChecksumFresh'
    BY <1>2 DEF FreshInv, ChecksumFresh
  <1>6. ASSUME NEW q \in Paths, records'[q].checksum # 0 PROVE Uploaded(q)'
    <2>1. /\ records'[q].checksum = records[q].checksum /\ records[q].checksum # 0 /\ Uploaded(q)
          /\ unclaimed'[q].version \in {0, unclaimed[q].version}
      BY <1>2, <1>6 DEF FreshInv
    <2>2. unclaimed'[q].version < records'[q].checksum
      BY <1>1, <2>1, VersionsAre DEF Uploaded
    <2>3. QED BY <1>1, <2>1, <2>2 DEF Uploaded, NoScan
  <1>7. QED BY <1>3, <1>4, <1>5, <1>6 DEF FreshInv

\* A claim that gets to its flush found the listed file, so the path has no checksum.
LEMMA FlushMeansBare ==
    ASSUME ClaimInv, FreshInv, NEW c \in Claimers, FlushClaim(c)
    PROVE  records[claim[c].path].checksum = 0
  <1> DEFINE p == claim[c].path
  <1>1. Active(c) /\ p \in Paths /\ disk[p] = claim[c].version /\ Types /\ VersionsPast
    BY DEF FlushClaim, Active, ClaimInv, Types, FreshInv
  <1>2. unclaimed[p].version = claim[c].version /\ claim[c].version # 0
    BY <1>1 DEF ClaimInv, RowHeld, VersionsPast
  <1>3. records[p].checksum # 0 => unclaimed[p].version < records[p].checksum /\ records[p].checksum <= disk[p]
    BY <1>1, <1>2 DEF FreshInv, Uploaded
  <1> HIDE DEF p
  <1>4. records[p].checksum = 0
    BY <1>1, <1>2, <1>3, VersionsAre
  <1>5. QED BY <1>4 DEF p

\* A claim keeps the checksum, if any, of the version it has found.
LEMMA CommitKeepsChecksum ==
    ASSUME ClaimInv, NEW c \in Claimers, CommitClaim(c), NEW p \in Paths
    PROVE  /\ records'[p].checksum = records[p].checksum
           /\ p # claim[c].path => records'[p] = records[p]
  <1>1. Types /\ claim[c].path \in Paths /\ claim[c] \in ClaimRecord
    BY CommitIs DEF ClaimInv, Types
  <1>2. Claimed(c) \in FileRecord /\ Claimed(c).checksum = claim[c].loaded.checksum
    <2>1. claim[c].loaded \in FileRecord
      BY <1>1 DEF ClaimRecord
    <2>2. QED BY <1>1, <2>1, ClaimedIs DEF Claimed, FileRecord
  <1>3. records' = [records EXCEPT ![claim[c].path] =
                      Flushed(records[claim[c].path], claim[c].loaded, Claimed(c))]
    BY DEF CommitClaim
  <1>4. CASE p = claim[c].path
    <2>1. records'[p] = Flushed(records[p], claim[c].loaded, Claimed(c))
      BY <1>1, <1>3, <1>4 DEF Types
    <2>2. records[p] \in FileRecord /\ claim[c].loaded \in FileRecord
      BY <1>1 DEF Types, ClaimRecord
    <2>3. records'[p].checksum = records[p].checksum
      BY <1>2, <2>1, <2>2, FlushedColumns
    <2>4. QED BY <1>4, <2>3
  <1>5. CASE p # claim[c].path
    BY <1>1, <1>3, <1>5 DEF Types
  <1>6. QED BY <1>4, <1>5

LEMMA FreshClaim ==
    ASSUME ClaimInv, FreshInv, NEW c \in Claimers, Claim(c)
    PROVE  FreshInv'
  <1>1. /\ UNCHANGED <<disk, clock, registered, scan>> /\ Types /\ VersionsPast /\ ChecksumsKnown
    BY DEF Claim, BeginClaim, OpenSource, ReadRecord, FlushClaim, CommitClaim, AbortClaim, dbVars, ClaimInv, FreshInv
  <1>2. ASSUME NEW p \in Paths
        PROVE  records'[p].checksum = records[p].checksum /\ unclaimed'[p].version = unclaimed[p].version
    <2>1. CASE CommitClaim(c)
      <3>1. unclaimed' = [unclaimed EXCEPT ![claim[c].path].claimed = claim[c].asset]
        BY <2>1, CommitIs
      <3>2. unclaimed \in [Paths -> UnclaimedFile]
        BY <1>1 DEF Types
      <3>3. unclaimed'[p].version = unclaimed[p].version
        BY <3>1, <3>2 DEF UnclaimedFile
      <3>4. QED BY <2>1, <3>3, CommitKeepsChecksum
    <2>2. CASE ~CommitClaim(c)
      BY <2>2 DEF Claim, BeginClaim, OpenSource, ReadRecord, FlushClaim, AbortClaim, dbVars
    <2>3. QED BY <2>1, <2>2
  <1>3. \A d \in Claimers: /\ d # c => claim'[d] = claim[d]
                           /\ claim'[d].pc = "idle" \/ claim'[d].version # 0
                           /\ claim'[d].pc = "commit" => /\ claim'[d].path \in Paths /\ claim'[d].path = claim[d].path
                                                         /\ records[claim[d].path].checksum = 0
    <2>1. /\ \A d \in Claimers: d # c => claim'[d] = claim[d]
          /\ \A d \in Claimers: claim[d].pc = "idle" \/ claim[d].version # 0
          /\ \A d \in Claimers: claim[d].pc = "commit" => claim[d].path \in Paths /\ records[claim[d].path].checksum = 0
      BY <1>1 DEF Claim, BeginClaim, OpenSource, ReadRecord, FlushClaim, CommitClaim, AbortClaim, Types,
                  VersionsPast, ChecksumsKnown, Active
    <2>2. ASSUME claim'[c].pc # "idle"
          PROVE  /\ claim'[c].version # 0
                 /\ claim'[c].pc = "commit" => /\ claim'[c].path \in Paths /\ claim'[c].path = claim[c].path
                                               /\ records[claim[c].path].checksum = 0
      <3>1. CASE \E p \in Paths, a \in Assets: BeginClaim(c, p, a)
        <4>1. PICK p \in Paths, a \in Assets: BeginClaim(c, p, a)
          BY <3>1
        <4>2. claim'[c].pc = "open" /\ claim'[c].version = unclaimed[p].version
          BY <1>1, <4>1 DEF BeginClaim, Types, NoClaim
        <4>3. unclaimed[p].version # 0
          BY <1>1, <4>1 DEF BeginClaim, Claimable, Types, UnclaimedFile, NoRow
        <4>4. QED BY <4>2, <4>3
      <3>2. CASE OpenSource(c) \/ ReadRecord(c)
        <4>1. claim'[c].pc \in {"record", "flush"} /\ claim'[c].version = claim[c].version /\ claim[c].pc # "idle"
          BY <1>1, <3>2 DEF OpenSource, ReadRecord, Types, ClaimRecord
        <4>2. QED BY <2>1, <4>1
      <3>3. CASE FlushClaim(c)
        <4>1. /\ claim'[c].path = claim[c].path /\ claim'[c].version = claim[c].version /\ claim[c].pc # "idle"
              /\ claim[c].path \in Paths
          BY <1>1, <3>3 DEF FlushClaim, Types, ClaimRecord, Active
        <4>2. QED BY <2>1, <3>3, <4>1, FlushMeansBare
      <3>4. CASE CommitClaim(c) \/ AbortClaim(c)
        BY <1>1, <2>2, <3>4 DEF CommitClaim, AbortClaim, Types, NoClaim
      <3>5. QED BY <3>1, <3>2, <3>3, <3>4 DEF Claim
    <2>3. QED BY <2>1, <2>2
  <1>4. VersionsPast' /\ ChecksumsKnown'
    <2>1. VersionsPast'
      BY <1>1, <1>2, <1>3 DEF VersionsPast, Active
    <2>2. ChecksumsKnown'
      BY <1>1, <1>2, <1>3 DEF ChecksumsKnown
    <2>3. QED BY <2>1, <2>2
  <1>5. ASSUME NEW p \in Paths PROVE records'[p].checksum \in {0, records'[p].version}
    <2>1. CASE CommitClaim(c) /\ p = claim[c].path
      BY <1>1, <1>2, <2>1 DEF CommitClaim, ChecksumsKnown
    <2>2. CASE CommitClaim(c) /\ p # claim[c].path
      BY <2>2, CommitKeepsChecksum DEF FreshInv, ChecksumFresh
    <2>3. CASE ~CommitClaim(c)
      BY <2>3 DEF Claim, BeginClaim, OpenSource, ReadRecord, FlushClaim, AbortClaim, dbVars, FreshInv, ChecksumFresh
    <2>4. QED BY <2>1, <2>2, <2>3
  <1>6. ASSUME NEW q \in Paths, records'[q].checksum # 0 PROVE Uploaded(q)'
    BY <1>1, <1>2, <1>6 DEF FreshInv, Uploaded
  <1>7. QED BY <1>4, <1>5, <1>6 DEF FreshInv, ChecksumFresh

LEMMA FreshStep ==
    ASSUME "restore" \notin Events, ClaimInv, FreshInv, [Next]_vars
    PROVE  FreshInv'
  <1>1. CASE UNCHANGED vars
    BY <1>1 DEF vars, dbVars, FreshInv, VersionsPast, Uploaded, ChecksumsKnown, ChecksumFresh, Active
  <1>2. QED BY <1>1, FreshFile, FreshUpload, FreshReads, FreshFinish, FreshClaim DEF Next, Scan

LEMMA FreshInit == Init => FreshInv
  BY DEF Init, FreshInv, VersionsPast, Uploaded, ChecksumsKnown, ChecksumFresh, NoRecord, NoRow, NoClaim, NoScan, Active

\* A checksum in the index is that of the version in the index, as long as nobody
\* brings an old file back with the size and time it had (architecture.md:98).
THEOREM ChecksumsFresh ==
    ASSUME "restore" \notin Events
    PROVE  Spec => []ChecksumFresh
  <1>1. Spec => []FreshInv
    BY FreshInit, FreshStep, InvHolds, PTL DEF Spec
  <1>2. FreshInv => ChecksumFresh
    BY DEF FreshInv
  <1>3. QED BY <1>1, <1>2, PTL

=============================================================================
