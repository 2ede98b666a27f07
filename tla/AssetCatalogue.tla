--------------------------- MODULE AssetCatalogue ---------------------------
(***************************************************************************)
(* The catalogue: metadata of assets with their publication identities,    *)
(* tags, versions and relations, and what two requests do to them at the   *)
(* same time (services/assets.py, services/paper_identity.py,              *)
(* routes/assets.py, and the routes for AI clients).                       *)
(*                                                                         *)
(* A request is one transaction under READ COMMITTED; its steps are the    *)
(* statements that wait for others: SELECT ... FOR UPDATE of a row, the    *)
(* insertion of a row that refers to one, and the insertion of a value     *)
(* into a unique index while another request has not committed it yet.     *)
(*                                                                         *)
(* A definition whose name starts with Wrong is the one after it with a    *)
(* mistake in it, and no part of Spec.                                     *)
(***************************************************************************)
EXTENDS Naturals, Sequences, FiniteSets

CONSTANTS
    Assets,      \* asset ids, with the order of the database
    Present,     \* the assets there are at first; bound: only these are edited and linked
    Versioned,   \* bound: the assets that get versions
    Requests,    \* requests that are served at the same time
    Identities,  \* DOIs, official ids, titles with first authors, of publications
    Tags,        \* tag names, in their order
    Batches,     \* imports: sequences of [asset, tags, meta]; one item also stands for a registration
    Edits,       \* what an editor may store: [meta, tags]; tags: names added to the asset
    Versions,    \* version names
    none         \* a model value

ASSUME CatalogueTypes ==
    /\ Assets \subseteq Nat /\ Present \subseteq Assets /\ Versioned \subseteq Present
    /\ Tags \subseteq Nat
    /\ \A b \in Batches : b \in Seq([asset : Assets \ Present, tags : SUBSET Tags,
                                     meta : SUBSET Identities])
    /\ Edits \subseteq [meta : SUBSET Identities, tags : SUBSET Tags]
    /\ none \notin Assets \cup Versions

\* What import_assets refuses at once: an empty import, a slug or a publication twice in it
ASSUME BatchesChecked ==
    \A b \in Batches :
       /\ b # <<>>
       /\ \A m, n \in DOMAIN b : m # n => b[m].asset # b[n].asset /\ b[m].meta \cap b[n].meta = {}

VARIABLES
    asset,     \* asset[a]: the row of a; meta: the identities its title and details give
    key,       \* key[i]: the asset with the row of i in publication_identity_keys
    tags,      \* the rows of the table of tags
    version,   \* version[a][v]: "none", "old" or "current"
    relation,  \* the relations, pairs of source and target
    req        \* req[r]: what request r is doing

vars == <<asset, key, tags, version, relation, req>>
rows == <<asset, key, tags, version, relation>>

\* page, stale: the metadata its editor saw, and whether updated_at changed since;
\* todo: assets still to be locked or referred to; locked, shared: FOR UPDATE and KEY SHARE locks;
\* pending: values of unique indexes it changed and has not committed.
Idle == [op |-> "none", asset |-> none, stage |-> "begun", batch |-> <<>>, at |-> 1, page |-> {},
         stale |-> FALSE, meta |-> {}, tags |-> {}, version |-> none, current |-> FALSE, seen |-> {},
         link |-> <<>>, todo |-> <<>>, locked |-> {}, shared |-> {}, pending |-> {}]

Init ==
    /\ asset = [a \in Assets |-> [exists |-> a \in Present, archived |-> FALSE, meta |-> {}]]
    /\ key = [i \in Identities |-> none]
    /\ tags = {}
    /\ version = [a \in Assets |-> [v \in Versions |-> "none"]]
    /\ relation = {}
    /\ req = [r \in Requests |-> Idle]

-----------------------------------------------------------------------------
(* Locks *)

Others(r) == Requests \ {r}

\* SELECT ... FOR UPDATE conflicts with both locks, a reference with the first.
WrongHoldsRow(q, a) == a \in req[q].shared
HoldsRow(q, a) == a \in req[q].locked \cup req[q].shared
HoldsUpdate(q, a) == a \in req[q].locked

End(r) == req' = [req EXCEPT ![r] = Idle]

\* updated_at of a changes: pages that show the asset are stale.
EndChanging(r, a) ==
    req' = [q \in Requests |-> IF q = r THEN Idle
                               ELSE [req[q] EXCEPT !.stale = @ \/ (req[q].op = "update" /\ req[q].asset = a)]]

Begin(r, op, a, todo) == [Idle EXCEPT !.op = op, !.asset = a, !.todo = todo]

\* Versions are loaded after the lock.
LockRow(r) ==
    /\ req[r].todo # <<>> /\ req[r].op # "unlink"
    /\ LET a == Head(req[r].todo) IN
         /\ \A q \in Others(r) : ~HoldsRow(q, a)
         /\ req' = [req EXCEPT ![r].todo = Tail(@), ![r].locked = @ \cup {a}, ![r].stage = "locked",
                               ![r].seen = IF req[r].op = "version"
                                             THEN {v \in Versions : version[a][v] # "none"} ELSE @]
    /\ UNCHANGED rows

Locked(r) == req[r].stage = "locked" /\ req[r].todo = <<>>
Active(a) == asset[a].exists /\ ~asset[a].archived

-----------------------------------------------------------------------------
(* Registrations and imports *)

\* resolve_publication: no identity belongs to another asset.
Resolved(meta, a) == \A i \in meta : key[i] \in {none, a}

Acceptable(item) == ~asset[item.asset].exists /\ Resolved(item.meta, item.asset)

BeginImport(r, b) ==
    /\ req[r].op = "none"
    /\ \A n \in DOMAIN b : Acceptable(b[n])
    /\ req' = [req EXCEPT ![r] = [Idle EXCEPT !.op = "import", !.batch = b]]
    /\ UNCHANGED rows

Item(r)    == req[r].batch[req[r].at]
Created(r) == {req[r].batch[n] : n \in DOMAIN req[r].batch}

\* The checks of create_asset
CheckItem(r) ==
    /\ req[r].op = "import" /\ req[r].stage = "begun"
    /\ Acceptable(Item(r))
    /\ req' = [req EXCEPT ![r].stage = "tags", ![r].tags = Item(r).tags]
    /\ UNCHANGED rows

-----------------------------------------------------------------------------
(* Values of unique indexes, for imports and updates *)

TagEntry(t)  == <<"tag", t>>
KeyEntry(i)  == <<"key", i>>
SlugEntry(a) == <<"slug", a>>

\* INSERT ... ON CONFLICT DO NOTHING of the names, in their order
IsNext(r, t) == t \in req[r].tags /\ \A u \in req[r].tags : t <= u

InsertTag(r) ==
    /\ req[r].stage = "tags"
    /\ \E t \in req[r].tags :
         /\ IsNext(r, t)
         /\ \A q \in Others(r) : TagEntry(t) \notin req[q].pending
         /\ req' = [req EXCEPT ![r].tags = @ \ {t},
                               ![r].pending = IF t \in tags THEN @ ELSE @ \cup {TagEntry(t)}]
    /\ UNCHANGED rows

Flushing(r) == req[r].stage = "tags" /\ req[r].tags = {}

\* The values that synchronize_publication_identity_keys and the insertion of the asset write
Entries(r) ==
    IF req[r].op = "import"
      THEN {SlugEntry(Item(r).asset)} \cup {KeyEntry(i) : i \in Item(r).meta}
      ELSE LET old == asset[req[r].asset].meta
               new == req[r].meta
           IN  {KeyEntry(i) : i \in (new \ old) \cup (old \ new)}

\* No value comes twice.
Unique(r) == IF req[r].op = "import" THEN Acceptable(Item(r)) ELSE Resolved(req[r].meta, req[r].asset)

Unblocked(r) == \A q \in Others(r) : Entries(r) \cap req[q].pending = {}

WrongMore(r) == req[r].op = "import" /\ req[r].at <= Len(req[r].batch)
More(r) == req[r].op = "import" /\ req[r].at < Len(req[r].batch)

Flush(r) ==
    /\ Flushing(r) /\ Unblocked(r) /\ Unique(r)
    /\ req' = [req EXCEPT ![r].pending = @ \cup Entries(r),
                          ![r].stage = IF More(r) THEN "begun" ELSE "flushed",
                          ![r].at = IF More(r) THEN @ + 1 ELSE @]
    /\ UNCHANGED rows

NewTags(r) == {t \in Tags : TagEntry(t) \in req[r].pending}

CommitImport(r) ==
    /\ req[r].op = "import" /\ req[r].stage = "flushed"
    /\ asset' = [a \in Assets |-> IF \E item \in Created(r) : item.asset = a
                                    THEN [exists |-> TRUE, archived |-> FALSE,
                                          meta |-> (CHOOSE item \in Created(r) : item.asset = a).meta]
                                    ELSE asset[a]]
    /\ key' = [i \in Identities |-> IF \E item \in Created(r) : i \in item.meta
                                      THEN (CHOOSE item \in Created(r) : i \in item.meta).asset
                                      ELSE key[i]]
    /\ tags' = tags \cup NewTags(r)
    /\ End(r)
    /\ UNCHANGED <<version, relation>>

-----------------------------------------------------------------------------
(* Editing *)

\* An editor, or an AI client, reads the asset with its revision.
OpenPage(r, a) ==
    /\ req[r].op = "none" /\ Active(a)
    /\ req' = [req EXCEPT ![r] = [Begin(r, "update", a, <<a>>) EXCEPT !.page = asset[a].meta]]
    /\ UNCHANGED rows

WrongMayUpdate(r) == Active(req[r].asset)
MayUpdate(r) == Active(req[r].asset) /\ ~req[r].stale

Edit(r, e) ==
    /\ req[r].op = "update" /\ Locked(r)
    /\ MayUpdate(r) /\ Resolved(e.meta, req[r].asset)
    /\ req' = [req EXCEPT ![r].stage = "tags", ![r].meta = e.meta, ![r].tags = e.tags]
    /\ UNCHANGED rows

\* The rows of a in publication_identity_keys become those its metadata gives.
WrongSynchronized(a, meta) == [i \in Identities |-> IF i \in meta THEN a ELSE key[i]]
Synchronized(a, meta) == [i \in Identities |-> IF i \in meta THEN a
                                                ELSE IF key[i] = a THEN none ELSE key[i]]

CommitUpdate(r) ==
    LET a == req[r].asset IN
    /\ req[r].op = "update" /\ req[r].stage = "flushed"
    /\ asset' = [asset EXCEPT ![a].meta = req[r].meta]
    /\ key' = Synchronized(a, req[r].meta)
    /\ tags' = tags \cup NewTags(r)
    /\ EndChanging(r, a)
    /\ UNCHANGED <<version, relation>>

-----------------------------------------------------------------------------
(* Versions, archiving *)

BeginVersion(r, a, v, current) ==
    /\ req[r].op = "none"
    /\ req' = [req EXCEPT ![r] = [Begin(r, "version", a, <<a>>) EXCEPT !.version = v, !.current = current]]
    /\ UNCHANGED rows

MayAdd(r) == Active(req[r].asset) /\ req[r].version \notin req[r].seen

CommitVersion(r) ==
    LET a == req[r].asset IN
    /\ req[r].op = "version" /\ Locked(r) /\ MayAdd(r)
    /\ version' = [version EXCEPT ![a] = [v \in Versions |->
                      IF v = req[r].version THEN (IF req[r].current THEN "current" ELSE "old")
                      ELSE IF req[r].current /\ v \in req[r].seen THEN "old"
                      ELSE version[a][v]]]
    /\ End(r)
    /\ UNCHANGED <<asset, key, tags, relation>>

BeginTransition(r, op, a) ==
    /\ req[r].op = "none"
    /\ req' = [req EXCEPT ![r] = Begin(r, op, a, <<a>>)]
    /\ UNCHANGED rows

MayChange(r) == asset[req[r].asset].archived = (req[r].op = "restore")

CommitTransition(r) ==
    LET a == req[r].asset IN
    /\ req[r].op \in {"archive", "restore"} /\ Locked(r) /\ MayChange(r)
    /\ asset' = [asset EXCEPT ![a].archived = ~@]
    /\ EndChanging(r, a)
    /\ UNCHANGED <<key, tags, version, relation>>

-----------------------------------------------------------------------------
(* Relations *)

\* Both rows are locked in the order of their ids.
WrongLinkOrder(s, t) == <<s>>
LinkOrder(s, t) == IF s < t THEN <<s, t>> ELSE <<t, s>>

BeginLink(r, s, t) ==
    /\ req[r].op = "none"
    /\ req' = [req EXCEPT ![r] = [Begin(r, "link", s, LinkOrder(s, t)) EXCEPT !.link = <<s, t>>]]
    /\ UNCHANGED rows

MayLink(r) == /\ \A n \in {1, 2} : Active(req[r].link[n])
              /\ req[r].link \notin relation

\* The relation is inserted and flushed; its activities refer to the locked rows.
AddLink(r) ==
    /\ req[r].op = "link" /\ Locked(r) /\ MayLink(r)
    /\ req' = [req EXCEPT ![r].stage = "flushed"]
    /\ UNCHANGED rows

CommitLink(r) ==
    /\ req[r].op = "link" /\ req[r].stage = "flushed"
    /\ relation' = relation \cup {req[r].link}
    /\ End(r)
    /\ UNCHANGED <<asset, key, tags, version>>

BeginUnlink(r, l) ==
    /\ req[r].op = "none" /\ l \in relation
    /\ req' = [req EXCEPT ![r] = [Begin(r, "unlink", l[1], l) EXCEPT !.link = l]]
    /\ UNCHANGED rows

Removing(q, l) == req[q].op = "unlink" /\ req[q].link = l /\ req[q].stage = "locked"

LockRelation(r) ==
    /\ req[r].op = "unlink" /\ req[r].stage = "begun"
    /\ \A q \in Others(r) : ~Removing(q, req[r].link)
    /\ req[r].link \in relation
    /\ req' = [req EXCEPT ![r].stage = "locked"]
    /\ UNCHANGED rows

\* The activities of the removal refer to the source, then to the target.
ReferTo(r) ==
    /\ req[r].op = "unlink" /\ req[r].stage = "locked" /\ req[r].todo # <<>>
    /\ LET a == Head(req[r].todo) IN
         /\ \A q \in Others(r) : ~HoldsUpdate(q, a)
         /\ req' = [req EXCEPT ![r].todo = Tail(@), ![r].shared = @ \cup {a}]
    /\ UNCHANGED rows

CommitUnlink(r) ==
    /\ req[r].op = "unlink" /\ Locked(r)
    /\ relation' = relation \ {req[r].link}
    /\ End(r)
    /\ UNCHANGED <<asset, key, tags, version>>

-----------------------------------------------------------------------------
(* Requests that end without an effect *)

\* The checks fail, or nothing changes.
Refused(r) ==
    /\ \/ req[r].op = "import" /\ req[r].stage = "begun" /\ ~Acceptable(Item(r))
       \/ Flushing(r) /\ Unblocked(r) /\ ~Unique(r)
       \/ /\ Locked(r)
          /\ \/ req[r].op = "update"
             \/ req[r].op = "version" /\ ~MayAdd(r)
             \/ req[r].op \in {"archive", "restore"} /\ ~MayChange(r)
             \/ req[r].op = "link" /\ ~MayLink(r)
       \/ /\ req[r].op = "unlink" /\ req[r].stage = "begun"
          /\ req[r].link \notin relation
    /\ End(r)
    /\ UNCHANGED rows

WaitsFor(r, q) ==
    /\ q # r
    /\ \/ /\ req[r].todo # <<>>
          /\ IF req[r].op = "unlink" THEN req[r].stage = "locked" /\ HoldsUpdate(q, Head(req[r].todo))
                                     ELSE HoldsRow(q, Head(req[r].todo))
       \/ req[r].stage = "tags" /\ \E t \in Tags : IsNext(r, t) /\ TagEntry(t) \in req[q].pending
       \/ Flushing(r) /\ Entries(r) \cap req[q].pending # {}

\* PostgreSQL ends one of the transactions that wait for each other.
Deadlocked(r) == \E C \in SUBSET Requests :
                    /\ r \in C
                    /\ \A q \in C : \E p \in C : WaitsFor(q, p)
                    /\ \A q \in C : \E p \in C : WaitsFor(p, q)

DeadlockVictim(r) ==
    /\ Deadlocked(r)
    /\ End(r)
    /\ UNCHANGED rows

\* An error, or a worker that is killed: the transaction is rolled back.
Abort(r) ==
    /\ req[r].op # "none"
    /\ End(r)
    /\ UNCHANGED rows

-----------------------------------------------------------------------------

Arrive(r) ==
    \/ \E b \in Batches : BeginImport(r, b)
    \/ \E a \in Present :
          OpenPage(r, a) \/ BeginTransition(r, "archive", a) \/ BeginTransition(r, "restore", a)
    \/ \E a \in Versioned, v \in Versions, current \in BOOLEAN : BeginVersion(r, a, v, current)
    \/ \E s, t \in Present : s # t /\ BeginLink(r, s, t)
    \/ \E l \in relation : BeginUnlink(r, l)

Step(r) ==
    \/ LockRow(r)
    \/ CheckItem(r) \/ InsertTag(r) \/ Flush(r) \/ CommitImport(r)
    \/ \E e \in Edits : Edit(r, e)
    \/ CommitUpdate(r)
    \/ CommitVersion(r) \/ CommitTransition(r)
    \/ AddLink(r) \/ CommitLink(r) \/ LockRelation(r) \/ ReferTo(r) \/ CommitUnlink(r)
    \/ Refused(r) \/ DeadlockVictim(r)

Next == \E r \in Requests : Arrive(r) \/ Step(r) \/ Abort(r)

Spec == Init /\ [][Next]_vars

-----------------------------------------------------------------------------
(* Properties *)

Operations == {"none", "import", "update", "version", "archive", "restore", "link", "unlink"}

\* The rows and the requests have the types the source gives them.
TypeOK ==
    /\ asset \in [Assets -> [exists : BOOLEAN, archived : BOOLEAN, meta : SUBSET Identities]]
    /\ key \in [Identities -> Assets \cup {none}]
    /\ tags \subseteq Tags
    /\ version \in [Assets -> [Versions -> {"none", "old", "current"}]]
    /\ relation \subseteq Present \X Present
    /\ \A r \in Requests :
         /\ req[r].op \in Operations
         /\ req[r].stage \in {"begun", "locked", "tags", "flushed"}
         /\ req[r].locked \cup req[r].shared \subseteq Present
         /\ req[r].at \in {1} \cup DOMAIN req[r].batch

\* An edit is stored only over the metadata that its editor saw, and never in an
\* archived asset, whatever was committed between the page and the edit.
NoLostUpdate == [][\A a \in Assets :
    asset[a].exists /\ asset'[a].meta # asset[a].meta =>
       \E r \in Requests : /\ req[r].op = "update" /\ req[r].asset = a
                           /\ req[r].page = asset[a].meta /\ ~asset[a].archived]_vars

\* No two assets claim one publication, and the keys are those of the metadata,
\* also when registrations, imports and edits check them at the same time.
IdentitiesUnique ==
    /\ \A a, b \in Assets : a # b => asset[a].meta \cap asset[b].meta = {}
    /\ \A i \in Identities, a \in Assets : key[i] = a <=> i \in asset[a].meta

\* An asset has at most one current version, whoever adds versions at the same time.
OneCurrent == \A a \in Assets : \A v, w \in Versions :
    version[a][v] = "current" /\ version[a][w] = "current" => v = w

\* A new relation never leads to or from an asset that is archived, although the
\* archiving may have begun when the relation was asked for.
LinksActive == [][\A l \in relation' \ relation : Active(l[1]) /\ Active(l[2])]_vars
=============================================================================
