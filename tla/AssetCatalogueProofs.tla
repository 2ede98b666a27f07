------------------------ MODULE AssetCatalogueProofs ------------------------
(***************************************************************************)
(* Proofs about AssetCatalogue, for any number of assets and requests:     *)
(* types, unique identities, the current version, edits and relations.     *)
(***************************************************************************)
EXTENDS AssetCatalogue, TLAPS

Row == [exists : BOOLEAN, archived : BOOLEAN, meta : SUBSET Identities]

Stages == {"begun", "locked", "tags", "flushed"}

Todos == {<<>>} \cup {<<a>> : a \in Present} \cup (Present \X Present)

Values == {TagEntry(t) : t \in Tags} \cup {KeyEntry(i) : i \in Identities}
             \cup {SlugEntry(a) : a \in Assets}

Request == [op : Operations, asset : Assets \cup {none}, stage : Stages, batch : Batches \cup {<<>>},
            at : Nat, page : SUBSET Identities, stale : BOOLEAN, meta : SUBSET Identities,
            tags : SUBSET Tags, version : Versions \cup {none}, current : BOOLEAN,
            seen : SUBSET Versions, link : (Present \X Present) \cup {<<>>}, todo : Todos,
            locked : SUBSET Present, shared : SUBSET Present, pending : SUBSET Values]

\* The operations on one row, which they lock first
Single == {"update", "version", "archive", "restore"}

\* The stages and locks an operation goes through
Shape(q) ==
    /\ q.stage = "locked" => q.op \in Single \cup {"link", "unlink"}
    /\ q.stage = "tags" => q.op \in {"import", "update"}
    /\ q.stage = "flushed" => q.op \in {"import", "update", "link"}
    /\ (q.stage \in {"tags", "flushed"} \/ q.op \in {"none", "import"}) => q.todo = <<>>
    /\ q.op \in Single => /\ q.asset \in Present
                          /\ \/ q.todo = <<q.asset>>
                             \/ q.todo = <<>> /\ q.asset \in q.locked
    /\ q.op \in {"link", "unlink"} => q.link \in Present \X Present
    /\ q.op = "link" => LET o == LinkOrder(q.link[1], q.link[2]) IN
                          \/ q.todo = o
                          \/ q.todo = <<o[2]>> /\ o[1] \in q.locked
                          \/ q.todo = <<>> /\ q.link[1] \in q.locked /\ q.link[2] \in q.locked
    /\ q.op = "import" => /\ q.batch \in Batches /\ q.at \in DOMAIN q.batch
                          /\ q.stage = "flushed" => q.at = Len(q.batch)
    /\ q.op # "import" => q.at = 1

\* The items of an import that are flushed
FlushedItems(q) == {n \in DOMAIN q.batch : n < q.at \/ (n = q.at /\ q.stage = "flushed")}

\* What a request has read is still so, by its locks and its unique values.
Work(q) ==
    /\ q.op = "version" /\ q.todo = <<>> => q.seen = {v \in Versions : version[q.asset][v] # "none"}
    /\ q.op = "link" /\ q.stage = "flushed" => Active(q.link[1]) /\ Active(q.link[2])
    /\ q.op = "update" /\ ~q.stale => q.page = asset[q.asset].meta
    /\ q.op = "update" /\ q.stage \in {"tags", "flushed"} => ~q.stale /\ Active(q.asset)
    /\ q.op = "update" /\ q.stage = "flushed" =>
          \A i \in Identities :
             /\ i \in q.meta /\ i \notin asset[q.asset].meta => KeyEntry(i) \in q.pending /\ key[i] = none
             /\ i \notin q.meta /\ i \in asset[q.asset].meta => KeyEntry(i) \in q.pending
    /\ q.op = "import" => \A n \in FlushedItems(q) :
          /\ SlugEntry(q.batch[n].asset) \in q.pending /\ ~asset[q.batch[n].asset].exists
          /\ \A i \in q.batch[n].meta : KeyEntry(i) \in q.pending /\ key[i] = none

\* A row is locked by one request, and a value inserted by one.
Exclusive == \A p, q \in Requests : p # q =>
    /\ \A a \in Present : a \in req[p].locked => a \notin req[q].locked /\ a \notin req[q].shared
    /\ \A e \in Values : e \in req[p].pending => e \notin req[q].pending

KeysMatch == \A i \in Identities, a \in Assets : key[i] = a <=> i \in asset[a].meta

Vacant == /\ \A a \in Assets : ~asset[a].exists => asset[a].meta = {}
          /\ \A a \in Present : asset[a].exists

Typed ==
    /\ asset \in [Assets -> Row]
    /\ key \in [Identities -> Assets \cup {none}]
    /\ tags \in SUBSET Tags
    /\ version \in [Assets -> [Versions -> {"none", "old", "current"}]]
    /\ relation \in SUBSET (Present \X Present)
    /\ req \in [Requests -> Request]

Base ==
    /\ Typed /\ Exclusive /\ KeysMatch /\ Vacant /\ OneCurrent
    /\ \A r \in Requests : Shape(req[r]) /\ Work(req[r])

-----------------------------------------------------------------------------
(* What a step of one request leaves to the others *)

\* It changes rows it has locked, or inserts them; a changed asset makes pages stale.
Respects(r) ==
    /\ \A q \in Requests : q # r =>
          \/ req'[q] = req[q]
          \/ /\ req[q].op = "update" /\ req[q].asset \in req[r].locked
             /\ req'[q] = [req[q] EXCEPT !.stale = TRUE]
    /\ \A a \in Assets :
          \/ asset'[a] = asset[a]
          \/ /\ a \in req[r].locked
             /\ \A q \in Requests : q # r /\ req[q].op = "update" /\ req[q].asset = a => req'[q].stale
          \/ a \notin Present /\ SlugEntry(a) \in req[r].pending
    /\ \A i \in Identities : key'[i] = key[i] \/ KeyEntry(i) \in req[r].pending
    /\ \A a \in Assets : version'[a] = version[a] \/ a \in req[r].locked

LEMMA Constants ==
    /\ Assets \subseteq Nat /\ Present \subseteq Assets /\ Versioned \subseteq Present /\ Tags \subseteq Nat
    /\ Edits \subseteq [meta : SUBSET Identities, tags : SUBSET Tags]
    /\ none \notin Assets /\ none \notin Versions
    /\ \A b \in Batches :
          /\ b \in Seq([asset : Assets \ Present, tags : SUBSET Tags, meta : SUBSET Identities])
          /\ b # <<>>
          /\ \A m, n \in DOMAIN b : m # n => b[m].asset # b[n].asset /\ b[m].meta \cap b[n].meta = {}
  BY CatalogueTypes, BatchesChecked

LEMMA BatchItems ==
    ASSUME NEW b \in Batches, NEW n \in DOMAIN b
    PROVE  /\ b[n] \in [asset : Assets \ Present, tags : SUBSET Tags, meta : SUBSET Identities]
           /\ Len(b) \in Nat /\ DOMAIN b = 1..Len(b) /\ n \in Nat
<1> DEFINE Items == [asset : Assets \ Present, tags : SUBSET Tags, meta : SUBSET Identities]
<1>1. b \in Seq(Items)
  BY Constants
<1> HIDE DEF Items
<1>2. b[n] \in Items /\ Len(b) \in Nat /\ DOMAIN b = 1..Len(b) /\ n \in Nat
  BY <1>1
<1> QED
  BY <1>2 DEF Items

LEMMA EntryValues ==
    /\ \A a \in Assets : SlugEntry(a) \in Values
    /\ \A i \in Identities : KeyEntry(i) \in Values
    /\ \A t \in Tags : TagEntry(t) \in Values
  BY DEF Values

LEMMA HasLocked ==
    ASSUME NEW q, Shape(q)
    PROVE  /\ q.op \in Single => q.asset \in Present /\ (q.todo = <<>> => q.asset \in q.locked)
           /\ q.op \in {"update", "link"} /\ q.stage \in {"tags", "flushed"} => q.todo = <<>>
           /\ q.op = "update" /\ q.stage \in {"tags", "flushed"} => q.asset \in Present /\ q.asset \in q.locked
           /\ q.op = "link" /\ q.todo = <<>> => q.link[1] \in q.locked /\ q.link[2] \in q.locked
<1>1. q.op \in Single => q.asset \in Present /\ (q.todo = <<>> => q.asset \in q.locked)
  <2>1. q.todo = <<q.asset>> => q.todo # <<>>
    OBVIOUS
  <2> QED
    BY <2>1 DEF Shape
<1>2. q.stage \in {"tags", "flushed"} => q.todo = <<>>
  BY DEF Shape
<1>3. "update" \in Single
  BY DEF Single
<1>4. q.op = "link" /\ q.todo = <<>> => q.link[1] \in q.locked /\ q.link[2] \in q.locked
  BY DEF Shape, LinkOrder
<1> QED
  BY <1>1, <1>2, <1>3, <1>4

\* The locks of a request keep what it works with.
LEMMA OthersWork ==
    ASSUME Base, NEW r \in Requests, Respects(r), NEW q \in Requests, q # r
    PROVE  Shape(req'[q]) /\ Work(req[q])'
<1>0. /\ Shape(req[q]) /\ Work(req[q]) /\ req[q] \in Request /\ Present \subseteq Assets
      /\ \A a \in Assets : a \in req[q].locked \cup req[q].shared => a \in Present
      /\ \A a \in Present : a \in req[q].locked => a \notin req[r].locked
      /\ \A e \in Values : e \in req[q].pending => e \notin req[r].pending
      /\ \A a \in Assets : a \in req[r].locked => a \in Present
  BY Constants DEF Base, Typed, Exclusive, Request
<1>1. /\ req'[q].op = req[q].op /\ req'[q].asset = req[q].asset /\ req'[q].stage = req[q].stage
      /\ req'[q].batch = req[q].batch /\ req'[q].at = req[q].at /\ req'[q].page = req[q].page
      /\ req'[q].meta = req[q].meta /\ req'[q].link = req[q].link /\ req'[q].todo = req[q].todo
      /\ req'[q].locked = req[q].locked /\ req'[q].pending = req[q].pending /\ req'[q].seen = req[q].seen
      /\ \/ req'[q].stale = req[q].stale
         \/ req[q].op = "update" /\ req[q].asset \in req[r].locked /\ req'[q].stale
  <2>1. CASE req'[q] = req[q]
    BY <2>1
  <2>2. CASE /\ req[q].op = "update" /\ req[q].asset \in req[r].locked
             /\ req'[q] = [req[q] EXCEPT !.stale = TRUE]
    BY <1>0, <2>2 DEF Request
  <2> QED
    BY <2>1, <2>2 DEF Respects
<1>2. Shape(req'[q])
  BY <1>0, <1>1 DEF Shape
<1>3. \A a \in Present : a \in req[q].locked => asset'[a] = asset[a] /\ version'[a] = version[a]
  BY <1>0 DEF Respects
<1>4. req[q].op = "version" /\ req[q].todo = <<>> =>
         req[q].seen = {v \in Versions : version'[req[q].asset][v] # "none"}
  BY <1>0, <1>3 DEF Shape, Work, Single
<1>5. req[q].op = "link" /\ req[q].stage = "flushed" =>
         /\ asset'[req[q].link[1]] = asset[req[q].link[1]]
         /\ asset'[req[q].link[2]] = asset[req[q].link[2]]
  <2>1. CASE req[q].op = "link" /\ req[q].stage = "flushed"
    <3>1. req[q].link \in Present \X Present /\ req[q].todo = <<>>
      BY <1>0, <2>1 DEF Shape
    <3>2. req[q].link[1] \in req[q].locked /\ req[q].link[2] \in req[q].locked
      BY <1>0, <2>1, <3>1, HasLocked
    <3> QED
      BY <1>3, <3>1, <3>2
  <2> QED
    BY <2>1
<1>6. req[q].op = "update" /\ req[q].stage \in {"tags", "flushed"} =>
         /\ asset'[req[q].asset] = asset[req[q].asset]
         /\ req'[q].stale = req[q].stale /\ ~req[q].stale
  <2>1. CASE req[q].op = "update" /\ req[q].stage \in {"tags", "flushed"}
    <3>1. req[q].asset \in Present /\ req[q].asset \in req[q].locked
      BY <1>0, <2>1, HasLocked
    <3>2. req[q].asset \notin req[r].locked /\ ~req[q].stale
      BY <1>0, <2>1, <3>1 DEF Work
    <3> QED
      BY <1>1, <1>3, <3>1, <3>2
  <2> QED
    BY <2>1
<1>7. req[q].op = "update" /\ ~req'[q].stale => req[q].page = asset'[req[q].asset].meta
  <2>1. CASE req[q].op = "update" /\ ~req'[q].stale
    <3>1. req[q].asset \in Present /\ req[q].asset \in Assets
      BY <1>0, <2>1 DEF Shape, Single
    <3>2. ~req[q].stale /\ req[q].page = asset[req[q].asset].meta
      BY <1>0, <1>1, <2>1 DEF Work
    <3>3. asset'[req[q].asset] = asset[req[q].asset]
      BY <2>1, <3>1 DEF Respects
    <3> QED
      BY <3>2, <3>3
  <2> QED
    BY <2>1
<1>8. \A i \in Identities : KeyEntry(i) \in req[q].pending => key'[i] = key[i]
  BY <1>0, EntryValues DEF Respects
<1>9. req[q].op = "update" /\ req[q].stage = "flushed" =>
         \A i \in Identities :
            /\ i \in req[q].meta /\ i \notin asset'[req[q].asset].meta =>
                  KeyEntry(i) \in req[q].pending /\ key'[i] = none
            /\ i \notin req[q].meta /\ i \in asset'[req[q].asset].meta => KeyEntry(i) \in req[q].pending
  BY <1>0, <1>6, <1>8 DEF Work
<1>10. ASSUME req[q].op = "import", NEW n \in FlushedItems(req[q])
       PROVE  /\ ~asset'[req[q].batch[n].asset].exists
              /\ \A i \in req[q].batch[n].meta : key'[i] = none
  <2>1. req[q].batch \in Batches /\ n \in DOMAIN req[q].batch
    BY <1>0, <1>10 DEF Shape, FlushedItems
  <2> DEFINE item == req[q].batch[n]
  <2>2. item.asset \in Assets \ Present /\ item.meta \in SUBSET Identities
    BY <2>1, BatchItems
  <2>3. /\ SlugEntry(item.asset) \in req[q].pending /\ ~asset[item.asset].exists
        /\ \A i \in item.meta : KeyEntry(i) \in req[q].pending /\ key[i] = none
    BY <1>0, <1>10 DEF Work
  <2> HIDE DEF item
  <2>4. asset'[item.asset] = asset[item.asset]
    BY <1>0, <2>2, <2>3, EntryValues DEF Respects
  <2>5. \A i \in item.meta : key'[i] = none
    BY <1>8, <2>2, <2>3
  <2> QED
    BY <2>3, <2>4, <2>5 DEF item
<1>11. FlushedItems(req'[q]) = FlushedItems(req[q])
  BY <1>1 DEF FlushedItems
<1>12. req[q].op = "import" => \A n \in FlushedItems(req[q]) :
          /\ SlugEntry(req[q].batch[n].asset) \in req[q].pending /\ ~asset'[req[q].batch[n].asset].exists
          /\ \A i \in req[q].batch[n].meta : KeyEntry(i) \in req[q].pending /\ key'[i] = none
  BY <1>0, <1>10 DEF Work
<1>13. req[q].op = "link" /\ req[q].stage = "flushed" => Active(req[q].link[1])' /\ Active(req[q].link[2])'
  BY <1>0, <1>1, <1>5 DEF Work, Active
<1>14. req[q].op = "update" /\ req[q].stage \in {"tags", "flushed"} => ~req'[q].stale /\ Active(req[q].asset)'
  BY <1>0, <1>1, <1>6 DEF Work, Active
<1> QED
  BY <1>1, <1>2, <1>4, <1>7, <1>9, <1>11, <1>12, <1>13, <1>14 DEF Work, Active

RowsTyped ==
    /\ asset \in [Assets -> Row]
    /\ key \in [Identities -> Assets \cup {none}]
    /\ tags \in SUBSET Tags
    /\ version \in [Assets -> [Versions -> {"none", "old", "current"}]]
    /\ relation \in SUBSET (Present \X Present)

LEMMA StepKeeps ==
    ASSUME Base, NEW r \in Requests, Respects(r), Typed', Exclusive', KeysMatch', Vacant', OneCurrent',
           Shape(req'[r]), Work(req[r])'
    PROVE  Base'
  BY OthersWork DEF Base

LEMMA IdleIs ==
    /\ Idle \in Request /\ Idle.op = "none" /\ Idle.locked = {} /\ Idle.shared = {} /\ Idle.pending = {}
    /\ Idle.stage = "begun" /\ Idle.todo = <<>> /\ Idle.at = 1 /\ Shape(Idle)
<1>1. Idle \in Request
  BY DEF Idle, Request, Operations, Stages, Todos
<1> QED
  BY <1>1 DEF Idle, Shape, Single

\* What the locks of a request allow is kept by a step in which only r gets new ones.
LEMMA LocksKeep ==
    ASSUME Base, NEW r \in Requests, req' \in [Requests -> Request],
           \A q \in Requests : q # r => /\ req'[q].locked = req[q].locked /\ req'[q].shared = req[q].shared
                                        /\ req'[q].pending = req[q].pending,
           \A q \in Requests : q # r =>
              /\ \A a \in Present : a \in req'[r].locked => a \notin req[q].locked /\ a \notin req[q].shared
              /\ \A a \in Present : a \in req'[r].shared => a \notin req[q].locked
              /\ \A e \in Values : e \in req'[r].pending => e \notin req[q].pending
    PROVE  Exclusive'
<1>1. ASSUME NEW p \in Requests, NEW q \in Requests, p # q
      PROVE  /\ \A a \in Present : a \in req'[p].locked => a \notin req'[q].locked /\ a \notin req'[q].shared
             /\ \A e \in Values : e \in req'[p].pending => e \notin req'[q].pending
  <2>0. /\ \A a \in Present : a \in req[p].locked => a \notin req[q].locked /\ a \notin req[q].shared
        /\ \A e \in Values : e \in req[p].pending => e \notin req[q].pending
    BY <1>1 DEF Base, Exclusive
  <2>1. CASE p = r
    BY <1>1, <2>1
  <2>2. CASE q = r
    BY <1>1, <2>2
  <2>3. CASE p # r /\ q # r
    BY <2>0, <2>3
  <2> QED
    BY <2>1, <2>2, <2>3
<1> QED
  BY <1>1 DEF Exclusive

LEMMA OthersLocks ==
    ASSUME Base, NEW r \in Requests, Respects(r)
    PROVE  \A q \in Requests : q # r => /\ req'[q].locked = req[q].locked /\ req'[q].shared = req[q].shared
                                        /\ req'[q].pending = req[q].pending
<1>1. \A q \in Requests : req[q] \in Request
  BY DEF Base, Typed
<1>2. ASSUME NEW q \in Requests, q # r
      PROVE  /\ req'[q].locked = req[q].locked /\ req'[q].shared = req[q].shared
             /\ req'[q].pending = req[q].pending
  <2>1. CASE req'[q] = req[q]
    BY <2>1
  <2>2. CASE req'[q] = [req[q] EXCEPT !.stale = TRUE]
    BY <1>1, <2>2 DEF Request
  <2> QED
    BY <1>2, <2>1, <2>2 DEF Respects
<1> QED
  BY <1>2

\* A transaction ends.
LEMMA EndKeeps ==
    ASSUME Base, NEW r \in Requests, req' \in [Requests -> Request], req'[r] = Idle, Respects(r),
           RowsTyped', KeysMatch', Vacant', OneCurrent'
    PROVE  Base'
<1>1. Exclusive'
  BY IdleIs, OthersLocks, LocksKeep
<1>2. Typed'
  BY DEF Typed, RowsTyped
<1>3. Shape(req'[r]) /\ Work(req[r])'
  BY IdleIs DEF Work
<1> QED
  BY <1>1, <1>2, <1>3, StepKeeps

LEMMA EndIs ==
    ASSUME Base, NEW r \in Requests, End(r)
    PROVE  /\ req' \in [Requests -> Request] /\ req'[r] = Idle
           /\ \A q \in Requests : q # r => req'[q] = req[q]
  BY IdleIs DEF End, Base, Typed

\* A request goes on without a change to the tables.
LEMMA RequestKeeps ==
    ASSUME Base, NEW r \in Requests, NEW new \in Request, req' = [req EXCEPT ![r] = new], UNCHANGED rows,
           \A q \in Requests : q # r =>
              /\ \A a \in Present : a \in new.locked => a \notin req[q].locked /\ a \notin req[q].shared
              /\ \A a \in Present : a \in new.shared => a \notin req[q].locked
              /\ \A e \in Values : e \in new.pending => e \notin req[q].pending,
           Shape(new), Work(new)
    PROVE  Base'
<1>1. /\ req' \in [Requests -> Request] /\ req'[r] = new /\ \A q \in Requests : q # r => req'[q] = req[q]
      /\ asset' = asset /\ key' = key /\ tags' = tags /\ version' = version /\ relation' = relation
  BY DEF Base, Typed, rows
<1>2. Respects(r)
  BY <1>1 DEF Respects
<1>3. Exclusive'
  BY <1>1, LocksKeep
<1>4. Typed' /\ KeysMatch' /\ Vacant' /\ OneCurrent'
  BY <1>1 DEF Base, Typed, KeysMatch, Vacant, OneCurrent
<1>5. Shape(req'[r]) /\ Work(req[r])'
  BY <1>1 DEF Work, Active
<1> QED
  BY <1>2, <1>3, <1>4, <1>5, StepKeeps

\* It takes no lock and no value.
LEMMA GoesOn ==
    ASSUME Base, NEW r \in Requests, NEW new \in Request, req' = [req EXCEPT ![r] = new], UNCHANGED rows,
           new.locked \subseteq req[r].locked, new.shared \subseteq req[r].shared,
           new.pending \subseteq req[r].pending, Shape(new), Work(new)
    PROVE  Base'
<1>1. \A q \in Requests : q # r =>
         /\ \A a \in Present : a \in new.locked => a \notin req[q].locked /\ a \notin req[q].shared
         /\ \A a \in Present : a \in new.shared => a \notin req[q].locked
         /\ \A e \in Values : e \in new.pending => e \notin req[q].pending
  BY DEF Base, Exclusive
<1> QED
  BY <1>1, RequestKeeps

LEMMA Ends ==
    ASSUME Base, NEW r \in Requests, End(r), UNCHANGED rows
    PROVE  Base'
<1>1. /\ req' \in [Requests -> Request] /\ req'[r] = Idle /\ \A q \in Requests : q # r => req'[q] = req[q]
      /\ asset' = asset /\ key' = key /\ tags' = tags /\ version' = version /\ relation' = relation
  BY EndIs DEF rows
<1>2. Respects(r)
  BY <1>1 DEF Respects
<1>3. RowsTyped' /\ KeysMatch' /\ Vacant' /\ OneCurrent'
  BY <1>1 DEF Base, Typed, RowsTyped, KeysMatch, Vacant, OneCurrent
<1> QED
  BY <1>1, <1>2, <1>3, EndKeeps

-----------------------------------------------------------------------------
(* Requests begin *)

LEMMA InitBase == Init => Base
<1> SUFFICES ASSUME Init PROVE Base
  OBVIOUS
<1>1. Typed
  BY IdleIs, Constants DEF Init, Typed, Row
<1>2. Exclusive /\ KeysMatch /\ Vacant /\ OneCurrent
  BY IdleIs, Constants DEF Init, Exclusive, KeysMatch, Vacant, OneCurrent
<1>3. ASSUME NEW r \in Requests
      PROVE  Shape(req[r]) /\ Work(req[r])
  BY IdleIs DEF Init, Work
<1> QED
  BY <1>1, <1>2, <1>3 DEF Base

\* A request that has just come holds nothing.
LEMMA BeginKeeps ==
    ASSUME Base, NEW r \in Requests, NEW new \in Request, req' = [req EXCEPT ![r] = new], UNCHANGED rows,
           new.locked = {}, new.shared = {}, new.pending = {}, Shape(new), Work(new)
    PROVE  Base'
  BY GoesOn

LEMMA ImportBegins ==
    ASSUME Base, NEW r \in Requests, NEW b \in Batches, BeginImport(r, b)
    PROVE  Base'
<1> DEFINE new == [Idle EXCEPT !.op = "import", !.batch = b]
<1>1. req' = [req EXCEPT ![r] = new] /\ UNCHANGED rows
  BY DEF BeginImport
<1>2. 1 \in DOMAIN b
  <2> DEFINE Items == [asset : Assets \ Present, tags : SUBSET Tags, meta : SUBSET Identities]
  <2>1. b \in Seq(Items) /\ b # <<>>
    BY Constants
  <2> HIDE DEF Items
  <2> QED
    BY <2>1
<1>3. /\ new \in Request /\ new.locked = {} /\ new.shared = {} /\ new.pending = {}
      /\ new.op = "import" /\ new.stage = "begun" /\ new.todo = <<>> /\ new.batch = b /\ new.at = 1
  BY IdleIs DEF Request, Operations
<1> HIDE DEF new
<1>4. Shape(new)
  BY <1>2, <1>3 DEF Shape, Single
<1>5. FlushedItems(new) = {}
  <2>1. \A n \in DOMAIN b : n \in 1..Len(b) /\ Len(b) \in Nat
    BY BatchItems
  <2> QED
    BY <1>3, <2>1 DEF FlushedItems
<1>6. Work(new)
  BY <1>3, <1>5 DEF Work
<1> QED
  BY <1>1, <1>3, <1>4, <1>6, BeginKeeps

LEMMA SingleBegins ==
    ASSUME Base, NEW r \in Requests, NEW a \in Present,
           \/ OpenPage(r, a)
           \/ BeginTransition(r, "archive", a)
           \/ BeginTransition(r, "restore", a)
           \/ \E v \in Versions, current \in BOOLEAN : BeginVersion(r, a, v, current)
    PROVE  Base'
<1>0. a \in Assets /\ <<a>> \in Todos /\ <<a>> # <<>> /\ asset[a] \in Row
  BY Constants DEF Todos, Base, Typed
<1>1. CASE OpenPage(r, a)
  <2> DEFINE new == [Begin(r, "update", a, <<a>>) EXCEPT !.page = asset[a].meta]
  <2>1. req' = [req EXCEPT ![r] = new] /\ UNCHANGED rows
    BY <1>1 DEF OpenPage
  <2>2. /\ new \in Request /\ new.locked = {} /\ new.shared = {} /\ new.pending = {}
        /\ new.op = "update" /\ new.stage = "begun" /\ new.todo = <<a>> /\ new.at = 1
        /\ new.asset = a /\ new.page = asset[a].meta
    BY <1>0, IdleIs DEF Begin, Request, Operations, Row
  <2> HIDE DEF new
  <2>3. Shape(new)
    BY <2>2 DEF Shape, Single
  <2>4. Work(new)
    BY <2>2 DEF Work
  <2> QED
    BY <2>1, <2>2, <2>3, <2>4, BeginKeeps
<1>2. CASE BeginTransition(r, "archive", a) \/ BeginTransition(r, "restore", a)
  <2>1. PICK op \in {"archive", "restore"} : req' = [req EXCEPT ![r] = Begin(r, op, a, <<a>>)]
    BY <1>2 DEF BeginTransition
  <2> DEFINE new == Begin(r, op, a, <<a>>)
  <2>2. /\ new \in Request /\ new.locked = {} /\ new.shared = {} /\ new.pending = {}
        /\ new.op = op /\ new.stage = "begun" /\ new.todo = <<a>> /\ new.at = 1 /\ new.asset = a
    BY <1>0, IdleIs DEF Begin, Request, Operations
  <2>3. UNCHANGED rows
    BY <1>2 DEF BeginTransition
  <2> HIDE DEF new
  <2>4. Shape(new)
    BY <2>2 DEF Shape, Single
  <2>5. Work(new)
    BY <2>2 DEF Work
  <2>6. req' = [req EXCEPT ![r] = new]
    BY <2>1 DEF new
  <2> QED
    BY <2>2, <2>3, <2>4, <2>5, <2>6, BeginKeeps
<1>3. ASSUME NEW v \in Versions, NEW current \in BOOLEAN, BeginVersion(r, a, v, current)
      PROVE  Base'
  <2> DEFINE new == [Begin(r, "version", a, <<a>>) EXCEPT !.version = v, !.current = current]
  <2>1. req' = [req EXCEPT ![r] = new] /\ UNCHANGED rows
    BY <1>3 DEF BeginVersion
  <2>2. /\ new \in Request /\ new.locked = {} /\ new.shared = {} /\ new.pending = {}
        /\ new.op = "version" /\ new.stage = "begun" /\ new.todo = <<a>> /\ new.at = 1 /\ new.asset = a
    BY <1>0, IdleIs DEF Begin, Request, Operations
  <2> HIDE DEF new
  <2>3. Shape(new)
    BY <2>2 DEF Shape, Single
  <2>4. Work(new)
    BY <1>0, <2>2 DEF Work
  <2> QED
    BY <2>1, <2>2, <2>3, <2>4, BeginKeeps
<1> QED
  BY <1>1, <1>2, <1>3

LEMMA RelationBegins ==
    ASSUME Base, NEW r \in Requests,
           \/ \E s, t \in Present : s # t /\ BeginLink(r, s, t)
           \/ \E l \in relation : BeginUnlink(r, l)
    PROVE  Base'
<1>1. ASSUME NEW s \in Present, NEW t \in Present, BeginLink(r, s, t)
      PROVE  Base'
  <2> DEFINE new == [Begin(r, "link", s, LinkOrder(s, t)) EXCEPT !.link = <<s, t>>]
  <2>1. req' = [req EXCEPT ![r] = new] /\ UNCHANGED rows
    BY <1>1 DEF BeginLink
  <2>2. LinkOrder(s, t) \in Todos /\ <<s, t>> \in Present \X Present
    BY DEF LinkOrder, Todos
  <2>3. /\ new \in Request /\ new.locked = {} /\ new.shared = {} /\ new.pending = {}
        /\ new.op = "link" /\ new.stage = "begun" /\ new.todo = LinkOrder(s, t) /\ new.at = 1
        /\ new.link = <<s, t>>
    BY <2>2, IdleIs, Constants DEF Begin, Request, Operations
  <2> HIDE DEF new
  <2>4. Shape(new)
    BY <2>2, <2>3 DEF Shape, Single
  <2>5. Work(new)
    BY <2>3 DEF Work
  <2> QED
    BY <2>1, <2>3, <2>4, <2>5, BeginKeeps
<1>2. ASSUME NEW l \in relation, BeginUnlink(r, l)
      PROVE  Base'
  <2> DEFINE new == [Begin(r, "unlink", l[1], l) EXCEPT !.link = l]
  <2>1. req' = [req EXCEPT ![r] = new] /\ UNCHANGED rows
    BY <1>2 DEF BeginUnlink
  <2>2. l \in Present \X Present /\ l \in Todos /\ l[1] \in Assets
    BY Constants DEF Base, Typed, Todos
  <2>3. /\ new \in Request /\ new.locked = {} /\ new.shared = {} /\ new.pending = {}
        /\ new.op = "unlink" /\ new.stage = "begun" /\ new.todo = l /\ new.at = 1 /\ new.link = l
    BY <2>2, IdleIs DEF Begin, Request, Operations
  <2> HIDE DEF new
  <2>4. Shape(new)
    BY <2>2, <2>3 DEF Shape, Single
  <2>5. Work(new)
    BY <2>3 DEF Work
  <2> QED
    BY <2>1, <2>3, <2>4, <2>5, BeginKeeps
<1> QED
  BY <1>1, <1>2

LEMMA ArriveKeeps ==
    ASSUME Base, NEW r \in Requests, Arrive(r)
    PROVE  Base'
<1>1. Versioned \subseteq Present
  BY Constants
<1> QED
  BY <1>1, ImportBegins, SingleBegins, RelationBegins DEF Arrive

-----------------------------------------------------------------------------
(* Rows are locked *)

LEMMA HeadsTails ==
    \A a, b : /\ Head(<<a>>) = a /\ Tail(<<a>>) = <<>> /\ <<a>> # <<>>
              /\ Head(<<a, b>>) = a /\ Tail(<<a, b>>) = <<b>> /\ <<a, b>> # <<>>
  OBVIOUS

LEMMA TodoIs ==
    ASSUME NEW todo \in Todos, todo # <<>>
    PROVE  Head(todo) \in Present /\ Tail(todo) \in Todos
<1>1. CASE todo \in {<<a>> : a \in Present}
  <2>1. PICK a \in Present : todo = <<a>>
    BY <1>1
  <2> QED
    BY <2>1, HeadsTails DEF Todos
<1>2. CASE todo \in Present \X Present
  <2>1. PICK a \in Present, b \in Present : todo = <<a, b>>
    BY <1>2
  <2> QED
    BY <2>1, HeadsTails DEF Todos
<1> QED
  BY <1>1, <1>2 DEF Todos

LEMMA LockRowKeeps ==
    ASSUME Base, NEW r \in Requests, LockRow(r)
    PROVE  Base'
<1> DEFINE q == req[r]
           a == Head(q.todo)
           seen == IF q.op = "version" THEN {v \in Versions : version[a][v] # "none"} ELSE q.seen
           new == [q EXCEPT !.todo = Tail(@), !.locked = @ \cup {a}, !.stage = "locked", !.seen = seen]
<1>0. /\ q \in Request /\ Shape(q) /\ Work(q) /\ q.todo \in Todos /\ q.todo # <<>> /\ q.op # "unlink"
      /\ \A p \in Others(r) : ~HoldsRow(p, a)
  BY DEF LockRow, Base, Typed, Request
<1>1. a \in Present /\ Tail(q.todo) \in Todos
  BY <1>0, TodoIs
<1>2. q.op \in Single \cup {"link"} /\ q.stage \notin {"tags", "flushed"}
  <2>1. q.op \notin {"none", "import"} /\ q.stage \notin {"tags", "flushed"} /\ q.op \in Operations
    BY <1>0 DEF Shape, Request
  <2> QED
    BY <1>0, <2>1 DEF Operations, Single
<1>3. req' = [req EXCEPT ![r] = new] /\ UNCHANGED rows
  BY DEF LockRow
<1>4. seen \in SUBSET Versions
  BY <1>0 DEF Request
<1>5. /\ new \in Request /\ new.op = q.op /\ new.asset = q.asset /\ new.stage = "locked"
      /\ new.todo = Tail(q.todo) /\ new.locked = q.locked \cup {a} /\ new.shared = q.shared
      /\ new.pending = q.pending /\ new.link = q.link /\ new.at = q.at /\ new.page = q.page
      /\ new.stale = q.stale /\ new.seen = seen
  <2> HIDE DEF a, seen
  <2> QED
    BY <1>0, <1>1, <1>4 DEF Request, Stages
<1> HIDE DEF new
<1>6. Shape(new)
  <2>1. CASE q.op \in Single
    <3>1. q.todo = <<q.asset>> /\ q.asset \in Present
      BY <1>0, <2>1 DEF Shape
    <3>2. a = q.asset /\ Tail(q.todo) = <<>>
      BY <3>1, HeadsTails
    <3>3. q.op \notin {"none", "import", "link", "unlink"}
      BY <2>1 DEF Single
    <3> QED
      BY <1>0, <1>5, <2>1, <3>1, <3>2, <3>3 DEF Shape
  <2>2. CASE q.op = "link"
    <3> DEFINE o == LinkOrder(q.link[1], q.link[2])
    <3>0. o = <<o[1], o[2]>> /\ {o[1], o[2]} = {q.link[1], q.link[2]}
      BY DEF LinkOrder
    <3>1. \/ q.todo = o
          \/ q.todo = <<o[2]>> /\ o[1] \in q.locked
      BY <1>0, <2>2 DEF Shape
    <3>2. q.link \in Present \X Present /\ q.at = 1
      BY <1>0, <2>2 DEF Shape
    <3> HIDE DEF o
    <3>3. \/ Tail(q.todo) = <<o[2]>> /\ o[1] = a
          \/ Tail(q.todo) = <<>> /\ o[2] = a /\ o[1] \in q.locked
      <4>1. CASE q.todo = o
        <5>1. q.todo = <<o[1], o[2]>>
          BY <3>0, <4>1
        <5>2. a = o[1] /\ Tail(q.todo) = <<o[2]>>
          BY <5>1, HeadsTails
        <5> QED
          BY <5>2
      <4>2. CASE q.todo = <<o[2]>> /\ o[1] \in q.locked
        <5>1. a = o[2] /\ Tail(q.todo) = <<>>
          BY <4>2, HeadsTails
        <5> QED
          BY <4>2, <5>1
      <4> QED
        BY <3>1, <4>1, <4>2
    <3>4. \/ new.todo = <<o[2]>> /\ o[1] \in new.locked
          \/ new.todo = <<>> /\ q.link[1] \in new.locked /\ q.link[2] \in new.locked
      BY <1>5, <3>0, <3>3
    <3> QED
      BY <1>5, <2>2, <3>2, <3>4 DEF Shape, Single, o
  <2> QED
    BY <1>2, <2>1, <2>2
<1>7. Work(new)
  <2>1. q.op = "version" => q.todo = <<q.asset>>
    BY <1>0 DEF Shape, Single
  <2>2. q.op = "version" => a = q.asset
    BY <2>1, HeadsTails
  <2>3. q.op \notin {"import"}
    BY <1>2 DEF Single
  <2> QED
    BY <1>0, <1>5, <2>2, <2>3 DEF Work
<1>8. \A p \in Requests : p # r =>
         /\ \A b \in Present : b \in new.locked => b \notin req[p].locked /\ b \notin req[p].shared
         /\ \A b \in Present : b \in new.shared => b \notin req[p].locked
         /\ \A e \in Values : e \in new.pending => e \notin req[p].pending
  BY <1>0, <1>5 DEF Base, Exclusive, Others, HoldsRow
<1> QED
  BY <1>3, <1>5, <1>6, <1>7, <1>8, RequestKeeps

LEMMA ReferKeeps ==
    ASSUME Base, NEW r \in Requests, ReferTo(r)
    PROVE  Base'
<1> DEFINE q == req[r]
           a == Head(q.todo)
           new == [q EXCEPT !.todo = Tail(@), !.shared = @ \cup {a}]
<1>0. /\ q \in Request /\ Shape(q) /\ q.todo \in Todos /\ q.todo # <<>> /\ q.op = "unlink" /\ q.stage = "locked"
      /\ \A p \in Others(r) : ~HoldsUpdate(p, a)
  BY DEF ReferTo, Base, Typed, Request
<1>1. a \in Present /\ Tail(q.todo) \in Todos
  BY <1>0, TodoIs
<1>2. req' = [req EXCEPT ![r] = new] /\ UNCHANGED rows
  BY DEF ReferTo
<1>3. /\ new \in Request /\ new.op = q.op /\ new.stage = q.stage /\ new.locked = q.locked
      /\ new.shared = q.shared \cup {a} /\ new.pending = q.pending /\ new.link = q.link /\ new.at = q.at
  <2> HIDE DEF a
  <2> QED
    BY <1>0, <1>1 DEF Request
<1> HIDE DEF new
<1>4. Shape(new) /\ Work(new)
  BY <1>0, <1>3 DEF Shape, Single, Work
<1>5. \A p \in Requests : p # r =>
         /\ \A b \in Present : b \in new.locked => b \notin req[p].locked /\ b \notin req[p].shared
         /\ \A b \in Present : b \in new.shared => b \notin req[p].locked
         /\ \A e \in Values : e \in new.pending => e \notin req[p].pending
  BY <1>0, <1>3 DEF Base, Exclusive, Others, HoldsUpdate
<1> QED
  BY <1>2, <1>3, <1>4, <1>5, RequestKeeps

LEMMA RelationLockKeeps ==
    ASSUME Base, NEW r \in Requests, LockRelation(r)
    PROVE  Base'
<1> DEFINE new == [req[r] EXCEPT !.stage = "locked"]
<1>0. req[r] \in Request /\ Shape(req[r]) /\ req[r].op = "unlink" /\ req[r].stage = "begun"
  BY DEF LockRelation, Base, Typed
<1>1. req' = [req EXCEPT ![r] = new] /\ UNCHANGED rows
  BY DEF LockRelation
<1>2. /\ new \in Request /\ new.op = "unlink" /\ new.stage = "locked" /\ new.locked = req[r].locked
      /\ new.shared = req[r].shared /\ new.pending = req[r].pending /\ new.link = req[r].link
      /\ new.at = req[r].at
  BY <1>0 DEF Request, Stages
<1> HIDE DEF new
<1>3. Shape(new) /\ Work(new)
  BY <1>0, <1>2 DEF Shape, Single, Work
<1> QED
  BY <1>1, <1>2, <1>3, GoesOn

-----------------------------------------------------------------------------
(* Checks, and values that are inserted *)

LEMMA CheckItemKeeps ==
    ASSUME Base, NEW r \in Requests, CheckItem(r)
    PROVE  Base'
<1> DEFINE q == req[r]
           new == [q EXCEPT !.stage = "tags", !.tags = Item(r).tags]
<1>0. q \in Request /\ Shape(q) /\ Work(q) /\ q.op = "import" /\ q.stage = "begun"
  BY DEF CheckItem, Base, Typed
<1>1. q.batch \in Batches /\ q.at \in DOMAIN q.batch /\ q.todo = <<>>
  BY <1>0 DEF Shape
<1>2. Item(r).tags \in SUBSET Tags
  BY <1>1, BatchItems DEF Item
<1>3. req' = [req EXCEPT ![r] = new] /\ UNCHANGED rows
  BY DEF CheckItem
<1>4. /\ new \in Request /\ new.op = "import" /\ new.stage = "tags" /\ new.locked = q.locked
      /\ new.shared = q.shared /\ new.pending = q.pending /\ new.at = q.at /\ new.batch = q.batch
      /\ new.todo = q.todo
  BY <1>0, <1>2 DEF Request, Stages
<1> HIDE DEF new
<1>5. Shape(new)
  BY <1>1, <1>4 DEF Shape, Single
<1>6. FlushedItems(new) = FlushedItems(q)
  BY <1>0, <1>4 DEF FlushedItems
<1>7. Work(new)
  BY <1>0, <1>4, <1>6 DEF Work
<1> QED
  BY <1>3, <1>4, <1>5, <1>7, GoesOn

LEMMA EditKeeps ==
    ASSUME Base, NEW r \in Requests, NEW e \in Edits, Edit(r, e)
    PROVE  Base'
<1> DEFINE q == req[r]
           new == [q EXCEPT !.stage = "tags", !.meta = e.meta, !.tags = e.tags]
<1>0. /\ q \in Request /\ Shape(q) /\ Work(q) /\ q.op = "update" /\ q.stage = "locked" /\ q.todo = <<>>
      /\ Active(q.asset) /\ ~q.stale
  BY DEF Edit, Locked, MayUpdate, Base, Typed
<1>1. e.meta \in SUBSET Identities /\ e.tags \in SUBSET Tags
  BY Constants
<1>2. req' = [req EXCEPT ![r] = new] /\ UNCHANGED rows
  BY DEF Edit
<1>3. /\ new \in Request /\ new.op = "update" /\ new.stage = "tags" /\ new.locked = q.locked
      /\ new.shared = q.shared /\ new.pending = q.pending /\ new.at = q.at /\ new.asset = q.asset
      /\ new.todo = q.todo /\ new.stale = q.stale /\ new.page = q.page
  BY <1>0, <1>1 DEF Request, Stages
<1> HIDE DEF new
<1>4. Shape(new)
  BY <1>0, <1>3 DEF Shape, Single
<1>5. Work(new)
  BY <1>0, <1>3 DEF Work
<1> QED
  BY <1>2, <1>3, <1>4, <1>5, GoesOn

LEMMA AddLinkKeeps ==
    ASSUME Base, NEW r \in Requests, AddLink(r)
    PROVE  Base'
<1> DEFINE q == req[r]
           new == [q EXCEPT !.stage = "flushed"]
<1>0. /\ q \in Request /\ Shape(q) /\ q.op = "link" /\ q.todo = <<>>
      /\ Active(q.link[1]) /\ Active(q.link[2])
  BY DEF AddLink, Locked, MayLink, Base, Typed
<1>1. req' = [req EXCEPT ![r] = new] /\ UNCHANGED rows
  BY DEF AddLink
<1>2. /\ new \in Request /\ new.op = "link" /\ new.stage = "flushed" /\ new.locked = q.locked
      /\ new.shared = q.shared /\ new.pending = q.pending /\ new.at = q.at /\ new.link = q.link
      /\ new.todo = q.todo
  BY <1>0 DEF Request, Stages
<1> HIDE DEF new
<1>3. Shape(new)
  BY <1>0, <1>2 DEF Shape, Single
<1>4. Work(new)
  BY <1>0, <1>2 DEF Work
<1> QED
  BY <1>1, <1>2, <1>3, <1>4, GoesOn

LEMMA InsertTagKeeps ==
    ASSUME Base, NEW r \in Requests, InsertTag(r)
    PROVE  Base'
<1> DEFINE q == req[r]
<1>0. PICK t \in q.tags :
         /\ \A p \in Others(r) : TagEntry(t) \notin req[p].pending
         /\ req' = [req EXCEPT ![r].tags = @ \ {t},
                               ![r].pending = IF t \in tags THEN @ ELSE @ \cup {TagEntry(t)}]
  BY DEF InsertTag
<1> DEFINE pending == IF t \in tags THEN q.pending ELSE q.pending \cup {TagEntry(t)}
           new == [q EXCEPT !.tags = @ \ {t}, !.pending = pending]
<1>1. q \in Request /\ Shape(q) /\ Work(q) /\ q.stage = "tags" /\ t \in Tags /\ TagEntry(t) \in Values
  BY EntryValues DEF InsertTag, Base, Typed, Request
<1>2. req' = [req EXCEPT ![r] = new] /\ UNCHANGED rows
  BY <1>0 DEF InsertTag
<1>3. /\ pending \in SUBSET Values /\ q.pending \subseteq pending
      /\ \A e \in pending : e \in q.pending \/ e = TagEntry(t)
  BY <1>1 DEF Request
<1> HIDE DEF pending
<1>4. /\ new \in Request /\ new.op = q.op /\ new.stage = q.stage /\ new.locked = q.locked
      /\ new.shared = q.shared /\ new.pending = pending /\ new.at = q.at /\ new.batch = q.batch
      /\ new.todo = q.todo /\ new.asset = q.asset /\ new.link = q.link /\ new.stale = q.stale
      /\ new.page = q.page /\ new.meta = q.meta
  BY <1>1, <1>3 DEF Request
<1> HIDE DEF new
<1>5. Shape(new)
  BY <1>1, <1>4 DEF Shape, Single
<1>6. FlushedItems(new) = FlushedItems(q)
  BY <1>4 DEF FlushedItems
<1>7. q.op \in {"import", "update"}
  BY <1>1 DEF Shape
<1>8. Work(new)
  BY <1>1, <1>3, <1>4, <1>6, <1>7 DEF Work
<1>9. \A p \in Requests : p # r =>
         /\ \A b \in Present : b \in new.locked => b \notin req[p].locked /\ b \notin req[p].shared
         /\ \A b \in Present : b \in new.shared => b \notin req[p].locked
         /\ \A e \in Values : e \in new.pending => e \notin req[p].pending
  BY <1>0, <1>3, <1>4 DEF Base, Exclusive, Others
<1> QED
  BY <1>2, <1>4, <1>5, <1>8, <1>9, RequestKeeps

LEMMA FlushKeeps ==
    ASSUME Base, NEW r \in Requests, Flush(r)
    PROVE  Base'
<1> DEFINE q == req[r]
           stage == IF More(r) THEN "begun" ELSE "flushed"
           at == IF More(r) THEN q.at + 1 ELSE q.at
           new == [q EXCEPT !.pending = @ \cup Entries(r), !.stage = stage, !.at = at]
<1>0. /\ q \in Request /\ Shape(q) /\ Work(q) /\ q.stage = "tags" /\ q.at \in Nat /\ q.todo = <<>>
      /\ q.op \in {"import", "update"} /\ Unblocked(r) /\ Unique(r) /\ KeysMatch /\ Vacant
      /\ asset \in [Assets -> Row] /\ key \in [Identities -> Assets \cup {none}]
  BY DEF Flush, Flushing, Base, Typed, Request, Shape
<1>1. req' = [req EXCEPT ![r] = new] /\ UNCHANGED rows
  BY DEF Flush
<1>2. ASSUME q.op = "import"
      PROVE  /\ q.batch \in Batches /\ q.at \in DOMAIN q.batch /\ Item(r) = q.batch[q.at]
             /\ Item(r).asset \in Assets /\ Item(r).meta \in SUBSET Identities
             /\ Len(q.batch) \in Nat /\ DOMAIN q.batch = 1..Len(q.batch)
  <2>1. q.batch \in Batches /\ q.at \in DOMAIN q.batch
    BY <1>0, <1>2 DEF Shape
  <2> QED
    BY <2>1, BatchItems DEF Item
<1>3. ASSUME q.op = "update"
      PROVE  q.asset \in Present /\ q.asset \in Assets /\ q.meta \in SUBSET Identities
  BY <1>0, <1>3, HasLocked, Constants DEF Request
<1>4. Entries(r) \in SUBSET Values
  <2>1. CASE q.op = "import"
    BY <1>2, <2>1, EntryValues DEF Entries
  <2>2. CASE q.op = "update"
    <3>1. asset[q.asset].meta \in SUBSET Identities
      BY <1>0, <1>3, <2>2 DEF Row
    <3> QED
      BY <1>3, <2>2, <3>1, EntryValues DEF Entries
  <2> QED
    BY <1>0, <2>1, <2>2
<1>5. stage \in {"begun", "flushed"} /\ at \in Nat
  BY <1>0
<1>6. More(r) => q.op = "import"
  BY DEF More
<1> DEFINE entries == Entries(r)
<1> HIDE DEF stage, at
<1>7. /\ new \in Request /\ new.op = q.op /\ new.stage = stage /\ new.locked = q.locked
      /\ new.shared = q.shared /\ new.pending = q.pending \cup entries /\ new.at = at /\ new.batch = q.batch
      /\ new.todo = q.todo /\ new.asset = q.asset /\ new.stale = q.stale /\ new.page = q.page
      /\ new.meta = q.meta
  BY <1>0, <1>4, <1>5 DEF Request, Stages
<1> HIDE DEF new
<1>8. CASE q.op = "import"
  <2>1. at \in DOMAIN q.batch /\ (stage = "flushed" => at = Len(q.batch))
    BY <1>2, <1>8 DEF at, stage, More
  <2>2. Shape(new)
    BY <1>0, <1>2, <1>5, <1>7, <1>8, <2>1 DEF Shape, Single
  <2>3. \A n \in FlushedItems(new) : n \in FlushedItems(q) \/ n = q.at
    <3>1. \A n \in DOMAIN q.batch : n \in Nat
      BY <1>2, <1>8
    <3> QED
      BY <1>0, <1>7, <3>1 DEF FlushedItems, at, stage
  <2>4. /\ SlugEntry(Item(r).asset) \in entries /\ ~asset[Item(r).asset].exists
        /\ \A i \in Item(r).meta : KeyEntry(i) \in entries
    BY <1>0, <1>8 DEF Entries, Unique, Acceptable
  <2>5. ASSUME NEW i \in Item(r).meta
        PROVE  key[i] = none
    <3>1. key[i] \in {none, Item(r).asset} /\ i \in Identities
      BY <1>0, <1>2, <1>8 DEF Unique, Acceptable, Resolved
    <3>2. i \notin asset[Item(r).asset].meta
      BY <1>0, <1>2, <1>8, <2>4 DEF Vacant
    <3> QED
      BY <1>0, <1>2, <1>8, <3>1, <3>2 DEF KeysMatch
  <2>6. Work(new)
    BY <1>0, <1>2, <1>7, <1>8, <2>3, <2>4, <2>5 DEF Work
  <2>7. \A e \in Values : e \in entries => \A p \in Requests : p # r => e \notin req[p].pending
    BY <1>0 DEF Unblocked, Others
  <2> HIDE DEF entries
  <2>8. \A p \in Requests : p # r =>
           /\ \A b \in Present : b \in new.locked => b \notin req[p].locked /\ b \notin req[p].shared
           /\ \A b \in Present : b \in new.shared => b \notin req[p].locked
           /\ \A e \in Values : e \in new.pending => e \notin req[p].pending
    BY <1>7, <2>7 DEF Base, Exclusive
  <2> QED
    BY <1>1, <1>7, <2>2, <2>6, <2>8, RequestKeeps
<1>9. CASE q.op = "update"
  <2>1. stage = "flushed" /\ at = q.at /\ q.at = 1
    BY <1>0, <1>6, <1>9 DEF stage, at, Shape
  <2>2. Shape(new)
    BY <1>0, <1>7, <1>9, <2>1 DEF Shape, Single
  <2>3. ASSUME NEW i \in Identities
        PROVE  /\ i \in q.meta /\ i \notin asset[q.asset].meta => KeyEntry(i) \in entries /\ key[i] = none
               /\ i \notin q.meta /\ i \in asset[q.asset].meta => KeyEntry(i) \in entries
    <3>1. i \in q.meta => key[i] \in {none, q.asset}
      BY <1>0, <1>9 DEF Unique, Resolved
    <3>2. key[i] = q.asset => i \in asset[q.asset].meta
      BY <1>0, <1>3, <1>9 DEF KeysMatch
    <3>3. entries = {KeyEntry(j) : j \in (q.meta \ asset[q.asset].meta) \cup (asset[q.asset].meta \ q.meta)}
      BY <1>9 DEF Entries
    <3> QED
      BY <3>1, <3>2, <3>3
  <2>4. \A e \in Values : e \in entries => \A p \in Requests : p # r => e \notin req[p].pending
    BY <1>0 DEF Unblocked, Others
  <2> HIDE DEF entries
  <2>5. Work(new)
    BY <1>0, <1>7, <1>9, <2>1, <2>3 DEF Work
  <2>6. \A p \in Requests : p # r =>
           /\ \A b \in Present : b \in new.locked => b \notin req[p].locked /\ b \notin req[p].shared
           /\ \A b \in Present : b \in new.shared => b \notin req[p].locked
           /\ \A e \in Values : e \in new.pending => e \notin req[p].pending
    BY <1>7, <2>4 DEF Base, Exclusive
  <2> QED
    BY <1>1, <1>7, <2>2, <2>5, <2>6, RequestKeeps
<1> QED
  BY <1>0, <1>8, <1>9

-----------------------------------------------------------------------------
(* Transactions commit *)

LEMMA VersionCommits ==
    ASSUME Base, NEW r \in Requests, CommitVersion(r)
    PROVE  Base'
<1> DEFINE q == req[r]
           a == q.asset
           new == [v \in Versions |-> IF v = q.version THEN (IF q.current THEN "current" ELSE "old")
                                      ELSE IF q.current /\ v \in q.seen THEN "old"
                                      ELSE version[a][v]]
<1>0. /\ q \in Request /\ Shape(q) /\ Work(q) /\ q.op = "version" /\ q.todo = <<>> /\ End(r)
      /\ version' = [version EXCEPT ![a] = new]
      /\ asset' = asset /\ key' = key /\ tags' = tags /\ relation' = relation
      /\ version \in [Assets -> [Versions -> {"none", "old", "current"}]]
  BY DEF CommitVersion, Locked, Base, Typed
<1>1. a \in Present /\ a \in q.locked /\ a \in Assets
  BY <1>0, HasLocked, Constants DEF Single
<1>2. q.seen = {v \in Versions : version[a][v] # "none"}
  BY <1>0 DEF Work
<1>3. \A v, w \in Versions : new[v] = "current" /\ new[w] = "current" => v = w
  <2>1. \A v, w \in Versions : version[a][v] = "current" /\ version[a][w] = "current" => v = w
    BY <1>1 DEF Base, OneCurrent
  <2> HIDE DEF a, q
  <2> QED
    BY <1>2, <2>1
<1>4. new \in [Versions -> {"none", "old", "current"}]
  BY <1>0, <1>1
<1> HIDE DEF new
<1>5. version' \in [Assets -> [Versions -> {"none", "old", "current"}]] /\ version'[a] = new
      /\ \A b \in Assets : b # a => version'[b] = version[b]
  BY <1>0, <1>1, <1>4
<1>6. /\ req' \in [Requests -> Request] /\ req'[r] = Idle
      /\ \A p \in Requests : p # r => req'[p] = req[p]
  BY <1>0, EndIs
<1>7. Respects(r)
  BY <1>0, <1>1, <1>5, <1>6 DEF Respects
<1>8. OneCurrent'
  <2>1. ASSUME NEW b \in Assets, NEW v \in Versions, NEW w \in Versions,
               version'[b][v] = "current", version'[b][w] = "current"
        PROVE  v = w
    BY <1>3, <1>5, <2>1 DEF Base, OneCurrent
  <2> QED
    BY <2>1 DEF OneCurrent
<1>9. RowsTyped' /\ KeysMatch' /\ Vacant'
  BY <1>0, <1>5 DEF Base, Typed, RowsTyped, KeysMatch, Vacant
<1> QED
  BY <1>6, <1>7, <1>8, <1>9, EndKeeps

LEMMA RelationCommits ==
    ASSUME Base, NEW r \in Requests, CommitLink(r) \/ CommitUnlink(r)
    PROVE  Base'
<1>0. req[r] \in Request /\ Shape(req[r])
  BY DEF Base, Typed
<1>1. /\ End(r) /\ asset' = asset /\ key' = key /\ tags' = tags /\ version' = version
      /\ relation' \in SUBSET (Present \X Present)
  <2>1. CASE CommitLink(r)
    <3>1. req[r].link \in Present \X Present
      BY <1>0, <2>1 DEF CommitLink, Shape
    <3> QED
      BY <2>1, <3>1 DEF CommitLink, Base, Typed
  <2>2. CASE CommitUnlink(r)
    BY <2>2 DEF CommitUnlink, Base, Typed
  <2> QED
    BY <2>1, <2>2
<1>2. /\ req' \in [Requests -> Request] /\ req'[r] = Idle
      /\ \A p \in Requests : p # r => req'[p] = req[p]
  BY <1>1, EndIs
<1>3. Respects(r)
  BY <1>1, <1>2 DEF Respects
<1>4. RowsTyped' /\ KeysMatch' /\ Vacant' /\ OneCurrent'
  BY <1>1 DEF Base, Typed, RowsTyped, KeysMatch, Vacant, OneCurrent
<1> QED
  BY <1>2, <1>3, <1>4, EndKeeps

LEMMA ChangingIs ==
    ASSUME Base, NEW r \in Requests, NEW a \in Present, a \in req[r].locked, EndChanging(r, a)
    PROVE  /\ req' \in [Requests -> Request] /\ req'[r] = Idle
           /\ \A q \in Requests : q # r =>
                 \/ req'[q] = req[q]
                 \/ /\ req[q].op = "update" /\ req[q].asset \in req[r].locked
                    /\ req'[q] = [req[q] EXCEPT !.stale = TRUE]
           /\ \A q \in Requests : q # r /\ req[q].op = "update" /\ req[q].asset = a => req'[q].stale
<1>0. req \in [Requests -> Request]
  BY DEF Base, Typed
<1>1. ASSUME NEW q \in Requests, q # r
      PROVE  /\ req'[q] \in Request
             /\ \/ req'[q] = req[q]
                \/ /\ req[q].op = "update" /\ req[q].asset = a
                   /\ req'[q] = [req[q] EXCEPT !.stale = TRUE]
             /\ req[q].op = "update" /\ req[q].asset = a => req'[q].stale
  <2>0. req[q] \in Request /\ req[q].stale \in BOOLEAN
    BY <1>0 DEF Request
  <2>1. CASE req[q].op = "update" /\ req[q].asset = a
    <3>1. req'[q] = [req[q] EXCEPT !.stale = TRUE]
      BY <1>1, <2>1 DEF EndChanging
    <3> QED
      BY <2>0, <2>1, <3>1 DEF Request
  <2>2. CASE ~(req[q].op = "update" /\ req[q].asset = a)
    <3>1. req'[q] = [req[q] EXCEPT !.stale = @ \/ FALSE]
      BY <1>1, <2>2 DEF EndChanging
    <3>2. req'[q] = req[q]
      BY <2>0, <3>1 DEF Request
    <3> QED
      BY <2>0, <2>2, <3>2
  <2> QED
    BY <2>1, <2>2
<1>2. req'[r] = Idle /\ req' = [q \in Requests |-> req'[q]]
  BY DEF EndChanging
<1>3. \A q \in Requests : req'[q] \in Request
  BY <1>1, <1>2, IdleIs
<1> QED
  BY <1>1, <1>2, <1>3

LEMMA TransitionCommits ==
    ASSUME Base, NEW r \in Requests, CommitTransition(r)
    PROVE  Base'
<1> DEFINE q == req[r]
           a == q.asset
<1>0. /\ q \in Request /\ Shape(q) /\ q.op \in {"archive", "restore"} /\ q.todo = <<>> /\ EndChanging(r, a)
      /\ asset' = [asset EXCEPT ![a].archived = ~@]
      /\ key' = key /\ tags' = tags /\ version' = version /\ relation' = relation
      /\ asset \in [Assets -> Row]
  BY DEF CommitTransition, Locked, Base, Typed
<1>1. a \in Present /\ a \in q.locked /\ a \in Assets
  BY <1>0, HasLocked, Constants DEF Single
<1> HIDE DEF a
<1>2. /\ asset' \in [Assets -> Row]
      /\ \A b \in Assets : asset'[b].meta = asset[b].meta /\ asset'[b].exists = asset[b].exists
      /\ \A b \in Assets : b # a => asset'[b] = asset[b]
  BY <1>0, <1>1 DEF Row
<1>3. Respects(r) /\ req' \in [Requests -> Request] /\ req'[r] = Idle
  BY <1>0, <1>1, <1>2, ChangingIs DEF Respects
<1>4. RowsTyped' /\ KeysMatch' /\ Vacant' /\ OneCurrent'
  <2>1. KeysMatch'
    BY <1>0, <1>2 DEF Base, KeysMatch
  <2>2. Vacant'
    BY <1>2, Constants DEF Base, Vacant
  <2> QED
    BY <1>0, <1>2, <2>1, <2>2 DEF Base, Typed, RowsTyped, OneCurrent
<1> QED
  BY <1>3, <1>4, EndKeeps

LEMMA UpdateCommits ==
    ASSUME Base, NEW r \in Requests, CommitUpdate(r)
    PROVE  Base'
<1> DEFINE q == req[r]
           a == q.asset
<1>0. /\ q \in Request /\ Shape(q) /\ Work(q) /\ q.op = "update" /\ q.stage = "flushed" /\ EndChanging(r, a)
      /\ asset' = [asset EXCEPT ![a].meta = q.meta]
      /\ key' = Synchronized(a, q.meta) /\ tags' = tags \cup NewTags(r)
      /\ version' = version /\ relation' = relation
      /\ asset \in [Assets -> Row] /\ key \in [Identities -> Assets \cup {none}]
      /\ KeysMatch
  BY DEF CommitUpdate, Base, Typed
<1>1. a \in Present /\ a \in q.locked /\ a \in Assets /\ q.meta \in SUBSET Identities
  BY <1>0, HasLocked, Constants DEF Request
<1>2. \A i \in Identities :
         /\ i \in q.meta /\ i \notin asset[a].meta => KeyEntry(i) \in q.pending /\ key[i] = none
         /\ i \notin q.meta /\ i \in asset[a].meta => KeyEntry(i) \in q.pending
  BY <1>0 DEF Work
<1> HIDE DEF a
<1>3. /\ asset' \in [Assets -> Row] /\ asset'[a].meta = q.meta /\ asset'[a].exists = asset[a].exists
      /\ \A b \in Assets : b # a => asset'[b] = asset[b]
  BY <1>0, <1>1 DEF Row
<1>4. /\ key' \in [Identities -> Assets \cup {none}]
      /\ \A i \in Identities : /\ i \in q.meta => key'[i] = a
                               /\ i \notin q.meta /\ key[i] = a => key'[i] = none
                               /\ i \notin q.meta /\ key[i] # a => key'[i] = key[i]
  BY <1>0, <1>1 DEF Synchronized
<1>5. \A i \in Identities : key'[i] = key[i] \/ KeyEntry(i) \in q.pending
  BY <1>0, <1>1, <1>2, <1>4 DEF KeysMatch
<1>6. KeysMatch'
  <2>1. ASSUME NEW i \in Identities, NEW b \in Assets
        PROVE  key'[i] = b <=> i \in asset'[b].meta
    <3>1. CASE b = a
      BY <1>1, <1>3, <1>4, <3>1, Constants
    <3>2. CASE b # a
      <4>1. asset'[b].meta = asset[b].meta /\ (key[i] = b <=> i \in asset[b].meta)
        BY <1>0, <1>3, <3>2 DEF KeysMatch
      <4>2. i \in q.meta => key[i] \in {none, a}
        BY <1>0, <1>1, <1>2 DEF KeysMatch
      <4> QED
        BY <1>4, <3>2, <4>1, <4>2, Constants
    <3> QED
      BY <3>1, <3>2
  <2> QED
    BY <2>1 DEF KeysMatch
<1>7. Respects(r) /\ req' \in [Requests -> Request] /\ req'[r] = Idle
  BY <1>0, <1>1, <1>3, <1>5, ChangingIs DEF Respects
<1>8. Vacant'
  BY <1>1, <1>3, Constants DEF Base, Vacant
<1>9. RowsTyped' /\ OneCurrent'
  BY <1>0, <1>3, <1>4 DEF Base, Typed, RowsTyped, OneCurrent, NewTags
<1> QED
  BY <1>6, <1>7, <1>8, <1>9, EndKeeps

LEMMA ImportCommits ==
    ASSUME Base, NEW r \in Requests, CommitImport(r)
    PROVE  Base'
<1> DEFINE q == req[r]
           items == Created(r)
<1>0. /\ q \in Request /\ Shape(q) /\ Work(q) /\ q.op = "import" /\ q.stage = "flushed" /\ End(r)
      /\ asset' = [a \in Assets |-> IF \E item \in items : item.asset = a
                                      THEN [exists |-> TRUE, archived |-> FALSE,
                                            meta |-> (CHOOSE item \in items : item.asset = a).meta]
                                      ELSE asset[a]]
      /\ key' = [i \in Identities |-> IF \E item \in items : i \in item.meta
                                        THEN (CHOOSE item \in items : i \in item.meta).asset
                                        ELSE key[i]]
      /\ tags' = tags \cup NewTags(r) /\ version' = version /\ relation' = relation
      /\ asset \in [Assets -> Row] /\ key \in [Identities -> Assets \cup {none}]
      /\ KeysMatch
  BY DEF CommitImport, Base, Typed
<1>1. /\ q.batch \in Batches /\ q.at = Len(q.batch) /\ items = {q.batch[n] : n \in DOMAIN q.batch}
      /\ FlushedItems(q) = DOMAIN q.batch
  <2>1. q.batch \in Batches /\ q.at \in DOMAIN q.batch /\ q.at = Len(q.batch)
    BY <1>0 DEF Shape
  <2>2. \A n \in DOMAIN q.batch : n \in 1..Len(q.batch) /\ Len(q.batch) \in Nat
    BY <2>1, BatchItems
  <2> QED
    BY <1>0, <2>1, <2>2 DEF FlushedItems, Created
<1>2. ASSUME NEW item \in items
      PROVE  /\ item.asset \in Assets \ Present /\ item.meta \in SUBSET Identities
             /\ SlugEntry(item.asset) \in q.pending /\ ~asset[item.asset].exists
             /\ \A i \in item.meta : KeyEntry(i) \in q.pending /\ key[i] = none
  <2>1. PICK n \in DOMAIN q.batch : item = q.batch[n]
    BY <1>1
  <2> QED
    BY <1>0, <1>1, <2>1, BatchItems DEF Work
<1>3. ASSUME NEW x \in items, NEW y \in items
      PROVE  /\ x.asset = y.asset => x = y
             /\ \A i \in x.meta : i \in y.meta => x = y
  <2>1. PICK m \in DOMAIN q.batch : x = q.batch[m]
    BY <1>1
  <2>2. PICK n \in DOMAIN q.batch : y = q.batch[n]
    BY <1>1
  <2>3. m # n => x.asset # y.asset /\ x.meta \cap y.meta = {}
    BY <1>1, <2>1, <2>2, Constants
  <2> QED
    BY <2>1, <2>2, <2>3
<1> HIDE DEF items
<1>4. ASSUME NEW item \in items
      PROVE  /\ asset'[item.asset] \in Row /\ asset'[item.asset].exists
             /\ asset'[item.asset].meta = item.meta
             /\ \A i \in item.meta : key'[i] = item.asset
  <2>1. (CHOOSE x \in items : x.asset = item.asset) = item
    BY <1>3
  <2>2. \A i \in item.meta : (CHOOSE x \in items : i \in x.meta) = item
    BY <1>3
  <2>3. asset'[item.asset] = [exists |-> TRUE, archived |-> FALSE, meta |-> item.meta]
    BY <1>0, <1>2, <2>1
  <2>4. \A i \in item.meta : key'[i] = item.asset
    BY <1>0, <1>2, <2>2
  <2> QED
    BY <1>2, <2>3, <2>4 DEF Row
<1>5. /\ \A a \in Assets : (\A item \in items : item.asset # a) => asset'[a] = asset[a]
      /\ \A i \in Identities : (\A item \in items : i \notin item.meta) => key'[i] = key[i]
  BY <1>0
<1>6. asset' \in [Assets -> Row]
  <2>1. ASSUME NEW a \in Assets
        PROVE  asset'[a] \in Row
    <3>1. CASE \E item \in items : item.asset = a
      <4>1. PICK item \in items : item.asset = a
        BY <3>1
      <4> QED
        BY <1>2, <1>4, <4>1 DEF Row
    <3>2. CASE \A item \in items : item.asset # a
      BY <1>0, <1>5, <3>2
    <3> QED
      BY <3>1, <3>2
  <2>2. asset' = [a \in Assets |-> asset'[a]]
    BY <1>0
  <2> QED
    BY <2>1, <2>2
<1>7. key' \in [Identities -> Assets \cup {none}]
  <2>1. ASSUME NEW i \in Identities
        PROVE  key'[i] \in Assets \cup {none}
    <3>1. CASE \E item \in items : i \in item.meta
      BY <1>2, <1>4, <3>1
    <3>2. CASE \A item \in items : i \notin item.meta
      BY <1>0, <1>5, <3>2
    <3> QED
      BY <3>1, <3>2
  <2>2. key' = [i \in Identities |-> key'[i]]
    BY <1>0
  <2> QED
    BY <2>1, <2>2
<1>8. KeysMatch'
  <2>1. ASSUME NEW i \in Identities, NEW a \in Assets
        PROVE  key'[i] = a <=> i \in asset'[a].meta
    <3>0. key[i] = a <=> i \in asset[a].meta
      BY <1>0 DEF KeysMatch
    <3>1. CASE \E item \in items : i \in item.meta
      <4>1. PICK item \in items : i \in item.meta
        BY <3>1
      <4>2. key'[i] = item.asset /\ key[i] = none
        BY <1>2, <1>4, <4>1
      <4>3. CASE a = item.asset
        BY <1>4, <4>1, <4>2, <4>3
      <4>4. CASE a # item.asset
        <5>1. i \notin asset[a].meta
          BY <3>0, <4>2, Constants
        <5>2. \A x \in items : x.asset = a => i \notin x.meta
          BY <1>3, <4>1, <4>4
        <5>3. i \notin asset'[a].meta
          <6>1. CASE \E x \in items : x.asset = a
            BY <1>4, <5>2, <6>1
          <6>2. CASE \A x \in items : x.asset # a
            BY <1>5, <5>1, <6>2
          <6> QED
            BY <6>1, <6>2
        <5> QED
          BY <4>2, <4>4, <5>3
      <4> QED
        BY <4>3, <4>4
    <3>2. CASE \A item \in items : i \notin item.meta
      <4>1. key'[i] = key[i]
        BY <1>5, <3>2
      <4>2. CASE \E x \in items : x.asset = a
        <5>1. PICK x \in items : x.asset = a
          BY <4>2
        <5>2. i \notin asset'[a].meta
          BY <1>4, <3>2, <5>1
        <5>3. asset[a].meta = {}
          BY <1>2, <5>1 DEF Base, Vacant
        <5> QED
          BY <3>0, <4>1, <5>2, <5>3
      <4>3. CASE \A x \in items : x.asset # a
        BY <1>5, <3>0, <4>1, <4>3
      <4> QED
        BY <4>2, <4>3
    <3> QED
      BY <3>1, <3>2
  <2> QED
    BY <2>1 DEF KeysMatch
<1>9. Vacant'
  <2>1. ASSUME NEW a \in Assets
        PROVE  /\ ~asset'[a].exists => asset'[a].meta = {}
               /\ asset[a].exists => asset'[a].exists
    <3>1. CASE \E x \in items : x.asset = a
      BY <1>4, <3>1
    <3>2. CASE \A x \in items : x.asset # a
      BY <1>5, <3>2 DEF Base, Vacant
    <3> QED
      BY <3>1, <3>2
  <2> QED
    BY <2>1, Constants DEF Base, Vacant
<1>10. /\ req' \in [Requests -> Request] /\ req'[r] = Idle
       /\ \A p \in Requests : p # r => req'[p] = req[p]
  BY <1>0, EndIs
<1>11. Respects(r)
  <2>1. \A a \in Assets : asset'[a] = asset[a] \/ (a \notin Present /\ SlugEntry(a) \in q.pending)
    BY <1>2, <1>5
  <2>2. \A i \in Identities : key'[i] = key[i] \/ KeyEntry(i) \in q.pending
    BY <1>2, <1>5
  <2> QED
    BY <1>0, <1>10, <2>1, <2>2 DEF Respects
<1>12. RowsTyped' /\ OneCurrent'
  BY <1>0, <1>6, <1>7 DEF Base, Typed, RowsTyped, OneCurrent, NewTags
<1> QED
  BY <1>8, <1>9, <1>10, <1>11, <1>12, EndKeeps

-----------------------------------------------------------------------------
(* The theorems *)

LEMMA NextKeeps == Base /\ [Next]_vars => Base'
<1> SUFFICES ASSUME Base, [Next]_vars PROVE Base'
  OBVIOUS
<1>1. CASE UNCHANGED vars
  BY <1>1 DEF vars, Base, Typed, Exclusive, KeysMatch, Vacant, OneCurrent, Work, Active
<1>2. ASSUME NEW r \in Requests, Arrive(r) \/ Step(r) \/ Abort(r)
      PROVE  Base'
  <2>1. CASE Arrive(r)
    BY <2>1, ArriveKeeps
  <2>2. CASE Refused(r) \/ DeadlockVictim(r) \/ Abort(r)
    <3>1. End(r) /\ UNCHANGED rows
      BY <2>2 DEF Refused, DeadlockVictim, Abort
    <3> QED
      BY <3>1, Ends
  <2>3. CASE LockRow(r) \/ ReferTo(r) \/ LockRelation(r)
    BY <2>3, LockRowKeeps, ReferKeeps, RelationLockKeeps
  <2>4. CASE CheckItem(r) \/ InsertTag(r) \/ Flush(r) \/ AddLink(r) \/ \E e \in Edits : Edit(r, e)
    BY <2>4, CheckItemKeeps, InsertTagKeeps, FlushKeeps, AddLinkKeeps, EditKeeps
  <2>5. CASE \/ CommitImport(r) \/ CommitUpdate(r) \/ CommitVersion(r) \/ CommitTransition(r)
             \/ CommitLink(r) \/ CommitUnlink(r)
    BY <2>5, ImportCommits, UpdateCommits, VersionCommits, TransitionCommits, RelationCommits
  <2> QED
    BY <1>2, <2>1, <2>2, <2>3, <2>4, <2>5 DEF Step
<1> QED
  BY <1>1, <1>2 DEF Next

LEMMA BaseAlways == Spec => []Base
  BY InitBase, NextKeeps, PTL DEF Spec

\* Rows and requests keep their types.
THEOREM TypeCorrect == Spec => []TypeOK
<1>1. Base => TypeOK
  <2> SUFFICES ASSUME Base PROVE TypeOK
    OBVIOUS
  <2>1. ASSUME NEW r \in Requests
        PROVE  /\ req[r].op \in Operations /\ req[r].stage \in {"begun", "locked", "tags", "flushed"}
               /\ req[r].locked \cup req[r].shared \subseteq Present
               /\ req[r].at \in {1} \cup DOMAIN req[r].batch
    <3>1. req[r] \in Request /\ Shape(req[r])
      BY DEF Base, Typed
    <3>2. req[r].at \in {1} \cup DOMAIN req[r].batch
      BY <3>1 DEF Shape
    <3> QED
      BY <3>1, <3>2 DEF Request, Stages
  <2> QED
    BY <2>1 DEF Base, Typed, TypeOK, Row
<1> QED
  BY <1>1, BaseAlways, PTL

\* Publications stay unique: import_assets, create_asset and update_asset check them before
\* they insert, and the unique index decides between the requests that pass.
THEOREM IdentitiesStayUnique == Spec => []IdentitiesUnique
<1>1. Base => IdentitiesUnique
  <2> SUFFICES ASSUME Base PROVE IdentitiesUnique
    OBVIOUS
  <2>1. \A a \in Assets : asset[a].meta \subseteq Identities
    BY DEF Base, Typed, Row
  <2>2. ASSUME NEW a \in Assets, NEW b \in Assets, a # b, NEW i \in asset[a].meta
        PROVE  i \notin asset[b].meta
    BY <2>1, <2>2 DEF Base, KeysMatch
  <2> QED
    BY <2>2 DEF Base, KeysMatch, IdentitiesUnique
<1> QED
  BY <1>1, BaseAlways, PTL

\* add_asset_version loads the versions under the lock of the asset.
THEOREM OneCurrentHolds == Spec => []OneCurrent
<1>1. Base => OneCurrent
  BY DEF Base
<1> QED
  BY <1>1, BaseAlways, PTL

\* What update_asset overwrites is what its editor saw.
THEOREM NoUpdateIsLost == Spec => NoLostUpdate
<1> DEFINE Kept == \A a \in Assets :
       asset[a].exists /\ asset'[a].meta # asset[a].meta =>
          \E r \in Requests : /\ req[r].op = "update" /\ req[r].asset = a
                              /\ req[r].page = asset[a].meta /\ ~asset[a].archived
<1>1. Base /\ [Next]_vars => [Kept]_vars
  <2> SUFFICES ASSUME Base, Next PROVE Kept
    BY DEF vars
  <2>1. PICK r \in Requests : Arrive(r) \/ Step(r) \/ Abort(r)
    BY DEF Next
  <2>2. asset \in [Assets -> Row] /\ Shape(req[r]) /\ Work(req[r])
    BY DEF Base, Typed
  <2>3. CASE CommitUpdate(r)
    <3>1. /\ req[r].op = "update" /\ req[r].stage = "flushed"
          /\ asset' = [asset EXCEPT ![req[r].asset].meta = req[r].meta]
      BY <2>3 DEF CommitUpdate
    <3>2. req[r].page = asset[req[r].asset].meta /\ ~asset[req[r].asset].archived
      BY <2>2, <3>1 DEF Work, Active
    <3>3. \A a \in Assets : a # req[r].asset => asset'[a] = asset[a]
      BY <2>2, <3>1
    <3> QED
      BY <3>1, <3>2, <3>3
  <2>4. CASE CommitImport(r)
    <3>1. \A a \in Assets : asset'[a] = asset[a] \/ ~asset[a].exists
      <4>1. FlushedItems(req[r]) = DOMAIN req[r].batch /\ req[r].op = "import"
        <5>1. req[r].op = "import" /\ req[r].stage = "flushed"
          BY <2>4 DEF CommitImport
        <5>2. req[r].batch \in Batches /\ req[r].at = Len(req[r].batch)
          BY <2>2, <5>1 DEF Shape
        <5>3. \A n \in DOMAIN req[r].batch : n \in 1..Len(req[r].batch) /\ Len(req[r].batch) \in Nat
          BY <5>2, BatchItems
        <5> QED
          BY <5>1, <5>2, <5>3 DEF FlushedItems
      <4>2. \A item \in Created(r) : ~asset[item.asset].exists
        BY <2>2, <4>1 DEF Work, Created
      <4> QED
        BY <2>4, <4>2 DEF CommitImport
    <3> QED
      BY <3>1
  <2>5. CASE CommitTransition(r)
    BY <2>2, <2>5 DEF CommitTransition, Row
  <2>6. CASE ~(CommitUpdate(r) \/ CommitImport(r) \/ CommitTransition(r))
    <3>1. asset' = asset
      BY <2>1, <2>6 DEF Arrive, Step, Abort, BeginImport, OpenPage, BeginTransition, BeginVersion,
             BeginLink, BeginUnlink, LockRow, CheckItem, InsertTag, Flush, Edit, CommitVersion, AddLink,
             CommitLink, LockRelation, ReferTo, CommitUnlink, Refused, DeadlockVictim, rows
    <3> QED
      BY <3>1
  <2> QED
    BY <2>3, <2>4, <2>5, <2>6
<1> QED
  BY <1>1, BaseAlways, PTL DEF Spec, NoLostUpdate

\* add_relation holds both rows from its checks to its commit.
THEOREM LinksStayActive == Spec => LinksActive
<1> DEFINE Kept == \A l \in relation' \ relation : Active(l[1]) /\ Active(l[2])
<1>1. Base /\ [Next]_vars => [Kept]_vars
  <2> SUFFICES ASSUME Base, Next PROVE Kept
    BY DEF vars
  <2>1. PICK r \in Requests : Arrive(r) \/ Step(r) \/ Abort(r)
    BY DEF Next
  <2>2. CASE CommitLink(r)
    <3>1. relation' = relation \cup {req[r].link} /\ Active(req[r].link[1]) /\ Active(req[r].link[2])
      BY <2>2 DEF CommitLink, Base, Work
    <3> QED
      BY <3>1
  <2>3. CASE ~CommitLink(r)
    <3>1. relation' \subseteq relation
      BY <2>1, <2>3 DEF Arrive, Step, Abort, BeginImport, OpenPage, BeginTransition, BeginVersion,
             BeginLink, BeginUnlink, LockRow, CheckItem, InsertTag, Flush, Edit, CommitVersion, AddLink,
             CommitImport, CommitUpdate, CommitTransition, LockRelation, ReferTo, CommitUnlink,
             Refused, DeadlockVictim, rows
    <3> QED
      BY <3>1
  <2> QED
    BY <2>2, <2>3
<1> QED
  BY <1>1, BaseAlways, PTL DEF Spec, LinksActive
=============================================================================
