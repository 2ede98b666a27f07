-------------------------- MODULE FileAccessProofs --------------------------
(***************************************************************************)
(* Proofs about FileAccess, for any number of accounts, requests and       *)
(* grants: types, the record of accesses, revocation, and what is sent.    *)
(***************************************************************************)
EXTENDS FileAccess, TLAPS

Operations == {"none", "issue", "get", "head", "agent"} \cup Revocations

Request == [op : Operations, user : Users \cup {none}, grant : Grants \cup {none},
            stage : {"begun", "checked", "read", "opened", "deleted"}, first : BOOLEAN,
            row : Versions \cup {0}, seen : SUBSET Versions, other : BOOLEAN]

Row == [live : BOOLEAN, user : Users \cup {none}, first : BOOLEAN, expired : BOOLEAN, outlived : BOOLEAN]

\* The first access has the lock of its row, a revocation that of its account and of the
\* grants it found, and nobody else knows the place of a grant to be inserted.
Works(r) ==
    LET q == req[r] IN
    /\ q.op # "none" => q.user \in Users
    /\ q.op \in {"issue", "get", "head"} => q.grant \in Grants
    /\ q.op \in Revocations => userLock[q.user] = r
    /\ q.first => /\ q.op = "get" /\ rowLock[q.grant] = r
                  /\ Live(q.grant) /\ ~grant[q.grant].first
    /\ q.op = "get" /\ ~q.first => grant[q.grant].first \/ ~Live(q.grant)
    /\ q.op = "issue" => ~Usable(q.grant) /\ \A p \in Requests : p # r => req[p].grant # q.grant
    /\ q.op \in Revocations /\ q.stage = "deleted" => \A g \in GrantsOf(q.user) : rowLock[g] = r

\* What is sent was indexed while the request had the record.
Reads(r) == req[r].stage = "read" => req[r].row \in req[r].seen

Owned == \A g \in Grants : Live(g) => grant[g].user \in Users

Base == TypeOK /\ Owned /\ (\A r \in Requests : Works(r)) /\ AuditedOnce /\ GrantsRevoked

\* What a step of r leaves to the other requests
Respects(r) ==
    /\ \A q \in Requests : q # r => req'[q] = req[q]
    /\ \A u \in Users : userLock[u] \in Requests \ {r} => userLock'[u] = userLock[u]
    /\ \A g \in Grants : rowLock[g] \in Requests \ {r} => rowLock'[g] = rowLock[g]
    /\ \A g \in Grants :
          \/ grant'[g] = grant[g]
          \/ /\ rowLock[g] = r
             /\ \/ ~grant'[g].live
                \/ /\ grant'[g].first /\ grant'[g].live = grant[g].live
                   /\ grant'[g].user = grant[g].user /\ grant'[g].expired = grant[g].expired
          \/ g = req[r].grant /\ req[r].op = "issue" /\ grant'[g].user \in Users
             /\ userLock[grant'[g].user] \in {none, r}
    /\ \A q \in Requests : q # r /\ req[q].op = "issue" => req'[r].grant # req[q].grant

LEMMA Types ==
    ASSUME TypeOK
    PROVE  /\ grant \in [Grants -> Row] /\ req \in [Requests -> Request]
           /\ userLock \in [Users -> Requests \cup {none}] /\ rowLock \in [Grants -> Requests \cup {none}]
           /\ none \notin Users /\ none \notin Requests /\ none \notin Grants
  BY FileAccessTypes DEF TypeOK, Row, Request, Operations

LEMMA OthersWork ==
    ASSUME Base, NEW r \in Requests, Respects(r), NEW q \in Requests, q # r
    PROVE  Works(q)'
<1>0. /\ Works(q) /\ Works(r) /\ req'[q] = req[q]
      /\ none \notin Users /\ none \notin Requests /\ none \notin Grants
  BY Types DEF Base, Respects
<1>1. req[q].op \in Revocations => userLock'[req[q].user] = q
  <2>1. req[q].op \in Revocations => req[q].op # "none"
    BY DEF Revocations
  <2> QED
    BY <1>0, <2>1 DEF Works, Respects
<1>2. req[q].first => /\ req[q].op = "get" /\ rowLock'[req[q].grant] = q
                      /\ grant'[req[q].grant] = grant[req[q].grant]
  <2>1. CASE req[q].first
    <3>1. req[q].op = "get" /\ req[q].grant \in Grants /\ rowLock[req[q].grant] = q
      BY <1>0, <2>1 DEF Works
    <3>2. ~(req[q].grant = req[r].grant /\ req[r].op = "issue")
      BY <1>0 DEF Works
    <3> QED
      BY <3>1, <3>2 DEF Respects
  <2> QED
    BY <2>1
<1>3. req[q].op = "get" /\ ~req[q].first => grant'[req[q].grant].first \/ ~grant'[req[q].grant].live
  <2>1. CASE req[q].op = "get" /\ ~req[q].first
    <3>1. req[q].grant \in Grants /\ (grant[req[q].grant].first \/ ~grant[req[q].grant].live)
      BY <1>0, <2>1 DEF Works, Live
    <3>2. ~(req[q].grant = req[r].grant /\ req[r].op = "issue")
      BY <1>0 DEF Works
    <3> QED
      BY <3>1, <3>2 DEF Respects
  <2> QED
    BY <2>1
<1>4. req[q].op = "issue" => /\ ~(grant'[req[q].grant].live /\ ~grant'[req[q].grant].expired)
                             /\ \A p \in Requests : p # q => req'[p].grant # req[q].grant
  <2>1. CASE req[q].op = "issue"
    <3>1. /\ req[q].grant \in Grants /\ ~(grant[req[q].grant].live /\ ~grant[req[q].grant].expired)
          /\ \A p \in Requests : p # q => req[p].grant # req[q].grant
      BY <1>0, <2>1 DEF Works, Usable, Live
    <3>2. req[q].grant # req[r].grant
      BY <3>1
    <3> QED
      BY <2>1, <3>1, <3>2 DEF Respects
  <2> QED
    BY <2>1
<1>5. req[q].op \in Revocations /\ req[q].stage = "deleted" =>
         \A g \in Grants : grant'[g].live /\ grant'[g].user = req[q].user => rowLock'[g] = q
  <2>1. CASE req[q].op \in Revocations /\ req[q].stage = "deleted"
    <3>1. /\ userLock[req[q].user] = q
          /\ \A g \in Grants : grant[g].live /\ grant[g].user = req[q].user => rowLock[g] = q
      BY <1>0, <2>1 DEF Works, GrantsOf, Live
    <3>2. ASSUME NEW g \in Grants, grant'[g].live, grant'[g].user = req[q].user
          PROVE  rowLock'[g] = q
      <4>1. userLock[grant'[g].user] \notin {none, r}
        BY <1>0, <3>1, <3>2
      <4>2. grant[g].live /\ grant[g].user = req[q].user
        BY <1>0, <3>1, <3>2, <4>1 DEF Respects
      <4> QED
        BY <3>1, <4>2 DEF Respects
    <3> QED
      BY <3>2
  <2> QED
    BY <2>1
<1> QED
  BY <1>0, <1>1, <1>2, <1>3, <1>4, <1>5 DEF Works, GrantsOf, Live, Usable

\* A request that is answered holds nothing.
LEMMA IdleWorks ==
    ASSUME NEW r \in Requests, req'[r] = Idle
    PROVE  Works(r)'
  BY DEF Works, Idle, Revocations

LEMMA StepKeeps ==
    ASSUME Base, NEW r \in Requests, Respects(r), TypeOK', Works(r)', AuditedOnce', GrantsRevoked'
    PROVE  Base'
<1>1. Owned'
  BY DEF Base, Owned, Respects, Live
<1> QED
  BY <1>1, OthersWork DEF Base

LEMMA EndIs ==
    ASSUME TypeOK, NEW r \in Requests, End(r)
    PROVE  /\ req' \in [Requests -> Request] /\ req'[r] = Idle
           /\ \A q \in Requests : q # r => req'[q] = req[q]
           /\ userLock' \in [Users -> Requests \cup {none}] /\ rowLock' \in [Grants -> Requests \cup {none}]
           /\ \A u \in Users : userLock[u] \in Requests \ {r} => userLock'[u] = userLock[u]
           /\ \A g \in Grants : rowLock[g] \in Requests \ {r} => rowLock'[g] = rowLock[g]
<1>1. Idle \in Request
  BY DEF Idle, Request, Operations
<1>2. req \in [Requests -> Request] /\ userLock \in [Users -> Requests \cup {none}]
      /\ rowLock \in [Grants -> Requests \cup {none}]
  BY Types
<1> QED
  BY <1>1, <1>2 DEF End

\* The end of a request, when it leaves the grants that others know as they are
LEMMA EndKeeps ==
    ASSUME Base, NEW r \in Requests, End(r),
           \A g \in Grants :
              \/ grant'[g] = grant[g]
              \/ /\ rowLock[g] = r
                 /\ \/ ~grant'[g].live
                    \/ /\ grant'[g].first /\ grant'[g].live = grant[g].live
                       /\ grant'[g].user = grant[g].user /\ grant'[g].expired = grant[g].expired
              \/ g = req[r].grant /\ req[r].op = "issue" /\ grant'[g].user \in Users
                 /\ userLock[grant'[g].user] \in {none, r},
           grant' \in [Grants -> Row], file' = file,
           account' \in [Users -> BOOLEAN], token' \in [Users -> [live : BOOLEAN, used : BOOLEAN]],
           audits' \in [Grants -> Nat], served' \in [Grants -> BOOLEAN],
           AuditedOnce', GrantsRevoked'
    PROVE  Base'
<1>1. /\ req' \in [Requests -> Request] /\ req'[r] = Idle
      /\ \A q \in Requests : q # r => req'[q] = req[q]
      /\ userLock' \in [Users -> Requests \cup {none}] /\ rowLock' \in [Grants -> Requests \cup {none}]
      /\ \A u \in Users : userLock[u] \in Requests \ {r} => userLock'[u] = userLock[u]
      /\ \A g \in Grants : rowLock[g] \in Requests \ {r} => rowLock'[g] = rowLock[g]
  BY EndIs DEF Base
<1>2. TypeOK'
  BY <1>1 DEF Base, TypeOK, Request, Row, Operations
<1>3. \A q \in Requests : q # r /\ req[q].op = "issue" => req'[r].grant # req[q].grant
  BY <1>1, Types DEF Base, Works, Idle
<1>4. Respects(r)
  BY <1>1, <1>3 DEF Respects
<1> QED
  BY <1>1, <1>2, <1>4, IdleWorks, StepKeeps

\* A step that changes nothing but what its own request knows and has locked
LEMMA RequestKeeps ==
    ASSUME Base, NEW r \in Requests, NEW new \in Request, req' = [req EXCEPT ![r] = new],
           UNCHANGED <<grant, file, audits, served>>,
           account' \in [Users -> BOOLEAN], token' \in [Users -> [live : BOOLEAN, used : BOOLEAN]],
           userLock' \in [Users -> Requests \cup {none}], rowLock' \in [Grants -> Requests \cup {none}],
           \A u \in Users : userLock[u] \in Requests \ {r} => userLock'[u] = userLock[u],
           \A g \in Grants : rowLock[g] \in Requests \ {r} => rowLock'[g] = rowLock[g],
           \A q \in Requests : q # r /\ req[q].op = "issue" => new.grant # req[q].grant,
           Works(r)'
    PROVE  Base'
<1>1. req' \in [Requests -> Request] /\ req'[r] = new /\ \A q \in Requests : q # r => req'[q] = req[q]
  BY Types DEF Base
<1>2. TypeOK'
  BY <1>1 DEF Base, TypeOK, Request, Operations
<1>3. Respects(r)
  BY <1>1 DEF Respects
<1>4. AuditedOnce' /\ GrantsRevoked'
  BY DEF Base, AuditedOnce, GrantsRevoked
<1> QED
  BY <1>2, <1>3, <1>4, StepKeeps

-----------------------------------------------------------------------------
(* A request goes on *)

\* It changes neither what it is about nor its locks.
LEMMA StageKeeps ==
    ASSUME Base, NEW r \in Requests, NEW new \in Request, req' = [req EXCEPT ![r] = new],
           UNCHANGED <<grant, file, audits, served, account, locks>>,
           token' \in [Users -> [live : BOOLEAN, used : BOOLEAN]],
           new.op = req[r].op, new.user = req[r].user, new.grant = req[r].grant, new.first = req[r].first,
           new.stage # "deleted"
    PROVE  Base'
<1>1. /\ req'[r] = new /\ Works(r) /\ UNCHANGED <<userLock, rowLock>>
      /\ \A q \in Requests : q # r => req'[q] = req[q]
  BY Types DEF Base, locks
<1>2. \A q \in Requests : q # r /\ req[q].op = "issue" => new.grant # req[q].grant
  BY DEF Base, Works
<1>3. Works(r)'
  BY <1>1 DEF Works, Live, Usable, GrantsOf
<1> QED
  BY <1>1, <1>2, <1>3, RequestKeeps, Types DEF Base, TypeOK

LEMMA ReadsOn ==
    ASSUME Base, NEW r \in Requests,
           ReadRecord(r) \/ OpenFile(r) \/ CheckActor(r) \/ RecordUse(r)
    PROVE  Base'
<1>0. /\ req[r] \in Request /\ req \in [Requests -> Request]
      /\ file.version \in Versions /\ Indexed \in SUBSET Versions
  BY Types DEF Base, TypeOK, Indexed
<1>1. CASE ReadRecord(r)
  <2> DEFINE new == [req[r] EXCEPT !.stage = "read", !.row = file.version, !.seen = Indexed]
  <2>1. req' = [req EXCEPT ![r] = new] /\ UNCHANGED <<world, locks>>
    BY <1>1 DEF ReadRecord
  <2>2. /\ new \in Request /\ new.op = req[r].op /\ new.user = req[r].user /\ new.grant = req[r].grant
        /\ new.first = req[r].first /\ new.stage # "deleted"
    BY <1>0 DEF Request
  <2> HIDE DEF new
  <2> QED
    BY <2>1, <2>2, StageKeeps DEF world, Base, TypeOK
<1>2. CASE OpenFile(r)
  <2> DEFINE other == file.disk \notin req[r].seen
             new == [req[r] EXCEPT !.stage = "opened", !.row = 0, !.seen = {}, !.other = other]
  <2>1. req' = [req EXCEPT ![r] = new] /\ UNCHANGED <<world, locks>>
    BY <1>2 DEF OpenFile
  <2>2. other \in BOOLEAN
    OBVIOUS
  <2> HIDE DEF other
  <2>3. /\ new \in Request /\ new.op = req[r].op /\ new.user = req[r].user /\ new.grant = req[r].grant
        /\ new.first = req[r].first /\ new.stage # "deleted"
    BY <1>0, <2>2 DEF Request
  <2> HIDE DEF new
  <2> QED
    BY <2>1, <2>3, StageKeeps DEF world, Base, TypeOK
<1>3. CASE CheckActor(r) \/ RecordUse(r)
  <2> DEFINE new == [req[r] EXCEPT !.stage = "checked"]
  <2>1. /\ req' = [req EXCEPT ![r] = new]
        /\ UNCHANGED <<grant, file, audits, served, account, locks>>
    BY <1>3 DEF CheckActor, RecordUse, To, world
  <2>2. /\ new \in Request /\ new.op = req[r].op /\ new.user = req[r].user /\ new.grant = req[r].grant
        /\ new.first = req[r].first /\ new.stage # "deleted"
    BY <1>0 DEF Request
  <2>3. token' \in [Users -> [live : BOOLEAN, used : BOOLEAN]]
    <3>1. CASE CheckActor(r)
      BY <3>1 DEF CheckActor, world, Base, TypeOK
    <3>2. CASE RecordUse(r)
      <4>1. /\ token \in [Users -> [live : BOOLEAN, used : BOOLEAN]]
            /\ token' = [token EXCEPT ![req[r].user].used = TRUE]
        BY <3>2 DEF RecordUse, Base, TypeOK
      <4> QED
        BY <4>1
    <3> QED
      BY <1>3, <3>1, <3>2
  <2> HIDE DEF new
  <2> QED
    BY <2>1, <2>2, <2>3, StageKeeps
<1> QED
  BY <1>1, <1>2, <1>3

\* The locks of the rows a request deletes
LEMMA DeletesOn ==
    ASSUME Base, NEW r \in Requests, DeleteExpired(r) \/ DeleteGrants(r)
    PROVE  Base'
<1> DEFINE gone == IF req[r].op = "issue" THEN Expired ELSE GrantsOf(req[r].user)
           new == [req[r] EXCEPT !.stage = "deleted"]
<1>0. /\ req[r] \in Request /\ req \in [Requests -> Request] /\ rowLock \in [Grants -> Requests \cup {none}]
      /\ none \notin Requests /\ Works(r)
  BY Types DEF Base
<1>1. /\ req' = [req EXCEPT ![r] = new] /\ UNCHANGED <<world, userLock>>
      /\ \A g \in gone : rowLock[g] = none
      /\ rowLock' = [g \in Grants |-> IF g \in gone THEN r ELSE rowLock[g]]
      /\ req[r].op \in {"issue"} \cup Revocations
  BY DEF DeleteExpired, DeleteGrants, To, Revocations
<1>2. /\ new \in Request /\ new.op = req[r].op /\ new.user = req[r].user /\ new.grant = req[r].grant
      /\ new.first = req[r].first /\ new.stage = "deleted"
  BY <1>0 DEF Request
<1> HIDE DEF new
<1>3. /\ rowLock' \in [Grants -> Requests \cup {none}]
      /\ \A g \in Grants : rowLock[g] \in Requests \ {r} => rowLock'[g] = rowLock[g]
      /\ \A g \in gone : g \in Grants => rowLock'[g] = r
      /\ req'[r] = new /\ \A q \in Requests : q # r => req'[q] = req[q]
  BY <1>0, <1>1
<1>4. ~req[r].first
  BY <1>0, <1>1 DEF Works, Revocations
<1>5. Works(r)'
  <2>1. UNCHANGED <<grant, userLock>>
    BY <1>1 DEF world
  <2>2. req[r].op \in Revocations => req[r].op # "issue"
    BY DEF Revocations
  <2> QED
    BY <1>0, <1>1, <1>2, <1>3, <1>4, <2>1, <2>2 DEF Works, Live, Usable, GrantsOf
<1>6. \A q \in Requests : q # r /\ req[q].op = "issue" => new.grant # req[q].grant
  BY <1>2 DEF Base, Works
<1> QED
  BY <1>1, <1>2, <1>3, <1>5, <1>6, RequestKeeps DEF world, Base, TypeOK

-----------------------------------------------------------------------------
(* A request comes in *)

Known(new, op, u, g, once) ==
    /\ new \in Request /\ new.op = op /\ new.user = u /\ new.grant = g /\ new.first = once
    /\ new.stage \in {"begun", "checked"}

LEMMA ArriveKeeps ==
    ASSUME Base, NEW r \in Requests, NEW op \in Operations, NEW u \in Users, NEW g \in Grants \cup {none},
           NEW once \in BOOLEAN, NEW new, Known(new, op, u, g, once),
           req' = [req EXCEPT ![r] = new],
           UNCHANGED world,
           userLock' \in [Users -> Requests \cup {none}], rowLock' \in [Grants -> Requests \cup {none}],
           \A v \in Users : userLock[v] \in Requests \ {r} => userLock'[v] = userLock[v],
           \A h \in Grants : rowLock[h] \in Requests \ {r} => rowLock'[h] = rowLock[h],
           op \in {"issue", "get", "head"} => g \in Grants,
           op = "issue" => Fresh(g),
           op \in {"get", "head"} => Usable(g),
           op \notin {"issue", "get", "head"} => g = none,
           op \in Revocations => userLock'[u] = r,
           once => op = "get" /\ rowLock'[g] = r /\ ~grant[g].first,
           op = "get" /\ ~once => grant[g].first
    PROVE  Base'
<1>1. /\ new \in Request /\ new.op = op /\ new.user = u /\ new.grant = g
      /\ new.first = once /\ new.stage \in {"begun", "checked"}
  BY DEF Known
<1>2. /\ req'[r] = new /\ \A q \in Requests : q # r => req'[q] = req[q]
      /\ UNCHANGED <<grant, file, audits, served, account, token>>
  BY Types DEF Base, world
<1>3. \A q \in Requests : q # r /\ req[q].op = "issue" => g # req[q].grant
  BY Types DEF Base, Works, Fresh
<1>4. Works(r)'
  <2>1. op = "issue" => ~Usable(g) /\ \A p \in Requests : p # r => req[p].grant # g
    BY DEF Fresh, Usable
  <2>2. once => Live(g)
    BY DEF Usable
  <2> QED
    BY <1>1, <1>2, <2>1, <2>2 DEF Works, Live, Usable, GrantsOf
<1>5. account' \in [Users -> BOOLEAN] /\ token' \in [Users -> [live : BOOLEAN, used : BOOLEAN]]
  BY <1>2 DEF Base, TypeOK
<1>6. \A q \in Requests : q # r /\ req[q].op = "issue" => new.grant # req[q].grant
  BY <1>1, <1>3
<1> QED
  BY <1>1, <1>2, <1>4, <1>5, <1>6, RequestKeeps

LEMMA BeginIs ==
    ASSUME NEW r \in Requests, NEW op \in Operations, NEW u \in Users, NEW g \in Grants \cup {none},
           NEW once \in BOOLEAN, Begin(r, op, u, g, once)
    PROVE  \E new : req' = [req EXCEPT ![r] = new] /\ Known(new, op, u, g, once)
<1> DEFINE new == [Idle EXCEPT !.op = op, !.user = u, !.grant = g, !.first = once]
<1>1. Known(new, op, u, g, once)
  BY DEF Idle, Request, Known
<1>2. req' = [req EXCEPT ![r] = new]
  BY DEF Begin
<1> HIDE DEF new
<1> QED
  BY <1>1, <1>2

LEMMA ArrivalKeeps ==
    ASSUME Base, NEW r \in Requests, Arrive(r)
    PROVE  Base'
<1>0. /\ userLock \in [Users -> Requests \cup {none}] /\ rowLock \in [Grants -> Requests \cup {none}]
      /\ grant \in [Grants -> Row] /\ none \notin Requests /\ none \notin Grants
  BY Types DEF Base
<1>1. ASSUME NEW u \in Users, NEW g \in Grants, BeginIssue(r, u, g) PROVE Base'
  <2>1. Begin(r, "issue", u, g, FALSE) /\ UNCHANGED <<world, userLock, rowLock>> /\ Fresh(g)
    BY <1>1 DEF BeginIssue, locks
  <2>2. PICK new : req' = [req EXCEPT ![r] = new] /\ Known(new, "issue", u, g, FALSE)
    BY <2>1, BeginIs DEF Operations, Revocations
  <2> QED
    BY <1>0, <2>1, <2>2, ArriveKeeps DEF Operations, Revocations
<1>2. ASSUME NEW g \in Grants, AuthorizeHead(r, g) PROVE Base'
  <2>1. /\ Begin(r, "head", grant[g].user, g, FALSE) /\ UNCHANGED <<world, userLock, rowLock>> /\ Usable(g)
        /\ grant[g].user \in Users
    BY <1>2 DEF AuthorizeHead, locks, Base, Owned, Usable
  <2>2. PICK new : req' = [req EXCEPT ![r] = new] /\ Known(new, "head", grant[g].user, g, FALSE)
    BY <2>1, BeginIs DEF Operations, Revocations
  <2> QED
    BY <1>0, <2>1, <2>2, ArriveKeeps DEF Operations, Revocations
<1>3. ASSUME NEW g \in Grants, Authorize(r, g) PROVE Base'
  <2>1. CASE grant[g].first /\ UNCHANGED locks /\ Begin(r, "get", grant[g].user, g, FALSE)
    <3>1. UNCHANGED <<world, userLock, rowLock>> /\ Usable(g) /\ grant[g].user \in Users
      BY <1>3, <2>1 DEF Authorize, locks, Base, Owned, Usable
    <3>2. PICK new : req' = [req EXCEPT ![r] = new] /\ Known(new, "get", grant[g].user, g, FALSE)
      BY <2>1, <3>1, BeginIs DEF Operations, Revocations
    <3> QED
      BY <1>0, <2>1, <3>1, <3>2, ArriveKeeps DEF Operations, Revocations
  <2>2. CASE /\ FirstAccess(g, r)
             /\ rowLock' = [rowLock EXCEPT ![g] = r] /\ userLock' = userLock
             /\ Begin(r, "get", grant[g].user, g, TRUE)
    <3>1. UNCHANGED world /\ Usable(g) /\ grant[g].user \in Users
      BY <1>3 DEF Authorize, Base, Owned, Usable
    <3>2. PICK new : req' = [req EXCEPT ![r] = new] /\ Known(new, "get", grant[g].user, g, TRUE)
      BY <2>2, <3>1, BeginIs DEF Operations, Revocations
    <3>3. /\ ~grant[g].first /\ rowLock[g] = none /\ rowLock'[g] = r /\ userLock' = userLock
          /\ rowLock' \in [Grants -> Requests \cup {none}]
          /\ \A h \in Grants : rowLock[h] \in Requests \ {r} => rowLock'[h] = rowLock[h]
      BY <1>0, <2>2 DEF FirstAccess
    <3> QED
      BY <1>0, <3>1, <3>2, <3>3, ArriveKeeps DEF Operations, Revocations
  <2> QED
    BY <1>3, <2>1, <2>2 DEF Authorize
<1>4. ASSUME NEW u \in Users, AuthenticateAgent(r, u) PROVE Base'
  <2> DEFINE stage == IF token[u].used THEN "checked" ELSE "begun"
             new == [Idle EXCEPT !.op = "agent", !.user = u, !.stage = stage]
  <2>1. req' = [req EXCEPT ![r] = new] /\ UNCHANGED <<world, userLock, rowLock>>
    BY <1>4 DEF AuthenticateAgent, locks
  <2>2. stage \in {"begun", "checked"}
    OBVIOUS
  <2> HIDE DEF stage
  <2>3. Known(new, "agent", u, none, FALSE)
    BY <2>2 DEF Known, Idle, Request, Operations
  <2> HIDE DEF new
  <2> QED
    BY <1>0, <2>1, <2>3, ArriveKeeps DEF Operations, Revocations
<1>5. ASSUME NEW u \in Users, NEW op \in Revocations, BeginRevoke(r, u, op) PROVE Base'
  <2>1. /\ Begin(r, op, u, none, FALSE) /\ UNCHANGED <<world, rowLock>>
        /\ userLock[u] = none /\ userLock' = [userLock EXCEPT ![u] = r]
    BY <1>5 DEF BeginRevoke
  <2>2. PICK new : req' = [req EXCEPT ![r] = new] /\ Known(new, op, u, none, FALSE)
    BY <2>1, BeginIs DEF Operations, Revocations
  <2>3. /\ userLock' \in [Users -> Requests \cup {none}] /\ userLock'[u] = r
        /\ \A v \in Users : userLock[v] \in Requests \ {r} => userLock'[v] = userLock[v]
    BY <1>0, <2>1
  <2>4. op \in Operations /\ op \notin {"none", "issue", "get", "head"}
    BY DEF Operations, Revocations
  <2> QED
    BY <1>0, <2>1, <2>2, <2>3, <2>4, ArriveKeeps
<1> QED
  BY <1>1, <1>2, <1>3, <1>4, <1>5 DEF Arrive

-----------------------------------------------------------------------------
(* A request ends *)

\* Revocations, refusals, failures and deliveries to AI clients leave the grants as they are.
LEMMA NoEffectKeeps ==
    ASSUME Base, NEW r \in Requests, End(r), UNCHANGED world
    PROVE  Base'
<1>1. UNCHANGED <<account, token, grant, file, audits, served>>
  BY DEF world
<1>2. AuditedOnce' /\ GrantsRevoked'
  BY <1>1 DEF Base, AuditedOnce, GrantsRevoked
<1> QED
  BY <1>1, <1>2, EndKeeps, Types DEF Base, TypeOK

LEMMA InsertKeeps ==
    ASSUME Base, NEW r \in Requests, InsertGrant(r)
    PROVE  Base'
<1> DEFINE place == req[r].grant
           u == req[r].user
           gone(g) == rowLock[g] = r /\ g # place
           new == NewGrant(u)
<1>0. grant \in [Grants -> Row] /\ Works(r) /\ req[r].op = "issue"
  BY Types DEF Base, InsertGrant
<1>1. /\ u \in Users /\ place \in Grants /\ userLock[u] \in {none, r}
      /\ End(r) /\ UNCHANGED <<account, token, file>>
      /\ grant' = [g \in Grants |-> IF g = place THEN new ELSE IF gone(g) THEN NoGrant ELSE grant[g]]
      /\ audits' = [g \in Grants |-> IF g = place \/ gone(g) THEN 0 ELSE audits[g]]
      /\ served' = [g \in Grants |-> ~(g = place \/ gone(g)) /\ served[g]]
  BY <1>0 DEF InsertGrant, Referable, Works
<1>2. /\ new \in Row /\ new.live /\ new.user = u /\ ~new.first /\ ~new.outlived
      /\ NoGrant \in Row /\ ~NoGrant.live /\ ~NoGrant.first /\ ~NoGrant.outlived
  BY <1>1 DEF NewGrant, NoGrant, Row
<1> HIDE DEF new
<1>3. /\ grant' \in [Grants -> Row] /\ grant'[place] = new
      /\ \A g \in Grants : g # place /\ gone(g) => grant'[g] = NoGrant
      /\ \A g \in Grants : g # place /\ ~gone(g) => grant'[g] = grant[g]
  BY <1>0, <1>1, <1>2
<1>4. audits' \in [Grants -> Nat] /\ served' \in [Grants -> BOOLEAN]
  <2>1. audits \in [Grants -> Nat] /\ served \in [Grants -> BOOLEAN]
    BY DEF Base, TypeOK
  <2>2. \A g \in Grants : audits'[g] \in Nat
    BY <1>1, <2>1
  <2> QED
    BY <1>1, <2>1, <2>2
<1>5. AuditedOnce'
  <2>1. ASSUME NEW g \in Grants, g = place \/ gone(g)
        PROVE  audits'[g] = 0 /\ ~grant'[g].first /\ ~served'[g]
    BY <1>1, <1>2, <1>3, <2>1
  <2>2. ASSUME NEW g \in Grants, g # place, ~gone(g)
        PROVE  audits'[g] = audits[g] /\ grant'[g] = grant[g] /\ served'[g] = served[g]
    BY <1>1, <1>3, <2>2 DEF Base, TypeOK
  <2> QED
    BY <2>1, <2>2 DEF Base, AuditedOnce
<1>6. GrantsRevoked'
  BY <1>2, <1>3 DEF Base, GrantsRevoked
<1> QED
  BY <1>0, <1>1, <1>2, <1>3, <1>4, <1>5, <1>6, EndKeeps DEF Base, TypeOK

LEMMA DeliverKeeps ==
    ASSUME Base, NEW r \in Requests, Deliver(r)
    PROVE  Base'
<1> DEFINE g == req[r].grant
           once == grant[g].first \/ req[r].first
           out == served[g] \/ (Live(g) /\ req[r].op = "get")
<1>0. /\ grant \in [Grants -> Row] /\ Works(r) /\ req[r] \in Request
      /\ audits \in [Grants -> Nat] /\ served \in [Grants -> BOOLEAN]
  BY Types DEF Base, TypeOK
<1>1. /\ g \in Grants /\ grant[g] \in Row /\ req[r].op \in {"get", "head"}
      /\ End(r) /\ UNCHANGED <<account, token, file>>
      /\ audits' = IF req[r].first THEN [audits EXCEPT ![g] = @ + 1] ELSE audits
  BY <1>0 DEF Deliver, Works, Audited
<1>2. grant' = [grant EXCEPT ![g].first = once] /\ served' = [served EXCEPT ![g] = out]
  BY DEF Deliver
<1>3. once \in BOOLEAN /\ out \in BOOLEAN
  BY <1>0, <1>1 DEF Row, Request, Live
<1>4. /\ req[r].first => rowLock[g] = r /\ grant[g].live /\ ~grant[g].first /\ req[r].op = "get"
      /\ req[r].op = "get" /\ ~req[r].first => grant[g].first \/ ~grant[g].live
  BY <1>0 DEF Works, Live
<1>5. /\ audits[g] = (IF grant[g].first THEN 1 ELSE 0) /\ (served[g] => audits[g] = 1)
      /\ ~grant[g].outlived
  BY <1>1 DEF Base, AuditedOnce, GrantsRevoked
<1>6. /\ req[r].first => once = TRUE
      /\ ~req[r].first => once = grant[g].first
      /\ out /\ ~req[r].first => served[g] \/ grant[g].first
  <2>1. grant[g].first \in BOOLEAN /\ req[r].first \in BOOLEAN
    BY <1>0, <1>1 DEF Row, Request
  <2>2. req[r].first => once = TRUE
    BY <2>1
  <2>3. ~req[r].first => once = grant[g].first
    BY <2>1
  <2>4. out /\ ~req[r].first => served[g] \/ grant[g].first
    BY <1>4 DEF Live
  <2> QED
    BY <2>2, <2>3, <2>4
<1> HIDE DEF once, out
<1>7. /\ grant'[g] = [grant[g] EXCEPT !.first = once] /\ served'[g] = out
      /\ \A h \in Grants : h # g => grant'[h] = grant[h] /\ served'[h] = served[h] /\ audits'[h] = audits[h]
  BY <1>0, <1>1, <1>2
<1>8. /\ grant'[g] \in Row /\ grant'[g].first = once /\ grant'[g].live = grant[g].live
      /\ grant'[g].user = grant[g].user /\ grant'[g].expired = grant[g].expired
      /\ grant'[g].outlived = grant[g].outlived
  BY <1>1, <1>3, <1>7 DEF Row
<1>9. grant' \in [Grants -> Row] /\ served' \in [Grants -> BOOLEAN] /\ audits' \in [Grants -> Nat]
  BY <1>0, <1>1, <1>2, <1>3, <1>7, <1>8
<1>10. ~req[r].first => grant' = grant
  BY <1>0, <1>1, <1>2, <1>6 DEF Row
<1>11. AuditedOnce'
  <2>1. CASE req[r].first
    <3>1. audits[g] = 0
      BY <1>4, <1>5, <2>1
    <3>2. audits'[g] = 1 /\ grant'[g].first
      BY <1>0, <1>1, <1>6, <1>8, <2>1, <3>1
    <3> QED
      BY <1>7, <3>2 DEF Base, AuditedOnce
  <2>2. CASE ~req[r].first
    <3>0. served'[g] => served[g] \/ grant[g].first
      BY <1>6, <1>7, <2>2
    <3>1. audits' = audits /\ (served'[g] => audits[g] = 1)
      BY <1>1, <1>5, <2>2, <3>0
    <3> QED
      BY <1>7, <1>10, <2>2, <3>1 DEF Base, AuditedOnce
  <2> QED
    BY <2>1, <2>2
<1>12. GrantsRevoked'
  BY <1>5, <1>7, <1>8 DEF Base, GrantsRevoked
<1>13. ASSUME NEW h \in Grants
       PROVE  \/ grant'[h] = grant[h]
              \/ /\ rowLock[h] = r
                 /\ \/ ~grant'[h].live
                    \/ /\ grant'[h].first /\ grant'[h].live = grant[h].live
                       /\ grant'[h].user = grant[h].user /\ grant'[h].expired = grant[h].expired
  <2>1. CASE h = g /\ req[r].first
    BY <1>4, <1>6, <1>8, <2>1
  <2>2. CASE h # g
    BY <1>7, <2>2
  <2> QED
    BY <1>10, <2>1, <2>2
<1> QED
  BY <1>1, <1>9, <1>11, <1>12, <1>13, EndKeeps DEF Base, TypeOK

LEMMA RevocationKeeps ==
    ASSUME Base, NEW r \in Requests, CommitRevocation(r)
    PROVE  Base'
<1> DEFINE u == req[r].user
           gone == {g \in Grants : rowLock[g] = r}
<1>0. /\ grant \in [Grants -> Row] /\ Works(r) /\ req[r].op \in Revocations /\ req[r].stage = "deleted"
      /\ audits \in [Grants -> Nat] /\ served \in [Grants -> BOOLEAN]
  BY Types DEF Base, TypeOK, CommitRevocation
<1>1. \A g \in GrantsOf(u) : g \in gone
  BY <1>0 DEF Works, GrantsOf
<1> DEFINE reset == (req[r].op = "reset")
<1>2. /\ grant' = [g \in Grants |-> IF g \in gone THEN NoGrant
                                    ELSE IF g \in GrantsOf(u) THEN [grant[g] EXCEPT !.outlived = TRUE]
                                    ELSE grant[g]]
      /\ audits' = [g \in Grants |-> IF g \in gone THEN 0 ELSE audits[g]]
      /\ served' = [g \in Grants |-> g \notin gone /\ served[g]]
      /\ token' = [token EXCEPT ![u].live = FALSE]
      /\ account' = [account EXCEPT ![u] = reset] /\ reset \in BOOLEAN
      /\ End(r) /\ file' = file
  BY DEF CommitRevocation
<1>3. /\ NoGrant \in Row /\ ~NoGrant.live /\ ~NoGrant.first /\ ~NoGrant.outlived
  BY DEF NoGrant, Row
<1>4. /\ \A g \in gone : grant'[g] = NoGrant /\ audits'[g] = 0 /\ ~served'[g]
      /\ \A g \in Grants \ gone : grant'[g] = grant[g] /\ audits'[g] = audits[g] /\ served'[g] = served[g]
  BY <1>0, <1>1, <1>2
<1> HIDE DEF gone, reset
<1>5. /\ grant' \in [Grants -> Row] /\ audits' \in [Grants -> Nat] /\ served' \in [Grants -> BOOLEAN]
  BY <1>0, <1>2, <1>3, <1>4
<1>6. account' \in [Users -> BOOLEAN] /\ token' \in [Users -> [live : BOOLEAN, used : BOOLEAN]]
  <2>1. account \in [Users -> BOOLEAN] /\ token \in [Users -> [live : BOOLEAN, used : BOOLEAN]]
    BY DEF Base, TypeOK
  <2>2. account' \in [Users -> BOOLEAN]
    BY <1>2, <2>1
  <2>3. token' \in [Users -> [live : BOOLEAN, used : BOOLEAN]]
    BY <1>2, <2>1
  <2> QED
    BY <2>2, <2>3
<1>7. AuditedOnce' /\ GrantsRevoked'
  BY <1>3, <1>4 DEF Base, AuditedOnce, GrantsRevoked
<1>8. \A g \in Grants : grant'[g] = grant[g] \/ (rowLock[g] = r /\ ~grant'[g].live)
  BY <1>3, <1>4 DEF gone
<1> QED
  BY <1>2, <1>5, <1>6, <1>7, <1>8, EndKeeps

-----------------------------------------------------------------------------
(* What happens around the requests *)

\* Expiry ends what a grant may do, and nothing that is under way.
LEMMA ExpireKeeps ==
    ASSUME Base, NEW g \in Grants, Expire(g)
    PROVE  Base'
<1>1. /\ grant \in [Grants -> Row] /\ grant' = [grant EXCEPT ![g].expired = TRUE]
      /\ UNCHANGED <<account, token, file, req, userLock, rowLock, audits, served>>
  BY Types DEF Base, Expire, locks
<1>2. /\ grant' \in [Grants -> Row]
      /\ \A h \in Grants : /\ grant'[h].live = grant[h].live /\ grant'[h].user = grant[h].user
                           /\ grant'[h].first = grant[h].first /\ grant'[h].outlived = grant[h].outlived
                           /\ grant[h].expired => grant'[h].expired
  <2>1. [grant[g] EXCEPT !.expired = TRUE] \in Row
    BY <1>1 DEF Row
  <2>2. LET new == [grant[g] EXCEPT !.expired = TRUE] IN
        /\ new.live = grant[g].live /\ new.user = grant[g].user /\ new.first = grant[g].first
        /\ new.outlived = grant[g].outlived /\ new.expired
    BY <1>1 DEF Row
  <2>3. grant'[g] = [grant[g] EXCEPT !.expired = TRUE] /\ \A h \in Grants : h # g => grant'[h] = grant[h]
    BY <1>1
  <2>4. grant' \in [Grants -> Row]
    BY <1>1, <2>1
  <2> QED
    BY <2>2, <2>3, <2>4
<1>3. TypeOK' /\ Owned' /\ AuditedOnce' /\ GrantsRevoked'
  BY <1>1, <1>2 DEF Base, TypeOK, Row, Owned, Live, AuditedOnce, GrantsRevoked
<1>4. ASSUME NEW r \in Requests PROVE Works(r)'
  <2>1. Works(r)
    BY DEF Base
  <2>2. req[r].first => req[r].grant \in Grants
    BY <2>1 DEF Works
  <2> QED
    BY <1>1, <1>2, <2>1, <2>2 DEF Works, Live, Usable, GrantsOf
<1> QED
  BY <1>3, <1>4 DEF Base

LEMMA AroundKeeps ==
    ASSUME Base, (\E u \in Users : Activate(u) \/ IntervalPasses(u)) \/ FileChanges \/ UNCHANGED vars
    PROVE  Base'
<1>0. req \in [Requests -> Request] /\ \A r \in Requests : Works(r)
  BY Types DEF Base
<1>1. /\ UNCHANGED <<grant, userLock, rowLock, audits, served>>
      /\ account' \in [Users -> BOOLEAN] /\ token' \in [Users -> [live : BOOLEAN, used : BOOLEAN]]
  <2>1. account \in [Users -> BOOLEAN] /\ token \in [Users -> [live : BOOLEAN, used : BOOLEAN]]
    BY DEF Base, TypeOK
  <2>2. CASE \E u \in Users : Activate(u)
    BY <2>1, <2>2 DEF Activate, locks
  <2>3. CASE \E u \in Users : IntervalPasses(u)
    <3>1. PICK u \in Users : IntervalPasses(u)
      BY <2>3
    <3>2. token' = [token EXCEPT ![u].used = FALSE] /\ account' = account
          /\ UNCHANGED <<grant, userLock, rowLock, audits, served>>
      BY <3>1 DEF IntervalPasses, locks
    <3> QED
      BY <2>1, <3>2
  <2>4. CASE FileChanges \/ UNCHANGED vars
    BY <2>1, <2>4 DEF FileChanges, vars, world, locks
  <2> QED
    BY <2>2, <2>3, <2>4
<1>2. CASE UNCHANGED <<req, file>>
  <2>1. \A r \in Requests : Works(r)'
    BY <1>0, <1>1, <1>2 DEF Works, Live, Usable, GrantsOf
  <2>2. TypeOK' /\ Owned' /\ AuditedOnce' /\ GrantsRevoked'
    BY <1>1, <1>2 DEF Base, TypeOK, Owned, Live, AuditedOnce, GrantsRevoked
  <2> QED
    BY <2>1, <2>2 DEF Base
<1>3. CASE FileChanges
  <2>1. file' \in [disk : Versions, version : Versions, offered : BOOLEAN]
    BY <1>3 DEF FileChanges, Base, TypeOK
  <2>2. Indexed' \in SUBSET Versions
    BY <2>1 DEF Indexed
  <2>3. ASSUME NEW r \in Requests
        PROVE  /\ req'[r] \in Request /\ req'[r].op = req[r].op /\ req'[r].user = req[r].user
               /\ req'[r].grant = req[r].grant /\ req'[r].first = req[r].first /\ req'[r].stage = req[r].stage
    <3> DEFINE seen == IF req[r].stage = "read" THEN req[r].seen \cup Indexed' ELSE req[r].seen
    <3>1. req'[r] = [req[r] EXCEPT !.seen = seen]
      BY <1>3 DEF FileChanges
    <3>2. req[r] \in Request /\ seen \in SUBSET Versions
      BY <1>0, <2>2 DEF Request
    <3> HIDE DEF seen
    <3> QED
      BY <3>1, <3>2 DEF Request
  <2>4. req' \in [Requests -> Request]
    <3>1. DOMAIN req' = Requests /\ req' = [r \in Requests |-> req'[r]]
      BY <1>3 DEF FileChanges
    <3> QED
      BY <2>3, <3>1
  <2>5. \A r \in Requests : Works(r)'
    BY <1>0, <1>1, <2>3 DEF Works, Live, Usable, GrantsOf
  <2>6. TypeOK' /\ Owned' /\ AuditedOnce' /\ GrantsRevoked'
    BY <1>1, <2>1, <2>4 DEF Base, TypeOK, Request, Operations, Owned, Live, AuditedOnce, GrantsRevoked
  <2> QED
    BY <2>5, <2>6 DEF Base
<1> QED
  BY <1>2, <1>3 DEF Activate, IntervalPasses, vars, world

LEMMA BaseInit == Init => Base
<1> SUFFICES ASSUME Init PROVE Base
  OBVIOUS
<1>1. Idle \in Request /\ NoGrant \in Row /\ ~NoGrant.live /\ ~NoGrant.first /\ ~NoGrant.outlived
  BY DEF Idle, NoGrant, Request, Operations, Row
<1>2. TypeOK
  BY <1>1, FileAccessTypes DEF Init, TypeOK, Request, Operations, Row
<1>3. \A r \in Requests : Works(r)
  BY DEF Init, Works, Idle, Revocations
<1>4. Owned /\ AuditedOnce /\ GrantsRevoked
  BY <1>1 DEF Init, Owned, Live, AuditedOnce, GrantsRevoked
<1> QED
  BY <1>2, <1>3, <1>4 DEF Base

LEMMA BaseStep == Base /\ [Next]_vars => Base'
<1> SUFFICES ASSUME Base, [Next]_vars PROVE Base'
  OBVIOUS
<1>1. ASSUME NEW r \in Requests, Step(r) \/ Abort(r) PROVE Base'
  <2>1. CASE DeliverToAgent(r) \/ Refused(r) \/ DeadlockVictim(r) \/ Abort(r)
    BY <2>1, NoEffectKeeps DEF DeliverToAgent, Refused, DeadlockVictim, Abort
  <2> QED
    BY <1>1, <2>1, ReadsOn, DeletesOn, InsertKeeps, DeliverKeeps, RevocationKeeps DEF Step
<1> QED
  BY <1>1, ArrivalKeeps, ExpireKeeps, AroundKeeps DEF Next

LEMMA BaseHolds == Spec => []Base
  BY BaseInit, BaseStep, PTL DEF Spec

\* Every row and every request keeps its type.
THEOREM TypeCorrect == Spec => []TypeOK
<1>1. Base => TypeOK
  BY DEF Base
<1> QED
  BY <1>1, BaseHolds, PTL

\* However many requests present a grant at the same time, and however they end, a delivery
\* by it is recorded as an access exactly once (AuditedOnce).
THEOREM FirstAccessOnce == Spec => []AuditedOnce
<1>1. Base => AuditedOnce
  BY DEF Base
<1> QED
  BY <1>1, BaseHolds, PTL

\* No grant survives the revocation of its owner's credentials, nor one that is inserted or
\* used while the revocation is running (GrantsRevoked).
THEOREM RevocationComplete == Spec => []GrantsRevoked
<1>1. Base => GrantsRevoked
  BY DEF Base
<1> QED
  BY <1>1, BaseHolds, PTL

-----------------------------------------------------------------------------
(* What is sent *)

SentInv == DeliveredIndexed /\ \A r \in Requests : Reads(r)

LEMMA SentStep ==
    ASSUME Base, SentInv, [Next]_vars
    PROVE  SentInv'
<1>0. /\ req \in [Requests -> Request] /\ ~Idle.other /\ Idle.stage = "begun"
      /\ \A r \in Requests : ~req[r].other /\ Reads(r)
  BY Types DEF Base, SentInv, DeliveredIndexed, Idle
<1> DEFINE Safe(new) == ~new.other /\ (new.stage = "read" => new.row \in new.seen)
<1>1. ASSUME NEW r \in Requests, NEW new, Safe(new), req' = [req EXCEPT ![r] = new]
      PROVE  SentInv'
  <2>1. req'[r] = new /\ \A q \in Requests : q # r => req'[q] = req[q]
    BY <1>0, <1>1
  <2> QED
    BY <1>0, <1>1, <2>1 DEF SentInv, DeliveredIndexed, Reads
<1>2. ASSUME NEW r \in Requests, End(r) PROVE SentInv'
  BY <1>0, <1>1, <1>2 DEF End
<1>3. ASSUME NEW r \in Requests, NEW stage \in {"checked", "deleted"},
             req' = [req EXCEPT ![r] = [req[r] EXCEPT !.stage = stage]]
      PROVE  SentInv'
  <2> DEFINE new == [req[r] EXCEPT !.stage = stage]
  <2>1. ~new.other /\ new.stage # "read"
    BY <1>0 DEF Request
  <2> HIDE DEF new
  <2> QED
    BY <1>1, <1>3, <2>1 DEF new
<1>4. ASSUME NEW r \in Requests, ReadRecord(r) PROVE SentInv'
  <2> DEFINE new == [req[r] EXCEPT !.stage = "read", !.row = file.version, !.seen = Indexed]
  <2>1. ~new.other /\ new.row = file.version /\ new.seen = Indexed
    BY <1>0 DEF Request
  <2>2. file.version \in Indexed /\ req' = [req EXCEPT ![r] = new]
    BY <1>4 DEF ReadRecord, Indexed
  <2> HIDE DEF new
  <2> QED
    BY <1>1, <2>1, <2>2
<1>5. ASSUME NEW r \in Requests, OpenFile(r) PROVE SentInv'
  <2> DEFINE other == file.disk \notin req[r].seen
             new == [req[r] EXCEPT !.stage = "opened", !.row = 0, !.seen = {}, !.other = other]
  <2>1. ~other
    BY <1>0, <1>5 DEF OpenFile, Matches, Reads
  <2> HIDE DEF other
  <2>2. ~new.other /\ new.stage # "read"
    BY <1>0, <2>1 DEF Request
  <2>3. req' = [req EXCEPT ![r] = new]
    BY <1>5 DEF OpenFile, other
  <2> HIDE DEF new
  <2> QED
    BY <1>1, <2>2, <2>3
<1>6. ASSUME NEW r \in Requests, NEW op, NEW u, NEW g, NEW once, NEW stage,
             \/ req' = [req EXCEPT ![r] = [Idle EXCEPT !.op = op, !.user = u, !.grant = g, !.first = once]]
             \/ /\ req' = [req EXCEPT ![r] = [Idle EXCEPT !.op = op, !.user = u, !.stage = stage]]
                /\ stage # "read"
      PROVE  SentInv'
  <2> DEFINE new == [Idle EXCEPT !.op = op, !.user = u, !.grant = g, !.first = once]
             agent == [Idle EXCEPT !.op = op, !.user = u, !.stage = stage]
  <2>1. /\ ~new.other /\ new.stage = "begun"
        /\ ~agent.other /\ agent.stage = stage
    BY DEF Idle
  <2> HIDE DEF new, agent
  <2> QED
    BY <1>1, <1>6, <2>1 DEF new, agent
<1>7. ASSUME NEW r \in Requests, Arrive(r) PROVE SentInv'
  <2>1. ASSUME NEW op, NEW u, NEW g, NEW once, Begin(r, op, u, g, once) PROVE SentInv'
    BY <1>6, <2>1 DEF Begin
  <2>2. ASSUME NEW u \in Users, AuthenticateAgent(r, u) PROVE SentInv'
    <3>1. PICK stage \in {"checked", "begun"} :
             req' = [req EXCEPT ![r] = [Idle EXCEPT !.op = "agent", !.user = u, !.stage = stage]]
      BY <2>2 DEF AuthenticateAgent
    <3> QED
      BY <1>6, <3>1
  <2> QED
    BY <1>7, <2>1, <2>2 DEF Arrive, BeginIssue, Authorize, AuthorizeHead, BeginRevoke
<1>8. CASE FileChanges
  <2>1. ASSUME NEW r \in Requests
        PROVE  /\ req'[r].other = req[r].other /\ req'[r].stage = req[r].stage
               /\ req'[r].row = req[r].row /\ req[r].seen \subseteq req'[r].seen
    <3> DEFINE seen == IF req[r].stage = "read" THEN req[r].seen \cup Indexed' ELSE req[r].seen
    <3>1. req'[r] = [req[r] EXCEPT !.seen = seen] /\ req[r].seen \subseteq seen
      BY <1>8 DEF FileChanges
    <3> HIDE DEF seen
    <3> QED
      BY <1>0, <3>1 DEF Request
  <2> QED
    BY <1>0, <2>1 DEF SentInv, DeliveredIndexed, Reads
<1>9. CASE UNCHANGED req
  BY <1>9 DEF SentInv, DeliveredIndexed, Reads
<1>10. ASSUME NEW r \in Requests, Step(r) PROVE SentInv'
  <2>1. CASE DeleteExpired(r) \/ CheckActor(r) \/ RecordUse(r) \/ DeleteGrants(r)
    BY <1>3, <2>1 DEF DeleteExpired, CheckActor, RecordUse, DeleteGrants, To
  <2>2. CASE \/ InsertGrant(r) \/ Deliver(r) \/ DeliverToAgent(r) \/ CommitRevocation(r)
             \/ Refused(r) \/ DeadlockVictim(r)
    BY <1>2, <2>2 DEF InsertGrant, Deliver, DeliverToAgent, CommitRevocation, Refused, DeadlockVictim
  <2> QED
    BY <1>4, <1>5, <1>10, <2>1, <2>2 DEF Step
<1> QED
  BY <1>2, <1>7, <1>8, <1>9, <1>10 DEF Next, Abort, Activate, IntervalPasses, Expire, vars

\* What a delivery sends was indexed, healthy and not archived at some time during its request,
\* whatever happens to the file and the index meanwhile (DeliveredIndexed).
THEOREM SendsIndexed == Spec => []DeliveredIndexed
<1>1. Init => SentInv
  BY DEF Init, SentInv, DeliveredIndexed, Reads, Idle
<1>2. SentInv => DeliveredIndexed
  BY DEF SentInv
<1>3. Base /\ SentInv /\ [Next]_vars => SentInv'
  BY SentStep
<1> QED
  BY <1>1, <1>2, <1>3, BaseHolds, PTL DEF Spec

=============================================================================
