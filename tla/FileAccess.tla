----------------------------- MODULE FileAccess -----------------------------
(***************************************************************************)
(* Delivery of one archive file through access grants and to AI clients    *)
(* (services/file_access.py, routes/files.py, agent_file_content of        *)
(* routes/agent.py), while its owner's credentials are revoked.            *)
(*                                                                         *)
(* A request is one transaction under READ COMMITTED; its steps are its    *)
(* statements.  A row it updated or deleted stays locked until it ends,    *)
(* and a row that refers to an account cannot be inserted while another    *)
(* transaction holds the account.                                          *)
(*                                                                         *)
(* A definition whose name starts with Wrong is the one after it with a    *)
(* mistake in it, and no part of Spec.                                     *)
(***************************************************************************)
EXTENDS Naturals

CONSTANTS
    Users,       \* administrators, each with one access token
    Requests,    \* requests that are served at the same time
    Grants,      \* bound: grants in the database at one time
    none,        \* a model value
    Versions     \* what the file can be: size, mtime and content

ASSUME FileAccessTypes ==
    /\ none \notin Users \cup Requests \cup Grants
    /\ Versions \subseteq Nat \ {0} /\ Versions # {}

VARIABLES
    account,  \* account[u]: the account is active
    token,    \* token[u]: its access token is live, and was used in this interval
    grant,    \* grant[g]: a row of file_access_grants
    file,     \* what is on disk; the version of the record, and whether it is healthy and not archived
    req,      \* req[r]: what request r is doing
    userLock, \* userLock[u]: the request that holds the account FOR UPDATE
    rowLock,  \* rowLock[g]: the request whose uncommitted write locks the grant
    audits,   \* audits[g]: activities of accesses by this grant
    \* bookkeeping of the model
    served    \* served[g]: the file was delivered by this grant

locks == <<userLock, rowLock>>
world == <<account, token, grant, file, audits, served>>
vars  == <<world, req, locks>>

\* seen: the versions that were indexed since the record was read;
\* other: the descriptor holds a version that is not among them
Idle == [op |-> "none", user |-> none, grant |-> none, stage |-> "begun", first |-> FALSE,
         row |-> 0, seen |-> {}, other |-> FALSE]

\* outlived: it was there when a revocation of its owner ended.
NoGrant == [live |-> FALSE, user |-> none, first |-> FALSE, expired |-> FALSE, outlived |-> FALSE]

\* The versions a delivery may hand out now
WrongIndexed == IF file.offered THEN {file.version} ELSE {0}
Indexed == IF file.offered THEN {file.version} ELSE {}

Init ==
    /\ account = [u \in Users |-> TRUE]
    /\ token = [u \in Users |-> [live |-> TRUE, used |-> FALSE]]
    /\ grant = [g \in Grants |-> NoGrant]
    /\ \E v \in Versions :
          file = [disk |-> v, version |-> v, offered |-> TRUE]
    /\ req = [r \in Requests |-> Idle]
    /\ userLock = [u \in Users |-> none] /\ rowLock = [g \in Grants |-> none]
    /\ audits = [g \in Grants |-> 0] /\ served = [g \in Grants |-> FALSE]
   

Live(g)   == grant[g].live
Usable(g) == Live(g) /\ ~grant[g].expired

\* The row of an account can be referred to.
WrongReferable(r, u) == TRUE
Referable(r, u) == userLock[u] \in {none, r}

WrongEnd(r) ==
    /\ req' = [req EXCEPT ![r] = Idle]
    /\ UNCHANGED locks
\* The transaction is over: committed, if the other variables change, or rolled back.
End(r) ==
    /\ req' = [req EXCEPT ![r] = Idle]
    /\ userLock' = [u \in Users |-> IF userLock[u] = r THEN none ELSE userLock[u]]
    /\ rowLock' = [g \in Grants |-> IF rowLock[g] = r THEN none ELSE rowLock[g]]

To(r, stage) == req' = [req EXCEPT ![r].stage = stage]

Begin(r, op, u, g, first) ==
    req' = [req EXCEPT ![r] = [Idle EXCEPT !.op = op, !.user = u, !.grant = g, !.first = first]]

-----------------------------------------------------------------------------
(* Reading the index and the file *)

Reading(r) == \/ req[r].stage = "checked"
              \/ req[r].op = "issue" /\ req[r].stage = "begun"

\* _file_record
ReadRecord(r) ==
    /\ Reading(r)
    /\ Indexed # {}
    /\ req' = [req EXCEPT ![r].stage = "read", ![r].row = file.version, ![r].seen = Indexed]
    /\ UNCHANGED <<world, locks>>

\* _open_verified_file compares the record with the descriptor it has opened.
WrongMatches(r) == TRUE
Matches(r) == file.disk = req[r].row

OpenFile(r) ==
    /\ req[r].stage = "read"
    /\ Matches(r)
    /\ req' = [req EXCEPT ![r].stage = "opened", ![r].row = 0, ![r].seen = {},
                          ![r].other = file.disk \notin req[r].seen]
    /\ UNCHANGED <<world, locks>>

-----------------------------------------------------------------------------
(* Issuing a grant *)

\* A place for a grant to be inserted: none is there, or one that will be deleted before
Fresh(g) == (Live(g) => grant[g].expired) /\ \A q \in Requests : req[q].grant # g

\* The session of u is valid when the request comes in.
BeginIssue(r, u, g) ==
    /\ req[r].op = "none" /\ account[u] /\ Fresh(g)
    /\ Begin(r, "issue", u, g, FALSE)
    /\ UNCHANGED <<world, locks>>

\* DELETE of the expired grants of all users
Expired == {g \in Grants : Live(g) /\ grant[g].expired}

DeleteExpired(r) ==
    /\ req[r].op = "issue" /\ req[r].stage = "opened"
    /\ \A g \in Expired : rowLock[g] = none
    /\ rowLock' = [g \in Grants |-> IF g \in Expired THEN r ELSE rowLock[g]]
    /\ To(r, "deleted")
    /\ UNCHANGED <<world, userLock>>

NewGrant(u) == [NoGrant EXCEPT !.live = TRUE, !.user = u]

InsertGrant(r) ==
    LET gone(g) == rowLock[g] = r /\ g # req[r].grant IN
    /\ req[r].op = "issue" /\ req[r].stage = "deleted"
    /\ Referable(r, req[r].user)
    /\ grant' = [g \in Grants |->
                    IF g = req[r].grant THEN NewGrant(req[r].user)
                    ELSE IF gone(g) THEN NoGrant ELSE grant[g]]
    /\ audits' = [g \in Grants |-> IF g = req[r].grant \/ gone(g) THEN 0 ELSE audits[g]]
    /\ served' = [g \in Grants |-> ~(g = req[r].grant \/ gone(g)) /\ served[g]]
    /\ End(r)
    /\ UNCHANGED <<account, token, file>>

-----------------------------------------------------------------------------
(* Delivery by a grant *)

\* UPDATE ... WHERE first_accessed_at IS NULL: it waits for another request's
\* uncommitted write of the row, and reads the row again.
FirstAccess(g, r) == ~grant[g].first /\ rowLock[g] = none

Authorize(r, g) ==
    /\ req[r].op = "none" /\ Usable(g)
    /\ \/ grant[g].first /\ UNCHANGED locks /\ Begin(r, "get", grant[g].user, g, FALSE)
       \/ /\ FirstAccess(g, r)
          /\ rowLock' = [rowLock EXCEPT ![g] = r] /\ userLock' = userLock
          /\ Begin(r, "get", grant[g].user, g, TRUE)
    /\ UNCHANGED world

\* HEAD reads the grant only.
AuthorizeHead(r, g) ==
    /\ req[r].op = "none" /\ Usable(g)
    /\ Begin(r, "head", grant[g].user, g, FALSE)
    /\ UNCHANGED <<world, locks>>

CheckActor(r) ==
    /\ req[r].op \in {"get", "head"} /\ req[r].stage = "begun"
    /\ account[req[r].user]
    /\ To(r, "checked")
    /\ UNCHANGED <<world, locks>>

\* The commit of content(): the first access and its activity, then the response streams fd.
WrongAudited(r) == req[r].op = "get"
Audited(r) == req[r].first

Deliver(r) ==
    LET g == req[r].grant IN
    /\ req[r].op \in {"get", "head"} /\ req[r].stage = "opened"
    /\ Audited(r) => Referable(r, req[r].user)
    /\ grant' = [grant EXCEPT ![g].first = @ \/ req[r].first]
    /\ audits' = IF Audited(r) THEN [audits EXCEPT ![g] = @ + 1] ELSE audits
    /\ served' = [served EXCEPT ![g] = @ \/ (Live(g) /\ req[r].op = "get")]
    /\ End(r)
    /\ UNCHANGED <<account, token, file>>

-----------------------------------------------------------------------------
(* Delivery to AI clients *)

AuthenticateAgent(r, u) ==
    /\ req[r].op = "none"
    /\ token[u].live /\ account[u]
    /\ req' = [req EXCEPT ![r] = [Idle EXCEPT !.op = "agent", !.user = u,
                                             !.stage = IF token[u].used THEN "checked" ELSE "begun"]]
    /\ UNCHANGED <<world, locks>>

\* Its last use, stored once in an interval by a commit of its own
RecordUse(r) ==
    LET u == req[r].user IN
    /\ req[r].op = "agent" /\ req[r].stage = "begun"
    /\ token' = [token EXCEPT ![u].used = TRUE]
    /\ To(r, "checked")
    /\ UNCHANGED <<account, grant, file, audits, served, locks>>

\* GET; HEAD writes nothing.
DeliverToAgent(r) ==
    /\ req[r].op = "agent" /\ req[r].stage = "opened"
    /\ Referable(r, req[r].user)
    /\ End(r)
    /\ UNCHANGED world

-----------------------------------------------------------------------------
(* Revocation (services/accounts.py) *)

\* A deactivation or an accepted recovery locks the account first.
BeginRevoke(r, u, op) ==
    /\ req[r].op = "none"
    /\ userLock[u] = none
    /\ userLock' = [userLock EXCEPT ![u] = r]
    /\ Begin(r, op, u, none, FALSE)
    /\ UNCHANGED <<world, rowLock>>

Revocations == {"deactivate", "reset"}

GrantsOf(u) == {g \in Grants : Live(g) /\ grant[g].user = u}

\* _revoke_user_credentials: the DELETE waits for rows others have written.
DeleteGrants(r) ==
    LET gone == GrantsOf(req[r].user) IN
    /\ req[r].op \in Revocations /\ req[r].stage = "begun"
    /\ \A g \in gone : rowLock[g] = none
    /\ rowLock' = [g \in Grants |-> IF g \in gone THEN r ELSE rowLock[g]]
    /\ To(r, "deleted")
    /\ UNCHANGED <<world, userLock>>

CommitRevocation(r) ==
    LET u == req[r].user
        gone == {g \in Grants : rowLock[g] = r} IN
    /\ req[r].op \in Revocations /\ req[r].stage = "deleted"
    /\ grant' = [g \in Grants |-> IF g \in gone THEN NoGrant
                                  ELSE IF g \in GrantsOf(u) THEN [grant[g] EXCEPT !.outlived = TRUE]
                                  ELSE grant[g]]
    /\ audits' = [g \in Grants |-> IF g \in gone THEN 0 ELSE audits[g]]
    /\ served' = [g \in Grants |-> g \notin gone /\ served[g]]
    /\ token' = [token EXCEPT ![u].live = FALSE]
    /\ account' = [account EXCEPT ![u] = req[r].op = "reset"]
    /\ End(r)
    /\ UNCHANGED <<file>>

Activate(u) ==
    /\ ~account[u] /\ userLock[u] = none
    /\ account' = [account EXCEPT ![u] = TRUE]
    /\ UNCHANGED <<token, grant, file, req, locks, audits, served>>

-----------------------------------------------------------------------------
(* Requests that end without an effect, and what happens around them *)

Refused(r) ==
    /\ \/ req[r].op \in {"get", "head"} /\ req[r].stage = "begun" /\ ~account[req[r].user]
       \/ Reading(r) /\ Indexed = {}
       \/ req[r].stage = "read" /\ ~Matches(r)
    /\ End(r)
    /\ UNCHANGED world

\* r waits for q: for an account it refers to, or for a grant it deletes.
WaitsFor(r, q) ==
    /\ q # r
    /\ \/ /\ \/ req[r].op = "get" /\ req[r].stage = "opened" /\ Audited(r)
             \/ req[r].op = "issue" /\ req[r].stage = "deleted"
          /\ userLock[req[r].user] = q
       \/ /\ req[r].op \in Revocations /\ req[r].stage = "begun"
          /\ \E g \in GrantsOf(req[r].user) : rowLock[g] = q

\* PostgreSQL ends one of two transactions that wait for each other.
DeadlockVictim(r) ==
    /\ \E q \in Requests : WaitsFor(r, q) /\ WaitsFor(q, r)
    /\ End(r)
    /\ UNCHANGED world

\* A malformed range, an error, a client that leaves, a worker that is killed
Abort(r) ==
    /\ req[r].op # "none"
    /\ End(r)
    /\ UNCHANGED world

Expire(g) ==
    /\ Usable(g)
    /\ grant' = [grant EXCEPT ![g].expired = TRUE]
    /\ UNCHANGED <<account, token, file, req, locks, audits, served>>

IntervalPasses(u) ==
    /\ token[u].used
    /\ token' = [token EXCEPT ![u].used = FALSE]
    /\ UNCHANGED <<account, grant, file, req, locks, audits, served>>

\* Somebody replaces or removes the file, a scan updates the record, the asset is archived or restored.
FileChanges ==
    /\ \/ \E v \in Versions \ {file.disk} : file' = [file EXCEPT !.disk = v]
       \/ file' = [file EXCEPT !.version = file.disk, !.offered = TRUE]
       \/ file' = [file EXCEPT !.offered = ~@]
    /\ file' # file
    /\ req' = [r \in Requests |-> [req[r] EXCEPT
                  !.seen = IF req[r].stage = "read" THEN @ \cup Indexed' ELSE @]]
    /\ UNCHANGED <<account, token, grant, locks, audits, served>>

Step(r) ==
    \/ ReadRecord(r) \/ OpenFile(r)
    \/ DeleteExpired(r) \/ InsertGrant(r)
    \/ CheckActor(r) \/ Deliver(r)
    \/ RecordUse(r) \/ DeliverToAgent(r)
    \/ DeleteGrants(r) \/ CommitRevocation(r)
    \/ Refused(r) \/ DeadlockVictim(r)

Arrive(r) ==
    \/ \E u \in Users, g \in Grants : BeginIssue(r, u, g)
    \/ \E g \in Grants : Authorize(r, g) \/ AuthorizeHead(r, g)
    \/ \E u \in Users : AuthenticateAgent(r, u)
    \/ \E u \in Users, op \in Revocations : BeginRevoke(r, u, op)

Next ==
    \/ \E r \in Requests : Arrive(r) \/ Step(r) \/ Abort(r)
    \/ \E u \in Users : Activate(u) \/ IntervalPasses(u)
    \/ \E g \in Grants : Expire(g)
    \/ FileChanges

Spec == Init /\ [][Next]_vars

\* Requests are served; PostgreSQL grants row locks in the order in which they are asked for.
FairSpec == Spec /\ \A r \in Requests : SF_vars(Step(r))

-----------------------------------------------------------------------------
(* Properties *)

\* The rows and the requests have the types the source gives them.
TypeOK ==
    /\ account \in [Users -> BOOLEAN]
    /\ token \in [Users -> [live : BOOLEAN, used : BOOLEAN]]
    /\ grant \in [Grants -> [live : BOOLEAN, user : Users \cup {none}, first : BOOLEAN,
                             expired : BOOLEAN, outlived : BOOLEAN]]
    /\ file \in [disk : Versions, version : Versions, offered : BOOLEAN]
    /\ req \in [Requests -> [op : {"none", "issue", "get", "head", "agent"} \cup Revocations,
                             user : Users \cup {none}, grant : Grants \cup {none},
                             stage : {"begun", "checked", "read", "opened", "deleted"}, first : BOOLEAN,
                             row : Versions \cup {0}, seen : SUBSET Versions, other : BOOLEAN]]
    /\ userLock \in [Users -> Requests \cup {none}] /\ rowLock \in [Grants -> Requests \cup {none}]
    /\ audits \in [Grants -> Nat] /\ served \in [Grants -> BOOLEAN]

\* Whatever requests present a grant at the same time and however they end, a file
\* that was delivered by it was recorded once as an access, and the row says so.
AuditedOnce == \A g \in Grants :
    /\ audits[g] = (IF grant[g].first THEN 1 ELSE 0)
    /\ served[g] => audits[g] = 1

\* A grant that was in the database when its owner was deactivated or had the password
\* reset is gone, also one that was inserted or used while that request was running.
GrantsRevoked == \A g \in Grants : ~grant[g].outlived

\* What a delivery sends is a version that was indexed, healthy and not archived
\* at some time during the request, although file and index change meanwhile.
DeliveredIndexed == \A r \in Requests : ~req[r].other

\* Every request is answered, also when a first access waits for the account
\* that its revocation holds, and that one waits for the grant.
RequestsServed == \A r \in Requests : req[r].op # "none" ~> req[r].op = "none"
=============================================================================
