------------------------------ MODULE Accounts ------------------------------
(***************************************************************************)
(* Administrator accounts, invitation links, browser sessions and personal *)
(* access tokens (services/accounts.py, services/access_tokens.py,         *)
(* routes/auth.py).                                                        *)
(*                                                                         *)
(* A request is one transaction under READ COMMITTED: each statement sees  *)
(* what was committed before it, and the ORM keeps the first copy of a row *)
(* it loaded, even when FOR UPDATE reads the row again.  A request that    *)
(* changes an account locks its row first; inserting a row that refers to  *)
(* an account (an invitation, a token, an activity) waits while another    *)
(* request holds that lock.  Writes are flushed before the commit, and     *)
(* seen by others after it.                                                *)
(*                                                                         *)
(* A definition whose name starts with Wrong is the one after it with a    *)
(* mistake in it, and no part of Spec.                                     *)
(***************************************************************************)
EXTENDS Naturals, FiniteSets

CONSTANTS
    Users,           \* usernames
    first,           \* the instance owner, when the instance starts with accounts
    Requests,        \* requests that are served at the same time
    Invitations,     \* bound: invitation links ever issued
    Tokens,          \* bound: access tokens ever created
    none,            \* a model value
    Starts,          \* the sets of accounts an instance may start with
    Unhashed,        \* of these, the accounts of older versions without a password hash
    SharedPassword,  \* fixed_account_password is configured
    MaxRaises        \* bound: once session generations were raised so often, only one
                     \* activation more begins

ASSUME AccountTypes ==
    /\ first \in Users /\ none \notin Users \cup Requests \cup Invitations \cup Tokens
    /\ \A start \in Starts : start \subseteq Users /\ (start = {} \/ first \in start)
    /\ SharedPassword \in BOOLEAN
    /\ MaxRaises \in Nat

VARIABLES
    user,        \* user[u]: the row of u
    invitation,  \* invitation[i]: the row of i
    token,       \* token[t]: the row of t
    sessions,    \* session tokens that were handed out
    lock,        \* lock[u]: the request that holds the row of u FOR UPDATE
    req,         \* req[r]: what request r is doing
    \* bookkeeping of the model
    era          \* era[u]: how often u was deactivated or had its password reset

vars == <<user, invitation, token, sessions, lock, req, era>>
rows == <<user, invitation, token, sessions, era>>

Absent == [exists |-> FALSE, active |-> FALSE, registered |-> FALSE, owner |-> FALSE,
           password |-> "none", generation |-> 0]

\* _new_admin; password "own" is one only its owner knows.
NewAdmin(isOwner) == [exists |-> TRUE, active |-> TRUE, registered |-> TRUE, owner |-> isOwner,
                      password |-> "own", generation |-> 0]

\* A request serves nobody
Idle == [op |-> "none", actor |-> none, target |-> none, arg |-> "none", item |-> none,
         row |-> Absent, stage |-> "begun", closes |-> {}, kills |-> {}, era |-> 0]

Init ==
    /\ \E start \in Starts :
         /\ user = [u \in Users |-> IF u \notin start THEN Absent
                                    ELSE [NewAdmin(u = first) EXCEPT
                                            !.password = IF u \in Unhashed THEN "none" ELSE @]]
         /\ sessions = [user : start, generation : {0}, era : {0}]
    /\ invitation = [i \in Invitations |-> [status |-> "none", user |-> none, by |-> none,
                                            purpose |-> "registration", used |-> 0]]
    /\ token = [t \in Tokens |-> [status |-> "none", user |-> none, era |-> 0, seen |-> 0]]
    /\ lock = [u \in Users |-> none]
    /\ req = [r \in Requests |-> Idle]
    /\ era = [u \in Users |-> 0]

-----------------------------------------------------------------------------
(* Rows, credentials and locks *)

\* get_active_account, and the comparison in require_admin
ValidSession(s) == /\ user[s.user].active /\ user[s.user].registered
                   /\ user[s.user].generation = s.generation

\* authenticate_access_token
ValidToken(t) == token[t].status = "live" /\ user[token[t].user].active

OpenInvitations(u) == {i \in Invitations : invitation[i].status = "open" /\ invitation[i].user = u}
LiveTokens(u)      == {t \in Tokens : token[t].status = "live" /\ token[t].user = u}

\* Who waits to insert a row that refers to u
Referable(r, u) == lock[u] \in {none, r}

\* Nobody holds the row, nor refers to it in a transaction that is not committed
Lockable(u) == /\ lock[u] = none
               /\ \A q \in Requests : req[q].stage = "flushed" => req[q].actor # u

Released(r) == [u \in Users |-> IF lock[u] = r THEN none ELSE lock[u]]

\* The request is answered; its transaction is over.
End(r) ==
    /\ req' = [req EXCEPT ![r] = Idle]
    /\ lock' = Released(r)

Session(u, generation) == [user |-> u, generation |-> generation, era |-> era'[u]]

-----------------------------------------------------------------------------
(* Set-up *)

\* instance_setup_status
Initialized == \E u \in Users : user[u].exists

BeginSetup(r) ==
    /\ req[r].op = "none" /\ ~Initialized
    /\ req' = [req EXCEPT ![r].op = "setup"]
    /\ UNCHANGED <<rows, lock>>

\* The unique index on is_instance_owner decides between two of them.
WrongOwnerless == TRUE
Ownerless == \A u \in Users : ~user[u].owner

Setup(r, u) ==
    /\ req[r].op = "setup"
    /\ Ownerless /\ ~user[u].exists
    /\ user' = [user EXCEPT ![u] = NewAdmin(TRUE)]
    /\ era' = era
    /\ sessions' = sessions \cup {Session(u, 0)}
    /\ End(r)
    /\ UNCHANGED <<invitation, token>>

-----------------------------------------------------------------------------
(* Login *)

BeginLogin(r, u) ==
    /\ req[r].op = "none"
    /\ user[u].active /\ user[u].registered
    /\ user[u].password # "none" \/ SharedPassword
    /\ req' = [req EXCEPT ![r] = [Idle EXCEPT !.op = "login", !.target = u, !.row = user[u]]]
    /\ UNCHANGED <<rows, lock>>

\* The first login with the shared password stores it as the account's own.
Upgraded(row) == IF row.password = "none"
                   THEN [row EXCEPT !.password = "shared", !.generation = @ + 1]
                   ELSE row

Login(r) ==
    LET u == req[r].target
        row == Upgraded(req[r].row)
    IN
    /\ req[r].op = "login"
    /\ row = req[r].row \/ lock[u] = none
    /\ user' = [user EXCEPT ![u].password = IF row = req[r].row THEN @ ELSE row.password,
                            ![u].generation = IF row = req[r].row THEN @ ELSE row.generation]
    /\ era' = era
    /\ sessions' = sessions \cup {Session(u, row.generation)}
    /\ End(r)
    /\ UNCHANGED <<invitation, token>>

-----------------------------------------------------------------------------
(* Requests of administrators *)

\* Numbers for rows to be inserted
FreshInvitations == {i \in Invitations : invitation[i].status = "none" /\ \A q \in Requests : req[q].item # i}
FreshTokens      == {t \in Tokens : token[t].status = "none" /\ \A q \in Requests : req[q].item # t}

\* require_admin, for a request op about the account u
Authenticate(r, s, op, u, arg, item) ==
    /\ req[r].op = "none"
    /\ ValidSession(s)
    /\ req' = [req EXCEPT ![r] = [Idle EXCEPT !.op = op, !.actor = s.user, !.target = u, !.arg = arg,
                                              !.item = item,
                                              !.era = IF op = "create_token" THEN era[s.user] ELSE 0,
                                              !.row = IF u = s.user THEN user[u] ELSE Absent]]
    /\ UNCHANGED <<rows, lock>>

\* How often a session generation was raised, over all accounts
Raises == Cardinality(UNION {{u} \X (1..user[u].generation) : u \in Users})

BeginInvite(r, s) ==
    \E u \in Users, i \in FreshInvitations :
       Authenticate(r, s, "invite", u, "none", i)
BeginRenew(r, s) ==
    \E u \in Users, purpose \in {"registration", "recovery"}, i \in FreshInvitations :
       user[u].exists /\ Authenticate(r, s, "renew", u, purpose, i)
BeginUpdate(r, s) ==
    \E change \in {"activate", "deactivate"} :
       /\ \E u \in Users : user[u].exists /\ Authenticate(r, s, "update", u, change, none)
       /\ Raises < (IF change = "activate" THEN MaxRaises + 1 ELSE MaxRaises)
BeginCreateToken(r, s) ==
    \E t \in FreshTokens : Authenticate(r, s, "create_token", s.user, "none", t)
BeginRevokeToken(r, s) ==
    \E t \in Tokens : token[t].user = s.user /\ Authenticate(r, s, "revoke_token", s.user, "none", t)

\* _issue_invitation: those in closed are revoked, i is the new one.
Issued(i, u, actor, purpose, closed) ==
    [j \in Invitations |-> IF j = i THEN [status |-> "open", user |-> u, by |-> actor,
                                          purpose |-> purpose, used |-> 0]
                           ELSE IF j \in closed THEN [invitation[j] EXCEPT !.status = "closed"]
                           ELSE invitation[j]]

\* The account create_admin_invitation adds, for its user to complete
Invited == [Absent EXCEPT !.exists = TRUE, !.active = TRUE]

\* Only one of two requests can insert the username.
CreateAdmin(r) ==
    LET u == req[r].target IN
    /\ req[r].op = "invite"
    /\ ~user[u].exists
    /\ Referable(r, req[r].actor)
    /\ user' = [user EXCEPT ![u] = Invited]
    /\ invitation' = Issued(req[r].item, u, req[r].actor, "registration", {})
    /\ End(r)
    /\ UNCHANGED <<token, sessions, era>>

\* SELECT ... FOR UPDATE of the account to change; a row the request has loaded stays as it was.
LockTarget(r) ==
    LET u == req[r].target IN
    /\ req[r].op \in {"renew", "update"} /\ req[r].stage = "begun"
    /\ Lockable(u)
    /\ lock' = [lock EXCEPT ![u] = r]
    /\ req' = [req EXCEPT ![r].stage = "locked",
                          ![r].row = IF u = req[r].actor THEN @ ELSE user[u]]
    /\ UNCHANGED rows

MayManage(r) == req[r].row.owner => user[req[r].actor].owner

MayRenew(r) ==
    /\ MayManage(r)
    /\ req[r].row.registered = (req[r].arg = "recovery")
    /\ req[r].row.active

FlushRenew(r) ==
    /\ req[r].op = "renew" /\ req[r].stage = "locked"
    /\ MayRenew(r) /\ Referable(r, req[r].actor)
    /\ req' = [req EXCEPT ![r].stage = "flushed", ![r].closes = OpenInvitations(req[r].target)]
    /\ UNCHANGED <<rows, lock>>

Renew(r) ==
    /\ req[r].op = "renew" /\ req[r].stage = "flushed"
    /\ invitation' = Issued(req[r].item, req[r].target, req[r].actor, req[r].arg, req[r].closes)
    /\ End(r)
    /\ UNCHANGED <<user, token, sessions, era>>

\* Nobody stops the account it is logged in with.
MayUpdate(r) == MayManage(r) /\ ~(req[r].target = req[r].actor /\ req[r].arg = "deactivate")

Changes(r) == req[r].row.active # (req[r].arg = "activate")

FlushUpdate(r) ==
    /\ req[r].op = "update" /\ req[r].stage = "locked"
    /\ MayUpdate(r)
    /\ Changes(r) => Referable(r, req[r].actor)
    /\ req' = [req EXCEPT ![r].stage = "flushed",
                          ![r].kills = IF req[r].arg = "deactivate" /\ Changes(r)
                                         THEN LiveTokens(req[r].target) ELSE {}]
    /\ UNCHANGED <<rows, lock>>

\* _revoke_user_credentials
WrongKilled(dead) == [t \in dead |-> [token[t] EXCEPT !.status = "revoked"]]
Killed(dead) == [t \in Tokens |-> IF t \in dead THEN [token[t] EXCEPT !.status = "revoked"] ELSE token[t]]

\* A new generation ends all sessions.
WrongNextGeneration(row) == row.generation
NextGeneration(row) == row.generation + 1

Update(r) ==
    LET u == req[r].target IN
    /\ req[r].op = "update" /\ req[r].stage = "flushed"
    /\ IF Changes(r)
         THEN /\ user' = [user EXCEPT ![u].active = (req[r].arg = "activate"),
                                      ![u].generation = NextGeneration(req[r].row)]
              /\ token' = Killed(req[r].kills)
              /\ era' = IF req[r].arg = "deactivate" THEN [era EXCEPT ![u] = @ + 1] ELSE era
         ELSE UNCHANGED <<user, token, era>>
    /\ End(r)
    /\ UNCHANGED <<invitation, sessions>>

-----------------------------------------------------------------------------
(* Access tokens *)

\* The row refers to the account: it waits while the account is being changed.
WrongInsertable(r) == TRUE
Insertable(r) == Referable(r, req[r].actor)

NewToken(u, seen) == [status |-> "live", user |-> u, era |-> era[u], seen |-> seen]

CreateToken(r) ==
    /\ req[r].op = "create_token" /\ Insertable(r)
    /\ token' = [token EXCEPT ![req[r].item] = NewToken(req[r].actor, req[r].era)]
    /\ End(r)
    /\ UNCHANGED <<user, invitation, sessions, era>>

\* Revoking a token that is revoked already writes nothing.
Revocable(r) == {req[r].item} \cap LiveTokens(req[r].actor)

RevokeToken(r) ==
    /\ req[r].op = "revoke_token"
    /\ Revocable(r) # {} => Insertable(r)
    /\ token' = Killed(Revocable(r))
    /\ End(r)
    /\ UNCHANGED <<user, invitation, sessions, era>>

-----------------------------------------------------------------------------
(* Invitation links *)

BeginAccept(r, i) ==
    /\ req[r].op = "none"
    /\ invitation[i].status = "open"
    /\ Raises < MaxRaises
    /\ req' = [req EXCEPT ![r] = [Idle EXCEPT !.op = "accept", !.target = invitation[i].user, !.item = i]]
    /\ UNCHANGED <<rows, lock>>

LockInvited(r) ==
    LET u == req[r].target IN
    /\ req[r].op = "accept" /\ req[r].stage = "begun"
    /\ Lockable(u)
    /\ lock' = [lock EXCEPT ![u] = r]
    /\ req' = [req EXCEPT ![r].stage = "locked", ![r].row = user[u]]
    /\ UNCHANGED rows

\* The invitation is read again, now that the account is locked.
WrongMayAccept(r) ==
    /\ req[r].row.active
    /\ req[r].row.registered = (invitation[req[r].item].purpose = "recovery")
MayAccept(r) ==
    /\ invitation[req[r].item].status = "open"
    /\ req[r].row.active
    /\ req[r].row.registered = (invitation[req[r].item].purpose = "recovery")

FlushAccept(r) ==
    LET i == req[r].item IN
    /\ req[r].op = "accept" /\ req[r].stage = "locked"
    /\ MayAccept(r)
    /\ req' = [req EXCEPT ![r].stage = "flushed",
                          ![r].closes = OpenInvitations(req[r].target) \ {i},
                          ![r].kills = IF invitation[i].purpose = "recovery"
                                         THEN LiveTokens(req[r].target) ELSE {}]
    /\ UNCHANGED <<rows, lock>>

Accept(r) ==
    LET i == req[r].item
        u == req[r].target
    IN
    /\ req[r].op = "accept" /\ req[r].stage = "flushed"
    /\ user' = [user EXCEPT ![u].registered = TRUE, ![u].password = "own",
                            ![u].generation = NextGeneration(req[r].row)]
    /\ invitation' = [j \in Invitations |->
                         IF j = i THEN [invitation[j] EXCEPT !.status = "closed", !.used = @ + 1]
                         ELSE IF j \in req[r].closes THEN [invitation[j] EXCEPT !.status = "closed"]
                         ELSE invitation[j]]
    /\ token' = Killed(req[r].kills)
    /\ era' = IF invitation[i].purpose = "recovery" THEN [era EXCEPT ![u] = @ + 1] ELSE era
    /\ sessions' = sessions \cup {Session(u, NextGeneration(req[r].row))}
    /\ End(r)

-----------------------------------------------------------------------------
(* Requests that end without an effect, and time *)

\* The checks after the lock, and the unique indexes
Refused(r) ==
    /\ \/ req[r].op = "setup" /\ ~Ownerless
       \/ req[r].op = "invite" /\ user[req[r].target].exists
       \/ /\ req[r].stage = "locked"
          /\ \/ req[r].op = "renew" /\ ~MayRenew(r)
             \/ req[r].op = "update" /\ ~MayUpdate(r)
             \/ req[r].op = "accept" /\ ~MayAccept(r)
    /\ End(r)
    /\ UNCHANGED rows

\* An error, an address that is taken, a worker that is killed, or two administrators who manage
\* each other, one of whom PostgreSQL ends as their transactions wait for each other: the
\* transaction is rolled back.
Abort(r) ==
    /\ req[r].op # "none"
    /\ End(r)
    /\ UNCHANGED rows

ExpireInvitation(i) ==
    /\ invitation[i].status = "open"
    /\ invitation' = [invitation EXCEPT ![i].status = "closed"]
    /\ UNCHANGED <<user, token, sessions, era, lock, req>>

Step(r) ==
    \/ \E u \in Users : Setup(r, u)
    \/ Login(r)
    \/ CreateAdmin(r)
    \/ LockTarget(r)
    \/ FlushRenew(r)
    \/ Renew(r)
    \/ FlushUpdate(r)
    \/ Update(r)
    \/ CreateToken(r)
    \/ RevokeToken(r)
    \/ LockInvited(r)
    \/ FlushAccept(r)
    \/ Accept(r)
    \/ Refused(r)

Begin(r) ==
    /\ req[r].op = "none"
    /\ \/ BeginSetup(r)
       \/ \E u \in Users : BeginLogin(r, u)
       \/ \E s \in sessions : \/ BeginInvite(r, s) \/ BeginRenew(r, s) \/ BeginUpdate(r, s)
                              \/ BeginCreateToken(r, s) \/ BeginRevokeToken(r, s)
       \/ \E i \in Invitations : BeginAccept(r, i)

Next ==
    \/ \E r \in Requests : Begin(r) \/ Step(r) \/ Abort(r)
    \/ \E i \in Invitations : ExpireInvitation(i)

Spec == Init /\ [][Next]_vars

-----------------------------------------------------------------------------
(* Properties *)

Row == [exists : BOOLEAN, active : BOOLEAN, registered : BOOLEAN, owner : BOOLEAN,
        password : {"none", "shared", "own"}, generation : Nat]

Request == [op : {"none", "setup", "login", "invite", "renew", "update", "create_token", "revoke_token",
                  "accept"},
            actor : Users \cup {none}, target : Users \cup {none},
            arg : {"none", "registration", "recovery", "activate", "deactivate"},
            item : Invitations \cup Tokens \cup {none}, row : Row, stage : {"begun", "locked", "flushed"},
            closes : SUBSET Invitations, kills : SUBSET Tokens, era : Nat]

\* The rows and the requests have the types the source gives them.
TypeOK ==
    /\ user \in [Users -> Row]
    /\ invitation \in [Invitations -> [status : {"none", "open", "closed"}, user : Users \cup {none},
                                       by : Users \cup {none}, purpose : {"registration", "recovery"},
                                       used : Nat]]
    /\ token \in [Tokens -> [status : {"none", "live", "revoked"}, user : Users \cup {none},
                             era : Nat, seen : Nat]]
    /\ sessions \subseteq [user : Users, generation : Nat, era : Nat]
    /\ lock \in [Users -> Requests \cup {none}]
    /\ req \in [Requests -> Request]
    /\ era \in [Users -> Nat]

\* A session handed out before its account was deactivated, or had its password
\* reset, is not valid again, also when the account is activated (architecture.md:89).
SessionsEnd == \A s \in sessions : ValidSession(s) => s.era = era[s.user]

\* An account has at most one open link, of the purpose that fits the account, and
\* a link is redeemed at most once, whatever accepts and renewals overlap.
InvitationsFit ==
    /\ \A i \in Invitations : invitation[i].used <= 1
    /\ \A i, j \in Invitations :
          invitation[i].status = "open" /\ invitation[j].status = "open"
             /\ invitation[i].user = invitation[j].user => i = j
    /\ \A i \in Invitations :
          invitation[i].status = "open" =>
             user[invitation[i].user].registered = (invitation[i].purpose = "recovery")

\* As soon as there are accounts there is one instance owner, who is never locked
\* out, and only the owner issues links for that account.
OwnerStays ==
    /\ \A u, v \in Users : user[u].owner /\ user[v].owner => u = v
    /\ (\E u \in Users : user[u].exists) =>
          \E u \in Users : user[u].owner /\ user[u].active /\ user[u].registered
    /\ \A i \in Invitations :
          invitation[i].status = "open" /\ user[invitation[i].user].owner => user[invitation[i].by].owner

\* A token that was in the database when its account was deactivated or had its
\* password reset is revoked, also one inserted while that request was running.
TokensRevoked == \A t \in Tokens : token[t].status = "live" => token[t].era = era[token[t].user]

\* No token outlives the deactivation or the reset of its account, whoever
\* asked for it before (test_accounts.py:388, 588).
RevocationHolds == \A t \in Tokens : ValidToken(t) => token[t].seen = era[token[t].user]
=============================================================================
