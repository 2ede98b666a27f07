--------------------------- MODULE AccountsProofs ---------------------------
(***************************************************************************)
(* Proofs about Accounts, for any number of accounts, requests, links and  *)
(* tokens: types, the instance owner, links, tokens and, without the       *)
(* shared password of older versions, sessions.                            *)
(***************************************************************************)
EXTENDS Accounts, TLAPS

\* Requests about an account that exists, and that of an administrator
About == {"login", "renew", "update", "accept"}
Administrative == {"invite", "renew", "update", "create_token", "revoke_token"}

\* What a request has read and locked still holds: it has the lock of its account, whose
\* row is the one it loaded; a copy of its own account that it loaded before may be older.
Works(r) ==
    LET q == req[r] IN
    /\ q.op \in About \cup Administrative => q.target \in Users
    /\ q.op \in Administrative => q.actor \in Users /\ user[q.actor].exists
    /\ q.op \in About => user[q.target].exists
    /\ q.op \in {"invite", "renew"} => q.item \in Invitations /\ invitation[q.item].status = "none"
    /\ q.op = "accept" => /\ q.item \in Invitations /\ invitation[q.item].status # "none"
                          /\ invitation[q.item].user = q.target
    /\ q.op = "create_token" => q.item \in Tokens
    /\ q.op = "renew" => q.arg \in {"registration", "recovery"}
    /\ q.op = "update" => q.arg \in {"activate", "deactivate"}
    /\ \A i \in q.closes : i \in Invitations /\ invitation[i].status # "none"
    /\ q.stage # "begun" => /\ q.op \in {"renew", "update", "accept"} /\ lock[q.target] = r
                            /\ q.op = "accept" \/ q.actor # q.target => q.row = user[q.target]
    /\ q.op \in {"renew", "update"} /\ q.actor = q.target =>
          /\ q.row.active /\ q.row.registered /\ user[q.target].registered
          /\ q.row.owner = user[q.target].owner
    /\ q.op = "update" /\ q.stage = "flushed" => ~(q.target = q.actor /\ q.arg = "deactivate")
    /\ q.op \in {"renew", "update"} /\ q.stage = "flushed" => (q.row.owner => user[q.actor].owner)

\* Two requests never insert the same link.
ItemsApart == \A r, q \in Requests :
    r # q /\ req[r].op \in {"invite", "renew"} /\ req[q].op \in {"invite", "renew"} =>
       req[r].item # req[q].item

\* A link belongs to an account and was issued by one.
RowsFit ==
    /\ \A u \in Users : user[u].exists \/ user[u] = Absent
    /\ \A i \in Invitations : invitation[i].status # "none" =>
          /\ invitation[i].user \in Users /\ user[invitation[i].user].exists
          /\ invitation[i].by \in Users /\ user[invitation[i].by].exists

Base == TypeOK /\ ItemsApart /\ RowsFit /\ \A r \in Requests : Works(r)

\* What a step of r leaves to the other requests
Respects(r) ==
    /\ \A u \in Users : user[u].exists =>
          /\ user'[u].exists /\ user'[u].owner = user[u].owner
          /\ user[u].registered => user'[u].registered
    /\ \A u \in Users : lock[u] \in Requests \ {r} =>
          lock'[u] = lock[u] /\ (user[u].exists => user'[u] = user[u])
    /\ \A i \in Invitations : invitation[i].status # "none" =>
          /\ invitation'[i].status # "none"
          /\ invitation'[i].user = invitation[i].user
          /\ invitation'[i].by = invitation[i].by
    /\ \A i \in Invitations : invitation[i].status = "none" /\ invitation'[i].status # "none" =>
          i = req[r].item /\ req[r].op \in {"invite", "renew"}
    /\ \A q \in Requests \ {r} : req'[q] = req[q]

-----------------------------------------------------------------------------
(* Records *)

LEMMA RowTypes ==
    /\ Absent \in Row /\ Invited \in Row /\ Idle \in Request
    /\ \A owner \in BOOLEAN : NewAdmin(owner) \in Row
  BY DEF Absent, Invited, Idle, NewAdmin, Row, Request

LEMMA UpgradedType ==
    ASSUME NEW row \in Row
    PROVE  /\ Upgraded(row).password \in {"shared", "own"}
           /\ Upgraded(row).generation \in Nat
           /\ row.password # "none" => Upgraded(row) = row
  BY DEF Upgraded, Row

\* What the other requests do is not disturbed.
LEMMA OthersWork ==
    ASSUME Base, NEW r \in Requests, Respects(r), NEW q \in Requests \ {r}
    PROVE  Works(q)'
<1>1. Works(q) /\ req'[q] = req[q]
  BY DEF Base, Respects
<1>2. req[q].op \in {"invite", "renew"} => req[q].item \in Invitations /\ invitation'[req[q].item].status = "none"
  BY <1>1 DEF Base, ItemsApart, Works, Respects
<1>3. req[q].stage # "begun" => /\ lock'[req[q].target] = q
                                /\ user'[req[q].target] = user[req[q].target]
  BY <1>1 DEF Works, Respects, About
<1>4. req[q].op \in About \cup Administrative => req[q].target \in Users
  BY <1>1 DEF Works
<1>5. req[q].op \in About => user'[req[q].target].exists
  BY <1>1, <1>4 DEF Works, Respects
<1>6. req[q].op \in Administrative => /\ req[q].actor \in Users /\ user'[req[q].actor].exists
                                      /\ user'[req[q].actor].owner = user[req[q].actor].owner
  BY <1>1 DEF Works, Respects
<1>7. req[q].op = "accept" => /\ req[q].item \in Invitations /\ invitation'[req[q].item].status # "none"
                              /\ invitation'[req[q].item].user = req[q].target
  BY <1>1 DEF Works, Respects
<1>8. req[q].op \in {"renew", "update"} /\ req[q].actor = req[q].target =>
        /\ user[req[q].target].exists
        /\ user'[req[q].target].registered
        /\ user'[req[q].target].owner = user[req[q].target].owner
  BY <1>1, <1>4 DEF Works, Respects, About
<1>9. \A i \in req[q].closes : i \in Invitations /\ invitation'[i].status # "none"
  BY <1>1 DEF Works, Respects
<1> QED
  BY <1>1, <1>2, <1>3, <1>4, <1>5, <1>6, <1>7, <1>8, <1>9 DEF Works, About, Administrative

\* A request that is answered holds nothing.
LEMMA IdleWorks ==
    ASSUME NEW r \in Requests, req'[r] = Idle
    PROVE  Works(r)'
  BY DEF Works, Idle, About, Administrative

LEMMA StepKeeps ==
    ASSUME Base, NEW r \in Requests, Respects(r), TypeOK', Works(r)', RowsFit',
           req'[r].op \in {"invite", "renew"} => \A q \in Requests \ {r} :
              req[q].op \in {"invite", "renew"} => req[q].item # req'[r].item
    PROVE  Base'
<1>1. \A q \in Requests : Works(q)'
  BY OthersWork
<1>2. ItemsApart'
  BY DEF Base, ItemsApart, Respects
<1> QED
  BY <1>1, <1>2 DEF Base

-----------------------------------------------------------------------------
(* Steps without an effect on the rows *)

LEMMA RequestKeeps ==
    ASSUME Base, NEW r \in Requests, NEW new \in Request,
           UNCHANGED <<rows, lock>>, req' = [req EXCEPT ![r] = new],
           Works(r)',
           new.op \in {"invite", "renew"} => \A q \in Requests \ {r} :
              req[q].op \in {"invite", "renew"} => req[q].item # new.item
    PROVE  Base'
<1>1. UNCHANGED <<user, invitation, token, sessions, era, lock>>
  BY DEF rows
<1>2. req' \in [Requests -> Request] /\ req'[r] = new
  BY DEF Base, TypeOK
<1>3. TypeOK' /\ RowsFit'
  BY <1>1, <1>2 DEF Base, TypeOK, RowsFit
<1>4. Respects(r)
  BY <1>1, AccountTypes DEF Base, TypeOK, Respects
<1> QED
  BY <1>2, <1>3, <1>4, StepKeeps

LEMMA ReleasedIs ==
    ASSUME TypeOK, NEW r \in Requests, End(r)
    PROVE  /\ lock' \in [Users -> Requests \cup {none}]
           /\ \A u \in Users : lock'[u] = IF lock[u] = r THEN none ELSE lock[u]
           /\ req' \in [Requests -> Request] /\ req'[r] = Idle
           /\ \A q \in Requests \ {r} : req'[q] = req[q]
<1>1. lock' = [u \in Users |-> IF lock[u] = r THEN none ELSE lock[u]]
  BY DEF End, Released
<1> QED
  BY <1>1, RowTypes DEF TypeOK, End

\* What the end of a request may do to the rows
Leaves(r) ==
    /\ user' \in [Users -> Row]
    /\ \A u \in Users : user[u].exists =>
          /\ user'[u].exists /\ user'[u].owner = user[u].owner
          /\ user[u].registered => user'[u].registered
    /\ \A u \in Users : user[u].exists /\ lock[u] \in Requests \ {r} => user'[u] = user[u]
    /\ \A u \in Users : ~user[u].exists => user'[u].exists \/ user'[u] = user[u]

Link == [status : {"none", "open", "closed"}, user : Users \cup {none}, by : Users \cup {none},
         purpose : {"registration", "recovery"}, used : Nat]

Links(r) ==
    /\ invitation' \in [Invitations -> Link]
    /\ \A i \in Invitations : invitation[i].status # "none" =>
          /\ invitation'[i].status # "none"
          /\ invitation'[i].user = invitation[i].user
          /\ invitation'[i].by = invitation[i].by
    /\ \A i \in Invitations : invitation[i].status = "none" /\ invitation'[i].status # "none" =>
          /\ i = req[r].item /\ req[r].op \in {"invite", "renew"}
          /\ invitation'[i].user \in Users /\ user'[invitation'[i].user].exists
          /\ invitation'[i].by \in Users /\ user'[invitation'[i].by].exists

LEMMA EndKeeps ==
    ASSUME Base, NEW r \in Requests, End(r), Leaves(r), Links(r),
           token' \in [Tokens -> [status : {"none", "live", "revoked"}, user : Users \cup {none},
                                  era : Nat, seen : Nat]],
           sessions' \subseteq [user : Users, generation : Nat, era : Nat],
           era' \in [Users -> Nat]
    PROVE  Base'
<1>1. /\ lock' \in [Users -> Requests \cup {none}]
      /\ \A u \in Users : lock'[u] = IF lock[u] = r THEN none ELSE lock[u]
      /\ req' \in [Requests -> Request] /\ req'[r] = Idle
      /\ \A q \in Requests \ {r} : req'[q] = req[q]
  BY ReleasedIs DEF Base
<1>2. TypeOK'
  BY <1>1 DEF TypeOK, Leaves, Links, Link
<1>3. RowsFit'
  BY DEF Base, RowsFit, Leaves, Links
<1>4. Respects(r)
  BY <1>1 DEF Respects, Leaves, Links
<1>5. Works(r)'
  BY <1>1, IdleWorks
<1> QED
  BY <1>1, <1>2, <1>3, <1>4, <1>5, StepKeeps DEF Idle

\* A link is closed, or nothing happens to it.
LEMMA SameUsers == ASSUME Base, NEW r \in Requests, user' = user PROVE Leaves(r)
  BY DEF Base, TypeOK, Leaves

LEMMA SameLinks == ASSUME Base, NEW r \in Requests, invitation' = invitation PROVE Links(r)
  BY DEF Base, TypeOK, Links, Link

LEMMA NoEffectKeeps ==
    ASSUME Base, NEW r \in Requests, Refused(r) \/ Abort(r)
    PROVE  Base'
<1>1. End(r) /\ UNCHANGED <<user, invitation, token, sessions, era>>
  BY DEF Refused, Abort, rows
<1> QED
  BY <1>1, SameUsers, SameLinks, EndKeeps DEF Base, TypeOK

-----------------------------------------------------------------------------
(* Requests come in *)

LEMMA SessionUser ==
    ASSUME Base, NEW s \in sessions, ValidSession(s)
    PROVE  /\ s.user \in Users /\ user[s.user].exists /\ user[s.user] \in Row
           /\ user[s.user].active /\ user[s.user].registered
  BY DEF Base, TypeOK, RowsFit, ValidSession, Absent

LEMMA AuthenticateKeeps ==
    ASSUME Base, NEW r \in Requests, NEW s \in sessions, NEW op \in Administrative, NEW u \in Users,
           NEW arg \in {"none", "registration", "recovery", "activate", "deactivate"},
           NEW item \in Invitations \cup Tokens \cup {none},
           Authenticate(r, s, op, u, arg, item),
           op \in {"invite", "renew"} => item \in FreshInvitations,
           op = "create_token" => item \in Tokens,
           op = "renew" => arg \in {"registration", "recovery"},
           op = "update" => arg \in {"activate", "deactivate"},
           op \in {"renew", "update"} => user[u].exists
    PROVE  Base'
<1> DEFINE new == [Idle EXCEPT !.op = op, !.actor = s.user, !.target = u, !.arg = arg, !.item = item,
                               !.era = IF op = "create_token" THEN era[s.user] ELSE 0,
                               !.row = IF u = s.user THEN user[u] ELSE Absent]
<1>1. ValidSession(s) /\ req' = [req EXCEPT ![r] = new] /\ UNCHANGED <<rows, lock>>
  BY DEF Authenticate
<1>2. /\ s.user \in Users /\ user[s.user].exists /\ user[s.user] \in Row
      /\ user[s.user].active /\ user[s.user].registered
  BY <1>1, SessionUser
<1>3. era[s.user] \in Nat
  BY <1>2 DEF Base, TypeOK
<1>4. /\ new.op = op /\ new.actor = s.user /\ new.target = u /\ new.arg = arg /\ new.item = item
      /\ new.stage = "begun" /\ new.closes = {} /\ (u = s.user => new.row = user[u])
  BY DEF Idle
<1>5. new \in Request
  <2>1. \A row \in Row, n \in Nat :
           [Idle EXCEPT !.op = op, !.actor = s.user, !.target = u, !.arg = arg, !.item = item,
                        !.era = n, !.row = row] \in Request
    BY <1>2, RowTypes DEF Idle, Request, Administrative
  <2>2. /\ (IF u = s.user THEN user[u] ELSE Absent) \in Row
        /\ (IF op = "create_token" THEN era[s.user] ELSE 0) \in Nat
    BY <1>2, <1>3, RowTypes
  <2> QED
    BY <2>1, <2>2
<1> HIDE DEF new
<1>6. req'[r] = new
  BY <1>1 DEF Base, TypeOK
<1>7. Works(r)'
  BY <1>1, <1>2, <1>4, <1>6 DEF Works, rows, About, Administrative, FreshInvitations
<1>8. new.op \in {"invite", "renew"} => \A q \in Requests : req[q].item # new.item
  BY <1>4 DEF FreshInvitations
<1> QED
  BY <1>1, <1>5, <1>7, <1>8, RequestKeeps

\* A request that comes in changes nothing else; it holds nothing yet.
LEMMA BeginIs ==
    ASSUME Base, NEW r \in Requests, Begin(r)
    PROVE  /\ UNCHANGED <<user, invitation, token, sessions, era, lock>>
           /\ \A q \in Requests : q # r => req'[q] = req[q]
           /\ req'[r].op = "login" => \E u \in Users : BeginLogin(r, u)
           /\ req'[r].stage = "begun"
<1>0. req \in [Requests -> Request] /\ Works(r)
  BY DEF Base, TypeOK
<1>1. CASE BeginSetup(r)
  <2>1. req[r] \in Request /\ req[r].stage = "begun"
    BY <1>0, <1>1 DEF BeginSetup, Works
  <2>2. /\ req'[r] = [req[r] EXCEPT !.op = "setup"] /\ UNCHANGED <<rows, lock>>
        /\ \A q \in Requests : q # r => req'[q] = req[q]
    BY <1>0, <1>1 DEF BeginSetup
  <2> QED
    BY <2>1, <2>2 DEF rows, Request
<1>2. CASE \E u \in Users : BeginLogin(r, u)
  <2>1. /\ UNCHANGED <<user, invitation, token, sessions, era, lock>>
        /\ \A q \in Requests : q # r => req'[q] = req[q]
        /\ req'[r].stage = "begun"
    BY <1>0, <1>2 DEF BeginLogin, rows, Idle
  <2> QED
    BY <1>2, <2>1
<1>3. CASE \E i \in Invitations : BeginAccept(r, i)
  BY <1>0, <1>3 DEF BeginAccept, rows, Idle
<1>4. ASSUME NEW s, NEW op \in Administrative, NEW u, NEW arg, NEW item, Authenticate(r, s, op, u, arg, item)
      PROVE  /\ UNCHANGED <<rows, lock>>
             /\ \A q \in Requests : q # r => req'[q] = req[q]
             /\ req'[r].op # "login" /\ req'[r].stage = "begun"
  BY <1>0, <1>4 DEF Authenticate, Idle, Administrative
<1>5. CASE \E s \in sessions : \/ BeginInvite(r, s) \/ BeginRenew(r, s) \/ BeginUpdate(r, s)
                              \/ BeginCreateToken(r, s) \/ BeginRevokeToken(r, s)
  <2>1. \E s, op, u, arg, item : op \in Administrative /\ Authenticate(r, s, op, u, arg, item)
    BY <1>5 DEF BeginInvite, BeginRenew, BeginUpdate, BeginCreateToken, BeginRevokeToken, Administrative
  <2> QED
    BY <1>4, <2>1 DEF rows
<1> QED
  BY <1>1, <1>2, <1>3, <1>5 DEF Begin

LEMMA BeginKeeps ==
    ASSUME Base, NEW r \in Requests, Begin(r)
    PROVE  Base'
<1>1. CASE BeginSetup(r)
  <2> DEFINE new == [req[r] EXCEPT !.op = "setup"]
  <2>1. /\ req[r] \in Request /\ req[r].op = "none" /\ Works(r)
        /\ req' = [req EXCEPT ![r] = new] /\ UNCHANGED <<rows, lock>>
    BY <1>1 DEF BeginSetup, Base, TypeOK
  <2>2. new \in Request /\ new.op = "setup" /\ new.stage = req[r].stage /\ new.closes = req[r].closes
    BY <2>1 DEF Request
  <2> HIDE DEF new
  <2>3. req'[r] = new
    BY <2>1 DEF Base, TypeOK
  <2>4. Works(r)'
    BY <2>1, <2>2, <2>3 DEF Works, About, Administrative, rows
  <2> QED
    BY <2>1, <2>2, <2>4, RequestKeeps
<1>2. ASSUME NEW u \in Users, BeginLogin(r, u) PROVE Base'
  <2> DEFINE new == [Idle EXCEPT !.op = "login", !.target = u, !.row = user[u]]
  <2>1. /\ user[u] \in Row /\ user[u].exists
        /\ req' = [req EXCEPT ![r] = new] /\ UNCHANGED <<rows, lock>>
    BY <1>2 DEF BeginLogin, Base, TypeOK, RowsFit, Absent
  <2>2. new \in Request
    <3>1. \A row \in Row : [Idle EXCEPT !.op = "login", !.target = u, !.row = row] \in Request
      BY RowTypes DEF Idle, Request
    <3> QED
      BY <2>1, <3>1
  <2>5. new.op = "login" /\ new.stage = "begun" /\ new.target = u /\ new.closes = {}
    BY DEF Idle
  <2> HIDE DEF new
  <2>3. req'[r] = new
    BY <2>1 DEF Base, TypeOK
  <2>4. Works(r)'
    BY <2>1, <2>3, <2>5 DEF Works, About, Administrative, rows
  <2> QED
    BY <2>1, <2>2, <2>4, <2>5, RequestKeeps
<1>3. ASSUME NEW s \in sessions,
             BeginInvite(r, s) \/ BeginRenew(r, s) \/ BeginUpdate(r, s)
                \/ BeginCreateToken(r, s) \/ BeginRevokeToken(r, s)
      PROVE  Base'
  <2>1. CASE BeginInvite(r, s)
    BY <2>1, AuthenticateKeeps DEF BeginInvite, Administrative, FreshInvitations
  <2>2. CASE BeginRenew(r, s)
    BY <2>2, AuthenticateKeeps DEF BeginRenew, Administrative, FreshInvitations
  <2>3. CASE BeginUpdate(r, s)
    BY <2>3, AuthenticateKeeps DEF BeginUpdate, Administrative
  <2>4. ASSUME NEW t \in Tokens, NEW op \in {"create_token", "revoke_token"},
               Authenticate(r, s, op, s.user, "none", t)
        PROVE  Base'
    <3>1. s.user \in Users
      BY DEF Base, TypeOK
    <3> QED
      BY <2>4, <3>1, AuthenticateKeeps DEF Administrative
  <2> QED
    BY <1>3, <2>1, <2>2, <2>3, <2>4 DEF BeginCreateToken, BeginRevokeToken, FreshTokens
<1>4. ASSUME NEW i \in Invitations, BeginAccept(r, i) PROVE Base'
  <2> DEFINE u == invitation[i].user
             new == [Idle EXCEPT !.op = "accept", !.target = u, !.item = i]
  <2>1. /\ invitation[i].status # "none" /\ u \in Users /\ user[u].exists
        /\ req' = [req EXCEPT ![r] = new] /\ UNCHANGED <<rows, lock>>
    BY <1>4 DEF BeginAccept, Base, RowsFit
  <2>2. new \in Request /\ new.op = "accept" /\ new.stage = "begun" /\ new.target = u /\ new.item = i
      /\ new.closes = {}
    BY <2>1, RowTypes DEF Idle, Request
  <2> HIDE DEF new
  <2>3. req'[r] = new
    BY <2>1 DEF Base, TypeOK
  <2>4. Works(r)'
    BY <2>1, <2>2, <2>3 DEF Works, About, Administrative, rows
  <2> QED
    BY <2>1, <2>2, <2>4, RequestKeeps
<1> QED
  BY <1>1, <1>2, <1>3, <1>4 DEF Begin

-----------------------------------------------------------------------------
(* Locks, and flushes before the commit *)

LEMMA LockKeeps ==
    ASSUME Base, NEW r \in Requests, LockTarget(r) \/ LockInvited(r)
    PROVE  Base'
<1> DEFINE u == req[r].target
           row == IF req[r].op # "accept" /\ u = req[r].actor THEN req[r].row ELSE user[u]
           new == [req[r] EXCEPT !.stage = "locked", !.row = row]
<1>1. /\ req[r].op \in {"renew", "update", "accept"} /\ req[r] \in Request /\ Works(r)
      /\ u \in Users /\ user[u].exists /\ user[u] \in Row
  BY DEF LockTarget, LockInvited, Base, TypeOK, Works, About
<1>2. /\ lock[u] = none /\ lock' = [lock EXCEPT ![u] = r]
      /\ UNCHANGED <<user, invitation, token, sessions, era>>
  BY DEF LockTarget, LockInvited, Lockable, rows
<1>3. req' = [req EXCEPT ![r] = new]
  BY DEF LockTarget, LockInvited
<1>4. row \in Row
  BY <1>1 DEF Request
<1>5. /\ new \in Request /\ new.op = req[r].op /\ new.actor = req[r].actor /\ new.target = u
      /\ new.arg = req[r].arg /\ new.item = req[r].item /\ new.stage = "locked" /\ new.row = row
      /\ new.closes = req[r].closes
  BY <1>1, <1>4 DEF Request
<1> HIDE DEF new
<1>6. req' \in [Requests -> Request] /\ req'[r] = new /\ lock'[u] = r
  BY <1>1, <1>2, <1>3, <1>5 DEF Base, TypeOK
<1>7. TypeOK' /\ RowsFit'
  BY <1>2, <1>6 DEF Base, TypeOK, RowsFit
<1>8. Respects(r)
  BY <1>2, <1>3, AccountTypes DEF Base, TypeOK, Respects
<1>9. Works(r)'
  BY <1>1, <1>2, <1>5, <1>6 DEF Works, About, Administrative
<1> QED
  BY <1>5, <1>6, <1>7, <1>8, <1>9, StepKeeps DEF Base, ItemsApart

LEMMA FlushKeeps ==
    ASSUME Base, NEW r \in Requests, FlushRenew(r) \/ FlushUpdate(r) \/ FlushAccept(r)
    PROVE  Base'
<1>1. PICK closes \in SUBSET {i \in Invitations : invitation[i].status # "none"}, kills \in SUBSET Tokens :
         req' = [req EXCEPT ![r] = [req[r] EXCEPT !.stage = "flushed", !.closes = closes, !.kills = kills]]
  <2>0. req[r] \in Request /\ Works(r)
    BY DEF Base, TypeOK
  <2>1. CASE FlushRenew(r)
    <3>1. req' = [req EXCEPT ![r] = [req[r] EXCEPT !.stage = "flushed",
                                                   !.closes = OpenInvitations(req[r].target),
                                                   !.kills = req[r].kills]]
      BY <2>0, <2>1 DEF FlushRenew, Request
    <3> QED
      BY <2>0, <3>1 DEF OpenInvitations, Request
  <2>2. CASE FlushUpdate(r)
    <3> DEFINE kills == IF req[r].arg = "deactivate" /\ Changes(r) THEN LiveTokens(req[r].target) ELSE {}
    <3>1. req' = [req EXCEPT ![r] = [req[r] EXCEPT !.stage = "flushed",
                                                   !.closes = req[r].closes, !.kills = kills]]
      BY <2>0, <2>2 DEF FlushUpdate, Request
    <3>2. kills \in SUBSET Tokens
      BY DEF LiveTokens
    <3>3. req[r].closes \in SUBSET {i \in Invitations : invitation[i].status # "none"}
      BY <2>0 DEF Works
    <3> QED
      BY <3>1, <3>2, <3>3
  <2>3. CASE FlushAccept(r)
    <3> DEFINE kills == IF invitation[req[r].item].purpose = "recovery" THEN LiveTokens(req[r].target) ELSE {}
               closes == OpenInvitations(req[r].target) \ {req[r].item}
    <3>1. req' = [req EXCEPT ![r] = [req[r] EXCEPT !.stage = "flushed", !.closes = closes, !.kills = kills]]
      BY <2>3 DEF FlushAccept
    <3>2. kills \in SUBSET Tokens /\ closes \in SUBSET {i \in Invitations : invitation[i].status # "none"}
      BY DEF LiveTokens, OpenInvitations
    <3> QED
      BY <3>1, <3>2
  <2> QED
    BY <2>1, <2>2, <2>3
<1> DEFINE new == [req[r] EXCEPT !.stage = "flushed", !.closes = closes, !.kills = kills]
<1>2. /\ req[r] \in Request /\ Works(r) /\ UNCHANGED <<rows, lock>>
      /\ req[r].stage = "locked" /\ req[r].op \in {"renew", "update", "accept"}
      /\ req[r].op = "update" => MayUpdate(r)
      /\ req[r].op = "renew" => MayManage(r)
  BY DEF FlushRenew, FlushUpdate, FlushAccept, Base, TypeOK, MayRenew
<1>3. /\ new \in Request /\ new.op = req[r].op /\ new.actor = req[r].actor /\ new.target = req[r].target
      /\ new.arg = req[r].arg /\ new.item = req[r].item /\ new.row = req[r].row /\ new.stage = "flushed"
      /\ new.closes = closes
  BY <1>2 DEF Request
<1> HIDE DEF new
<1>4. req'[r] = new
  BY <1>1 DEF Base, TypeOK, new
<1>5. Works(r)'
  BY <1>2, <1>3, <1>4 DEF Works, About, Administrative, MayUpdate, MayManage, rows
<1>6. new.op \in {"invite", "renew"} => \A q \in Requests \ {r} :
         req[q].op \in {"invite", "renew"} => req[q].item # new.item
  BY <1>3, <1>2 DEF Base, ItemsApart
<1> QED
  BY <1>1, <1>2, <1>3, <1>5, <1>6, RequestKeeps DEF new

-----------------------------------------------------------------------------
(* Commits *)

LEMMA SetupKeeps ==
    ASSUME Base, NEW r \in Requests, NEW u \in Users, Setup(r, u)
    PROVE  Base'
<1>1. /\ user' = [user EXCEPT ![u] = NewAdmin(TRUE)] /\ ~user[u].exists
      /\ NewAdmin(TRUE) \in Row /\ NewAdmin(TRUE).exists
      /\ End(r) /\ UNCHANGED <<invitation, token, era>>
  BY RowTypes DEF Setup, NewAdmin
<1>2. Leaves(r)
  BY <1>1 DEF Base, TypeOK, Leaves
<1>3. sessions' \subseteq [user : Users, generation : Nat, era : Nat]
  BY <1>1 DEF Setup, Session, Base, TypeOK
<1> QED
  BY <1>1, <1>2, <1>3, SameLinks, EndKeeps DEF Base, TypeOK

LEMMA LoginKeeps ==
    ASSUME Base, NEW r \in Requests, Login(r)
    PROVE  Base'
<1> DEFINE u == req[r].target
           row == Upgraded(req[r].row)
           pass == IF row = req[r].row THEN user[u].password ELSE row.password
           gen == IF row = req[r].row THEN user[u].generation ELSE row.generation
<1>1. /\ req[r] \in Request /\ req[r].op = "login" /\ u \in Users /\ user[u].exists /\ user[u] \in Row
      /\ req[r].row \in Row
  BY DEF Login, Base, TypeOK, Works, About, Request
<1>2. /\ row.password \in {"shared", "own"} /\ row.generation \in Nat
      /\ row # req[r].row => lock[u] = none
      /\ user' = [user EXCEPT ![u].password = pass, ![u].generation = gen]
      /\ sessions' = sessions \cup {Session(u, row.generation)}
      /\ End(r) /\ UNCHANGED <<invitation, token, era>>
  BY <1>1, UpgradedType DEF Login
<1> HIDE DEF row
<1>3. pass \in {"none", "shared", "own"} /\ gen \in Nat
  BY <1>1, <1>2 DEF Row
<1>4. row = req[r].row => pass = user[u].password /\ gen = user[u].generation
  OBVIOUS
<1> HIDE DEF pass, gen
<1>5. user' \in [Users -> Row]
  BY <1>1, <1>2, <1>3 DEF Base, TypeOK, Row
<1>6. row = req[r].row => user' = user
  BY <1>1, <1>2, <1>4 DEF Base, TypeOK, Row
<1>7. /\ \A v \in Users : v # u => user'[v] = user[v]
      /\ user'[u].exists = user[u].exists /\ user'[u].owner = user[u].owner
      /\ user'[u].registered = user[u].registered
  <2>1. user \in [Users -> Row]
    BY DEF Base, TypeOK
  <2>2. user'[u] = [user[u] EXCEPT !.password = pass, !.generation = gen]
    BY <1>1, <1>2, <2>1
  <2>3. \A v \in Users : v # u => user'[v] = user[v]
    BY <1>1, <1>2, <2>1
  <2> QED
    BY <1>1, <2>2, <2>3 DEF Row
<1>8. Leaves(r)
  <2>1. \A v \in Users : user[v].exists =>
           /\ user'[v].exists /\ user'[v].owner = user[v].owner
           /\ user[v].registered => user'[v].registered
    BY <1>7
  <2>2. \A v \in Users : lock[v] \in Requests \ {r} => user'[v] = user[v]
    BY <1>2, <1>6, <1>7, AccountTypes
  <2>3. \A v \in Users : ~user[v].exists => user'[v] = user[v]
    BY <1>1, <1>7
  <2> QED
    BY <1>5, <2>1, <2>2, <2>3 DEF Leaves
<1>9. sessions' \subseteq [user : Users, generation : Nat, era : Nat]
  BY <1>1, <1>2 DEF Session, Base, TypeOK
<1> QED
  BY <1>2, <1>8, <1>9, SameLinks, EndKeeps DEF Base, TypeOK

LEMMA IssuedIs ==
    ASSUME Base, NEW i \in Invitations, NEW u \in Users, NEW actor \in Users,
           NEW purpose \in {"registration", "recovery"}, NEW closed \in SUBSET Invitations,
           NEW r \in Requests, invitation' = Issued(i, u, actor, purpose, closed),
           req[r].item = i, req[r].op \in {"invite", "renew"}, invitation[i].status = "none",
           user'[u].exists, user'[actor].exists,
           \A j \in closed : invitation[j].status # "none"
    PROVE  Links(r)
<1> DEFINE new == [status |-> "open", user |-> u, by |-> actor, purpose |-> purpose, used |-> 0]
<1>1. /\ invitation'[i] = new
      /\ \A j \in closed : invitation'[j] = [invitation[j] EXCEPT !.status = "closed"]
      /\ \A j \in Invitations \ closed : j # i => invitation'[j] = invitation[j]
  BY DEF Issued
<1>2. new \in Link /\ new.status = "open" /\ new.user = u /\ new.by = actor
  BY DEF Link
<1> HIDE DEF new
<1>3. ASSUME NEW j \in Invitations
      PROVE  LET closing == [invitation[j] EXCEPT !.status = "closed"] IN
             /\ invitation[j] \in Link
             /\ closing \in Link /\ closing.status = "closed"
             /\ closing.user = invitation[j].user /\ closing.by = invitation[j].by
  BY DEF Base, TypeOK, Link
<1>4. ASSUME NEW j \in Invitations PROVE invitation'[j] \in Link
  <2>1. CASE j = i
    BY <1>1, <1>2, <2>1
  <2>2. CASE j \in closed
    BY <1>1, <1>3, <2>2
  <2>3. CASE j # i /\ j \notin closed
    BY <1>1, <1>3, <2>3
  <2> QED
    BY <2>1, <2>2, <2>3
<1>5. invitation' \in [Invitations -> Link]
  BY <1>4 DEF Issued
<1>6. \A j \in Invitations : invitation[j].status # "none" =>
         /\ invitation'[j].status # "none"
         /\ invitation'[j].user = invitation[j].user
         /\ invitation'[j].by = invitation[j].by
  BY <1>1, <1>3
<1>7. \A j \in Invitations : j # i /\ invitation[j].status = "none" => invitation'[j] = invitation[j]
  BY <1>1
<1> QED
  BY <1>1, <1>2, <1>5, <1>6, <1>7 DEF Links

LEMMA CreateAdminKeeps ==
    ASSUME Base, NEW r \in Requests, CreateAdmin(r)
    PROVE  Base'
<1> DEFINE u == req[r].target
           i == req[r].item
<1>1. /\ req[r].op = "invite" /\ u \in Users /\ ~user[u].exists
      /\ req[r].actor \in Users /\ user[req[r].actor].exists
      /\ i \in Invitations /\ invitation[i].status = "none"
      /\ user' = [user EXCEPT ![u] = Invited] /\ Invited \in Row /\ Invited.exists
      /\ invitation' = Issued(i, u, req[r].actor, "registration", {})
      /\ End(r) /\ UNCHANGED <<token, sessions, era>>
  BY RowTypes DEF CreateAdmin, Base, Works, About, Administrative, Invited, Absent
<1>2. Leaves(r)
  BY <1>1 DEF Base, TypeOK, Leaves
<1>3. user'[u].exists /\ user'[req[r].actor].exists
  BY <1>1 DEF Base, TypeOK
<1>4. Links(r)
  BY <1>1, <1>3, IssuedIs
<1> QED
  BY <1>1, <1>2, <1>4, EndKeeps DEF Base, TypeOK

LEMMA RenewKeeps ==
    ASSUME Base, NEW r \in Requests, Renew(r)
    PROVE  Base'
<1> DEFINE u == req[r].target
           i == req[r].item
<1>1. /\ req[r].op = "renew" /\ u \in Users /\ user[u].exists
      /\ req[r].actor \in Users /\ user[req[r].actor].exists
      /\ i \in Invitations /\ invitation[i].status = "none"
      /\ invitation' = Issued(i, u, req[r].actor, req[r].arg, req[r].closes)
      /\ End(r) /\ UNCHANGED <<user, token, sessions, era>>
  BY DEF Renew, Base, Works, About, Administrative
<1>2. req[r].arg \in {"registration", "recovery"} /\ req[r].closes \in SUBSET Invitations
      /\ \A j \in req[r].closes : invitation[j].status # "none"
  BY <1>1 DEF Base, Works
<1>3. Links(r)
  BY <1>1, <1>2, IssuedIs
<1> QED
  BY <1>1, <1>3, SameUsers, EndKeeps DEF Base, TypeOK

Token == [status : {"none", "live", "revoked"}, user : Users \cup {none}, era : Nat, seen : Nat]

LEMMA KilledIs ==
    ASSUME token \in [Tokens -> Token], NEW dead \in SUBSET Tokens
    PROVE  /\ Killed(dead) \in [Tokens -> Token]
           /\ \A t \in Tokens : t \notin dead => Killed(dead)[t] = token[t]
           /\ \A t \in dead : Killed(dead)[t].status = "revoked"
<1>1. ASSUME NEW t \in Tokens PROVE [token[t] EXCEPT !.status = "revoked"] \in Token
  BY DEF Token
<1>2. \A t \in dead : Killed(dead)[t] = [token[t] EXCEPT !.status = "revoked"] /\ Killed(dead)[t].status = "revoked"
  BY DEF Killed, Token
<1> QED
  BY <1>1, <1>2 DEF Killed

LEMMA UpdateKeeps ==
    ASSUME Base, NEW r \in Requests, Update(r)
    PROVE  Base'
<1> DEFINE u == req[r].target
           row == req[r].row
<1>1. /\ req[r] \in Request /\ req[r].op = "update" /\ u \in Users /\ user[u].exists /\ user[u] \in Row
      /\ row \in Row /\ lock[u] = r /\ End(r) /\ UNCHANGED <<invitation, sessions>>
  BY DEF Update, Base, TypeOK, Works, About, Request
<1>2. CASE ~Changes(r)
  BY <1>1, <1>2, SameUsers, SameLinks, EndKeeps DEF Update, Base, TypeOK
<1>3. CASE Changes(r)
  <2> DEFINE active == (req[r].arg = "activate")
             gen == NextGeneration(row)
  <2>1. user' = [user EXCEPT ![u].active = active, ![u].generation = gen]
    BY <1>3 DEF Update
  <2>2. active \in BOOLEAN /\ gen \in Nat
    BY <1>1 DEF NextGeneration, Row
  <2> HIDE DEF active, gen
  <2>3. user \in [Users -> Row]
    BY DEF Base, TypeOK
  <2>4. user' \in [Users -> Row]
    BY <1>1, <2>1, <2>2, <2>3 DEF Row
  <2>5. user'[u] = [user[u] EXCEPT !.active = active, !.generation = gen]
    BY <1>1, <2>1, <2>3
  <2>6. \A v \in Users : v # u => user'[v] = user[v]
    BY <1>1, <2>1, <2>3
  <2>7. /\ user'[u].exists = user[u].exists /\ user'[u].owner = user[u].owner
        /\ user'[u].registered = user[u].registered
    BY <1>1, <2>5 DEF Row
  <2>8. Leaves(r)
    <3>1. \A v \in Users : user[v].exists =>
             /\ user'[v].exists /\ user'[v].owner = user[v].owner
             /\ user[v].registered => user'[v].registered
      BY <2>6, <2>7
    <3>2. \A v \in Users : v # u => user'[v] = user[v]
      BY <2>6
    <3> QED
      BY <1>1, <2>4, <3>1, <3>2 DEF Leaves
  <2>9. token' \in [Tokens -> Token]
    BY <1>1, <1>3, KilledIs DEF Update, Base, TypeOK, Token, Request
  <2>10. era' \in [Users -> Nat]
    BY <1>1, <1>3 DEF Update, Base, TypeOK
  <2> QED
    BY <1>1, <2>8, <2>9, <2>10, SameLinks, EndKeeps DEF Base, TypeOK, Token
<1> QED
  BY <1>2, <1>3

LEMMA CreateTokenKeeps ==
    ASSUME Base, NEW r \in Requests, CreateToken(r)
    PROVE  Base'
<1>1. /\ req[r] \in Request /\ req[r].actor \in Users /\ req[r].item \in Tokens /\ End(r)
      /\ token' = [token EXCEPT ![req[r].item] = NewToken(req[r].actor, req[r].era)]
      /\ UNCHANGED <<user, invitation, sessions, era>>
  BY DEF CreateToken, Base, TypeOK, Works, Administrative
<1>2. NewToken(req[r].actor, req[r].era) \in Token
  BY <1>1 DEF NewToken, Token, Request, Base, TypeOK
<1>3. token' \in [Tokens -> Token]
  BY <1>1, <1>2 DEF Base, TypeOK, Token
<1> QED
  BY <1>1, <1>3, SameUsers, SameLinks, EndKeeps DEF Base, TypeOK, Token

LEMMA RevokeTokenKeeps ==
    ASSUME Base, NEW r \in Requests, RevokeToken(r)
    PROVE  Base'
<1>1. Revocable(r) \in SUBSET Tokens /\ token \in [Tokens -> Token]
  BY DEF Revocable, LiveTokens, Base, TypeOK, Token
<1>2. /\ token' = Killed(Revocable(r)) /\ End(r) /\ UNCHANGED <<user, invitation, sessions, era>>
  BY DEF RevokeToken
<1> QED
  BY <1>1, <1>2, KilledIs, SameUsers, SameLinks, EndKeeps DEF Base, TypeOK, Token

LEMMA AcceptKeeps ==
    ASSUME Base, NEW r \in Requests, Accept(r)
    PROVE  Base'
<1> DEFINE u == req[r].target
           i == req[r].item
           gen == NextGeneration(req[r].row)
           redeemed(j) == [invitation[j] EXCEPT !.status = "closed", !.used = @ + 1]
           closed(j) == [invitation[j] EXCEPT !.status = "closed"]
<1>1. /\ req[r] \in Request /\ req[r].op = "accept" /\ u \in Users /\ user[u].exists /\ user[u] \in Row
      /\ i \in Invitations /\ invitation[i].status # "none"
      /\ lock[u] = r /\ End(r)
      /\ \A j \in req[r].closes : j \in Invitations /\ invitation[j].status # "none"
  BY DEF Accept, Base, TypeOK, Works, About
<1>2. gen \in Nat
  BY <1>1 DEF NextGeneration, Request, Row
<1>3. user' = [user EXCEPT ![u].registered = TRUE, ![u].password = "own", ![u].generation = gen]
  BY DEF Accept
<1> HIDE DEF gen
<1>4. user \in [Users -> Row]
  BY DEF Base, TypeOK
<1>5. Leaves(r)
  <2>1. user' \in [Users -> Row]
    BY <1>1, <1>2, <1>3, <1>4 DEF Row
  <2>2. user'[u] = [user[u] EXCEPT !.registered = TRUE, !.password = "own", !.generation = gen]
    BY <1>1, <1>3, <1>4
  <2>3. \A v \in Users : v # u => user'[v] = user[v]
    BY <1>1, <1>3, <1>4
  <2>4. user'[u].exists = user[u].exists /\ user'[u].owner = user[u].owner /\ user'[u].registered
    BY <1>1, <2>2 DEF Row
  <2>5. \A v \in Users : user[v].exists =>
           /\ user'[v].exists /\ user'[v].owner = user[v].owner
           /\ user[v].registered => user'[v].registered
    BY <2>3, <2>4
  <2> QED
    BY <1>1, <2>1, <2>3, <2>5 DEF Leaves
<1>6. ASSUME NEW j \in Invitations
      PROVE  /\ redeemed(j) \in Link /\ redeemed(j).status = "closed"
             /\ redeemed(j).user = invitation[j].user /\ redeemed(j).by = invitation[j].by
             /\ closed(j) \in Link /\ closed(j).status = "closed"
             /\ closed(j).user = invitation[j].user /\ closed(j).by = invitation[j].by
             /\ invitation[j] \in Link
  <2>1. invitation[j] \in Link
    BY DEF Base, TypeOK, Link
  <2>2. redeemed(j) \in Link
    <3>1. invitation[j].used + 1 \in Nat
      BY <2>1 DEF Link
    <3>2. \A n \in Nat : [invitation[j] EXCEPT !.status = "closed", !.used = n] \in Link
      BY <2>1 DEF Link
    <3> QED
      BY <3>1, <3>2
  <2>3. closed(j) \in Link
    BY <2>1 DEF Link
  <2>4. /\ redeemed(j).status = "closed"
        /\ redeemed(j).user = invitation[j].user /\ redeemed(j).by = invitation[j].by
        /\ closed(j).status = "closed"
        /\ closed(j).user = invitation[j].user /\ closed(j).by = invitation[j].by
    BY <2>1 DEF Link
  <2> QED
    BY <2>1, <2>2, <2>3, <2>4
<1>7. \A j \in Invitations :
         /\ j = i => invitation'[j] = redeemed(j)
         /\ j # i /\ j \in req[r].closes => invitation'[j] = closed(j)
         /\ j # i /\ j \notin req[r].closes => invitation'[j] = invitation[j]
  BY DEF Accept
<1> HIDE DEF redeemed, closed
<1>8. Links(r)
  <2>1. \A j \in Invitations : invitation'[j] \in Link
    BY <1>6, <1>7
  <2>2. invitation' \in [Invitations -> Link]
    BY <2>1 DEF Accept
  <2>3. \A j \in Invitations : invitation[j].status # "none" =>
           /\ invitation'[j].status # "none"
           /\ invitation'[j].user = invitation[j].user
           /\ invitation'[j].by = invitation[j].by
    BY <1>6, <1>7
  <2>4. \A j \in Invitations : invitation[j].status = "none" => invitation'[j] = invitation[j]
    BY <1>1, <1>7
  <2> QED
    BY <2>2, <2>3, <2>4 DEF Links
<1>9. token' \in [Tokens -> Token]
  BY <1>1, KilledIs DEF Accept, Base, TypeOK, Token, Request
<1>10. era' \in [Users -> Nat]
  <2>1. era \in [Users -> Nat] /\ [era EXCEPT ![u] = @ + 1] \in [Users -> Nat]
    BY <1>1 DEF Base, TypeOK
  <2>2. era' = [era EXCEPT ![u] = @ + 1] \/ era' = era
    BY DEF Accept
  <2> QED
    BY <2>1, <2>2
<1>11. sessions' \subseteq [user : Users, generation : Nat, era : Nat]
  <2>1. sessions' = sessions \cup {[user |-> u, generation |-> gen, era |-> era'[u]]}
    BY DEF Accept, Session, gen
  <2>2. era'[u] \in Nat /\ sessions \subseteq [user : Users, generation : Nat, era : Nat]
    BY <1>1, <1>10 DEF Base, TypeOK
  <2> QED
    BY <1>1, <1>2, <2>1, <2>2
<1> QED
  BY <1>1, <1>5, <1>8, <1>9, <1>10, <1>11, EndKeeps DEF Token

LEMMA ExpireKeeps ==
    ASSUME Base, NEW i \in Invitations, ExpireInvitation(i)
    PROVE  Base'
<1> DEFINE closed == [invitation[i] EXCEPT !.status = "closed"]
<1>1. /\ invitation[i].status = "open" /\ invitation \in [Invitations -> Link]
      /\ invitation' = [invitation EXCEPT ![i] = closed]
      /\ UNCHANGED <<user, token, sessions, era, lock, req>>
  BY DEF ExpireInvitation, Base, TypeOK, Link
<1>2. /\ closed \in Link /\ closed.status = "closed"
      /\ closed.user = invitation[i].user /\ closed.by = invitation[i].by
  BY <1>1 DEF Link
<1> HIDE DEF closed
<1>3. /\ invitation' \in [Invitations -> Link]
      /\ invitation'[i] = closed
      /\ \A j \in Invitations : j # i => invitation'[j] = invitation[j]
  BY <1>1, <1>2
<1>4. TypeOK' /\ RowsFit'
  BY <1>1, <1>2, <1>3 DEF Base, TypeOK, RowsFit, Link
<1>5. ASSUME NEW r \in Requests PROVE Works(r)'
  <2>1. Works(r)
    BY DEF Base
  <2> QED
    BY <1>1, <1>2, <1>3, <2>1 DEF Works
<1> QED
  BY <1>1, <1>4, <1>5 DEF Base, ItemsApart

-----------------------------------------------------------------------------
(* Types *)

LEMMA BaseInit == Init => Base
<1> SUFFICES ASSUME Init PROVE Base
  OBVIOUS
<1>1. PICK start \in Starts :
         /\ user = [u \in Users |-> IF u \notin start THEN Absent
                                    ELSE [NewAdmin(u = first) EXCEPT
                                            !.password = IF u \in Unhashed THEN "none" ELSE @]]
         /\ sessions = [user : start, generation : {0}, era : {0}]
  BY DEF Init
<1>2. user \in [Users -> Row]
  BY <1>1, RowTypes DEF NewAdmin, Row
<1>3. sessions \subseteq [user : Users, generation : Nat, era : Nat]
  BY <1>1, AccountTypes
<1>4. TypeOK
  BY <1>2, <1>3, RowTypes DEF Init, TypeOK
<1>5. RowsFit
  BY <1>1 DEF Init, RowsFit, NewAdmin
<1> QED
  BY <1>4, <1>5, IdleWorks DEF Init, Base, ItemsApart, Works, Idle, About, Administrative

LEMMA BaseStep == Base /\ [Next]_vars => Base'
<1> SUFFICES ASSUME Base, [Next]_vars PROVE Base'
  OBVIOUS
<1>1. ASSUME NEW r \in Requests, Step(r) PROVE Base'
  BY <1>1, SetupKeeps, LoginKeeps, CreateAdminKeeps, LockKeeps, FlushKeeps, RenewKeeps, UpdateKeeps,
     CreateTokenKeeps, RevokeTokenKeeps, AcceptKeeps, NoEffectKeeps DEF Step
<1>2. CASE UNCHANGED vars
  BY <1>2 DEF vars, Base, TypeOK, ItemsApart, RowsFit, Works
<1> QED
  BY <1>1, <1>2, BeginKeeps, NoEffectKeeps, ExpireKeeps DEF Next

LEMMA BaseHolds == Spec => []Base
  BY BaseInit, BaseStep, PTL DEF Spec

\* Every row and every request keeps its type, however requests overlap.
THEOREM TypeCorrect == Spec => []TypeOK
<1>1. Base => TypeOK
  BY DEF Base
<1> QED
  BY <1>1, BaseHolds, PTL

-----------------------------------------------------------------------------
(* Sessions *)

\* A session of the current generation is of the current era; a login that has loaded
\* its account has a generation the account had.
SessionInv ==
    /\ \A s \in sessions : /\ s.generation <= user[s.user].generation
                           /\ s.generation = user[s.user].generation => s.era = era[s.user]
    /\ \A r \in Requests : req[r].op = "login" =>
          req[r].row.password # "none" /\ req[r].row.generation <= user[req[r].target].generation

\* Eras end with generations.
Grows == \A u \in Users : \/ user'[u].generation > user[u].generation
                          \/ user'[u].generation = user[u].generation /\ era'[u] = era[u]

Logins(r) == \A q \in Requests : req'[q].op = "login" => q # r /\ req'[q] = req[q]

LEMMA SessionsFit ==
    ASSUME Base, Base', SessionInv, Grows, NEW r \in Requests, Logins(r),
           \A s \in sessions' \ sessions : /\ s.generation <= user'[s.user].generation
                                           /\ s.era = era'[s.user]
    PROVE  SessionInv'
<1>1. /\ \A u \in Users : user[u].generation \in Nat /\ user'[u].generation \in Nat
      /\ \A s \in sessions : s.user \in Users /\ s.generation \in Nat
  BY DEF Base, TypeOK, Row
<1>2. \A s \in sessions : /\ s.generation <= user'[s.user].generation
                          /\ s.generation = user'[s.user].generation => s.era = era'[s.user]
  BY <1>1 DEF SessionInv, Grows
<1>3. ASSUME NEW q \in Requests, req'[q].op = "login"
      PROVE  req'[q].row.password # "none" /\ req'[q].row.generation <= user'[req'[q].target].generation
  <2>1. req'[q] = req[q] /\ req[q].target \in Users /\ req[q].row.generation \in Nat
    BY <1>3 DEF Logins, Base, TypeOK, Works, About, Request, Row
  <2> QED
    BY <1>1, <1>3, <2>1 DEF SessionInv, Grows
<1> QED
  BY <1>2, <1>3 DEF SessionInv

LEMMA EndsLogin ==
    ASSUME TypeOK, NEW r \in Requests, End(r)
    PROVE  Logins(r)
  BY ReleasedIs DEF Logins, Idle

LEMMA SessionStep ==
    ASSUME ~SharedPassword, Base, Base', SessionInv, [Next]_vars
    PROVE  SessionInv'
<1>1. ASSUME NEW r \in Requests, NEW u \in Users, Setup(r, u) PROVE SessionInv'
  <2>1. /\ End(r) /\ era' = era /\ user' = [user EXCEPT ![u] = NewAdmin(TRUE)]
        /\ sessions' = sessions \cup {Session(u, 0)}
        /\ user[u] = Absent
    BY <1>1 DEF Setup, Base, RowsFit
  <2>2. user'[u].generation = 0 /\ user[u].generation = 0
    BY <2>1 DEF NewAdmin, Absent, Base, TypeOK
  <2>3. Grows
    BY <2>1, <2>2 DEF Grows, Base, TypeOK
  <2>4. ASSUME NEW s \in sessions' \ sessions
        PROVE  s.generation <= user'[s.user].generation /\ s.era = era'[s.user]
    <3>1. s = [user |-> u, generation |-> 0, era |-> era'[u]]
      BY <2>1 DEF Session
    <3> QED
      BY <2>2, <3>1
  <2> QED
    BY <2>1, <2>3, <2>4, EndsLogin, SessionsFit DEF Base
<1>2. ASSUME NEW r \in Requests, Login(r) PROVE SessionInv'
  <2> DEFINE u == req[r].target
  <2>1. /\ req[r].op = "login" /\ u \in Users /\ req[r].row \in Row
        /\ req[r].row.password # "none" /\ req[r].row.generation <= user[u].generation
    <3>1. Works(r) /\ req[r] \in Request /\ req[r].op = "login"
      BY <1>2 DEF Login, Base, TypeOK
    <3> QED
      BY <3>1 DEF SessionInv, Works, About, Request
  <2>2. Upgraded(req[r].row) = req[r].row
    BY <2>1, UpgradedType
  <2>3. /\ End(r) /\ era' = era
        /\ user' = [user EXCEPT ![u].password = user[u].password, ![u].generation = user[u].generation]
        /\ sessions' = sessions \cup {Session(u, req[r].row.generation)}
    BY <1>2, <2>2 DEF Login
  <2>4. \A v \in Users : user'[v].generation = user[v].generation
    BY <2>1, <2>3 DEF Base, TypeOK, Row
  <2>5. ASSUME NEW s \in sessions' \ sessions
        PROVE  s.generation <= user'[s.user].generation /\ s.era = era'[s.user]
    <3>1. s = [user |-> u, generation |-> req[r].row.generation, era |-> era'[u]]
      BY <2>3 DEF Session
    <3> QED
      BY <2>1, <2>4, <3>1
  <2>6. Grows
    BY <2>3, <2>4 DEF Grows
  <2> QED
    BY <2>3, <2>5, <2>6, EndsLogin, SessionsFit DEF Base
<1>3. ASSUME NEW r \in Requests, CreateAdmin(r) PROVE SessionInv'
  <2>1. /\ End(r) /\ UNCHANGED <<era, sessions>> /\ user' = [user EXCEPT ![req[r].target] = Invited]
        /\ req[r].target \in Users /\ user[req[r].target] = Absent
    BY <1>3 DEF CreateAdmin, Base, RowsFit, Works, Administrative
  <2>2. Grows
    BY <2>1 DEF Grows, Base, TypeOK, Invited, Absent
  <2> QED
    BY <2>1, <2>2, EndsLogin, SessionsFit DEF Base
<1>4. ASSUME NEW r \in Requests, Update(r) PROVE SessionInv'
  <2> DEFINE u == req[r].target
  <2>1. /\ End(r) /\ sessions' = sessions /\ u \in Users /\ user[u] \in Row /\ Works(r)
        /\ req[r].op = "update" /\ req[r].stage = "flushed" /\ req[r].row \in Row
        /\ req[r].arg \in {"none", "registration", "recovery", "activate", "deactivate"}
    BY <1>4 DEF Update, Base, TypeOK, Works, Administrative, Request
  <2>2. CASE ~Changes(r)
    BY <1>4, <2>1, <2>2, EndsLogin, SessionsFit DEF Update, Base, TypeOK, Row, Grows
  <2>3. CASE Changes(r)
    <3>1. req[r].row = user[u]
      BY <2>1, <2>3 DEF Works, Changes
    <3>2. user'[u].generation = user[u].generation + 1
      BY <1>4, <2>1, <2>3, <3>1 DEF Update, NextGeneration, Base, TypeOK, Row
    <3>3. \A v \in Users : v # u => user'[v] = user[v] /\ era'[v] = era[v]
      BY <1>4, <2>1, <2>3 DEF Update, Base, TypeOK
    <3>4. Grows
      BY <2>1, <3>2, <3>3 DEF Grows, Row
    <3> QED
      BY <2>1, <3>4, EndsLogin, SessionsFit DEF Base
  <2> QED
    BY <2>2, <2>3
<1>5. ASSUME NEW r \in Requests, Accept(r) PROVE SessionInv'
  <2> DEFINE u == req[r].target
  <2>1. /\ End(r) /\ u \in Users /\ user[u] \in Row /\ req[r].row = user[u]
    <3>1. Works(r) /\ req[r].op = "accept" /\ req[r].stage = "flushed" /\ End(r)
      BY <1>5 DEF Accept, Base
    <3> QED
      BY <3>1 DEF Works, About, Base, TypeOK
  <2>2. user'[u].generation = user[u].generation + 1
    <3> DEFINE generation == user[u].generation + 1
    <3>1. user' = [user EXCEPT ![u].registered = TRUE, ![u].password = "own", ![u].generation = generation]
      BY <1>5, <2>1 DEF Accept, NextGeneration
    <3>2. user \in [Users -> Row]
      BY DEF Base, TypeOK
    <3> HIDE DEF generation
    <3>3. user'[u] = [user[u] EXCEPT !.registered = TRUE, !.password = "own", !.generation = generation]
      BY <2>1, <3>1, <3>2
    <3>4. user'[u].generation = generation
      BY <2>1, <3>3 DEF Row
    <3> QED
      BY <3>4 DEF generation
  <2>3. \A v \in Users : v # u => user'[v] = user[v] /\ era'[v] = era[v]
    <3>1. PICK generation :
             user' = [user EXCEPT ![u].registered = TRUE, ![u].password = "own", ![u].generation = generation]
      BY <1>5 DEF Accept
    <3>2. user \in [Users -> Row] /\ era \in [Users -> Nat]
      BY DEF Base, TypeOK
    <3>3. era' = [era EXCEPT ![u] = @ + 1] \/ era' = era
      BY <1>5 DEF Accept
    <3> QED
      BY <3>1, <3>2, <3>3
  <2>4. Grows
    BY <2>1, <2>2, <2>3 DEF Grows, Row
  <2>5. sessions' = sessions \cup {Session(u, user[u].generation + 1)}
    BY <1>5, <2>1 DEF Accept, NextGeneration
  <2>6. ASSUME NEW s \in sessions' \ sessions
        PROVE  s.generation <= user'[s.user].generation /\ s.era = era'[s.user]
    <3>1. s = [user |-> u, generation |-> user[u].generation + 1, era |-> era'[u]]
      BY <2>5 DEF Session
    <3> QED
      BY <2>1, <2>2, <3>1 DEF Row
  <2> QED
    BY <2>1, <2>4, <2>6, EndsLogin, SessionsFit DEF Base
<1>6. ASSUME NEW r \in Requests, NEW u \in Users, BeginLogin(r, u) PROVE SessionInv'
  <2>1. /\ UNCHANGED <<user, sessions, era>> /\ user[u] \in Row /\ user[u].password # "none"
        /\ \A q \in Requests : q # r => req'[q] = req[q]
        /\ req'[r].row = user[u] /\ req'[r].target = u
    BY <1>6 DEF BeginLogin, rows, Base, TypeOK, Idle
  <2> QED
    BY <2>1 DEF SessionInv, Row
<1>7. ASSUME NEW r \in Requests, UNCHANGED <<user, sessions, era>>, Logins(r)
      PROVE  SessionInv'
  BY <1>7, SessionsFit DEF Grows, Base, TypeOK, Row
<1>8. ASSUME NEW r \in Requests, Step(r) \/ Begin(r) \/ Abort(r) PROVE SessionInv'
  <2>1. CASE \/ Renew(r) \/ CreateToken(r) \/ RevokeToken(r)
             \/ Refused(r) \/ Abort(r)
    BY <2>1, <1>7, EndsLogin DEF Renew, CreateToken, RevokeToken, Refused, Abort, rows, Base
  <2>2. CASE LockTarget(r) \/ FlushRenew(r) \/ FlushUpdate(r) \/ LockInvited(r) \/ FlushAccept(r)
    <3>1. /\ UNCHANGED <<user, sessions, era>> /\ req[r].op # "login" /\ req'[r].op = req[r].op
          /\ \A q \in Requests : q # r => req'[q] = req[q]
      BY <2>2 DEF LockTarget, FlushRenew, FlushUpdate, LockInvited, FlushAccept, rows, Base, TypeOK, Request
    <3> QED
      BY <1>7, <3>1 DEF Logins
  <2>3. CASE /\ Begin(r) /\ ~\E u \in Users : BeginLogin(r, u)
    <3>1. /\ UNCHANGED <<user, invitation, token, sessions, era, lock>>
          /\ req'[r].op # "login"
          /\ \A q \in Requests : q # r => req'[q] = req[q]
      BY <2>3, BeginIs
    <3> QED
      BY <1>7, <3>1 DEF Logins
  <2> QED
    BY <1>1, <1>2, <1>3, <1>4, <1>5, <1>6, <1>8, <2>1, <2>2, <2>3 DEF Step, Begin
<1>9. CASE UNCHANGED vars \/ \E i \in Invitations : ExpireInvitation(i)
  BY <1>9 DEF vars, ExpireInvitation, SessionInv
<1> QED
  BY <1>8, <1>9 DEF Next

\* Without the shared password of older versions, no session that was ended by a
\* deactivation or a reset becomes valid again (SessionsEnd).
THEOREM SessionsEndForGood ==
    ASSUME ~SharedPassword
    PROVE  Spec => []SessionsEnd
<1>1. Init => SessionInv
  <2> SUFFICES ASSUME Init PROVE SessionInv
    OBVIOUS
  <2>1. PICK start \in Starts :
           /\ user = [u \in Users |-> IF u \notin start THEN Absent
                                      ELSE [NewAdmin(u = first) EXCEPT
                                              !.password = IF u \in Unhashed THEN "none" ELSE @]]
           /\ sessions = [user : start, generation : {0}, era : {0}]
    BY DEF Init
  <2>2. \A u \in Users : user[u].generation = 0 /\ era[u] = 0
    BY <2>1 DEF NewAdmin, Absent, Init
  <2>3. \A s \in sessions : s.user \in Users /\ s.generation = 0 /\ s.era = 0
    BY <2>1, AccountTypes
  <2>4. \A r \in Requests : req[r].op # "login"
    BY DEF Init, Idle
  <2> QED
    BY <2>2, <2>3, <2>4 DEF SessionInv
<1>2. SessionInv => SessionsEnd
  BY DEF SessionInv, SessionsEnd, ValidSession
<1>3. Base /\ Base' /\ SessionInv /\ [Next]_vars => SessionInv'
  BY SessionStep
<1> QED
  BY <1>1, <1>2, <1>3, BaseHolds, PTL DEF Spec

-----------------------------------------------------------------------------
(* What each step does to the rows *)

\* All links but i keep what they are; those in C are closed.
LinksBut(i, C) == \A j \in Invitations : j # i =>
    /\ invitation'[j].user = invitation[j].user /\ invitation'[j].by = invitation[j].by
    /\ invitation'[j].purpose = invitation[j].purpose /\ invitation'[j].used = invitation[j].used
    /\ invitation'[j].status = IF j \in C THEN "closed" ELSE invitation[j].status

UsersBut(u) == \A v \in Users : v # u => user'[v] = user[v]

LEMMA SetupIs ==
    ASSUME Base, NEW r \in Requests, NEW u \in Users, Setup(r, u)
    PROVE  /\ user'[u] = NewAdmin(TRUE) /\ UsersBut(u) /\ ~user[u].exists /\ Ownerless
           /\ UNCHANGED <<invitation, token, era>>
  BY DEF Setup, Base, TypeOK, UsersBut

LEMMA LoginIs ==
    ASSUME Base, NEW r \in Requests, Login(r)
    PROVE  /\ \A v \in Users : /\ user'[v].exists = user[v].exists /\ user'[v].owner = user[v].owner
                               /\ user'[v].active = user[v].active
                               /\ user'[v].registered = user[v].registered
           /\ UNCHANGED <<invitation, token, era>>
<1> DEFINE u == req[r].target
<1>1. user \in [Users -> Row] /\ u \in Users
  BY DEF Login, Base, TypeOK, Works, About
<1>2. PICK password, generation :
         user' = [user EXCEPT ![u].password = password, ![u].generation = generation]
  BY DEF Login
<1>3. /\ user'[u] = [user[u] EXCEPT !.password = password, !.generation = generation]
      /\ UsersBut(u) /\ user[u] \in Row
  BY <1>1, <1>2 DEF UsersBut
<1>4. /\ user'[u].exists = user[u].exists /\ user'[u].owner = user[u].owner
      /\ user'[u].active = user[u].active /\ user'[u].registered = user[u].registered
  BY <1>3 DEF Row
<1> QED
  BY <1>3, <1>4 DEF UsersBut, Login

LEMMA IssuedFields ==
    ASSUME Base, NEW i \in Invitations, NEW u, NEW actor, NEW purpose, NEW closed,
           i \notin closed, invitation' = Issued(i, u, actor, purpose, closed)
    PROVE  /\ invitation'[i] = [status |-> "open", user |-> u, by |-> actor, purpose |-> purpose, used |-> 0]
           /\ LinksBut(i, closed)
<1>1. ASSUME NEW j \in Invitations
      PROVE  LET closing == [invitation[j] EXCEPT !.status = "closed"] IN
             /\ closing.status = "closed" /\ closing.user = invitation[j].user
             /\ closing.by = invitation[j].by /\ closing.purpose = invitation[j].purpose
             /\ closing.used = invitation[j].used
  BY DEF Base, TypeOK
<1>2. \A j \in Invitations : j # i =>
         invitation'[j] = IF j \in closed THEN [invitation[j] EXCEPT !.status = "closed"] ELSE invitation[j]
  BY DEF Issued
<1> QED
  BY <1>1, <1>2 DEF Issued, LinksBut

LEMMA CreateAdminIs ==
    ASSUME Base, NEW r \in Requests, CreateAdmin(r)
    PROVE  LET u == req[r].target
               i == req[r].item
           IN /\ u \in Users /\ ~user[u].exists /\ user'[u] = Invited /\ UsersBut(u)
              /\ req[r].actor \in Users /\ user[req[r].actor].exists
              /\ i \in Invitations /\ invitation[i].status = "none" /\ LinksBut(i, {})
              /\ invitation'[i] = [status |-> "open", user |-> u, by |-> req[r].actor,
                                   purpose |-> "registration", used |-> 0]
              /\ UNCHANGED <<token, era>>
<1>1. /\ req[r].op = "invite" /\ Works(r) /\ user' = [user EXCEPT ![req[r].target] = Invited]
      /\ ~user[req[r].target].exists /\ UNCHANGED <<token, era>>
      /\ invitation' = Issued(req[r].item, req[r].target, req[r].actor, "registration", {})
  BY DEF CreateAdmin, Base
<1>2. /\ req[r].target \in Users /\ req[r].actor \in Users /\ user[req[r].actor].exists
      /\ req[r].item \in Invitations /\ invitation[req[r].item].status = "none"
  BY <1>1 DEF Works, Administrative
<1> QED
  BY <1>1, <1>2, IssuedFields DEF Base, TypeOK, UsersBut

LEMMA RenewIs ==
    ASSUME Base, NEW r \in Requests, Renew(r)
    PROVE  LET u == req[r].target
               i == req[r].item
           IN /\ u \in Users /\ user[u].exists /\ UNCHANGED <<user, token, era>>
              /\ req[r].actor \in Users /\ user[req[r].actor].exists
              /\ i \in Invitations /\ invitation[i].status = "none" /\ i \notin req[r].closes
              /\ LinksBut(i, req[r].closes)
              /\ invitation'[i] = [status |-> "open", user |-> u, by |-> req[r].actor,
                                   purpose |-> req[r].arg, used |-> 0]
              /\ req[r].op = "renew" /\ req[r].stage = "flushed" /\ Works(r)
<1>1. /\ req[r].op = "renew" /\ req[r].stage = "flushed" /\ Works(r) /\ UNCHANGED <<user, token, era>>
      /\ invitation' = Issued(req[r].item, req[r].target, req[r].actor, req[r].arg, req[r].closes)
  BY DEF Renew, Base
<1>2. /\ req[r].target \in Users /\ req[r].actor \in Users /\ user[req[r].actor].exists
      /\ user[req[r].target].exists
      /\ req[r].item \in Invitations /\ invitation[req[r].item].status = "none"
      /\ req[r].item \notin req[r].closes
  BY <1>1 DEF Works, Administrative, About
<1> QED
  BY <1>1, <1>2, IssuedFields

LEMMA UpdateIs ==
    ASSUME Base, NEW r \in Requests, Update(r)
    PROVE  LET u == req[r].target IN
           /\ u \in Users /\ user[u].exists /\ UsersBut(u) /\ invitation' = invitation
           /\ user'[u].exists = user[u].exists /\ user'[u].owner = user[u].owner
           /\ user'[u].registered = user[u].registered
           /\ ~Changes(r) => UNCHANGED <<user, token, era>>
           /\ Changes(r) => /\ user'[u].active = (req[r].arg = "activate")
                            /\ token' = Killed(req[r].kills)
                            /\ era' = IF req[r].arg = "deactivate" THEN [era EXCEPT ![u] = @ + 1] ELSE era
           /\ req[r].op = "update" /\ req[r].stage = "flushed" /\ Works(r) /\ req[r].kills \in SUBSET Tokens
<1> DEFINE u == req[r].target
<1>1. /\ req[r].op = "update" /\ req[r].stage = "flushed" /\ Works(r) /\ invitation' = invitation
      /\ req[r] \in Request /\ user \in [Users -> Row]
  BY DEF Update, Base, TypeOK
<1>2. u \in Users /\ user[u].exists /\ user[u] \in Row /\ req[r].kills \in SUBSET Tokens
  BY <1>1 DEF Works, About, Request
<1>3. CASE ~Changes(r)
  BY <1>1, <1>2, <1>3 DEF Update, UsersBut
<1>4. CASE Changes(r)
  <2> DEFINE active == (req[r].arg = "activate")
             generation == NextGeneration(req[r].row)
  <2>1. user' = [user EXCEPT ![u].active = active, ![u].generation = generation]
    BY <1>4 DEF Update
  <2> HIDE DEF generation
  <2>2. user'[u] = [user[u] EXCEPT !.active = active, !.generation = generation] /\ UsersBut(u)
    BY <1>1, <1>2, <2>1 DEF UsersBut
  <2>3. /\ user'[u].exists = user[u].exists /\ user'[u].owner = user[u].owner
        /\ user'[u].registered = user[u].registered /\ user'[u].active = active
    BY <1>2, <2>2 DEF Row
  <2>4. /\ token' = Killed(req[r].kills)
        /\ era' = IF req[r].arg = "deactivate" THEN [era EXCEPT ![u] = @ + 1] ELSE era
    BY <1>4 DEF Update
  <2> QED
    BY <1>1, <1>2, <1>4, <2>1, <2>2, <2>3, <2>4
<1> QED
  BY <1>3, <1>4

LEMMA AcceptIs ==
    ASSUME Base, NEW r \in Requests, Accept(r)
    PROVE  LET u == req[r].target
               i == req[r].item
           IN /\ u \in Users /\ user[u].exists /\ UsersBut(u)
              /\ user'[u].exists /\ user'[u].owner = user[u].owner
              /\ user'[u].registered /\ user'[u].active = user[u].active
              /\ i \in Invitations /\ invitation[i].status # "none" /\ invitation[i].user = u
              /\ invitation'[i].status = "closed" /\ invitation'[i].used = invitation[i].used + 1
              /\ invitation'[i].user = invitation[i].user /\ invitation'[i].by = invitation[i].by
              /\ invitation'[i].purpose = invitation[i].purpose
              /\ LinksBut(i, req[r].closes)
              /\ token' = Killed(req[r].kills) /\ req[r].kills \in SUBSET Tokens
              /\ era' = IF invitation[i].purpose = "recovery" THEN [era EXCEPT ![u] = @ + 1] ELSE era
              /\ req[r].op = "accept" /\ req[r].stage = "flushed" /\ Works(r)
<1> DEFINE u == req[r].target
           i == req[r].item
<1>1. /\ req[r].op = "accept" /\ req[r].stage = "flushed" /\ Works(r)
      /\ req[r] \in Request /\ user \in [Users -> Row] /\ invitation \in [Invitations -> Link]
      /\ token' = Killed(req[r].kills)
      /\ era' = IF invitation[i].purpose = "recovery" THEN [era EXCEPT ![u] = @ + 1] ELSE era
  BY DEF Accept, Base, TypeOK, Link
<1>2. /\ u \in Users /\ user[u].exists /\ user[u] \in Row /\ req[r].kills \in SUBSET Tokens
      /\ i \in Invitations /\ invitation[i].status # "none" /\ invitation[i].user = u
  BY <1>1 DEF Works, About, Request
<1>3. PICK generation :
         user' = [user EXCEPT ![u].registered = TRUE, ![u].password = "own", ![u].generation = generation]
  BY DEF Accept
<1>4. /\ user'[u] = [user[u] EXCEPT !.registered = TRUE, !.password = "own", !.generation = generation]
      /\ UsersBut(u)
  BY <1>1, <1>2, <1>3 DEF UsersBut
<1>5. /\ user'[u].exists /\ user'[u].owner = user[u].owner
      /\ user'[u].registered /\ user'[u].active = user[u].active
  BY <1>2, <1>4 DEF Row
<1>6. ASSUME NEW j \in Invitations
      PROVE  LET closing == [invitation[j] EXCEPT !.status = "closed"]
                 redeemed == [invitation[j] EXCEPT !.status = "closed", !.used = @ + 1]
             IN /\ closing.status = "closed" /\ closing.user = invitation[j].user
                /\ closing.by = invitation[j].by /\ closing.purpose = invitation[j].purpose
                /\ closing.used = invitation[j].used
                /\ redeemed.status = "closed" /\ redeemed.user = invitation[j].user
                /\ redeemed.by = invitation[j].by /\ redeemed.purpose = invitation[j].purpose
                /\ redeemed.used = invitation[j].used + 1
  BY <1>1 DEF Link
<1>7. \A j \in Invitations :
         invitation'[j] = IF j = i THEN [invitation[j] EXCEPT !.status = "closed", !.used = @ + 1]
                          ELSE IF j \in req[r].closes THEN [invitation[j] EXCEPT !.status = "closed"]
                          ELSE invitation[j]
  BY DEF Accept
<1>8. LinksBut(i, req[r].closes)
  <2>1. ASSUME NEW j \in Invitations, j # i
        PROVE  /\ invitation'[j].user = invitation[j].user /\ invitation'[j].by = invitation[j].by
               /\ invitation'[j].purpose = invitation[j].purpose /\ invitation'[j].used = invitation[j].used
               /\ invitation'[j].status = IF j \in req[r].closes THEN "closed" ELSE invitation[j].status
    <3>1. CASE j \in req[r].closes
      <4>1. invitation'[j] = [invitation[j] EXCEPT !.status = "closed"]
        BY <1>7, <2>1, <3>1
      <4> QED
        BY <1>6, <3>1, <4>1
    <3>2. CASE j \notin req[r].closes
      BY <1>7, <2>1, <3>2
    <3> QED
      BY <3>1, <3>2
  <2> HIDE DEF i
  <2> QED
    BY <2>1 DEF LinksBut
<1>9. /\ invitation'[i].status = "closed" /\ invitation'[i].used = invitation[i].used + 1
      /\ invitation'[i].user = invitation[i].user /\ invitation'[i].by = invitation[i].by
      /\ invitation'[i].purpose = invitation[i].purpose
  <2>1. invitation'[i] = [invitation[i] EXCEPT !.status = "closed", !.used = @ + 1]
    BY <1>2, <1>7
  <2> QED
    BY <1>2, <1>6, <2>1
<1> QED
  BY <1>1, <1>2, <1>4, <1>5, <1>8, <1>9

LEMMA ExpireIs ==
    ASSUME Base, NEW i \in Invitations, ExpireInvitation(i)
    PROVE  LinksBut(none, {i}) /\ UNCHANGED <<user, token, era, lock, req>> /\ invitation[i].status = "open"
<1> DEFINE closing == [invitation[i] EXCEPT !.status = "closed"]
<1>1. /\ closing.status = "closed" /\ closing.user = invitation[i].user
      /\ closing.by = invitation[i].by /\ closing.purpose = invitation[i].purpose
      /\ closing.used = invitation[i].used
  BY DEF Base, TypeOK
<1>2. /\ invitation'[i] = closing
      /\ \A j \in Invitations : j # i => invitation'[j] = invitation[j]
  BY DEF ExpireInvitation, Base, TypeOK
<1> HIDE DEF closing
<1>3. LinksBut(none, {i})
  BY <1>1, <1>2 DEF LinksBut
<1> QED
  BY <1>3 DEF ExpireInvitation

\* Every other step leaves the rows alone, and flushes or ends nothing but its own request.
LEMMA NextIs ==
    ASSUME Base, [Next]_vars
    PROVE  \/ \E r \in Requests : \/ (\E u \in Users : Setup(r, u)) \/ Login(r) \/ CreateAdmin(r) \/ Renew(r)
                                  \/ Update(r) \/ CreateToken(r) \/ RevokeToken(r) \/ Accept(r)
                                  \/ FlushRenew(r) \/ FlushUpdate(r) \/ FlushAccept(r)
           \/ \E i \in Invitations : ExpireInvitation(i)
           \/ /\ UNCHANGED <<user, invitation, token, era>>
              /\ \A r \in Requests : req'[r].stage = "flushed" => req'[r] = req[r] /\ lock'[req[r].target] = r
<1>0. req \in [Requests -> Request] /\ \A q \in Requests : Works(q)
  BY DEF Base, TypeOK
<1> DEFINE Alone == /\ UNCHANGED <<user, invitation, token, era>>
                    /\ \A r \in Requests : req'[r].stage = "flushed" => req'[r] = req[r]
<1>1. ASSUME NEW r \in Requests, Begin(r) PROVE Alone
  BY <1>1, BeginIs
<1>2. ASSUME NEW r \in Requests, LockTarget(r) \/ LockInvited(r) PROVE Alone
  <2>1. /\ UNCHANGED <<user, invitation, token, era>> /\ req[r] \in Request
        /\ \E row : req' = [req EXCEPT ![r] = [req[r] EXCEPT !.stage = "locked", !.row = row]]
    BY <1>0, <1>2 DEF LockTarget, LockInvited, rows
  <2>2. req'[r].stage = "locked" /\ \A q \in Requests : q # r => req'[q] = req[q]
    BY <1>0, <2>1 DEF Request
  <2> QED
    BY <2>1, <2>2
<1>3. ASSUME NEW r \in Requests, Refused(r) \/ Abort(r) PROVE Alone
  BY <1>3, ReleasedIs DEF Refused, Abort, rows, Base, Idle
<1>4. ASSUME UNCHANGED vars PROVE Alone
  BY <1>4 DEF vars
<1>5. ASSUME Alone, NEW r \in Requests, req'[r].stage = "flushed"
      PROVE  req'[r] = req[r] /\ lock'[req[r].target] = r
  <2>1. Works(r)' /\ req'[r] = req[r]
    BY <1>5, BaseStep DEF Base
  <2> QED
    BY <1>5, <2>1 DEF Works
<1>6. Alone => /\ UNCHANGED <<user, invitation, token, era>>
               /\ \A r \in Requests : req'[r].stage = "flushed" => req'[r] = req[r] /\ lock'[req[r].target] = r
  BY <1>5
<1> HIDE DEF Alone
<1>7. CASE Alone
  BY <1>6, <1>7
<1>8. ASSUME NEW r \in Requests, Step(r), ~Alone
      PROVE  \/ (\E u \in Users : Setup(r, u)) \/ Login(r) \/ CreateAdmin(r) \/ Renew(r)
             \/ Update(r) \/ CreateToken(r) \/ RevokeToken(r) \/ Accept(r)
             \/ FlushRenew(r) \/ FlushUpdate(r) \/ FlushAccept(r)
  BY <1>2, <1>3, <1>8 DEF Step
<1>9. \/ \E r \in Requests : Begin(r) \/ Step(r) \/ Abort(r)
      \/ \E i \in Invitations : ExpireInvitation(i)
      \/ UNCHANGED vars
  BY DEF Next
<1> QED
  BY <1>1, <1>3, <1>4, <1>7, <1>8, <1>9

LEMMA FlushIs ==
    ASSUME Base, NEW r \in Requests, FlushRenew(r) \/ FlushUpdate(r) \/ FlushAccept(r)
    PROVE  /\ UNCHANGED <<user, invitation, token, era, lock>>
           /\ \A q \in Requests : q # r => req'[q] = req[q]
           /\ req'[r].op = req[r].op /\ req'[r].target = req[r].target /\ req'[r].item = req[r].item
           /\ req'[r].arg = req[r].arg /\ req'[r].row = req[r].row /\ req'[r].actor = req[r].actor
           /\ req[r].op \in {"renew", "update", "accept"}
           /\ req[r].op = "renew" => req'[r].closes = OpenInvitations(req[r].target) /\ MayRenew(r)
           /\ req[r].op = "update" /\ req[r].arg = "deactivate" /\ Changes(r) =>
                req'[r].kills = LiveTokens(req[r].target)
           /\ req[r].op = "accept" =>
                /\ invitation[req[r].item].status = "open"
                /\ req'[r].closes = OpenInvitations(req[r].target) \ {req[r].item}
                /\ invitation[req[r].item].purpose = "recovery" => req'[r].kills = LiveTokens(req[r].target)
<1>0. req \in [Requests -> Request] /\ req[r] \in Request /\ UNCHANGED <<user, invitation, token, era, lock>>
  BY DEF Base, TypeOK, FlushRenew, FlushUpdate, FlushAccept, rows
<1> DEFINE New(closes, kills) == [req[r] EXCEPT !.stage = "flushed", !.closes = closes, !.kills = kills]
<1>1. ASSUME NEW closes, NEW kills, req' = [req EXCEPT ![r] = New(closes, kills)]
      PROVE  /\ req'[r].op = req[r].op /\ req'[r].target = req[r].target /\ req'[r].item = req[r].item
             /\ req'[r].arg = req[r].arg /\ req'[r].row = req[r].row /\ req'[r].actor = req[r].actor
             /\ req'[r].closes = closes /\ req'[r].kills = kills
             /\ \A q \in Requests : q # r => req'[q] = req[q]
  BY <1>0, <1>1 DEF Request
<1>2. CASE FlushRenew(r)
  <2>1. req' = [req EXCEPT ![r] = New(OpenInvitations(req[r].target), req[r].kills)]
    BY <1>0, <1>2 DEF FlushRenew, Request
  <2>2. req[r].op = "renew" /\ MayRenew(r)
    BY <1>2 DEF FlushRenew
  <2> HIDE DEF New
  <2> QED
    BY <1>0, <1>1, <2>1, <2>2
<1>3. CASE FlushUpdate(r)
  <2> DEFINE dead == IF req[r].arg = "deactivate" /\ Changes(r) THEN LiveTokens(req[r].target) ELSE {}
  <2>1. req' = [req EXCEPT ![r] = New(req[r].closes, dead)]
    BY <1>0, <1>3 DEF FlushUpdate, Request
  <2>2. req[r].op = "update"
    BY <1>3 DEF FlushUpdate
  <2>3. req[r].arg = "deactivate" /\ Changes(r) => dead = LiveTokens(req[r].target)
    OBVIOUS
  <2> HIDE DEF New, dead
  <2>4. /\ req'[r].op = req[r].op /\ req'[r].target = req[r].target /\ req'[r].item = req[r].item
        /\ req'[r].arg = req[r].arg /\ req'[r].row = req[r].row /\ req'[r].actor = req[r].actor
        /\ req'[r].kills = dead
        /\ \A q \in Requests : q # r => req'[q] = req[q]
    BY <1>1, <2>1
  <2> QED
    BY <1>0, <2>2, <2>3, <2>4
<1>4. CASE FlushAccept(r)
  <2> DEFINE dead == IF invitation[req[r].item].purpose = "recovery" THEN LiveTokens(req[r].target) ELSE {}
  <2>1. req' = [req EXCEPT ![r] = New(OpenInvitations(req[r].target) \ {req[r].item}, dead)]
    BY <1>0, <1>4 DEF FlushAccept
  <2>2. req[r].op = "accept" /\ invitation[req[r].item].status = "open"
    BY <1>4 DEF FlushAccept, MayAccept
  <2>3. invitation[req[r].item].purpose = "recovery" => dead = LiveTokens(req[r].target)
    OBVIOUS
  <2> HIDE DEF New, dead
  <2> QED
    BY <1>0, <1>1, <2>1, <2>2, <2>3
<1> QED
  BY <1>2, <1>3, <1>4

-----------------------------------------------------------------------------
(* The instance owner *)

\* Nobody is added, nobody changes hands, and the owner stays active.
LEMMA OwnerKeeps ==
    ASSUME Base, OwnerStays,
           \A u \in Users : /\ user'[u].exists => user[u].exists
                            /\ user'[u].owner = user[u].owner
                            /\ user[u].registered => user'[u].registered
                            /\ user[u].owner /\ user[u].active => user'[u].active,
           \A i \in Invitations : invitation'[i].status = "open" =>
              \/ /\ invitation[i].status = "open"
                 /\ invitation'[i].user = invitation[i].user /\ invitation'[i].by = invitation[i].by
              \/ /\ invitation'[i].user \in Users /\ invitation'[i].by \in Users
                 /\ user[invitation'[i].user].owner => user[invitation'[i].by].owner
    PROVE  OwnerStays'
<1>1. \A i \in Invitations : invitation'[i].status = "open" =>
         /\ invitation'[i].user \in Users /\ invitation'[i].by \in Users
         /\ user[invitation'[i].user].owner => user[invitation'[i].by].owner
  BY DEF Base, RowsFit, OwnerStays
<1> QED
  BY <1>1 DEF OwnerStays

\* A new account joins the owner, or is the owner.
LEMMA OwnerJoined ==
    ASSUME Base, OwnerStays, NEW u \in Users, ~user[u].exists, UsersBut(u),
           \/ user'[u] = NewAdmin(TRUE) /\ Ownerless
           \/ user'[u] = Invited /\ \E v \in Users : user[v].exists,
           \A i \in Invitations : invitation'[i].status = "open" =>
              \/ /\ invitation[i].status = "open"
                 /\ invitation'[i].user = invitation[i].user /\ invitation'[i].by = invitation[i].by
              \/ user'[u] = Invited /\ invitation'[i].user = u
    PROVE  OwnerStays'
<1>0. user[u] = Absent /\ ~Absent.owner /\ ~Absent.exists
  BY DEF Base, RowsFit, Absent
<1>1. /\ NewAdmin(TRUE).owner /\ NewAdmin(TRUE).active /\ NewAdmin(TRUE).registered
      /\ ~Invited.owner
  BY DEF NewAdmin, Invited, Absent
<1>2. \A v, w \in Users : user'[v].owner /\ user'[w].owner => v = w
  <2>1. CASE user'[u] = NewAdmin(TRUE) /\ Ownerless
    BY <2>1 DEF UsersBut, Ownerless
  <2>2. CASE user'[u] = Invited
    <3>1. \A v \in Users : user'[v].owner => v # u /\ user[v].owner
      BY <1>1, <2>2 DEF UsersBut
    <3> QED
      BY <3>1 DEF OwnerStays
  <2> QED
    BY <2>1, <2>2
<1>3. \E v \in Users : user'[v].owner /\ user'[v].active /\ user'[v].registered
  <2>1. CASE user'[u] = NewAdmin(TRUE)
    BY <1>1, <2>1
  <2>2. CASE \E v \in Users : user[v].exists
    <3>1. PICK v \in Users : user[v].owner /\ user[v].active /\ user[v].registered
      BY <2>2 DEF OwnerStays
    <3>2. v # u
      BY <1>0, <3>1
    <3> QED
      BY <3>1, <3>2 DEF UsersBut
  <2> QED
    BY <2>1, <2>2
<1>4. ASSUME NEW i \in Invitations, invitation'[i].status = "open", user'[invitation'[i].user].owner
      PROVE  user'[invitation'[i].by].owner
  <2>1. CASE /\ invitation[i].status = "open"
             /\ invitation'[i].user = invitation[i].user /\ invitation'[i].by = invitation[i].by
    <3>1. /\ invitation[i].user \in Users /\ user[invitation[i].user].exists
          /\ invitation[i].by \in Users /\ user[invitation[i].by].exists
      BY <2>1 DEF Base, RowsFit
    <3> QED
      BY <1>4, <2>1, <3>1 DEF UsersBut, OwnerStays
  <2> QED
    BY <1>1, <1>4, <2>1
<1> QED
  BY <1>2, <1>3, <1>4 DEF OwnerStays

LEMMA OwnerStep ==
    ASSUME Base, OwnerStays, [Next]_vars
    PROVE  OwnerStays'
<1>1. ASSUME NEW r \in Requests, NEW u \in Users, Setup(r, u) PROVE OwnerStays'
  BY <1>1, SetupIs, OwnerJoined
<1>2. ASSUME NEW r \in Requests, Login(r) PROVE OwnerStays'
  BY <1>2, LoginIs, OwnerKeeps
<1>3. ASSUME NEW r \in Requests, CreateAdmin(r) PROVE OwnerStays'
  <2> DEFINE u == req[r].target
             i == req[r].item
  <2>1. /\ u \in Users /\ ~user[u].exists /\ user'[u] = Invited /\ UsersBut(u)
        /\ req[r].actor \in Users /\ user[req[r].actor].exists
        /\ LinksBut(i, {})
        /\ invitation'[i] = [status |-> "open", user |-> u, by |-> req[r].actor,
                             purpose |-> "registration", used |-> 0]
    BY <1>3, CreateAdminIs
  <2>2. \A j \in Invitations : invitation'[j].status = "open" =>
           \/ /\ invitation[j].status = "open"
              /\ invitation'[j].user = invitation[j].user /\ invitation'[j].by = invitation[j].by
           \/ invitation'[j].user = u
    BY <2>1 DEF LinksBut
  <2> QED
    BY <2>1, <2>2, OwnerJoined
<1>4. ASSUME NEW r \in Requests, Renew(r) PROVE OwnerStays'
  <2> DEFINE u == req[r].target
             i == req[r].item
  <2>1. /\ u \in Users /\ user' = user /\ req[r].actor \in Users /\ LinksBut(i, req[r].closes)
        /\ invitation'[i] = [status |-> "open", user |-> u, by |-> req[r].actor,
                             purpose |-> req[r].arg, used |-> 0]
        /\ req[r].op = "renew" /\ req[r].stage = "flushed" /\ Works(r)
    BY <1>4, RenewIs
  <2>2. user[u].owner => user[req[r].actor].owner
    BY <2>1 DEF Works
  <2>3. \A j \in Invitations : invitation'[j].status = "open" =>
           \/ /\ invitation[j].status = "open"
              /\ invitation'[j].user = invitation[j].user /\ invitation'[j].by = invitation[j].by
           \/ j = i
    BY <2>1 DEF LinksBut
  <2> QED
    BY <2>1, <2>2, <2>3, OwnerKeeps
<1>5. ASSUME NEW r \in Requests, Update(r) PROVE OwnerStays'
  <2> DEFINE u == req[r].target
  <2>1. /\ u \in Users /\ UsersBut(u) /\ invitation' = invitation
        /\ user'[u].exists = user[u].exists /\ user'[u].owner = user[u].owner
        /\ user'[u].registered = user[u].registered
        /\ Changes(r) => user'[u].active = (req[r].arg = "activate")
        /\ ~Changes(r) => user' = user
        /\ req[r].op = "update" /\ req[r].stage = "flushed" /\ Works(r)
    BY <1>5, UpdateIs
  <2>2. user[u].owner => req[r].arg = "activate"
    <3>1. user[u].owner => user[req[r].actor].owner /\ req[r].actor \in Users
      BY <2>1 DEF Works, Administrative
    <3> QED
      BY <2>1, <3>1 DEF Works, OwnerStays
  <2>3. user[u].owner /\ user[u].active => user'[u].active
    BY <2>1, <2>2
  <2> QED
    BY <2>1, <2>3, OwnerKeeps DEF UsersBut
<1>6. ASSUME NEW r \in Requests, Accept(r) PROVE OwnerStays'
  <2> DEFINE u == req[r].target
             i == req[r].item
  <2>1. /\ u \in Users /\ user[u].exists /\ UsersBut(u) /\ user'[u].owner = user[u].owner
        /\ user'[u].registered /\ user'[u].active = user[u].active
        /\ invitation'[i].status = "closed" /\ LinksBut(i, req[r].closes)
    BY <1>6, AcceptIs
  <2>2. \A j \in Invitations : invitation'[j].status = "open" =>
           /\ invitation[j].status = "open"
           /\ invitation'[j].user = invitation[j].user /\ invitation'[j].by = invitation[j].by
    BY <2>1 DEF LinksBut
  <2> QED
    BY <2>1, <2>2, OwnerKeeps DEF UsersBut
<1>7. ASSUME NEW i \in Invitations, ExpireInvitation(i) PROVE OwnerStays'
  <2>1. user' = user /\ LinksBut(none, {i})
    BY <1>7, ExpireIs
  <2>2. \A j \in Invitations : invitation'[j].status = "open" =>
           /\ invitation[j].status = "open"
           /\ invitation'[j].user = invitation[j].user /\ invitation'[j].by = invitation[j].by
    BY <2>1, AccountTypes DEF LinksBut
  <2> QED
    BY <2>1, <2>2, OwnerKeeps
<1>8. CASE UNCHANGED <<user, invitation>>
  BY <1>8 DEF OwnerStays
<1>9. ASSUME NEW r \in Requests, CreateToken(r) \/ RevokeToken(r) PROVE UNCHANGED <<user, invitation>>
  BY <1>9 DEF CreateToken, RevokeToken
<1> QED
  BY <1>1, <1>2, <1>3, <1>4, <1>5, <1>6, <1>7, <1>8, <1>9, NextIs, FlushIs

\* There is one owner, who is never locked out and whose links only the owner issues (OwnerStays).
THEOREM OwnerStaysHolds == Spec => []OwnerStays
<1>1. Init => OwnerStays
  <2> SUFFICES ASSUME Init PROVE OwnerStays
    OBVIOUS
  <2>1. PICK start \in Starts :
           user = [u \in Users |-> IF u \notin start THEN Absent
                                   ELSE [NewAdmin(u = first) EXCEPT
                                           !.password = IF u \in Unhashed THEN "none" ELSE @]]
    BY DEF Init
  <2>2. \A u \in Users : /\ user[u].owner => u = first
                         /\ u = first /\ u \in start => user[u].owner
                         /\ user[u].exists => u \in start
                         /\ u \in start => user[u].active /\ user[u].registered
    <3>1. ASSUME NEW u \in Users, u \notin start PROVE user[u] = Absent
      BY <2>1, <3>1
    <3>2. ASSUME NEW u \in Users, u \in start
          PROVE  /\ user[u].owner = (u = first) /\ user[u].exists
                 /\ user[u].active /\ user[u].registered
      <4>1. PICK password : user[u] = [NewAdmin(u = first) EXCEPT !.password = password]
        BY <2>1, <3>2
      <4> QED
        BY <4>1 DEF NewAdmin
    <3>3. ~Absent.owner /\ ~Absent.exists
      BY DEF Absent
    <3>4. ASSUME NEW u \in Users
          PROVE  /\ user[u].owner => u = first
                 /\ u = first /\ u \in start => user[u].owner
                 /\ user[u].exists => u \in start
                 /\ u \in start => user[u].active /\ user[u].registered
      <4>1. CASE u \in start
        BY <3>2, <4>1
      <4>2. CASE u \notin start
        BY <3>1, <3>3, <4>2
      <4> QED
        BY <4>1, <4>2
    <3> QED
      BY <3>4
  <2>3. \A i \in Invitations : invitation[i].status = "none"
    BY DEF Init
  <2> QED
    BY <2>2, <2>3, AccountTypes DEF OwnerStays
<1>2. Base /\ OwnerStays /\ [Next]_vars => OwnerStays'
  BY OwnerStep
<1> QED
  BY <1>1, <1>2, BaseHolds, PTL DEF Spec

-----------------------------------------------------------------------------
(* Invitation links *)

\* The links a request is about to close are all there are, as long as it has the lock.
Settles(r) == req[r].stage = "flushed" =>
    /\ req[r].op = "renew" => /\ OpenInvitations(req[r].target) \subseteq req[r].closes
                              /\ user[req[r].target].registered = (req[r].arg = "recovery")
    /\ req[r].op = "accept" => /\ OpenInvitations(req[r].target) \subseteq req[r].closes \cup {req[r].item}
                               /\ invitation[req[r].item].used = 0

Unused == \A i \in Invitations : invitation[i].status \in {"none", "open"} => invitation[i].used = 0

LinkInv == InvitationsFit /\ Unused /\ \A r \in Requests : Settles(r)

\* What a step leaves to a request that is about to close links
Untouched(q) == req[q].stage = "flushed" =>
    /\ \A i \in Invitations :
          invitation'[i].status = "open" /\ invitation'[i].user = req[q].target =>
             invitation[i].status = "open" /\ invitation[i].user = req[q].target
    /\ user'[req[q].target].registered = user[req[q].target].registered
    /\ req[q].op = "accept" => invitation'[req[q].item].used = invitation[req[q].item].used

LEMMA SettlesStays ==
    ASSUME NEW q \in Requests, Settles(q), req'[q] = req[q], Untouched(q)
    PROVE  Settles(q)'
  BY DEF Settles, Untouched, OpenInvitations

LEMMA EndSettles ==
    ASSUME Base, LinkInv, NEW r \in Requests, End(r), \A q \in Requests \ {r} : Untouched(q)
    PROVE  \A q \in Requests : Settles(q)'
<1>1. /\ req'[r] = Idle
      /\ \A q \in Requests \ {r} : req'[q] = req[q]
  BY ReleasedIs DEF Base
<1>2. Settles(r)'
  BY <1>1 DEF Settles, Idle
<1> QED
  BY <1>1, <1>2, SettlesStays DEF LinkInv

\* Whoever is about to commit has the lock of an account that exists.
LEMMA FlushedWorks ==
    ASSUME Base, NEW q \in Requests, req[q].stage = "flushed"
    PROVE  /\ req[q].op \in {"renew", "update", "accept"} /\ req[q].target \in Users
           /\ user[req[q].target].exists /\ lock[req[q].target] = q
           /\ req[q].op = "accept" => /\ req[q].item \in Invitations
                                      /\ invitation[req[q].item].status # "none"
                                      /\ invitation[req[q].item].user = req[q].target
           /\ req[q].op \in {"update", "accept"} => req[q].kills \in SUBSET Tokens
<1>1. Works(q) /\ req[q] \in Request
  BY DEF Base, TypeOK
<1> QED
  BY <1>1 DEF Works, About, Request

\* A new account has no links, and nobody holds its row.
LEMMA NewUserSettles ==
    ASSUME Base, LinkInv, NEW r \in Requests, End(r), NEW u \in Users, ~user[u].exists, UsersBut(u),
           NEW i, LinksBut(i, {}),
           i \in Invitations => invitation[i].status = "none" /\ invitation'[i].user = u
    PROVE  \A q \in Requests : Settles(q)'
<1>1. ASSUME NEW q \in Requests \ {r} PROVE Untouched(q)
  <2>1. CASE req[q].stage = "flushed"
    <3>1. req[q].target # u /\ req[q].target \in Users
      BY <2>1, FlushedWorks
    <3>2. req[q].op = "accept" => req[q].item # i /\ req[q].item \in Invitations
      BY <2>1, FlushedWorks
    <3> QED
      BY <3>1, <3>2 DEF Untouched, UsersBut, LinksBut
  <2> QED
    BY <2>1 DEF Untouched
<1> QED
  BY <1>1, EndSettles

LEMMA LinkStep ==
    ASSUME Base, LinkInv, [Next]_vars
    PROVE  LinkInv'
<1>0. /\ \A i \in Invitations : invitation[i].status # "none" =>
            invitation[i].user \in Users /\ user[invitation[i].user].exists
      /\ InvitationsFit /\ Unused /\ \A q \in Requests : Settles(q)
      /\ \A i \in Invitations : invitation[i].status \in {"none", "open", "closed"}
  BY DEF Base, RowsFit, LinkInv, TypeOK
<1>1. ASSUME NEW r \in Requests, NEW u \in Users, Setup(r, u) PROVE LinkInv'
  <2>1. ~user[u].exists /\ UsersBut(u) /\ invitation' = invitation /\ End(r)
    BY <1>1, SetupIs DEF Setup
  <2>2. InvitationsFit' /\ Unused'
    BY <1>0, <2>1 DEF InvitationsFit, Unused, UsersBut
  <2>3. LinksBut(none, {})
    BY <2>1 DEF LinksBut
  <2> QED
    BY <2>1, <2>2, <2>3, NewUserSettles, AccountTypes DEF LinkInv
<1>2. ASSUME NEW r \in Requests, End(r), invitation' = invitation,
             \A v \in Users : user'[v].registered = user[v].registered
      PROVE  LinkInv'
  <2>1. InvitationsFit' /\ Unused'
    BY <1>0, <1>2 DEF InvitationsFit, Unused
  <2>2. \A q \in Requests : Untouched(q)
    BY <1>2, FlushedWorks DEF Untouched
  <2> QED
    BY <1>2, <2>1, <2>2, EndSettles DEF LinkInv
<1>3. ASSUME NEW r \in Requests, CreateAdmin(r) PROVE LinkInv'
  <2> DEFINE u == req[r].target
             i == req[r].item
  <2>1. /\ u \in Users /\ ~user[u].exists /\ user'[u] = Invited /\ UsersBut(u) /\ End(r)
        /\ i \in Invitations /\ invitation[i].status = "none" /\ LinksBut(i, {})
        /\ invitation'[i] = [status |-> "open", user |-> u, by |-> req[r].actor,
                             purpose |-> "registration", used |-> 0]
    BY <1>3, CreateAdminIs DEF CreateAdmin
  <2>2. /\ invitation'[i].user = u /\ invitation'[i].purpose = "registration" /\ invitation'[i].used = 0
        /\ ~user'[u].registered
    BY <2>1 DEF Invited, Absent
  <2>3. \A j \in Invitations : j # i /\ invitation'[j].status = "open" =>
           invitation'[j].user # u /\ invitation[j].status = "open"
    BY <1>0, <2>1 DEF LinksBut
  <2>4. InvitationsFit' /\ Unused'
    <3>1. \A j \in Invitations : invitation'[j].used <= 1
      BY <1>0, <2>1, <2>2 DEF InvitationsFit, LinksBut
    <3>2. \A j, k \in Invitations :
             invitation'[j].status = "open" /\ invitation'[k].status = "open"
                /\ invitation'[j].user = invitation'[k].user => j = k
      BY <1>0, <2>1, <2>2, <2>3 DEF InvitationsFit, LinksBut
    <3>3. ASSUME NEW j \in Invitations, invitation'[j].status = "open"
          PROVE  user'[invitation'[j].user].registered = (invitation'[j].purpose = "recovery")
      <4>1. CASE j = i
        <5>1. ~user'[u].registered /\ user'[u] \in Row
          BY <2>1, <2>2, RowTypes
        <5> QED
          BY <2>2, <4>1, <5>1 DEF Row
      <4>2. CASE j # i
        BY <1>0, <2>1, <2>3, <3>3, <4>2 DEF InvitationsFit, LinksBut, UsersBut
      <4> QED
        BY <4>1, <4>2
    <3>4. Unused'
      BY <1>0, <2>1, <2>2 DEF Unused, LinksBut
    <3> QED
      BY <3>1, <3>2, <3>3, <3>4 DEF InvitationsFit
  <2> QED
    BY <2>1, <2>2, <2>4, NewUserSettles DEF LinkInv
<1>4. ASSUME NEW r \in Requests, Renew(r) PROVE LinkInv'
  <2> DEFINE u == req[r].target
             i == req[r].item
  <2>1. /\ u \in Users /\ user' = user /\ End(r) /\ req[r].op = "renew" /\ req[r].stage = "flushed"
        /\ i \in Invitations /\ invitation[i].status = "none" /\ LinksBut(i, req[r].closes)
        /\ invitation'[i] = [status |-> "open", user |-> u, by |-> req[r].actor,
                             purpose |-> req[r].arg, used |-> 0]
        /\ Works(r)
    BY <1>4, RenewIs DEF Renew
  <2>2. /\ invitation'[i].user = u /\ invitation'[i].purpose = req[r].arg /\ invitation'[i].used = 0
        /\ user[u].registered = (req[r].arg = "recovery") /\ OpenInvitations(u) \subseteq req[r].closes
    BY <1>0, <2>1 DEF Settles
  <2>3. \A j \in Invitations : j # i /\ invitation'[j].status = "open" =>
           invitation'[j].user # u /\ invitation[j].status = "open"
    BY <2>1, <2>2 DEF LinksBut, OpenInvitations
  <2>4. InvitationsFit' /\ Unused'
    BY <1>0, <2>1, <2>2, <2>3 DEF InvitationsFit, Unused, LinksBut
  <2>5. ASSUME NEW q \in Requests \ {r} PROVE Untouched(q)
    <3>1. CASE req[q].stage = "flushed"
      <4>1. req[q].target # u
        BY <2>1, <3>1, FlushedWorks
      <4>2. req[q].op = "accept" => req[q].item # i /\ req[q].item \in Invitations
        BY <2>1, <3>1, FlushedWorks
      <4> QED
        BY <2>1, <2>2, <2>3, <4>1, <4>2 DEF Untouched, LinksBut
    <3> QED
      BY <3>1 DEF Untouched
  <2> QED
    BY <2>1, <2>4, <2>5, EndSettles DEF LinkInv
<1>5. ASSUME NEW r \in Requests, Accept(r) PROVE LinkInv'
  <2> DEFINE u == req[r].target
             i == req[r].item
  <2>1. /\ u \in Users /\ UsersBut(u) /\ user'[u].registered /\ End(r)
        /\ i \in Invitations /\ invitation[i].user = u /\ invitation[i].status # "none"
        /\ invitation'[i].status = "closed" /\ invitation'[i].used = invitation[i].used + 1
        /\ LinksBut(i, req[r].closes) /\ req[r].op = "accept" /\ req[r].stage = "flushed"
    <3>1. End(r)
      BY <1>5 DEF Accept
    <3> QED
      BY <1>5, <3>1, AcceptIs
  <2>2. invitation[i].used = 0 /\ OpenInvitations(u) \subseteq req[r].closes \cup {i}
    BY <1>0, <2>1 DEF Settles
  <2>3. \A j \in Invitations : invitation'[j].status = "open" =>
           invitation'[j].user # u /\ invitation[j].status = "open" /\ j # i
    BY <2>1, <2>2 DEF LinksBut, OpenInvitations
  <2>4. InvitationsFit'
    <3>1. \A j \in Invitations : invitation'[j].used <= 1
      BY <1>0, <2>1, <2>2 DEF InvitationsFit, LinksBut
    <3>2. \A j, k \in Invitations :
             invitation'[j].status = "open" /\ invitation'[k].status = "open"
                /\ invitation'[j].user = invitation'[k].user => j = k
      BY <1>0, <2>1, <2>3 DEF InvitationsFit, LinksBut
    <3>3. \A j \in Invitations : invitation'[j].status = "open" =>
             user'[invitation'[j].user].registered = (invitation'[j].purpose = "recovery")
      BY <1>0, <2>1, <2>3 DEF InvitationsFit, LinksBut, UsersBut
    <3> QED
      BY <3>1, <3>2, <3>3 DEF InvitationsFit
  <2>5. Unused'
    BY <1>0, <2>1 DEF Unused, LinksBut
  <2>6. ASSUME NEW q \in Requests \ {r} PROVE Untouched(q)
    <3>1. CASE req[q].stage = "flushed"
      <4>1. req[q].target # u /\ req[q].target \in Users
        BY <2>1, <3>1, FlushedWorks
      <4>2. req[q].op = "accept" => req[q].item # i /\ req[q].item \in Invitations
        BY <2>1, <3>1, <4>1, FlushedWorks
      <4> QED
        BY <2>1, <2>3, <4>1, <4>2 DEF Untouched, LinksBut, UsersBut
    <3> QED
      BY <3>1 DEF Untouched
  <2> QED
    BY <2>1, <2>4, <2>5, <2>6, EndSettles DEF LinkInv
<1>6. ASSUME NEW i \in Invitations, ExpireInvitation(i) PROVE LinkInv'
  <2>1. LinksBut(none, {i}) /\ UNCHANGED <<user, req>> /\ none \notin Invitations /\ invitation[i].status = "open"
    BY <1>6, ExpireIs, AccountTypes
  <2>2. InvitationsFit' /\ Unused'
    BY <1>0, <2>1 DEF InvitationsFit, Unused, LinksBut
  <2>3. \A q \in Requests : Untouched(q)
    BY <2>1, FlushedWorks DEF Untouched, LinksBut
  <2> QED
    BY <1>0, <2>1, <2>2, <2>3, SettlesStays DEF LinkInv
<1>7. ASSUME NEW r \in Requests, FlushRenew(r) \/ FlushUpdate(r) \/ FlushAccept(r) PROVE LinkInv'
  <2>1. /\ UNCHANGED <<user, invitation>> /\ \A q \in Requests : q # r => req'[q] = req[q]
        /\ req'[r].op = req[r].op /\ req'[r].target = req[r].target /\ req'[r].item = req[r].item
        /\ req'[r].arg = req[r].arg
        /\ req[r].op \in {"renew", "update", "accept"}
        /\ req[r].op = "renew" => req'[r].closes = OpenInvitations(req[r].target) /\ MayRenew(r)
        /\ req[r].op = "accept" =>
             /\ invitation[req[r].item].status = "open"
             /\ req'[r].closes = OpenInvitations(req[r].target) \ {req[r].item}
    BY <1>7, FlushIs
  <2>2. \A q \in Requests \ {r} : Settles(q)'
    BY <1>0, <2>1 DEF Settles, OpenInvitations
  <2>3. req[r].op = "renew" => user[req[r].target].registered = (req[r].arg = "recovery")
    <3>1. CASE req[r].op = "renew"
      <4>1. Works(r) /\ req[r].row.registered = (req[r].arg = "recovery") /\ req[r].stage = "locked"
        BY <1>7, <2>1, <3>1 DEF Base, MayRenew, FlushRenew, FlushUpdate, FlushAccept
      <4> QED
        BY <3>1, <4>1 DEF Works
    <3> QED
      BY <3>1
  <2>4. req[r].op = "accept" => req[r].item \in Invitations
    BY DEF Base, Works
  <2>5. Settles(r)'
    BY <1>0, <2>1, <2>3, <2>4 DEF Settles, OpenInvitations, Unused
  <2> QED
    BY <1>0, <2>1, <2>2, <2>5 DEF LinkInv, InvitationsFit, Unused
<1>8. ASSUME UNCHANGED <<user, invitation>>,
             \A r \in Requests : req'[r].stage = "flushed" => req'[r] = req[r]
      PROVE  LinkInv'
  <2>1. InvitationsFit' /\ Unused'
    BY <1>0, <1>8 DEF InvitationsFit, Unused
  <2>2. \A q \in Requests : Settles(q)'
    BY <1>0, <1>8 DEF Settles, OpenInvitations
  <2> QED
    BY <2>1, <2>2 DEF LinkInv
<1>9. ASSUME NEW r \in Requests, Login(r) \/ Update(r) \/ CreateToken(r) \/ RevokeToken(r) PROVE LinkInv'
  <2>1. CASE Login(r)
    BY <1>2, <2>1, LoginIs DEF Login
  <2>2. CASE Update(r)
    BY <1>2, <2>2, UpdateIs DEF Update, UsersBut
  <2>3. CASE CreateToken(r) \/ RevokeToken(r)
    BY <1>2, <2>3 DEF CreateToken, RevokeToken
  <2> QED
    BY <1>9, <2>1, <2>2, <2>3
<1> QED
  BY <1>1, <1>3, <1>4, <1>5, <1>6, <1>7, <1>8, <1>9, NextIs

\* However accepts, renewals and refusals overlap, an account has at most one open link, of
\* the purpose that fits it, and no link is redeemed twice (InvitationsFit).
THEOREM LinksRedeemedOnce == Spec => []InvitationsFit
<1>1. Init => LinkInv
  <2> SUFFICES ASSUME Init PROVE LinkInv
    OBVIOUS
  <2>1. \A i \in Invitations : invitation[i].status = "none" /\ invitation[i].used = 0
    BY DEF Init
  <2>2. \A r \in Requests : req[r].stage = "begun"
    BY DEF Init, Idle
  <2> QED
    BY <2>1, <2>2 DEF LinkInv, InvitationsFit, Unused, Settles
<1>2. LinkInv => InvitationsFit
  BY DEF LinkInv
<1>3. Base /\ LinkInv /\ [Next]_vars => LinkInv'
  BY LinkStep
<1> QED
  BY <1>1, <1>2, <1>3, BaseHolds, PTL DEF Spec

-----------------------------------------------------------------------------
(* Access tokens *)

\* The tokens a request is about to revoke are all there are, as long as it has the lock.
Revokes(r) == req[r].stage = "flushed" =>
    /\ req[r].op = "update" /\ req[r].arg = "deactivate" /\ Changes(r) =>
          LiveTokens(req[r].target) \subseteq req[r].kills
    /\ req[r].op = "accept" /\ invitation[req[r].item].purpose = "recovery" =>
          LiveTokens(req[r].target) \subseteq req[r].kills

TokenInv ==
    /\ \A t \in Tokens : token[t].status = "live" =>
          token[t].user \in Users /\ token[t].era = era[token[t].user]
    /\ \A r \in Requests : Revokes(r)

\* What a step leaves to a request that is about to revoke tokens
Uninterrupted(q) == req[q].stage = "flushed" =>
    /\ \A t \in Tokens : token'[t].status = "live" /\ token'[t].user = req[q].target =>
          token[t].status = "live" /\ token[t].user = req[q].target
    /\ req[q].op = "accept" => invitation'[req[q].item].purpose = invitation[req[q].item].purpose

LEMMA RevokesStays ==
    ASSUME NEW q \in Requests, Revokes(q), req'[q] = req[q], Uninterrupted(q)
    PROVE  Revokes(q)'
  BY DEF Revokes, Uninterrupted, LiveTokens, Changes

LEMMA EndRevokes ==
    ASSUME Base, TokenInv, NEW r \in Requests, End(r), \A q \in Requests \ {r} : Uninterrupted(q)
    PROVE  \A q \in Requests : Revokes(q)'
<1>1. /\ req'[r] = Idle
      /\ \A q \in Requests \ {r} : req'[q] = req[q]
  BY ReleasedIs DEF Base
<1>2. Revokes(r)'
  BY <1>1 DEF Revokes, Idle
<1> QED
  BY <1>1, <1>2, RevokesStays DEF TokenInv

\* A step that creates no tokens, and after which those of an account whose era ends are dead
LEMMA TokenKeeps ==
    ASSUME Base, TokenInv, NEW r \in Requests, End(r),
           \A t \in Tokens : token'[t].status = "live" => token'[t] = token[t],
           \A t \in Tokens : token'[t].status = "live" => era'[token[t].user] = era[token[t].user],
           NEW i, LinksBut(i, req[r].closes) \/ LinksBut(i, {}),
           i \in Invitations => invitation'[i].purpose = invitation[i].purpose \/ invitation[i].status = "none"
    PROVE  TokenInv'
<1>1. ASSUME NEW q \in Requests \ {r} PROVE Uninterrupted(q)
  <2>1. CASE req[q].stage = "flushed" /\ req[q].op = "accept"
    <3>1. req[q].item \in Invitations /\ invitation[req[q].item].status # "none"
      BY <2>1, FlushedWorks
    <3>2. invitation'[req[q].item].purpose = invitation[req[q].item].purpose
      BY <3>1 DEF LinksBut
    <3> QED
      BY <3>2 DEF Uninterrupted
  <2> QED
    BY <2>1 DEF Uninterrupted
<1> QED
  BY <1>1, EndRevokes DEF TokenInv

LEMMA KillsOnly ==
    ASSUME Base, NEW dead \in SUBSET Tokens, token' = Killed(dead)
    PROVE  \A t \in Tokens : token'[t].status = "live" => t \notin dead /\ token'[t] = token[t]
<1>1. token \in [Tokens -> Token]
  BY DEF Base, TypeOK, Token
<1> QED
  BY <1>1, KilledIs

LEMMA TokenStep ==
    ASSUME Base, TokenInv, [Next]_vars
    PROVE  TokenInv'
<1>0. /\ \A t \in Tokens : token[t].status = "live" =>
            token[t].user \in Users /\ token[t].era = era[token[t].user]
      /\ \A q \in Requests : Revokes(q)
      /\ none \notin Invitations /\ none \notin Requests
      /\ era \in [Users -> Nat]
  BY AccountTypes DEF TokenInv, Base, TypeOK
<1>1. ASSUME NEW r \in Requests, End(r), UNCHANGED <<token, era>>, NEW i,
             LinksBut(i, req[r].closes) \/ LinksBut(i, {}),
             i \in Invitations => invitation[i].status = "none"
      PROVE  TokenInv'
  BY <1>1, TokenKeeps
<1>2. ASSUME NEW r \in Requests, NEW u \in Users, Setup(r, u) PROVE TokenInv'
  <2>1. End(r) /\ UNCHANGED <<token, era>> /\ LinksBut(none, {})
    BY <1>2, SetupIs DEF Setup, LinksBut
  <2> QED
    BY <1>0, <1>1, <2>1
<1>3. ASSUME NEW r \in Requests, Login(r) PROVE TokenInv'
  <2>1. End(r) /\ UNCHANGED <<token, era>> /\ LinksBut(none, {})
    <3>1. End(r) /\ UNCHANGED token
      BY <1>3 DEF Login
    <3>2. UNCHANGED era
      BY <1>3, LoginIs
    <3>3. LinksBut(none, {})
      BY <1>3, LoginIs DEF Login, LinksBut
    <3> QED
      BY <3>1, <3>2, <3>3
  <2> QED
    BY <1>0, <1>1, <2>1
<1>4. ASSUME NEW r \in Requests, CreateAdmin(r) PROVE TokenInv'
  <2>1. /\ End(r) /\ UNCHANGED <<token, era>> /\ LinksBut(req[r].item, {})
        /\ invitation[req[r].item].status = "none"
    BY <1>4, CreateAdminIs DEF CreateAdmin
  <2> QED
    BY <1>1, <2>1
<1>5. ASSUME NEW r \in Requests, Renew(r) PROVE TokenInv'
  <2>1. /\ End(r) /\ UNCHANGED <<token, era>> /\ LinksBut(req[r].item, req[r].closes)
        /\ invitation[req[r].item].status = "none"
    BY <1>5, RenewIs DEF Renew
  <2> QED
    BY <1>1, <2>1
<1>6. ASSUME NEW r \in Requests, Update(r) PROVE TokenInv'
  <2> DEFINE u == req[r].target
  <2>1. /\ u \in Users /\ invitation' = invitation /\ End(r)
        /\ ~Changes(r) => UNCHANGED <<token, era>>
        /\ Changes(r) => /\ token' = Killed(req[r].kills)
                         /\ era' = IF req[r].arg = "deactivate" THEN [era EXCEPT ![u] = @ + 1] ELSE era
        /\ req[r].op = "update" /\ req[r].stage = "flushed" /\ req[r].kills \in SUBSET Tokens
    BY <1>6, UpdateIs DEF Update
  <2>2. LinksBut(none, {})
    BY <2>1 DEF LinksBut
  <2>3. CASE ~Changes(r)
    BY <1>0, <1>1, <2>1, <2>2, <2>3
  <2>4. CASE Changes(r)
    <3>1. \A t \in Tokens : token'[t].status = "live" => t \notin req[r].kills /\ token'[t] = token[t]
      BY <2>1, <2>4, KillsOnly
    <3>2. ASSUME NEW t \in Tokens, token'[t].status = "live"
          PROVE  era'[token[t].user] = era[token[t].user]
      <4>1. CASE req[r].arg = "deactivate"
        <5>1. token[t].user # u
          BY <1>0, <2>1, <2>4, <3>1, <3>2, <4>1 DEF Revokes, LiveTokens
        <5> QED
          BY <1>0, <2>1, <2>4, <3>1, <3>2, <4>1, <5>1
      <4>2. CASE req[r].arg # "deactivate"
        BY <2>1, <2>4, <4>2
      <4> QED
        BY <4>1, <4>2
    <3> QED
      BY <1>0, <2>1, <2>2, <3>1, <3>2, TokenKeeps
  <2> QED
    BY <2>3, <2>4
<1>7. ASSUME NEW r \in Requests, Accept(r) PROVE TokenInv'
  <2> DEFINE u == req[r].target
             i == req[r].item
  <2>1. /\ u \in Users /\ i \in Invitations /\ End(r)
        /\ invitation'[i].purpose = invitation[i].purpose /\ LinksBut(i, req[r].closes)
        /\ token' = Killed(req[r].kills) /\ req[r].kills \in SUBSET Tokens
        /\ era' = IF invitation[i].purpose = "recovery" THEN [era EXCEPT ![u] = @ + 1] ELSE era
        /\ req[r].op = "accept" /\ req[r].stage = "flushed"
    <3>1. End(r)
      BY <1>7 DEF Accept
    <3> QED
      BY <1>7, <3>1, AcceptIs
  <2>2. \A t \in Tokens : token'[t].status = "live" => t \notin req[r].kills /\ token'[t] = token[t]
    BY <2>1, KillsOnly
  <2>3. ASSUME NEW t \in Tokens, token'[t].status = "live"
        PROVE  era'[token[t].user] = era[token[t].user]
    <3>1. CASE invitation[i].purpose = "recovery"
      <4>1. token[t].user # u
        BY <1>0, <2>1, <2>2, <2>3, <3>1 DEF Revokes, LiveTokens
      <4> QED
        BY <1>0, <2>1, <2>2, <2>3, <3>1, <4>1
    <3>2. CASE invitation[i].purpose # "recovery"
      BY <2>1, <3>2
    <3> QED
      BY <3>1, <3>2
  <2> QED
    BY <2>1, <2>2, <2>3, TokenKeeps
<1>8. ASSUME NEW r \in Requests, RevokeToken(r) PROVE TokenInv'
  <2>1. /\ End(r) /\ UNCHANGED <<invitation, era>> /\ token' = Killed(Revocable(r))
        /\ Revocable(r) \in SUBSET Tokens
    BY <1>8 DEF RevokeToken, Revocable, LiveTokens
  <2>2. LinksBut(none, {})
    BY <2>1 DEF LinksBut
  <2>3. \A t \in Tokens : token'[t].status = "live" => token'[t] = token[t]
    BY <2>1, KillsOnly
  <2> QED
    BY <1>0, <2>1, <2>2, <2>3, TokenKeeps
<1>9. ASSUME NEW r \in Requests, CreateToken(r) PROVE TokenInv'
  <2> DEFINE u == req[r].actor
             t == req[r].item
  <2>1. /\ u \in Users /\ t \in Tokens /\ lock[u] \in {none, r} /\ End(r) /\ UNCHANGED <<invitation, era>>
        /\ token' = [token EXCEPT ![t] = NewToken(u, req[r].era)]
    BY <1>9 DEF CreateToken, Insertable, Referable, Base, Works, Administrative
  <2>2. /\ token'[t].user = u /\ token'[t].era = era[u]
        /\ \A s \in Tokens : s # t => token'[s] = token[s]
    BY <2>1 DEF NewToken, Base, TypeOK
  <2>3. ASSUME NEW q \in Requests \ {r} PROVE Uninterrupted(q)
    <3>1. CASE req[q].stage = "flushed"
      <4>1. req[q].target # u
        BY <1>0, <2>1, <3>1, FlushedWorks
      <4> QED
        BY <2>1, <2>2, <4>1 DEF Uninterrupted
    <3> QED
      BY <3>1 DEF Uninterrupted
  <2>4. \A s \in Tokens : token'[s].status = "live" =>
           token'[s].user \in Users /\ token'[s].era = era'[token'[s].user]
    BY <1>0, <2>1, <2>2
  <2> QED
    BY <2>1, <2>3, <2>4, EndRevokes DEF TokenInv
<1>10. ASSUME NEW i \in Invitations, ExpireInvitation(i) PROVE TokenInv'
  <2>1. LinksBut(none, {i}) /\ UNCHANGED <<token, era, req>>
    BY <1>10, ExpireIs
  <2>2. ASSUME NEW q \in Requests PROVE Uninterrupted(q)
    BY <1>0, <2>1, FlushedWorks DEF Uninterrupted, LinksBut
  <2> QED
    BY <1>0, <2>1, <2>2, RevokesStays DEF TokenInv
<1>11. ASSUME NEW r \in Requests, FlushRenew(r) \/ FlushUpdate(r) \/ FlushAccept(r) PROVE TokenInv'
  <2>1. /\ UNCHANGED <<invitation, token, era>> /\ \A q \in Requests : q # r => req'[q] = req[q]
        /\ req'[r].op = req[r].op /\ req'[r].target = req[r].target /\ req'[r].item = req[r].item
        /\ req'[r].arg = req[r].arg /\ req'[r].row = req[r].row
        /\ req[r].op = "update" /\ req[r].arg = "deactivate" /\ Changes(r) =>
             req'[r].kills = LiveTokens(req[r].target)
        /\ req[r].op = "accept" /\ invitation[req[r].item].purpose = "recovery" =>
             req'[r].kills = LiveTokens(req[r].target)
    BY <1>11, FlushIs
  <2>2. ASSUME NEW q \in Requests, q # r PROVE Revokes(q)'
    BY <1>0, <2>1, <2>2 DEF Revokes, LiveTokens, Changes
  <2>3. Revokes(r)'
    BY <2>1 DEF Revokes, LiveTokens, Changes
  <2> QED
    BY <1>0, <2>1, <2>2, <2>3 DEF TokenInv
<1>12. ASSUME UNCHANGED <<invitation, token, era>>,
              \A r \in Requests : req'[r].stage = "flushed" => req'[r] = req[r]
       PROVE  TokenInv'
  <2>1. \A q \in Requests : Revokes(q)'
    BY <1>0, <1>12 DEF Revokes, LiveTokens, Changes
  <2> QED
    BY <1>0, <1>12, <2>1 DEF TokenInv
<1> QED
  BY <1>2, <1>3, <1>4, <1>5, <1>6, <1>7, <1>8, <1>9, <1>10, <1>11, <1>12, NextIs

\* No token that was in the database survives the deactivation or the reset of its account,
\* nor does one inserted while that request was running (TokensRevoked).
THEOREM TokensAreRevoked == Spec => []TokensRevoked
<1>1. Init => TokenInv
  <2> SUFFICES ASSUME Init PROVE TokenInv
    OBVIOUS
  <2>1. \A t \in Tokens : token[t].status = "none"
    BY DEF Init
  <2>2. \A r \in Requests : req[r].stage = "begun"
    BY DEF Init, Idle
  <2> QED
    BY <2>1, <2>2 DEF TokenInv, Revokes
<1>2. TokenInv => TokensRevoked
  BY DEF TokenInv, TokensRevoked
<1>3. Base /\ TokenInv /\ [Next]_vars => TokenInv'
  BY TokenStep
<1> QED
  BY <1>1, <1>2, <1>3, BaseHolds, PTL DEF Spec

=============================================================================
