--------------------------- MODULE Accounts_proofs ---------------------------
(***************************************************************************)
(* Proofs about Accounts for any users, organisations, invitations, tokens *)
(* and requests: the invariants that its run checks.                       *)
(*                                                                         *)
(* Each invariant compares rows; a request changes rows one statement at a *)
(* time.  So the inductive invariant says what a request in the middle     *)
(* holds: the token that it is exchanging, the user that it has made, the  *)
(* entry of the log that it has still to write.                            *)
(***************************************************************************)
EXTENDS Accounts, SequenceTheorems, TLAPS

\* The rows of organisations, users and invitations, with their foreign keys.
OrgRows ==
  /\ Home \in orgs /\ orgs \subseteq Orgs
  /\ users \in [Emails -> Users \cup {None}]
  /\ \A u \in Emails : Exists(u) => users[u].org \in orgs
  /\ invites \in [Invites -> Invitations \cup {None}]
  /\ \A i \in Invites : invites[i] # None => invites[i].org \in orgs

\* Refresh tokens, live ones and others; a login is named by its first.
TokenRows ==
  /\ issued \in Seq([user : Emails, line : 1..MaxTokens]) /\ Len(issued) <= MaxTokens
  /\ \A t \in DOMAIN issued : Exists(issued[t].user) /\ Line(t) <= t
  /\ tokens \subseteq DOMAIN issued

\* Access tokens are for organisations that exist.
OtherRows ==
  /\ audit \subseteq Entries
  /\ access \subseteq Claims /\ \A a \in access : a.org \in orgs
  /\ expired \subseteq (1..MaxTokens) \cup Invites
  /\ faults \in 0..MaxFaults

\* What request p found or made is there for its next statement.
FindsRows(p) ==
  /\ req[p].at \in {"rotate", "store", "accept", "login"} =>
       req[p].user \in Emails /\ Exists(req[p].user)
  /\ req[p].at \in {"insert", "admin"} => req[p].user \in Emails
  /\ req[p].at \in {"insert", "accept", "login"} =>
       req[p].inv \in Invites /\ invites[req[p].inv] # None
  /\ req[p].at = "admin" => req[p].org \in orgs
  /\ req[p].at = "audit" =>
       req[p].entry \in Entries /\ (req[p].entry.target \in Orgs => req[p].entry.target \in orgs)

RequestRows == req \in [Procs -> Requests] /\ \A p \in Procs : FindsRows(p)

Types == OrgRows /\ TokenRows /\ OtherRows /\ RequestRows

Rotating == {p \in Procs : req[p].tok # 0}
LineOf(p) == Line(req[p].tok)

\* A rotation is of a token of its user, and ends with the INSERT.
RotationsHaveTokens ==
  \A p \in Procs :
    /\ req[p].at = "rotate" => p \in Rotating
    /\ p \in Rotating => /\ req[p].at \in {"rotate", "store"}
                         /\ req[p].tok \in DOMAIN issued
                         /\ req[p].user = issued[req[p].tok].user

\* All tokens of a login are of one user.
LinesHaveUsers ==
  /\ \A t \in DOMAIN issued : issued[Line(t)].user = issued[t].user
  /\ closed \subseteq DOMAIN issued

\* A rotation holds the only token of its login: the old one before the DELETE, and the
\* right to insert one after it.
RotationsHoldLines ==
  \A p \in Rotating : LineOf(p) \notin shaken =>
    /\ LineOf(p) \notin closed
    /\ \A q \in Rotating : q # p => LineOf(q) # LineOf(p)
    /\ req[p].at = "rotate" => req[p].tok \in tokens
    /\ req[p].at = "store" => \A t \in tokens : Line(t) # LineOf(p)

Sessions ==
  /\ RotationsHaveTokens /\ LinesHaveUsers /\ RotationsHoldLines
  /\ RotationKeepsOneToken /\ LogoutEndsSessions

\* The request that accepts an invitation has made its user, or is about to; when the
\* invitation is revoked under it, it counts as cut off.
AcceptsMatch ==
  \A p \in Procs : req[p].at \in {"insert", "accept"} =>
    LET i == req[p].inv
        u == req[p].user
    IN /\ u = invites[i].email
       /\ invites[i].state = "revoked" => i \in severed
       /\ req[p].at = "accept" =>
            /\ Exists(u) /\ users[u].from = i
            /\ users[u].org = invites[i].org /\ users[u].role = invites[i].role

\* The invitation that made a user is there.
UsersHaveInvitations ==
  \A u \in Emails : Exists(u) /\ users[u].from # None => invites[users[u].from] # None

Joining == AcceptsMatch /\ UsersHaveInvitations /\ InvitationsMatchUsers

\* An administrator of u's organisation is named for the end of u.
Removed(u) ==
  /\ Exists(u)
  /\ \E e \in Removals, a \in OrgAdmins :
       e.target = u /\ e.actor = a.user /\ users[u].org = a.org

\* A user is inactive by the platform, or by an administrator whom the log names; and is
\* deleted by such an administrator.
InactiveIsAccounted ==
  \A u \in Emails : Exists(u) =>
    /\ users[u].deleted => u \in severed \/ Removed(u)
    /\ ~users[u].active => u \in switched \cup severed \/ Removed(u)

Inv == Types /\ Sessions /\ Joining /\ InactiveIsAccounted

-----------------------------------------------------------------------------
(* What the actions do to the requests *)

\* Only request p moves, and it is a request afterwards.
Moves(p) ==
  /\ req' \in [Procs -> Requests]
  /\ \A q \in Procs : q # p => req'[q] = req[q]

\* The fields of a request that stay when it goes to its next statement.
SameLocals(p) ==
  /\ req'[p].user = req[p].user /\ req'[p].org = req[p].org /\ req'[p].inv = req[p].inv
  /\ req'[p].tok = req[p].tok /\ req'[p].entry = req[p].entry

\* A process between two requests.
LEMMA IdleRequest ==
  /\ Idle \in Requests
  /\ Idle.at = "idle" /\ Idle.tok = 0
  BY AccountsAssumption DEF Idle, Requests, Steps

\* The request goes on.
LEMMA GoToMoves ==
  ASSUME req \in [Procs -> Requests], NEW p \in Procs, NEW step \in Steps, GoTo(p, step)
  PROVE  Moves(p) /\ SameLocals(p) /\ req'[p].at = step
<1>1. req'[p] = [req[p] EXCEPT !.at = step] /\ \A q \in Procs : q # p => req'[q] = req[q]
  BY DEF GoTo
<1>2. req'[p] \in Requests /\ SameLocals(p) /\ req'[p].at = step
  BY <1>1 DEF Requests, SameLocals
<1> QED
  BY <1>1, <1>2 DEF Moves, GoTo

\* The request ends.
LEMMA FinishMoves ==
  ASSUME req \in [Procs -> Requests], NEW p \in Procs, Finish(p)
  PROVE  Moves(p) /\ req'[p] = Idle
  BY IdleRequest DEF Moves, Finish

\* Types follows from the parts, and the type invariant from it.
LEMMA TypesAreTypeOK == Types => TypeOK
  BY AccountsAssumption
  DEF Types, OrgRows, TokenRows, OtherRows, RequestRows, FindsRows, TypeOK

\* No row is deleted, and nothing of a row is changed that a request has read and relies on.
Keeps ==
  /\ orgs \subseteq orgs'
  /\ \A u \in Emails : Exists(u) =>
       /\ users'[u] # None
       /\ users'[u].org = users[u].org /\ users'[u].role = users[u].role
       /\ users'[u].from = users[u].from
  /\ \A i \in Invites : invites[i] # None =>
       /\ invites'[i] # None
       /\ invites'[i].org = invites[i].org /\ invites'[i].role = invites[i].role
       /\ invites'[i].email = invites[i].email

\* The other requests still find what they found.
LEMMA OthersFindRows ==
  ASSUME RequestRows, Keeps, NEW p \in Procs, Moves(p), FindsRows(p)'
  PROVE  RequestRows'
<1>1. ASSUME NEW q \in Procs, q # p
      PROVE  FindsRows(q)'
  <2>1. req'[q] = req[q] /\ FindsRows(q)
    BY <1>1 DEF Moves, RequestRows
  <2> QED
    BY <2>1 DEF Keeps, FindsRows, Exists
<1> QED
  BY <1>1 DEF RequestRows, Moves

\* No request moves.
LEMMA AllFindRows ==
  ASSUME RequestRows, Keeps, UNCHANGED req
  PROVE  RequestRows'
<1>1. ASSUME NEW q \in Procs
      PROVE  FindsRows(q)'
  BY DEF Keeps, RequestRows, FindsRows, Exists
<1> QED
  BY <1>1 DEF RequestRows

\* The refresh tokens that were issued.
LEMMA IssuedTokens ==
  ASSUME Types, NEW t \in DOMAIN issued
  PROVE  /\ t \in 1..Len(issued) /\ Len(issued) \in Nat /\ t \in 1..MaxTokens
         /\ issued[t].user \in Emails /\ users[issued[t].user] # None
         /\ Line(t) \in 1..t /\ Line(t) \in DOMAIN issued
<1>1. issued \in Seq([user : Emails, line : 1..MaxTokens]) /\ Len(issued) <= MaxTokens
  BY DEF Types, TokenRows
<1>2. Len(issued) \in Nat /\ DOMAIN issued = 1..Len(issued)
  BY <1>1
<1>3. issued[t] \in [user : Emails, line : 1..MaxTokens]
  BY <1>1, <1>2, ElementOfSeq
<1>4. Exists(issued[t].user) /\ Line(t) <= t
  BY DEF Types, TokenRows
<1> QED
  BY <1>1, <1>2, <1>3, <1>4, AccountsAssumption DEF Exists, Line

\* A request that begins has a user, a token or an invitation.
LEMMA LoginMoves ==
  ASSUME req \in [Procs -> Requests], NEW p \in Procs, NEW u \in Emails, Login(p, u)
  PROVE  Moves(p) /\ req'[p].at = "store" /\ req'[p].user = u /\ req'[p].tok = 0
<1>1. [Idle EXCEPT !.at = "store", !.user = u] \in Requests
  BY IdleRequest DEF Requests, Steps
<1> QED
  BY <1>1 DEF Login, Moves, Idle

\* A rotation begins with the token that was found.
LEMMA RefreshMoves ==
  ASSUME Types, NEW p \in Procs, NEW t \in tokens, Refresh(p, t)
  PROVE  /\ Moves(p) /\ req'[p].at = "rotate" /\ req'[p].user = issued[t].user
         /\ req'[p].tok = t
<1>1. t \in 0..MaxTokens /\ issued[t].user \in Emails
  BY IssuedTokens, AccountsAssumption DEF Types, TokenRows
<1>2. [Idle EXCEPT !.at = "rotate", !.user = issued[t].user, !.tok = t] \in Requests
  BY <1>1, IdleRequest DEF Requests, Steps
<1> QED
  BY <1>2 DEF Refresh, Moves, Idle, Types, RequestRows

\* An acceptance begins with the invitation that was found.
LEMMA AcceptMoves ==
  ASSUME Types, NEW p \in Procs, NEW i \in Invites, Accept(p, i)
  PROVE  /\ Moves(p) /\ req'[p].at = "insert" /\ req'[p].user = invites[i].email
         /\ req'[p].inv = i /\ req'[p].tok = 0 /\ invites[i].email \in Emails
<1>1. invites[i].email \in Emails
  BY DEF Accept, Pending, Types, OrgRows, Invitations
<1>2. [Idle EXCEPT !.at = "insert", !.inv = i, !.user = invites[i].email] \in Requests
  BY <1>1, IdleRequest DEF Requests, Steps
<1> QED
  BY <1>1, <1>2 DEF Accept, Moves, Idle, Types, RequestRows

\* A change that is done is about to be logged.
LEMMA LogMoves ==
  ASSUME Types, NEW p \in Procs, NEW a \in access,
         NEW target \in Emails \cup Invites \cup Orgs, Log(p, a, target)
  PROVE  /\ Moves(p) /\ req'[p].at = "audit" /\ req'[p].tok = 0
         /\ req'[p].entry \in Entries
         /\ req'[p].entry.actor = a.user /\ req'[p].entry.target = target
<1>1. [actor |-> a.user, target |-> target] \in Entries
  BY DEF Entries, Claims, Types, OtherRows
<1>2. [Idle EXCEPT !.at = "audit", !.entry = [actor |-> a.user, target |-> target]] \in Requests
  BY <1>1, IdleRequest DEF Requests, Steps
<1> QED
  BY <1>1, <1>2 DEF Log, Moves, Idle, Types, RequestRows

\* An organisation that is made is about to get its administrator.
LEMMA CreateOrgMoves ==
  ASSUME Types, NEW p \in Procs, NEW o \in Orgs, NEW u \in Emails, CreateOrg(p, o, u)
  PROVE  /\ Moves(p) /\ req'[p].at = "admin" /\ req'[p].user = u /\ req'[p].org = o
         /\ req'[p].tok = 0
<1>1. [Idle EXCEPT !.at = "admin", !.org = o, !.user = u] \in Requests
  BY IdleRequest DEF Requests, Steps
<1> QED
  BY <1>1 DEF CreateOrg, Moves, Idle, Types, RequestRows

\* Rows that no statement changes.
LEMMA SameOrgRows ==
  ASSUME OrgRows, UNCHANGED <<orgs, users, invites>>
  PROVE  OrgRows' /\ Keeps
  BY DEF OrgRows, Keeps, Exists

\* No token is issued; some may go.
LEMMA SameTokenRows ==
  ASSUME Types, Keeps, UNCHANGED issued, tokens' \subseteq tokens
  PROVE  TokenRows'
<1>1. ASSUME NEW t \in DOMAIN issued
      PROVE  Exists(issued[t].user)'
  BY IssuedTokens DEF Keeps, Exists
<1> QED
  BY <1>1 DEF Types, TokenRows, Line, Exists

\* The log, the access tokens and the clock stay.
LEMMA SameOtherRows ==
  ASSUME OtherRows, Keeps, UNCHANGED <<audit, access, expired, faults>>
  PROVE  OtherRows'
  BY DEF OtherRows, Keeps

\* One column of an invitation, or one row of tb_users, changes.
LEMMA StateChanges ==
  ASSUME OrgRows, UNCHANGED <<orgs, users>>, NEW i \in Invites, invites[i] \in Invitations,
         NEW state \in {"pending", "accepted", "revoked"},
         invites' = [invites EXCEPT ![i].state = state]
  PROVE  OrgRows' /\ Keeps
<1>1. invites'[i] \in Invitations /\ \A j \in Invites : j # i => invites'[j] = invites[j]
  BY DEF OrgRows, Invitations
<1>2. /\ invites'[i].org = invites[i].org /\ invites'[i].role = invites[i].role
      /\ invites'[i].email = invites[i].email
  BY DEF OrgRows, Invitations
<1>3. invites[i] # None /\ invites'[i] # None
  BY <1>1, AccountsAssumption
<1>4. invites' \in [Invites -> Invitations \cup {None}]
  BY <1>1 DEF OrgRows
<1> QED
  BY <1>1, <1>2, <1>3, <1>4 DEF OrgRows, Keeps, Exists

\* The row keeps its organisation, role and invitation.
LEMMA RowChanges ==
  ASSUME OrgRows, UNCHANGED <<orgs, invites>>, NEW u \in Emails, users[u] # None,
         NEW r \in Users, users' = [users EXCEPT ![u] = r],
         r.org = users[u].org, r.role = users[u].role, r.from = users[u].from
  PROVE  OrgRows' /\ Keeps
<1>1. r # None
  BY AccountsAssumption
<1>2. users' \in [Emails -> Users \cup {None}] /\ users'[u] = r
      /\ \A v \in Emails : v # u => users'[v] = users[v]
  BY DEF OrgRows
<1> QED
  BY <1>1, <1>2 DEF OrgRows, Keeps, Exists

-----------------------------------------------------------------------------
(* Types: what is there stays, and what is made refers to what is there *)

\* The user who signs in is there.
LEMMA LoginTypes ==
  ASSUME Types, NEW p \in Procs, NEW u \in Emails, Login(p, u)
  PROVE  Types' /\ Keeps
<1>1. OrgRows' /\ Keeps
  BY SameOrgRows DEF Types, Login, dbVars
<1>2. TokenRows'
  BY <1>1, SameTokenRows DEF Login, dbVars
<1>3. OtherRows'
  BY <1>1, SameOtherRows DEF Types, Login, dbVars, history
<1>4. Moves(p) /\ FindsRows(p)'
  <2>1. Moves(p) /\ req'[p].at = "store" /\ req'[p].user = u
    BY LoginMoves DEF Types, RequestRows
  <2>2. Exists(u)
    BY DEF Login, CanSignIn
  <2> QED
    BY <1>1, <2>1, <2>2 DEF FindsRows, Keeps, Exists
<1>5. RequestRows'
  BY <1>1, <1>4, OthersFindRows DEF Types
<1> QED
  BY <1>1, <1>2, <1>3, <1>5 DEF Types

\* The user of a refresh token is there.
LEMMA RefreshTypes ==
  ASSUME Types, NEW p \in Procs, NEW t \in tokens, Refresh(p, t)
  PROVE  Types' /\ Keeps
<1>1. OrgRows' /\ Keeps
  BY SameOrgRows DEF Types, Refresh, dbVars
<1>2. TokenRows'
  BY <1>1, SameTokenRows DEF Refresh, dbVars
<1>3. OtherRows'
  BY <1>1, SameOtherRows DEF Types, Refresh, dbVars, history
<1>4. Moves(p) /\ FindsRows(p)'
  <2>1. Moves(p) /\ req'[p].at = "rotate" /\ req'[p].user = issued[t].user
    BY RefreshMoves
  <2>2. issued[t].user \in Emails /\ Exists(issued[t].user)
    BY IssuedTokens DEF Types, TokenRows, Exists
  <2> QED
    BY <1>1, <2>1, <2>2 DEF FindsRows, Keeps, Exists
<1>5. RequestRows'
  BY <1>1, <1>4, OthersFindRows DEF Types
<1> QED
  BY <1>1, <1>2, <1>3, <1>5 DEF Types

\* A token goes, whoever it was for.
LEMMA DeleteRefreshTokenTypes ==
  ASSUME Types, NEW p \in Procs, DeleteRefreshToken(p)
  PROVE  Types' /\ Keeps
<1>1. OrgRows' /\ Keeps
  BY SameOrgRows DEF Types, DeleteRefreshToken, dbVars
<1>2. TokenRows'
  BY <1>1, SameTokenRows DEF DeleteRefreshToken, dbVars
<1>3. OtherRows'
  BY <1>1, SameOtherRows DEF Types, DeleteRefreshToken, dbVars, history
<1>4. Moves(p) /\ FindsRows(p)'
  <2>1. req[p].at = "rotate" /\ FindsRows(p)
    BY DEF DeleteRefreshToken, Types, RequestRows
  <2>2. Moves(p) /\ SameLocals(p) /\ req'[p].at = "store"
    BY GoToMoves DEF DeleteRefreshToken, Types, RequestRows, Steps
  <2> QED
    BY <1>1, <2>1, <2>2 DEF FindsRows, SameLocals, Keeps, Exists
<1>5. RequestRows'
  BY <1>1, <1>4, OthersFindRows DEF Types
<1> QED
  BY <1>1, <1>2, <1>3, <1>5 DEF Types

\* The rotation goes on without its DELETE.
LEMMA DeleteFailsTypes ==
  ASSUME Types, NEW p \in Procs, DeleteFails(p)
  PROVE  Types' /\ Keeps
<1>1. OrgRows' /\ Keeps
  BY SameOrgRows DEF Types, DeleteFails, dbVars
<1>2. TokenRows'
  BY <1>1, SameTokenRows DEF DeleteFails, dbVars
<1>3. OtherRows'
  <2>1. faults' \in 0..MaxFaults
    BY AccountsAssumption DEF DeleteFails, Types, OtherRows
  <2> QED
    BY <1>1, <2>1 DEF DeleteFails, dbVars, Types, OtherRows, Keeps
<1>4. Moves(p) /\ FindsRows(p)'
  <2>1. req[p].at = "rotate" /\ FindsRows(p)
    BY DEF DeleteFails, Types, RequestRows
  <2>2. Moves(p) /\ SameLocals(p) /\ req'[p].at = "store"
    BY GoToMoves DEF DeleteFails, Types, RequestRows, Steps
  <2> QED
    BY <1>1, <2>1, <2>2 DEF FindsRows, SameLocals, Keeps, Exists
<1>5. RequestRows'
  BY <1>1, <1>4, OthersFindRows DEF Types
<1> QED
  BY <1>1, <1>2, <1>3, <1>5 DEF Types

\* The token and the claims are of the user who signs in, or rotates.
LEMMA StoreRefreshTokenTypes ==
  ASSUME Types, Sessions, NEW p \in Procs, StoreRefreshToken(p)
  PROVE  Types' /\ Keeps
<1>1. OrgRows' /\ Keeps
  BY SameOrgRows DEF Types, StoreRefreshToken, dbVars
<1>2. TokenRows'
  <2>1. req[p].user \in Emails /\ Exists(req[p].user) /\ req[p].tok \in 0..MaxTokens
    BY DEF StoreRefreshToken, Types, RequestRows, FindsRows, Requests
  <2>2. Len(issued) \in Nat /\ DOMAIN issued = 1..Len(issued) /\ Len(issued) + 1 \in 1..MaxTokens
    BY LenProperties, AccountsAssumption DEF StoreRefreshToken, Types, TokenRows
  <2>3. PICK line \in 1..(Len(issued) + 1) :
          issued' = Append(issued, [user |-> req[p].user, line |-> line])
    <3>1. CASE req[p].tok = 0
      BY <2>2, <3>1 DEF StoreRefreshToken
    <3>2. CASE req[p].tok # 0
      <4>1. Line(req[p].tok) \in 1..Len(issued)
        BY <3>2, <2>2, IssuedTokens DEF Sessions, RotationsHaveTokens, Rotating
      <4> QED
        BY <4>1, <2>2, <3>2 DEF StoreRefreshToken
    <3> QED
      BY <3>1, <3>2
  <2>4. [user |-> req[p].user, line |-> line] \in [user : Emails, line : 1..MaxTokens]
    BY <2>1, <2>2, <2>3, AccountsAssumption
  <2>5. /\ issued' \in Seq([user : Emails, line : 1..MaxTokens])
        /\ Len(issued') = Len(issued) + 1 /\ DOMAIN issued' = 1..(Len(issued) + 1)
        /\ \A t \in 1..Len(issued) : issued'[t] = issued[t]
        /\ issued'[Len(issued) + 1] = [user |-> req[p].user, line |-> line]
    BY <2>2, <2>3, <2>4, AppendProperties, LenProperties DEF Types, TokenRows
  <2>6. ASSUME NEW t \in DOMAIN issued'
        PROVE  users'[issued'[t].user] # None /\ issued'[t].line <= t
    <3>1. CASE t \in 1..Len(issued)
      BY <1>1, <2>2, <2>5, <3>1, IssuedTokens DEF Types, TokenRows, Keeps, Exists, Line
    <3>2. CASE t = Len(issued) + 1
      BY <1>1, <2>1, <2>2, <2>5, <3>2 DEF Keeps, Exists
    <3> QED
      BY <2>2, <2>5, <2>6, <3>1, <3>2
  <2>7. tokens' \subseteq DOMAIN issued'
    BY <2>2, <2>5 DEF StoreRefreshToken, Types, TokenRows
  <2> QED
    BY <2>2, <2>5, <2>6, <2>7 DEF StoreRefreshToken, TokenRows, Line, Exists
<1>3. OtherRows'
  <2>1. req[p].user \in Emails /\ Exists(req[p].user)
    BY DEF StoreRefreshToken, Types, RequestRows, FindsRows
  <2>2. users[req[p].user] \in Users /\ users[req[p].user].org \in orgs
    BY <2>1 DEF Types, OrgRows, Exists
  <2>3. [user |-> req[p].user, org |-> users[req[p].user].org, role |-> users[req[p].user].role]
          \in Claims
    BY <2>1, <2>2 DEF Claims, Users
  <2> QED
    BY <2>2, <2>3 DEF StoreRefreshToken, Types, OtherRows, history
<1>4. Moves(p) /\ FindsRows(p)'
  <2>1. Moves(p) /\ req'[p] = Idle
    BY FinishMoves DEF StoreRefreshToken, Types, RequestRows
  <2> QED
    BY <2>1, IdleRequest DEF FindsRows
<1>5. RequestRows'
  BY <1>1, <1>4, OthersFindRows DEF Types
<1> QED
  BY <1>1, <1>2, <1>3, <1>5 DEF Types

\* Tokens go.
LEMMA LogoutTypes ==
  ASSUME Types, NEW a \in access, Logout(a)
  PROVE  Types' /\ Keeps
<1>1. OrgRows' /\ Keeps
  BY SameOrgRows DEF Types, Logout, dbVars
<1>2. TokenRows'
  BY <1>1, SameTokenRows DEF Logout, dbVars
<1>3. OtherRows'
  BY <1>1, SameOtherRows DEF Types, Logout, dbVars, history
<1>5. RequestRows'
  BY <1>1, AllFindRows DEF Types, Logout
<1> QED
  BY <1>1, <1>2, <1>3, <1>5 DEF Types

\* Refresh tokens and invitations expire.
LEMMA ExpireTypes ==
  ASSUME Types, NEW x \in tokens \cup {i \in Invites : Pending(i)}, Expire(x)
  PROVE  Types' /\ Keeps
<1>1. OrgRows' /\ Keeps
  BY SameOrgRows DEF Types, Expire, dbVars
<1>2. TokenRows'
  BY <1>1, SameTokenRows DEF Expire, dbVars
<1>3. OtherRows'
  <2>1. x \in 1..MaxTokens \cup Invites
    BY IssuedTokens DEF Types, TokenRows
  <2> QED
    BY <2>1 DEF Expire, dbVars, history, Types, OtherRows
<1>5. RequestRows'
  BY <1>1, AllFindRows DEF Types, Expire
<1> QED
  BY <1>1, <1>2, <1>3, <1>5 DEF Types

\* A pending invitation is there.
LEMMA AcceptTypes ==
  ASSUME Types, NEW p \in Procs, NEW i \in Invites, Accept(p, i)
  PROVE  Types' /\ Keeps
<1>1. OrgRows' /\ Keeps
  BY SameOrgRows DEF Types, Accept, dbVars
<1>2. TokenRows'
  BY <1>1, SameTokenRows DEF Accept, dbVars
<1>3. OtherRows'
  BY <1>1, SameOtherRows DEF Types, Accept, dbVars, history
<1>4. Moves(p) /\ FindsRows(p)'
  <2>1. Moves(p) /\ req'[p].at = "insert" /\ req'[p].inv = i
        /\ req'[p].user \in Emails
    BY AcceptMoves
  <2>2. invites[i] # None
    BY DEF Accept, Pending
  <2> QED
    BY <1>1, <2>1, <2>2 DEF FindsRows, Keeps, Exists
<1>5. RequestRows'
  BY <1>1, <1>4, OthersFindRows DEF Types
<1> QED
  BY <1>1, <1>2, <1>3, <1>5 DEF Types

\* The new user is of the invitation's organisation.
LEMMA CreateUserFromInviteTypes ==
  ASSUME Types, NEW p \in Procs, CreateUserFromInvite(p)
  PROVE  Types' /\ Keeps
<1>0. ~Exists(req[p].user) /\ req[p].user \in Emails => users'[req[p].user] # None
  <2>1. CASE ~Exists(req[p].user) /\ req[p].user \in Emails
    <3>1. users'[req[p].user] = User(invites[req[p].inv].org, invites[req[p].inv].role, req[p].inv)
      BY <2>1 DEF CreateUserFromInvite, Types, OrgRows
    <3>2. /\ req[p].inv \in Invites /\ invites[req[p].inv] \in Invitations
      BY DEF CreateUserFromInvite, Types, OrgRows, RequestRows, FindsRows
    <3>3. User(invites[req[p].inv].org, invites[req[p].inv].role, req[p].inv) \in Users
      BY <3>2 DEF User, Users, Invitations, Roles
    <3> QED
      BY <3>1, <3>3, AccountsAssumption
  <2> QED
    BY <2>1
<1>1. OrgRows' /\ Keeps
  <2> DEFINE u == req[p].user
             i == req[p].inv
  <2>1. u \in Emails /\ i \in Invites /\ invites[i] \in Invitations /\ invites[i].org \in orgs
    BY DEF CreateUserFromInvite, Types, OrgRows, RequestRows, FindsRows
  <2>2. User(invites[i].org, invites[i].role, i) \in Users
    BY <2>1 DEF User, Users, Invitations, Roles
  <2>3. CASE Exists(u)
    BY <2>3, SameOrgRows DEF CreateUserFromInvite, Types
  <2>4. CASE ~Exists(u)
    <3>1. users' = [users EXCEPT ![u] = User(invites[i].org, invites[i].role, i)]
          /\ UNCHANGED <<orgs, invites>>
      BY <2>4 DEF CreateUserFromInvite
    <3>2. users' \in [Emails -> Users \cup {None}]
      BY <2>1, <2>2, <3>1 DEF Types, OrgRows
    <3>3. users'[u].org \in orgs /\ \A v \in Emails : v # u => users'[v] = users[v]
      BY <2>1, <3>1 DEF User, Types, OrgRows
    <3> QED
      BY <2>4, <3>1, <3>2, <3>3 DEF Types, OrgRows, Keeps, Exists
  <2> QED
    BY <2>3, <2>4
<1>2. TokenRows'
  BY <1>1, SameTokenRows DEF CreateUserFromInvite, dbVars
<1>3. OtherRows'
  BY <1>1, SameOtherRows DEF Types, CreateUserFromInvite, dbVars, history
<1>4. Moves(p) /\ FindsRows(p)'
  <2>1. req[p].at = "insert" /\ FindsRows(p)
    BY DEF CreateUserFromInvite, Types, RequestRows
  <2>2. CASE Exists(req[p].user)
    <3>1. Moves(p) /\ req'[p] = Idle
      BY <2>2, FinishMoves DEF CreateUserFromInvite, Types, RequestRows
    <3> QED
      BY <3>1, IdleRequest DEF FindsRows
  <2>3. CASE ~Exists(req[p].user)
    <3>1. Moves(p) /\ SameLocals(p) /\ req'[p].at = "accept"
      BY <2>3, GoToMoves DEF CreateUserFromInvite, Types, RequestRows, Steps
    <3>2. users'[req[p].user] # None
      BY <2>1, <2>3, <1>0 DEF FindsRows
    <3> QED
      BY <1>1, <2>1, <3>1, <3>2 DEF FindsRows, SameLocals, Keeps, Exists
  <2> QED
    BY <2>2, <2>3
<1>5. RequestRows'
  BY <1>1, <1>4, OthersFindRows DEF Types
<1> QED
  BY <1>1, <1>2, <1>3, <1>5 DEF Types

\* The invitation changes its state only.
LEMMA AcceptInvitationTypes ==
  ASSUME Types, NEW p \in Procs, AcceptInvitation(p)
  PROVE  Types' /\ Keeps
<1>1. OrgRows' /\ Keeps
  <2>1. CASE UNCHANGED invites
    BY <2>1, SameOrgRows DEF AcceptInvitation, Types
  <2>2. CASE invites' = [invites EXCEPT ![req[p].inv].state = "accepted"] /\ Pending(req[p].inv)
    <3>1. req[p].inv \in Invites /\ invites[req[p].inv] \in Invitations
      BY <2>2 DEF AcceptInvitation, Types, OrgRows, RequestRows, FindsRows, Pending
    <3> QED
      BY <2>2, <3>1, StateChanges DEF AcceptInvitation, Types, Invitations
  <2> QED
    BY <2>1, <2>2 DEF AcceptInvitation
<1>2. TokenRows'
  BY <1>1, SameTokenRows DEF AcceptInvitation, dbVars
<1>3. OtherRows'
  BY <1>1, SameOtherRows DEF Types, AcceptInvitation, dbVars, history
<1>4. Moves(p) /\ FindsRows(p)'
  <2>1. req[p].at = "accept" /\ FindsRows(p)
    BY DEF AcceptInvitation, Types, RequestRows
  <2>2. Finish(p) \/ GoTo(p, "login")
    BY DEF AcceptInvitation
  <2>3. Moves(p) /\ (req'[p] = Idle \/ (SameLocals(p) /\ req'[p].at = "login"))
    BY <2>2, GoToMoves, FinishMoves DEF Types, RequestRows, Steps
  <2> QED
    BY <1>1, <2>1, <2>3, IdleRequest DEF FindsRows, SameLocals, Keeps, Exists
<1>5. RequestRows'
  BY <1>1, <1>4, OthersFindRows DEF Types
<1> QED
  BY <1>1, <1>2, <1>3, <1>5 DEF Types

\* The user who was made is there to sign in.
LEMMA LoginAfterAcceptTypes ==
  ASSUME Types, NEW p \in Procs, LoginAfterAccept(p)
  PROVE  Types' /\ Keeps
<1>1. OrgRows' /\ Keeps
  BY SameOrgRows DEF Types, LoginAfterAccept, dbVars
<1>2. TokenRows'
  BY <1>1, SameTokenRows DEF LoginAfterAccept, dbVars
<1>3. OtherRows'
  BY <1>1, SameOtherRows DEF Types, LoginAfterAccept, dbVars, history
<1>4. Moves(p) /\ FindsRows(p)'
  <2>1. req[p].at = "login" /\ FindsRows(p)
    BY DEF LoginAfterAccept, Types, RequestRows
  <2>2. Finish(p) \/ GoTo(p, "store")
    BY DEF LoginAfterAccept
  <2>3. Moves(p) /\ (req'[p] = Idle \/ (SameLocals(p) /\ req'[p].at = "store"))
    BY <2>2, GoToMoves, FinishMoves DEF Types, RequestRows, Steps
  <2> QED
    BY <1>1, <2>1, <2>3, IdleRequest DEF FindsRows, SameLocals, Keeps, Exists
<1>5. RequestRows'
  BY <1>1, <1>4, OthersFindRows DEF Types
<1> QED
  BY <1>1, <1>2, <1>3, <1>5 DEF Types

\* A row that is switched keeps its organisation.
LEMMA PatchUserTypes ==
  ASSUME Types, NEW p \in Procs, NEW a \in access, NEW u \in Emails,
         NEW text \in Texts, NEW on \in BOOLEAN, PatchUser(p, a, u, text, on)
  PROVE  Types' /\ Keeps
<1>1. OrgRows' /\ Keeps
  <2> DEFINE row == [users[u] EXCEPT !.active = on]
  <2>1. u \in Emails /\ users[u] # None /\ users[u] \in Users
    BY DEF PatchUser, InOrg, Exists, Types, OrgRows
  <2>2. users' = [users EXCEPT ![u] = row] /\ UNCHANGED <<orgs, invites>>
    BY <2>1 DEF PatchUser, Types, OrgRows
  <2>3. row \in Users /\ row.org = users[u].org /\ row.role = users[u].role
        /\ row.from = users[u].from
    BY <2>1 DEF Users
  <2> HIDE DEF row
  <2> QED
    BY <2>1, <2>2, <2>3, RowChanges DEF Types
<1>2. TokenRows'
  BY <1>1, SameTokenRows DEF PatchUser, dbVars
<1>3. OtherRows'
  BY <1>1, SameOtherRows DEF Types, PatchUser, dbVars, history
<1>4. Moves(p) /\ FindsRows(p)'
  <2>1. CASE on
    BY <1>1, <2>1, AllFindRows DEF PatchUser, Types, RequestRows, Moves
  <2>2. CASE ~on
    <3>1. Log(p, a, u)
      BY <2>2 DEF PatchUser
    <3>2. Moves(p) /\ req'[p].at = "audit" /\ req'[p].entry \in Entries
          /\ req'[p].entry.target = u
      BY <3>1, LogMoves
    <3> QED
      BY <1>1, <3>2, AccountsAssumption DEF FindsRows
  <2> QED
    BY <2>1, <2>2
<1>5. RequestRows'
  BY <1>1, <1>4, OthersFindRows DEF Types
<1> QED
  BY <1>1, <1>2, <1>3, <1>5 DEF Types

\* A deleted row stays.
LEMMA DeleteUserTypes ==
  ASSUME Types, NEW p \in Procs, NEW a \in access, NEW u \in Emails, NEW text \in Texts,
         DeleteUser(p, a, u, text)
  PROVE  Types' /\ Keeps
<1>1. OrgRows' /\ Keeps
  <2> DEFINE row == [users[u] EXCEPT !.active = FALSE, !.deleted = TRUE]
  <2>1. u \in Emails /\ users[u] # None /\ users[u] \in Users
    BY DEF DeleteUser, InOrg, Exists, Types, OrgRows
  <2>2. users' = [users EXCEPT ![u] = row] /\ UNCHANGED <<orgs, invites>>
    BY <2>1 DEF DeleteUser, Types, OrgRows
  <2>3. row \in Users /\ row.org = users[u].org /\ row.role = users[u].role
        /\ row.from = users[u].from
    BY <2>1 DEF Users
  <2> HIDE DEF row
  <2> QED
    BY <2>1, <2>2, <2>3, RowChanges DEF Types
<1>2. TokenRows'
  BY <1>1, SameTokenRows DEF DeleteUser, dbVars
<1>3. OtherRows'
  BY <1>1, SameOtherRows DEF Types, DeleteUser, dbVars, history
<1>4. Moves(p) /\ FindsRows(p)'
  <2>1. Log(p, a, u) /\ u \notin Orgs
    BY AccountsAssumption DEF DeleteUser
  <2>2. Moves(p) /\ req'[p].at = "audit" /\ req'[p].entry \in Entries
        /\ req'[p].entry.target = u
    BY <2>1, LogMoves DEF Entries
  <2> QED
    BY <1>1, <2>1, <2>2, AccountsAssumption DEF FindsRows, Keeps
<1>5. RequestRows'
  BY <1>1, <1>4, OthersFindRows DEF Types
<1> QED
  BY <1>1, <1>2, <1>3, <1>5 DEF Types

\* An invitation is to the organisation of who makes it.
LEMMA CreateInvitationTypes ==
  ASSUME Types, NEW p \in Procs, NEW a \in access, NEW i \in Invites,
         NEW u \in Emails, NEW role \in {"org_admin", "seller"}, CreateInvitation(p, a, i, u, role)
  PROVE  Types' /\ Keeps
<1>1. OrgRows' /\ Keeps
  <2> DEFINE row == [org |-> a.org, email |-> u, role |-> role, state |-> "pending"]
  <2>1. row \in Invitations /\ a.org \in orgs
    BY DEF Types, OtherRows, Claims, Invitations, Roles
  <2>2. invites[i] = None /\ invites' = [invites EXCEPT ![i] = row] /\ UNCHANGED <<orgs, users>>
    BY DEF CreateInvitation
  <2>3. row.org = a.org
    OBVIOUS
  <2> HIDE DEF row
  <2> QED
    BY <2>1, <2>2, <2>3 DEF Types, OrgRows, Keeps, Exists
<1>2. TokenRows'
  BY <1>1, SameTokenRows DEF CreateInvitation, dbVars
<1>3. OtherRows'
  BY <1>1, SameOtherRows DEF Types, CreateInvitation, dbVars, history
<1>4. Moves(p) /\ FindsRows(p)'
  <2>1. Log(p, a, i) /\ i \notin Orgs
    BY AccountsAssumption DEF CreateInvitation
  <2>2. Moves(p) /\ req'[p].at = "audit" /\ req'[p].entry \in Entries
        /\ req'[p].entry.target = i
    BY <2>1, LogMoves DEF Entries
  <2> QED
    BY <1>1, <2>1, <2>2, AccountsAssumption DEF FindsRows, Keeps
<1>5. RequestRows'
  BY <1>1, <1>4, OthersFindRows DEF Types
<1> QED
  BY <1>1, <1>2, <1>3, <1>5 DEF Types

\* An invitation is revoked, not removed.
LEMMA DeleteInvitationTypes ==
  ASSUME Types, NEW a \in access, NEW i \in Invites, DeleteInvitation(a, i)
  PROVE  Types' /\ Keeps
<1>1. OrgRows' /\ Keeps
  <2>1. invites[i] \in Invitations
    BY DEF DeleteInvitation, Pending, Types, OrgRows
  <2> QED
    BY <2>1, StateChanges DEF DeleteInvitation, Types, Invitations
<1>2. TokenRows'
  BY <1>1, SameTokenRows DEF DeleteInvitation, dbVars
<1>3. OtherRows'
  BY <1>1, SameOtherRows DEF Types, DeleteInvitation, dbVars, history
<1>5. RequestRows'
  BY <1>1, AllFindRows DEF Types, DeleteInvitation
<1> QED
  BY <1>1, <1>2, <1>3, <1>5 DEF Types

\* The entry is one; a visitor's token is for an organisation that exists.
LEMMA WriteAuditLogTypes ==
  ASSUME Types, NEW p \in Procs, WriteAuditLog(p)
  PROVE  Types' /\ Keeps
<1>1. OrgRows' /\ Keeps
  BY SameOrgRows DEF Types, WriteAuditLog, AuditDone
<1>2. TokenRows'
  BY <1>1, SameTokenRows DEF WriteAuditLog, AuditDone
<1>3. OtherRows'
  <2>1. req[p].at = "audit" /\ FindsRows(p)
    BY DEF WriteAuditLog, Types, RequestRows
  <2>2. /\ req[p].entry.actor \in Emails
        /\ req[p].entry.target \in Orgs => req[p].entry.target \in orgs
    BY <2>1 DEF FindsRows, Entries
  <2>3. access' \subseteq Claims /\ \A b \in access' : b.org \in orgs
    <3> DEFINE visit == [user |-> req[p].entry.actor, org |-> req[p].entry.target,
                         role |-> "org_admin"]
    <3>1. access' = IF req[p].entry.target \in Orgs THEN access \cup {visit} ELSE access
      BY DEF WriteAuditLog, AuditDone
    <3>2. req[p].entry.target \in Orgs => visit \in Claims /\ visit.org \in orgs
      BY <2>2 DEF Claims, Roles
    <3> HIDE DEF visit
    <3> QED
      BY <3>1, <3>2 DEF Types, OtherRows
  <2>4. audit' \subseteq Entries
    BY <2>1 DEF WriteAuditLog, FindsRows, Types, OtherRows
  <2>5. faults' \in 0..MaxFaults
    BY AccountsAssumption DEF WriteAuditLog, Types, OtherRows
  <2> QED
    BY <2>3, <2>4, <2>5 DEF WriteAuditLog, AuditDone, Types, OtherRows
<1>4. Moves(p) /\ FindsRows(p)'
  <2>1. Moves(p) /\ req'[p] = Idle
    BY FinishMoves DEF WriteAuditLog, AuditDone, Types, RequestRows
  <2> QED
    BY <2>1, IdleRequest DEF FindsRows
<1>5. RequestRows'
  BY <1>1, <1>4, OthersFindRows DEF Types
<1> QED
  BY <1>1, <1>2, <1>3, <1>5 DEF Types

\* Without the entry the visitor's token is answered all the same.
LEMMA AuditFailsTypes ==
  ASSUME Types, NEW p \in Procs, AuditFails(p)
  PROVE  Types' /\ Keeps
<1>1. OrgRows' /\ Keeps
  BY SameOrgRows DEF Types, AuditFails, AuditDone
<1>2. TokenRows'
  BY <1>1, SameTokenRows DEF AuditFails, AuditDone
<1>3. OtherRows'
  <2>1. req[p].at = "audit" /\ FindsRows(p)
    BY DEF AuditFails, Types, RequestRows
  <2>2. /\ req[p].entry.actor \in Emails
        /\ req[p].entry.target \in Orgs => req[p].entry.target \in orgs
    BY <2>1 DEF FindsRows, Entries
  <2>3. access' \subseteq Claims /\ \A b \in access' : b.org \in orgs
    <3> DEFINE visit == [user |-> req[p].entry.actor, org |-> req[p].entry.target,
                         role |-> "org_admin"]
    <3>1. access' = IF req[p].entry.target \in Orgs THEN access \cup {visit} ELSE access
      BY DEF AuditFails, AuditDone
    <3>2. req[p].entry.target \in Orgs => visit \in Claims /\ visit.org \in orgs
      BY <2>2 DEF Claims, Roles
    <3> HIDE DEF visit
    <3> QED
      BY <3>1, <3>2 DEF Types, OtherRows
  <2>4. audit' \subseteq Entries
    BY <2>1 DEF AuditFails, FindsRows, Types, OtherRows
  <2>5. faults' \in 0..MaxFaults
    BY AccountsAssumption DEF AuditFails, Types, OtherRows
  <2> QED
    BY <2>3, <2>4, <2>5 DEF AuditFails, AuditDone, Types, OtherRows
<1>4. Moves(p) /\ FindsRows(p)'
  <2>1. Moves(p) /\ req'[p] = Idle
    BY FinishMoves DEF AuditFails, AuditDone, Types, RequestRows
  <2> QED
    BY <2>1, IdleRequest DEF FindsRows
<1>5. RequestRows'
  BY <1>1, <1>4, OthersFindRows DEF Types
<1> QED
  BY <1>1, <1>2, <1>3, <1>5 DEF Types

\* There is one organisation more.
LEMMA CreateOrgTypes ==
  ASSUME Types, NEW p \in Procs, NEW o \in Orgs, NEW u \in Emails, CreateOrg(p, o, u)
  PROVE  Types' /\ Keeps
<1>1. OrgRows' /\ Keeps
  BY DEF CreateOrg, Types, OrgRows, Keeps, Exists
<1>2. TokenRows'
  BY <1>1, SameTokenRows DEF CreateOrg, dbVars
<1>3. OtherRows'
  BY <1>1, SameOtherRows DEF Types, CreateOrg, dbVars, history
<1>4. Moves(p) /\ FindsRows(p)'
  <2>1. Moves(p) /\ req'[p].at = "admin" /\ req'[p].user = u /\ req'[p].org = o
    BY CreateOrgMoves
  <2>2. o \in orgs'
    BY DEF CreateOrg
  <2> QED
    BY <1>1, <2>1, <2>2 DEF FindsRows, Keeps, Exists
<1>5. RequestRows'
  BY <1>1, <1>4, OthersFindRows DEF Types
<1> QED
  BY <1>1, <1>2, <1>3, <1>5 DEF Types

\* The administrator is of the organisation just made.
LEMMA CreateOrgAdminTypes ==
  ASSUME Types, NEW p \in Procs, CreateOrgAdmin(p)
  PROVE  Types' /\ Keeps
<1>1. OrgRows' /\ Keeps
  <2>1. req[p].org \in orgs /\ req[p].user \in Emails
    BY DEF CreateOrgAdmin, Types, RequestRows, FindsRows
  <2>2. User(req[p].org, "org_admin", None) \in Users
    BY <2>1 DEF User, Users, Roles, Types, OrgRows
  <2>3. CASE Exists(req[p].user)
    BY <2>3, SameOrgRows DEF CreateOrgAdmin, Types
  <2>4. CASE ~Exists(req[p].user)
    <3>1. /\ users' = [users EXCEPT ![req[p].user] = User(req[p].org, "org_admin", None)]
          /\ UNCHANGED <<orgs, invites>>
      BY <2>4 DEF CreateOrgAdmin
    <3>2. users' \in [Emails -> Users \cup {None}]
      BY <2>1, <2>2, <3>1 DEF Types, OrgRows
    <3>3. /\ users'[req[p].user].org \in orgs
          /\ \A v \in Emails : v # req[p].user => users'[v] = users[v]
      BY <2>1, <3>1 DEF User, Types, OrgRows
    <3> QED
      BY <2>4, <3>1, <3>2, <3>3 DEF Types, OrgRows, Keeps, Exists
  <2> QED
    BY <2>3, <2>4
<1>2. TokenRows'
  BY <1>1, SameTokenRows DEF CreateOrgAdmin, dbVars
<1>3. OtherRows'
  BY <1>1, SameOtherRows DEF Types, CreateOrgAdmin, dbVars, history
<1>4. Moves(p) /\ FindsRows(p)'
  <2>1. Moves(p) /\ req'[p] = Idle
    BY FinishMoves DEF CreateOrgAdmin, Types, RequestRows
  <2> QED
    BY <2>1, IdleRequest DEF FindsRows
<1>5. RequestRows'
  BY <1>1, <1>4, OthersFindRows DEF Types
<1> QED
  BY <1>1, <1>2, <1>3, <1>5 DEF Types

\* The user is of an organisation that exists.
LEMMA CreateUserTypes ==
  ASSUME Types, NEW o \in Orgs, NEW u \in Emails, NEW role \in Roles, CreateUser(o, u, role)
  PROVE  Types' /\ Keeps
<1>1. OrgRows' /\ Keeps
  <2>1. o \in orgs /\ u \in Emails
    BY DEF CreateUser
  <2>2. User(o, role, None) \in Users
    BY <2>1 DEF User, Users, Roles, Types, OrgRows
  <2>3. CASE Exists(u)
    BY <2>3, SameOrgRows DEF CreateUser, Types
  <2>4. CASE ~Exists(u)
    <3>1. users' = [users EXCEPT ![u] = User(o, role, None)] /\ UNCHANGED <<orgs, invites>>
      BY <2>4 DEF CreateUser
    <3>2. users' \in [Emails -> Users \cup {None}]
      BY <2>1, <2>2, <3>1 DEF Types, OrgRows
    <3>3. users'[u].org \in orgs /\ \A v \in Emails : v # u => users'[v] = users[v]
      BY <2>1, <3>1 DEF User, Types, OrgRows
    <3> QED
      BY <2>4, <3>1, <3>2, <3>3 DEF Types, OrgRows, Keeps, Exists
  <2> QED
    BY <2>3, <2>4
<1>2. TokenRows'
  BY <1>1, SameTokenRows DEF CreateUser, dbVars
<1>3. OtherRows'
  BY <1>1, SameOtherRows DEF Types, CreateUser, dbVars, history
<1>5. RequestRows'
  BY <1>1, AllFindRows DEF Types, CreateUser
<1> QED
  BY <1>1, <1>2, <1>3, <1>5 DEF Types

\* A row that is switched keeps its organisation.
LEMMA SetUserActiveTypes ==
  ASSUME Types, NEW u \in Emails, NEW on \in BOOLEAN, SetUserActive(u, on)
  PROVE  Types' /\ Keeps
<1>1. OrgRows' /\ Keeps
  <2> DEFINE row == [users[u] EXCEPT !.active = on]
  <2>1. u \in Emails /\ users[u] # None /\ users[u] \in Users
    BY DEF SetUserActive, InOrg, Exists, Types, OrgRows
  <2>2. users' = [users EXCEPT ![u] = row] /\ UNCHANGED <<orgs, invites>>
    BY <2>1 DEF SetUserActive, Types, OrgRows
  <2>3. row \in Users /\ row.org = users[u].org /\ row.role = users[u].role
        /\ row.from = users[u].from
    BY <2>1 DEF Users
  <2> HIDE DEF row
  <2> QED
    BY <2>1, <2>2, <2>3, RowChanges DEF Types
<1>2. TokenRows'
  BY <1>1, SameTokenRows DEF SetUserActive, dbVars
<1>3. OtherRows'
  BY <1>1, SameOtherRows DEF Types, SetUserActive, dbVars, history
<1>5. RequestRows'
  BY <1>1, AllFindRows DEF Types, SetUserActive
<1> QED
  BY <1>1, <1>2, <1>3, <1>5 DEF Types

\* The organisation that is visited exists.
LEMMA ImpersonateTypes ==
  ASSUME Types, NEW p \in Procs, NEW a \in access, NEW o \in Orgs, Impersonate(p, a, o)
  PROVE  Types' /\ Keeps
<1>1. OrgRows' /\ Keeps
  BY SameOrgRows DEF Types, Impersonate, dbVars
<1>2. TokenRows'
  BY <1>1, SameTokenRows DEF Impersonate, dbVars
<1>3. OtherRows'
  BY <1>1, SameOtherRows DEF Types, Impersonate, dbVars, history
<1>4. Moves(p) /\ FindsRows(p)'
  <2>1. Log(p, a, o) /\ o \in orgs
    BY DEF Impersonate
  <2>2. Moves(p) /\ req'[p].at = "audit" /\ req'[p].entry \in Entries
        /\ req'[p].entry.target = o
    BY <2>1, LogMoves DEF Entries
  <2> QED
    BY <1>1, <2>1, <2>2, AccountsAssumption DEF FindsRows, Keeps
<1>5. RequestRows'
  BY <1>1, <1>4, OthersFindRows DEF Types
<1> QED
  BY <1>1, <1>2, <1>3, <1>5 DEF Types

\* A request that is cut off leaves the rows as they are.
LEMMA CutTypes ==
  ASSUME Types, NEW p \in Procs, Cut(p)
  PROVE  Types' /\ Keeps
<1>1. OrgRows' /\ Keeps
  BY SameOrgRows DEF Types, Cut, dbVars
<1>2. TokenRows'
  BY <1>1, SameTokenRows DEF Cut, dbVars
<1>3. OtherRows'
  <2>1. faults' \in 0..MaxFaults
    BY AccountsAssumption DEF Cut, Types, OtherRows
  <2> QED
    BY <1>1, <2>1 DEF Cut, dbVars, Types, OtherRows, Keeps
<1>4. Moves(p) /\ FindsRows(p)'
  <2>1. Moves(p) /\ req'[p] = Idle
    BY FinishMoves DEF Cut, Types, RequestRows
  <2> QED
    BY <2>1, IdleRequest DEF FindsRows
<1>5. RequestRows'
  BY <1>1, <1>4, OthersFindRows DEF Types
<1> QED
  BY <1>1, <1>2, <1>3, <1>5 DEF Types

-----------------------------------------------------------------------------
(* Sessions *)

\* Requests that neither begin, go on with, nor end a rotation.
LEMMA SessionsStay ==
  ASSUME Sessions, UNCHANGED <<issued, tokens, shaken, closed>>,
         \A q \in Procs : req'[q] = req[q] \/ (req'[q].tok = 0 /\ req'[q].at # "rotate")
  PROVE  Sessions'
<1>1. \A q \in Rotating' : q \in Rotating /\ req'[q] = req[q] /\ LineOf(q)' = LineOf(q)
  BY DEF Rotating, LineOf, Line
<1>2. RotationsHaveTokens'
  BY <1>1 DEF Sessions, RotationsHaveTokens, Rotating
<1>3. RotationsHoldLines'
  BY <1>1 DEF Sessions, RotationsHoldLines, Line
<1> QED
  BY <1>2, <1>3
  DEF Sessions, LinesHaveUsers, RotationKeepsOneToken, LogoutEndsSessions, Line

\* The request that finds a token is the only one to rotate its login, or the login counts
\* as shaken.
LEMMA RefreshSessions ==
  ASSUME Types, Sessions, NEW p \in Procs, NEW t \in tokens, Refresh(p, t)
  PROVE  Sessions'
<1>1. /\ Moves(p) /\ req'[p].at = "rotate" /\ req'[p].user = issued[t].user /\ req'[p].tok = t
      /\ UNCHANGED <<issued, tokens, closed>> /\ shaken \subseteq shaken'
  BY RefreshMoves DEF Refresh, dbVars
<1>2. t \in DOMAIN issued /\ t # 0
  BY IssuedTokens DEF Types, TokenRows
<1>3. /\ \A q \in Procs : q # p => req'[q] = req[q] /\ (q \in Rotating' <=> q \in Rotating)
      /\ \A q \in Procs : q # p => LineOf(q)' = LineOf(q)
      /\ LineOf(p)' = Line(t)
  BY <1>1 DEF Moves, Rotating, LineOf, Line
<1>4. RotationsHaveTokens'
  BY <1>1, <1>2, <1>3 DEF Sessions, RotationsHaveTokens, Rotating
<1>5. ASSUME NEW q \in Rotating, q # p, Line(t) \notin shaken'
      PROVE  LineOf(q) # Line(t)
  <2>1. CASE req[q].at = "rotate" /\ req[q].tok = t
    BY <1>5, <2>1 DEF Refresh, Rotating
  <2>2. CASE req[q].at = "rotate" /\ req[q].tok # t
    BY <1>1, <1>5, <2>2 DEF Sessions, RotationsHoldLines, RotationKeepsOneToken, LineOf
  <2>3. CASE req[q].at = "store"
    BY <1>1, <1>5, <2>3 DEF Sessions, RotationsHoldLines
  <2> QED
    BY <1>5, <2>1, <2>2, <2>3 DEF Sessions, RotationsHaveTokens, Rotating
<1>6. RotationsHoldLines'
  <2>1. ASSUME NEW q \in Rotating', LineOf(q)' \notin shaken', q = p
        PROVE  /\ LineOf(q)' \notin closed'
               /\ \A r \in Rotating' : r # q => LineOf(r)' # LineOf(q)'
               /\ req'[q].tok \in tokens'
    BY <1>1, <1>3, <1>5, <2>1 DEF Sessions, LogoutEndsSessions, Rotating
  <2>2. ASSUME NEW q \in Rotating', LineOf(q)' \notin shaken', q # p
        PROVE  /\ LineOf(q)' \notin closed'
               /\ \A r \in Rotating' : r # q => LineOf(r)' # LineOf(q)'
               /\ req'[q].at = "rotate" => req'[q].tok \in tokens'
               /\ req'[q].at = "store" => \A s \in tokens' : Line(s)' # LineOf(q)'
    BY <1>1, <1>3, <1>5, <2>2 DEF Sessions, RotationsHoldLines, Rotating, Line
  <2> QED
    BY <1>1, <2>1, <2>2 DEF RotationsHoldLines
<1> QED
  BY <1>1, <1>4, <1>6
  DEF Sessions, LinesHaveUsers, RotationKeepsOneToken, LogoutEndsSessions, Line

\* After the DELETE no token of the login is left; the DELETE does not hit another's.
LEMMA DeleteRefreshTokenSessions ==
  ASSUME Types, Sessions, NEW p \in Procs, DeleteRefreshToken(p)
  PROVE  Sessions'
<1>1. /\ Moves(p) /\ SameLocals(p) /\ req'[p].at = "store" /\ req[p].at = "rotate"
      /\ tokens' = tokens \ {req[p].tok} /\ UNCHANGED <<issued, shaken, closed>>
  BY GoToMoves DEF DeleteRefreshToken, Types, RequestRows, Steps, history
<1>2. /\ \A q \in Procs : q # p => req'[q] = req[q]
      /\ Rotating' = Rotating /\ \A q \in Procs : LineOf(q)' = LineOf(q)
      /\ \A t \in DOMAIN issued : Line(t)' = Line(t)
  BY <1>1 DEF Moves, SameLocals, Rotating, LineOf, Line
<1>3. p \in Rotating
  BY <1>1 DEF Sessions, RotationsHaveTokens
<1>4. RotationsHaveTokens'
  BY <1>1, <1>2, <1>3 DEF Sessions, RotationsHaveTokens, SameLocals
<1>5. RotationsHoldLines'
  <2>1. ASSUME NEW q \in Rotating, LineOf(q) \notin shaken
        PROVE  /\ req'[q].at = "rotate" => req'[q].tok \in tokens'
               /\ req'[q].at = "store" => \A t \in tokens' : Line(t) # LineOf(q)
    <3>1. CASE q = p
      BY <1>1, <2>1, <3>1 DEF Sessions, RotationsHoldLines, RotationKeepsOneToken, LineOf
    <3>2. CASE q # p
      BY <1>1, <1>2, <1>3, <2>1, <3>2 DEF Sessions, RotationsHoldLines, LineOf, Rotating
    <3> QED
      BY <3>1, <3>2
  <2>2. \A t \in tokens' : Line(t)' = Line(t)
    BY <1>1, <1>2 DEF Types, TokenRows
  <2>3. \A q \in Rotating : LineOf(q) \notin shaken =>
          /\ LineOf(q) \notin closed
          /\ \A r \in Rotating : r # q => LineOf(r) # LineOf(q)
    BY DEF Sessions, RotationsHoldLines
  <2>4. Rotating \subseteq Procs
    BY DEF Rotating
  <2> QED
    BY <1>1, <1>2, <2>1, <2>2, <2>3, <2>4 DEF RotationsHoldLines
<1> QED
  BY <1>1, <1>2, <1>4, <1>5
  DEF Sessions, LinesHaveUsers, RotationKeepsOneToken, LogoutEndsSessions, Line

\* Without the DELETE the login counts as shaken.
LEMMA DeleteFailsSessions ==
  ASSUME Types, Sessions, NEW p \in Procs, DeleteFails(p)
  PROVE  Sessions'
<1>1. /\ Moves(p) /\ SameLocals(p) /\ req'[p].at = "store" /\ req[p].at = "rotate"
      /\ shaken' = shaken \cup {LineOf(p)} /\ UNCHANGED <<issued, tokens, closed>>
  BY GoToMoves DEF DeleteFails, Types, RequestRows, Steps, dbVars, LineOf
<1>2. /\ \A q \in Procs : q # p => req'[q] = req[q]
      /\ Rotating' = Rotating /\ \A q \in Procs : LineOf(q)' = LineOf(q)
  BY <1>1 DEF Moves, SameLocals, Rotating, LineOf, Line
<1>3. p \in Rotating
  BY <1>1 DEF Sessions, RotationsHaveTokens
<1>4. RotationsHaveTokens'
  BY <1>1, <1>2, <1>3 DEF Sessions, RotationsHaveTokens, SameLocals
<1>5. RotationsHoldLines'
  BY <1>1, <1>2 DEF Sessions, RotationsHoldLines, Rotating, Line
<1> QED
  BY <1>1, <1>4, <1>5
  DEF Sessions, LinesHaveUsers, RotationKeepsOneToken, LogoutEndsSessions, Line

\* Logout shakes the logins of its user that are being rotated, and no others need it: a
\* login has one user.
LEMMA LogoutSessions ==
  ASSUME Types, Sessions, NEW a \in access, Logout(a)
  PROVE  Sessions'
<1>1. /\ tokens' = tokens \ TokensOf(a.user)
      /\ closed' = closed \cup {Line(t) : t \in TokensOf(a.user)}
      /\ shaken' = shaken \cup {LineOf(p) :
                       p \in {q \in Procs : req[q].tok # 0 /\ req[q].user = a.user}}
      /\ UNCHANGED <<issued, req>>
  BY DEF Logout, ShakenByLogout, LineOf
<1>2. ASSUME NEW t \in DOMAIN issued, Line(t) \in {Line(s) : s \in TokensOf(a.user)}
      PROVE  issued[t].user = a.user
  BY <1>2 DEF TokensOf, Sessions, LinesHaveUsers
<1>3. closed' \subseteq DOMAIN issued
  BY <1>1, IssuedTokens DEF TokensOf, Sessions, LinesHaveUsers
<1>4. RotationsHoldLines'
  <2>1. ASSUME NEW p \in Rotating, LineOf(p) \notin shaken'
        PROVE  /\ LineOf(p) \notin shaken /\ LineOf(p) \notin closed'
               /\ req[p].at = "rotate" => req[p].tok \in tokens'
    <3>1. req[p].user # a.user /\ LineOf(p) \notin shaken
      BY <1>1, <2>1 DEF Rotating
    <3>2. req[p].tok \in DOMAIN issued /\ issued[req[p].tok].user # a.user
      BY <3>1 DEF Sessions, RotationsHaveTokens, Rotating
    <3> QED
      BY <1>1, <1>2, <2>1, <3>1, <3>2 DEF Sessions, RotationsHoldLines, LineOf, TokensOf
  <2> QED
    BY <1>1, <2>1 DEF Sessions, RotationsHoldLines, Rotating, LineOf, Line
<1>5. LogoutEndsSessions'
  BY <1>1, <1>2 DEF Sessions, LogoutEndsSessions, Types, TokenRows, TokensOf, Line
<1> QED
  BY <1>1, <1>3, <1>4, <1>5
  DEF Sessions, RotationsHaveTokens, LinesHaveUsers, RotationKeepsOneToken, Rotating, Line

\* The new token is the first of a login, or takes the place of the one that was rotated.
LEMMA StoreRefreshTokenSessions ==
  ASSUME Types, Sessions, NEW p \in Procs, StoreRefreshToken(p)
  PROVE  Sessions'
<1> DEFINE t0 == Len(issued) + 1
           line == IF req[p].tok = 0 THEN t0 ELSE LineOf(p)
<1>1. /\ issued' = Append(issued, [user |-> req[p].user, line |-> line])
      /\ tokens' = tokens \cup {t0} /\ UNCHANGED <<shaken, closed>>
      /\ req[p].at = "store" /\ Moves(p) /\ req'[p] = Idle
  BY FinishMoves DEF StoreRefreshToken, LineOf, history, Types, RequestRows
<1>2. /\ Len(issued) \in Nat /\ DOMAIN issued = 1..Len(issued) /\ DOMAIN issued' = 1..t0
      /\ \A t \in 1..Len(issued) : issued'[t] = issued[t] /\ issued'[t].line = Line(t)
      /\ issued'[t0].user = req[p].user /\ issued'[t0].line = line
  <2> DEFINE token == [user |-> req[p].user, line |-> line]
             Token == [user : Emails, line : 1..MaxTokens]
  <2>1. issued \in Seq(Token) /\ Len(issued) \in Nat /\ DOMAIN issued = 1..Len(issued)
    BY LenProperties DEF Types, TokenRows
  <2>2. req[p].user \in Emails /\ t0 \in 1..MaxTokens
    BY <1>1, <2>1, AccountsAssumption DEF StoreRefreshToken, Types, RequestRows, FindsRows
  <2>3. line \in 1..MaxTokens
    <3>1. CASE req[p].tok = 0
      BY <2>2, <3>1
    <3>2. CASE req[p].tok # 0
      BY <2>1, <3>2, <2>2, IssuedTokens, AccountsAssumption
      DEF Sessions, RotationsHaveTokens, Rotating, LineOf
    <3> QED
      BY <3>1, <3>2
  <2>4. token \in Token /\ token.user = req[p].user /\ token.line = line
    BY <2>2, <2>3
  <2> HIDE DEF token, Token, line
  <2>5. issued' = Append(issued, token)
    BY <1>1 DEF token, line
  <2>6. /\ issued' \in Seq(Token) /\ Len(issued') = t0 /\ issued'[t0] = token
        /\ \A t \in 1..Len(issued) : issued'[t] = issued[t]
    BY <2>1, <2>4, <2>5, AppendProperties
  <2>7. DOMAIN issued' = 1..t0
    BY <2>6, LenProperties
  <2>8. /\ \A t \in 1..Len(issued) : issued'[t].line = Line(t)
        /\ issued'[t0].user = req[p].user /\ issued'[t0].line = line
    BY <2>4, <2>6 DEF Line
  <2> QED
    BY <2>1, <2>6, <2>7, <2>8
<1>3. \A t \in 1..Len(issued) : Line(t) \in 1..Len(issued)
  BY <1>2, IssuedTokens
<1>4. /\ Rotating' = Rotating \ {p} /\ \A q \in Rotating' : req'[q] = req[q]
      /\ \A q \in Rotating : /\ req[q].tok \in 1..Len(issued)
                             /\ LineOf(q) \in 1..Len(issued) /\ (q # p => LineOf(q)' = LineOf(q))
  BY <1>1, <1>2, <1>3, IdleRequest
  DEF Moves, Rotating, LineOf, Line, Sessions, RotationsHaveTokens
<1>5. RotationsHaveTokens'
  <2>1. ASSUME NEW q \in Procs, q # p
        PROVE  /\ req'[q].at = "rotate" => q \in Rotating'
               /\ q \in Rotating' => /\ req'[q].at \in {"rotate", "store"}
                                     /\ req'[q].tok \in DOMAIN issued'
                                     /\ req'[q].user = issued'[req'[q].tok].user
    <3>1. req'[q] = req[q]
      BY <1>1, <2>1 DEF Moves
    <3> QED
      BY <1>2, <1>4, <2>1, <3>1 DEF Sessions, RotationsHaveTokens
  <2>2. req'[p].at # "rotate" /\ p \notin Rotating'
    BY <1>1, <1>4, IdleRequest
  <2> QED
    BY <2>1, <2>2 DEF RotationsHaveTokens
<1>6. ~(t0 \in 1..Len(issued))
  BY <1>2
<1> HIDE DEF line
<1>7. CASE req[p].tok = 0
  <2>1. issued'[t0].line = t0
    BY <1>2, <1>7 DEF line
  <2>3. LinesHaveUsers'
    BY <1>1, <1>2, <1>3, <2>1 DEF Sessions, LinesHaveUsers, Line
  <2>4. RotationsHoldLines'
    BY <1>1, <1>2, <1>4, <1>6, <2>1 DEF Sessions, RotationsHoldLines, Types, TokenRows, Line
  <2>5. RotationKeepsOneToken' /\ LogoutEndsSessions'
    BY <1>1, <1>2, <1>3, <1>6, <2>1
    DEF Sessions, RotationKeepsOneToken, LogoutEndsSessions, LinesHaveUsers, Types, TokenRows, Line
  <2> QED
    BY <1>5, <2>3, <2>4, <2>5 DEF Sessions
<1>8. CASE req[p].tok # 0
  <2>1. p \in Rotating /\ issued'[t0].line = LineOf(p)
    BY <1>2, <1>8 DEF Rotating, line
  <2>3. LinesHaveUsers'
    <3>1. issued[LineOf(p)].user = req[p].user
      BY <2>1, <1>2, <1>4 DEF Sessions, LinesHaveUsers, RotationsHaveTokens, LineOf
    <3> QED
      BY <1>1, <1>2, <1>3, <1>4, <2>1, <3>1 DEF Sessions, LinesHaveUsers, Line
  <2>4. RotationsHoldLines'
    <3>1. ASSUME NEW q \in Rotating', LineOf(q) \notin shaken
          PROVE  /\ LineOf(q) \notin closed
                 /\ \A r \in Rotating : r # q => LineOf(r) # LineOf(q)
                 /\ req[q].at = "rotate" => req[q].tok \in tokens
                 /\ req[q].at = "store" => \A t \in tokens : Line(t) # LineOf(q)
      BY <1>4, <3>1 DEF Sessions, RotationsHoldLines
    <3>2. \A t \in tokens' : t = t0 \/ (t \in tokens /\ issued'[t].line = Line(t))
      BY <1>1, <1>2 DEF Types, TokenRows
    <3>3. \A q \in Rotating' : q # p /\ LineOf(q)' = LineOf(q) /\ req'[q] = req[q]
      BY <1>4
    <3>4. \A q \in Rotating' : LineOf(q) \notin shaken =>
            \A t \in tokens' : req[q].at = "store" => issued'[t].line # LineOf(q)
      BY <2>1, <3>1, <3>2, <3>3
    <3>5. Rotating' \subseteq Rotating /\ tokens \subseteq tokens' /\ Rotating' \subseteq Procs
      BY <1>1, <1>4 DEF Rotating
    <3>6. ASSUME NEW q \in Rotating', LineOf(q)' \notin shaken'
          PROVE  /\ LineOf(q)' \notin closed'
                 /\ \A r \in Rotating' : r # q => LineOf(r)' # LineOf(q)'
                 /\ req'[q].at = "rotate" => req'[q].tok \in tokens'
                 /\ req'[q].at = "store" => \A t \in tokens' : issued'[t].line # LineOf(q)'
      <4>1. LineOf(q)' = LineOf(q) /\ req'[q] = req[q] /\ LineOf(q) \notin shaken
        BY <1>1, <3>3, <3>6
      <4>2. /\ LineOf(q) \notin closed
            /\ \A r \in Rotating : r # q => LineOf(r) # LineOf(q)
            /\ req[q].at = "rotate" => req[q].tok \in tokens
        BY <3>1, <3>6, <4>1
      <4>3. \A r \in Rotating' : r # q => LineOf(r)' # LineOf(q)'
        BY <3>3, <3>5, <4>1, <4>2
      <4>4. req[q].at = "store" => \A t \in tokens' : issued'[t].line # LineOf(q)'
        BY <3>4, <3>6, <4>1
      <4> QED
        BY <1>1, <3>5, <4>1, <4>2, <4>3, <4>4
    <3> QED
      BY <3>5, <3>6 DEF RotationsHoldLines, Line
  <2>5. RotationKeepsOneToken' /\ LogoutEndsSessions'
    BY <1>1, <1>2, <2>1
    DEF Sessions, RotationsHoldLines, RotationKeepsOneToken, LogoutEndsSessions, Types,
        TokenRows, Line
  <2> QED
    BY <1>5, <2>3, <2>4, <2>5 DEF Sessions
<1> QED
  BY <1>7, <1>8

-----------------------------------------------------------------------------

-----------------------------------------------------------------------------
(* Invitations and the users that they made *)

\* Actions that neither answer an invitation nor make its user.
LEMMA JoiningStays ==
  ASSUME Joining, Keeps, severed \subseteq severed',
         \A p \in Procs : req[p].at \in {"insert", "accept"} =>
           req[p].inv \in Invites /\ invites[req[p].inv] # None,
         \A i \in Invites : invites'[i] = invites[i]
                              \/ (invites[i] = None /\ invites'[i].state = "pending"),
         \A u \in Emails : users'[u] # None => Exists(u) \/ users'[u].from = None,
         \A u \in Emails : Exists(u) => users[u].from \in Invites \cup {None},
         \A i \in Invites : invites[i] # None => invites[i].email \in Emails,
         \A p \in Procs : req'[p] = req[p] \/ req'[p].at \notin {"insert", "accept"},
         \A p \in Procs : req[p].at = "accept" =>
           \/ req'[p] = req[p]
           \/ req[p].inv \in severed'
           \/ invites[req[p].inv].state = "accepted"
  PROVE  Joining'
<1>1. AcceptsMatch'
  <2>1. ASSUME NEW p \in Procs, req'[p].at \in {"insert", "accept"}
        PROVE  /\ req'[p] = req[p] /\ req[p].inv \in Invites
               /\ invites'[req[p].inv] = invites[req[p].inv]
               /\ req[p].user = invites[req[p].inv].email /\ req[p].user \in Emails
               /\ invites[req[p].inv].state = "revoked" => req[p].inv \in severed'
    BY <2>1 DEF Joining, AcceptsMatch
  <2>2. ASSUME NEW p \in Procs, req'[p].at = "accept"
        PROVE  LET i == req[p].inv
                   u == req[p].user
               IN /\ users'[u] # None /\ users'[u].from = i
                  /\ users'[u].org = invites[i].org /\ users'[u].role = invites[i].role
    <3>1. req'[p] = req[p] /\ req[p].user \in Emails
      BY <2>1, <2>2
    <3> QED
      BY <2>2, <3>1 DEF Joining, AcceptsMatch, Keeps, Exists
  <2> QED
    BY <2>1, <2>2 DEF AcceptsMatch, Exists
<1>2. ASSUME NEW i \in Invites, invites'[i] # None, invites'[i].state = "accepted"
      PROVE  LET u == invites'[i].email
             IN /\ users'[u] # None /\ users'[u].from = i
                /\ users'[u].org = invites'[i].org /\ users'[u].role = invites'[i].role
  <2>1. invites'[i] = invites[i]
    BY <1>2
  <2> QED
    BY <1>2, <2>1 DEF Joining, InvitationsMatchUsers, Keeps, Exists
<1>3. ASSUME NEW u \in Emails, users'[u] # None, users'[u].from # None
      PROVE  LET i == users'[u].from
             IN \/ invites'[i].state = "accepted"
                \/ \E p \in Procs : req'[p].at = "accept" /\ req'[p].inv = i
                \/ i \in severed'
  <2>1. Exists(u) /\ users'[u].from = users[u].from /\ users[u].from # None
    BY <1>3 DEF Keeps
  <2>2. invites'[users[u].from] = invites[users[u].from]
    BY <2>1 DEF Joining, UsersHaveInvitations
  <2>3. CASE invites[users[u].from].state = "accepted"
    BY <2>1, <2>2, <2>3
  <2>4. CASE users[u].from \in severed
    BY <2>1, <2>4
  <2>5. CASE \E p \in Procs : req[p].at = "accept" /\ req[p].inv = users[u].from
    BY <2>1, <2>2, <2>5
  <2> QED
    BY <2>1, <2>3, <2>4, <2>5 DEF Joining, InvitationsMatchUsers
<1>4. UsersHaveInvitations'
  <2>1. ASSUME NEW u \in Emails, users'[u] # None, users'[u].from # None
        PROVE  invites'[users'[u].from] # None
    <3>1. Exists(u) /\ users'[u].from = users[u].from /\ users[u].from # None
      BY <2>1 DEF Keeps
    <3> QED
      BY <3>1 DEF Joining, UsersHaveInvitations, Keeps
  <2> QED
    BY <2>1 DEF UsersHaveInvitations, Exists
<1> QED
  BY <1>1, <1>2, <1>3, <1>4 DEF Joining, InvitationsMatchUsers, Exists

\* ValidateToken finds the invitation pending.
LEMMA AcceptJoining ==
  ASSUME Types, Joining, NEW p \in Procs, NEW i \in Invites, Accept(p, i)
  PROVE  Joining'
<1>1. /\ Moves(p) /\ req'[p].at = "insert" /\ req'[p].user = invites[i].email /\ req'[p].inv = i
      /\ req[p].at = "idle" /\ UNCHANGED <<users, invites, severed>>
      /\ invites[i].state = "pending"
  BY AcceptMoves, IdleRequest DEF Accept, dbVars, history, Pending
<1>2. \A q \in Procs : q # p => req'[q] = req[q]
  BY <1>1 DEF Moves
<1>3. AcceptsMatch'
  BY <1>1, <1>2 DEF Joining, AcceptsMatch, Exists
<1>4. ASSUME NEW j, NEW q \in Procs, req[q].at = "accept", req[q].inv = j
      PROVE  req'[q].at = "accept" /\ req'[q].inv = j
  BY <1>1, <1>2, <1>4
<1> QED
  BY <1>1, <1>3, <1>4 DEF Joining, UsersHaveInvitations, InvitationsMatchUsers, Exists

\* The user is made once, by the request that goes on to accept.
LEMMA CreateUserFromInviteJoining ==
  ASSUME Types, Joining, NEW p \in Procs, CreateUserFromInvite(p), ~Exists(req[p].user)
  PROVE  Joining'
<1> DEFINE u0 == req[p].user
           i0 == req[p].inv
<1>1. ~Exists(u0)
  OBVIOUS
<1>2. /\ u0 \in Emails /\ i0 \in Invites /\ invites[i0] \in Invitations
      /\ u0 = invites[i0].email /\ req[p].at = "insert"
      /\ invites[i0].state = "revoked" => i0 \in severed
  BY DEF CreateUserFromInvite, Types, RequestRows, FindsRows, OrgRows, Joining, AcceptsMatch
<1>3. /\ users' = [users EXCEPT ![u0] = User(invites[i0].org, invites[i0].role, i0)]
      /\ Moves(p) /\ SameLocals(p) /\ req'[p].at = "accept"
      /\ UNCHANGED <<invites, severed>>
  BY <1>1, GoToMoves DEF CreateUserFromInvite, Types, RequestRows, Steps, history
<1>4. /\ \A u \in Emails : u # u0 => users'[u] = users[u]
      /\ users'[u0].org = invites[i0].org /\ users'[u0].role = invites[i0].role
      /\ users'[u0].from = i0 /\ users'[u0] # None
  <2>1. users'[u0] = User(invites[i0].org, invites[i0].role, i0)
    BY <1>2, <1>3 DEF Types, OrgRows
  <2>2. User(invites[i0].org, invites[i0].role, i0) \in Users
    BY <1>2 DEF User, Users, Invitations
  <2>3. users'[u0] # None
    BY <2>1, <2>2, AccountsAssumption
  <2>4. \A u \in Emails : u # u0 => users'[u] = users[u]
    BY <1>3 DEF Types, OrgRows
  <2> QED
    BY <2>1, <2>3, <2>4 DEF User
<1>5. \A q \in Procs : q # p => req'[q] = req[q]
  BY <1>3 DEF Moves
<1> HIDE DEF u0, i0
<1>6. AcceptsMatch'
  <2>1. ASSUME NEW q \in Procs, q # p, req[q].at = "accept"
        PROVE  req[q].user # u0 /\ req[q].user \in Emails
    BY <1>1, <2>1 DEF Joining, AcceptsMatch, Types, RequestRows, FindsRows
  <2>2. req'[p].user = u0 /\ req'[p].inv = i0
    BY <1>3 DEF SameLocals, u0, i0
  <2>3. ASSUME NEW q \in Procs, q # p, req[q].at \in {"insert", "accept"}
        PROVE  LET i == req[q].inv
                   u == req[q].user
               IN /\ u = invites[i].email
                  /\ invites[i].state = "revoked" => i \in severed
                  /\ req[q].at = "accept" =>
                       /\ users'[u] # None /\ users'[u].from = i
                       /\ users'[u].org = invites[i].org /\ users'[u].role = invites[i].role
    BY <1>4, <2>1, <2>3 DEF Joining, AcceptsMatch, Exists
  <2>4. ASSUME NEW q \in Procs, req'[q].at \in {"insert", "accept"}
        PROVE  LET i == req'[q].inv
                   u == req'[q].user
               IN /\ u = invites'[i].email
                  /\ invites'[i].state = "revoked" => i \in severed'
                  /\ req'[q].at = "accept" =>
                       /\ users'[u] # None /\ users'[u].from = i
                       /\ users'[u].org = invites'[i].org /\ users'[u].role = invites'[i].role
    <3>1. CASE q = p
      BY <1>2, <1>3, <1>4, <2>2, <3>1
    <3>2. CASE q # p
      BY <1>3, <1>5, <2>3, <2>4, <3>2
    <3> QED
      BY <3>1, <3>2
  <2> QED
    BY <2>4 DEF AcceptsMatch, Exists
<1>7. ASSUME NEW i \in Invites, invites[i] # None, invites[i].state = "accepted"
      PROVE  LET u == invites[i].email
             IN /\ users'[u] # None /\ users'[u].from = i
                /\ users'[u].org = invites[i].org /\ users'[u].role = invites[i].role
  <2>1. invites[i].email # u0 /\ invites[i].email \in Emails
    BY <1>1, <1>7 DEF Joining, InvitationsMatchUsers, Types, OrgRows, Invitations
  <2> QED
    BY <1>4, <1>7, <2>1 DEF Joining, InvitationsMatchUsers, Exists
<1>8. ASSUME NEW u \in Emails, users'[u] # None, users'[u].from # None
      PROVE  LET i == users'[u].from
             IN \/ invites[i].state = "accepted"
                \/ \E q \in Procs : req'[q].at = "accept" /\ req'[q].inv = i
                \/ i \in severed
  <2>1. CASE u = u0
    BY <1>3, <1>4, <2>1 DEF SameLocals, i0
  <2>2. CASE u # u0
    <3>1. users'[u] = users[u] /\ Exists(u) /\ users[u].from # None
      BY <1>4, <1>8, <2>2 DEF Exists
    <3>2. ASSUME NEW q \in Procs, req[q].at = "accept"
          PROVE  req'[q] = req[q]
      BY <1>2, <1>5, <3>2
    <3> QED
      BY <3>1, <3>2 DEF Joining, InvitationsMatchUsers
  <2> QED
    BY <2>1, <2>2
<1>9. UsersHaveInvitations'
  BY <1>2, <1>3, <1>4, AccountsAssumption DEF Joining, UsersHaveInvitations, Exists
<1> QED
  BY <1>3, <1>6, <1>7, <1>8, <1>9 DEF Joining, InvitationsMatchUsers, Exists

\* The invitation is accepted when its user is there.
LEMMA AcceptInvitationJoining ==
  ASSUME Types, Keeps, Joining, NEW p \in Procs, AcceptInvitation(p), Pending(req[p].inv)
  PROVE  Joining'
<1> DEFINE i0 == req[p].inv
           u0 == req[p].user
<1>1. /\ i0 \in Invites /\ invites[i0] \in Invitations /\ u0 = invites[i0].email
      /\ Exists(u0) /\ users[u0].from = i0
      /\ users[u0].org = invites[i0].org /\ users[u0].role = invites[i0].role
  BY DEF AcceptInvitation, Types, RequestRows, FindsRows, OrgRows, Joining, AcceptsMatch
<1>2. /\ invites' = [invites EXCEPT ![i0].state = "accepted"]
      /\ Moves(p) /\ req'[p].at = "login" /\ req[p].at = "accept"
      /\ UNCHANGED <<users, severed>>
  BY GoToMoves DEF AcceptInvitation, Types, RequestRows, Steps, history
<1>3. /\ \A i \in Invites : i # i0 => invites'[i] = invites[i]
      /\ invites'[i0].org = invites[i0].org /\ invites'[i0].role = invites[i0].role
      /\ invites'[i0].email = invites[i0].email /\ invites'[i0].state = "accepted"
  BY <1>1, <1>2 DEF Types, OrgRows, Invitations
<1>4. \A q \in Procs : q # p => req'[q] = req[q]
  BY <1>2 DEF Moves
<1> HIDE DEF u0
<1>5. AcceptsMatch'
  <2>1. ASSUME NEW q \in Procs, req'[q].at \in {"insert", "accept"}
        PROVE  /\ q # p /\ req'[q] = req[q] /\ req[q].inv \in Invites
               /\ invites'[req[q].inv].email = invites[req[q].inv].email
               /\ invites'[req[q].inv].org = invites[req[q].inv].org
               /\ invites'[req[q].inv].role = invites[req[q].inv].role
               /\ invites'[req[q].inv].state = "revoked" =>
                    invites[req[q].inv].state = "revoked"
    <3>1. q # p /\ req'[q] = req[q] /\ req[q].inv \in Invites
      BY <1>2, <1>4, <2>1 DEF Types, RequestRows, FindsRows
    <3> QED
      BY <1>3, <3>1
  <2> QED
    BY <1>2, <2>1 DEF Joining, AcceptsMatch, Exists
<1>6. ASSUME NEW i \in Invites, invites'[i] # None, invites'[i].state = "accepted"
      PROVE  LET u == invites'[i].email
             IN /\ users[u] # None /\ users[u].from = i
                /\ users[u].org = invites'[i].org /\ users[u].role = invites'[i].role
  <2>1. CASE i = i0
    BY <1>1, <1>3, <2>1 DEF Exists
  <2>2. CASE i # i0
    BY <1>3, <1>6, <2>2 DEF Joining, InvitationsMatchUsers, Exists
  <2> QED
    BY <2>1, <2>2
<1>7. ASSUME NEW u \in Emails, Exists(u), users[u].from # None
      PROVE  LET i == users[u].from
             IN \/ invites'[i].state = "accepted"
                \/ \E q \in Procs : req'[q].at = "accept" /\ req'[q].inv = i
                \/ i \in severed
  <2>1. CASE users[u].from = i0
    BY <1>3, <2>1
  <2>2. CASE users[u].from # i0
    <3>1. users[u].from \in Invites
      BY <1>7 DEF Types, OrgRows, Exists, Users
    <3>2. invites'[users[u].from] = invites[users[u].from]
      BY <1>3, <2>2, <3>1
    <3>3. ASSUME NEW q \in Procs, req[q].at = "accept", req[q].inv = users[u].from
          PROVE  req'[q] = req[q]
      BY <1>4, <2>2, <3>3
    <3> QED
      BY <1>7, <3>2, <3>3 DEF Joining, InvitationsMatchUsers
  <2> QED
    BY <2>1, <2>2
<1>8. UsersHaveInvitations'
  BY <1>2 DEF Joining, UsersHaveInvitations, Keeps, Types, OrgRows, Users, Exists
<1> QED
  BY <1>2, <1>5, <1>6, <1>7, <1>8 DEF Joining, InvitationsMatchUsers, Exists

\* A request that has found the invitation is cut off by the DELETE.
LEMMA DeleteInvitationJoining ==
  ASSUME Types, Keeps, Joining, NEW a \in access, NEW i0 \in Invites, DeleteInvitation(a, i0)
  PROVE  Joining'
<1>1. /\ invites' = [invites EXCEPT ![i0].state = "revoked"]
      /\ UNCHANGED <<users, req>> /\ severed \subseteq severed'
      /\ \A p \in Procs : req[p].at \in {"insert", "accept"} /\ req[p].inv = i0 => i0 \in severed'
      /\ invites[i0] \in Invitations /\ invites[i0].state = "pending"
  BY DEF DeleteInvitation, Pending, Types, OrgRows
<1>2. /\ \A i \in Invites : i # i0 => invites'[i] = invites[i]
      /\ invites'[i0].org = invites[i0].org /\ invites'[i0].role = invites[i0].role
      /\ invites'[i0].email = invites[i0].email /\ invites'[i0].state = "revoked"
  BY <1>1 DEF Types, OrgRows, Invitations
<1>3. AcceptsMatch'
  <2>1. ASSUME NEW q \in Procs, req[q].at \in {"insert", "accept"}
        PROVE  /\ req[q].inv \in Invites
               /\ invites'[req[q].inv].email = invites[req[q].inv].email
               /\ invites'[req[q].inv].org = invites[req[q].inv].org
               /\ invites'[req[q].inv].role = invites[req[q].inv].role
               /\ invites'[req[q].inv].state = "revoked" => req[q].inv \in severed'
    <3>1. req[q].inv \in Invites
      BY <2>1 DEF Types, RequestRows, FindsRows
    <3>2. CASE req[q].inv = i0
      BY <1>1, <1>2, <2>1, <3>1, <3>2
    <3>3. CASE req[q].inv # i0
      BY <1>1, <1>2, <2>1, <3>1, <3>3 DEF Joining, AcceptsMatch
    <3> QED
      BY <3>2, <3>3
  <2> QED
    BY <1>1, <2>1 DEF Joining, AcceptsMatch, Exists
<1>4. ASSUME NEW i \in Invites, invites'[i] # None, invites'[i].state = "accepted"
      PROVE  i # i0 /\ invites'[i] = invites[i]
  BY <1>2, <1>4
<1>5. ASSUME NEW u \in Emails, Exists(u), users[u].from # None
      PROVE  LET i == users[u].from
             IN \/ invites'[i].state = "accepted"
                \/ \E q \in Procs : req[q].at = "accept" /\ req[q].inv = i
                \/ i \in severed'
  <2>1. users[u].from \in Invites
    BY <1>5 DEF Types, OrgRows, Exists, Users
  <2>2. CASE users[u].from = i0
    BY <1>1, <1>5, <2>2 DEF Joining, InvitationsMatchUsers
  <2>3. CASE users[u].from # i0
    BY <1>1, <1>2, <1>5, <2>1, <2>3 DEF Joining, InvitationsMatchUsers
  <2> QED
    BY <2>2, <2>3
<1>6. UsersHaveInvitations'
  BY <1>1 DEF Joining, UsersHaveInvitations, Keeps, Types, OrgRows, Users, Exists
<1> QED
  BY <1>1, <1>3, <1>4, <1>5, <1>6 DEF Joining, InvitationsMatchUsers, Exists

-----------------------------------------------------------------------------
(* Who made users inactive *)

\* An entry of the log, once there is one to write, is written, or its user is accounted
\* for otherwise.
LEMMA RemovalsStay ==
  ASSUME Keeps, access \subseteq access', audit \subseteq audit',
         \A p \in Procs : req[p].at = "audit" =>
           \/ req'[p] = req[p]
           \/ req[p].entry.target \in Emails =>
                req[p].entry \in audit' \/ req[p].entry.target \in severed',
         NEW u \in Emails, Removed(u)
  PROVE  Removed(u)' \/ u \in severed'
<1>1. PICK e \in Removals, a \in OrgAdmins :
        e.target = u /\ e.actor = a.user /\ users[u].org = a.org
  BY DEF Removed
<1>2. e \in Removals' \/ u \in severed'
  BY <1>1 DEF Removals
<1>3. a \in OrgAdmins'
  BY DEF OrgAdmins
<1>4. Exists(u)' /\ users'[u].org = a.org
  BY <1>1 DEF Keeps, Removed, Exists
<1> QED
  BY <1>1, <1>2, <1>3, <1>4 DEF Removed

\* A user whose row says no more than before, or no more than somebody is named for.
LEMMA AccountedStays ==
  ASSUME InactiveIsAccounted, severed \subseteq severed',
         \A u \in Emails : Removed(u) => Removed(u)' \/ u \in severed',
         \A u \in Emails : users'[u] # None =>
           \/ Exists(u) /\ users'[u] = users[u] /\ (u \in switched => u \in switched')
           \/ Exists(u) /\ users'[u].deleted = users[u].deleted
                /\ (~users'[u].active => u \in switched')
           \/ users'[u].active /\ ~users'[u].deleted
           \/ Removed(u)'
  PROVE  InactiveIsAccounted'
<1>1. ASSUME NEW u \in Emails, users'[u] # None
      PROVE  /\ users'[u].deleted => u \in severed' \/ Removed(u)'
             /\ ~users'[u].active => u \in switched' \cup severed' \/ Removed(u)'
  <2>1. CASE Exists(u) /\ users'[u] = users[u] /\ (u \in switched => u \in switched')
    <3>1. /\ users[u].deleted => u \in severed \/ Removed(u)
          /\ ~users[u].active => u \in switched \cup severed \/ Removed(u)
      BY <2>1 DEF InactiveIsAccounted
    <3> QED
      BY <2>1, <3>1
  <2>2. CASE Exists(u) /\ users'[u].deleted = users[u].deleted
               /\ (~users'[u].active => u \in switched')
    <3>1. users[u].deleted => u \in severed \/ Removed(u)
      BY <2>2 DEF InactiveIsAccounted
    <3> QED
      BY <2>2, <3>1
  <2>3. CASE users'[u].active /\ ~users'[u].deleted
    BY <2>3
  <2>4. CASE Removed(u)'
    BY <2>4
  <2> QED
    BY <1>1, <2>1, <2>2, <2>3, <2>4
<1> QED
  BY <1>1 DEF InactiveIsAccounted, Exists

\* Most actions change no user, and end no request that has an entry to write.
LEMMA SameUsersAccounted ==
  ASSUME InactiveIsAccounted, Keeps, access \subseteq access',
         UNCHANGED <<users, audit, switched>>, severed \subseteq severed',
         \A p \in Procs : req[p].at = "audit" =>
           \/ req'[p] = req[p]
           \/ req[p].entry.target \in Emails => req[p].entry.target \in severed'
  PROVE  InactiveIsAccounted'
<1>1. \A u \in Emails : Removed(u) => Removed(u)' \/ u \in severed'
  BY RemovalsStay
<1> QED
  BY <1>1, AccountedStays DEF Exists

\* A user is made, active.
LEMMA NewUserAccounted ==
  ASSUME OrgRows, InactiveIsAccounted, Keeps, access \subseteq access',
         UNCHANGED <<audit, switched>>, severed \subseteq severed',
         \A p \in Procs : req[p].at = "audit" => req'[p] = req[p],
         NEW u \in Emails, NEW o, NEW role, NEW i, users' = [users EXCEPT ![u] = User(o, role, i)]
  PROVE  InactiveIsAccounted'
<1>1. \A v \in Emails : Removed(v) => Removed(v)' \/ v \in severed'
  BY RemovalsStay
<1>2. users'[u].active /\ ~users'[u].deleted
  BY DEF OrgRows, User
<1>3. \A v \in Emails : v # u => users'[v] = users[v]
  BY DEF OrgRows
<1> QED
  BY <1>1, <1>2, <1>3, AccountedStays DEF Exists

\* A user of the organisation of a has an entry that names a, whatever else changes.
LEMMA NamedIsRemoved ==
  ASSUME Keeps, NEW p \in Procs, NEW a \in OrgAdmins, NEW u \in Emails, access' = access,
         Exists(u), users[u].org = a.org, req'[p].at = "audit",
         req'[p].entry.actor = a.user, req'[p].entry.target = u
  PROVE  Removed(u)'
<1>1. Exists(u)' /\ users'[u].org = a.org
  BY DEF Keeps, Exists
<1>2. a \in OrgAdmins'
  BY DEF OrgAdmins
<1>3. req'[p].entry \in Removals'
  BY DEF Removals
<1> QED
  BY <1>1, <1>2, <1>3 DEF Removed

\* An administrator switches off users of the organisation in his claims.
LEMMA PatchUserAccounted ==
  ASSUME Types, Keeps, InactiveIsAccounted, NEW p \in Procs, NEW a \in OrgAdmins,
         NEW u \in Emails, NEW text \in Texts, NEW on \in BOOLEAN, PatchUser(p, a, u, text, on)
  PROVE  InactiveIsAccounted'
<1>1. /\ users' = [users EXCEPT ![u].active = on] /\ switched' = switched \ {u}
      /\ UNCHANGED <<audit, severed, access>> /\ req[p].at = "idle"
      /\ users[u] \in Users /\ ~users[u].deleted /\ users[u].org = a.org
  BY IdleRequest DEF PatchUser, InOrg, Exists, Types, OrgRows
<1>2. \A q \in Procs : q # p => req'[q] = req[q]
  <2>1. CASE on
    BY <2>1 DEF PatchUser
  <2>2. CASE ~on
    BY <2>2, LogMoves DEF PatchUser, Moves, OrgAdmins
  <2> QED
    BY <2>1, <2>2
<1>3. \A v \in Emails : Removed(v) => Removed(v)' \/ v \in severed'
  BY <1>1, <1>2, RemovalsStay
<1>4. \A v \in Emails : v # u => users'[v] = users[v] /\ (v \in switched => v \in switched')
  BY <1>1 DEF Types, OrgRows
<1>5. CASE on
  <2>1. users'[u].active /\ ~users'[u].deleted
    BY <1>1, <1>5 DEF Types, OrgRows, Users
  <2> QED
    BY <1>1, <1>3, <1>4, <2>1, AccountedStays DEF Exists
<1>6. CASE ~on
  <2>1. /\ a \in access /\ req'[p].at = "audit"
        /\ req'[p].entry.actor = a.user /\ req'[p].entry.target = u
    BY <1>6, LogMoves DEF PatchUser, OrgAdmins
  <2>2. Removed(u)'
    BY <1>1, <2>1, NamedIsRemoved DEF PatchUser, InOrg
  <2> QED
    BY <1>1, <1>3, <1>4, <2>2, AccountedStays DEF Exists
<1> QED
  BY <1>5, <1>6

\* The same for a deletion.
LEMMA DeleteUserAccounted ==
  ASSUME Types, Keeps, InactiveIsAccounted, NEW p \in Procs, NEW a \in OrgAdmins,
         NEW u \in Emails, NEW text \in Texts, DeleteUser(p, a, u, text)
  PROVE  InactiveIsAccounted'
<1>1. /\ users' = [users EXCEPT ![u].active = FALSE, ![u].deleted = TRUE]
      /\ switched' = switched \ {u} /\ UNCHANGED <<audit, severed, access>> /\ req[p].at = "idle"
      /\ a \in access
  BY IdleRequest DEF DeleteUser, OrgAdmins
<1>2. /\ Moves(p) /\ req'[p].at = "audit"
      /\ req'[p].entry.actor = a.user /\ req'[p].entry.target = u
  BY <1>1, LogMoves DEF DeleteUser
<1>3. \A v \in Emails : Removed(v) => Removed(v)' \/ v \in severed'
  BY <1>1, <1>2, RemovalsStay DEF Moves
<1>4. \A v \in Emails : v # u => users'[v] = users[v] /\ (v \in switched => v \in switched')
  BY <1>1 DEF Types, OrgRows
<1>5. Removed(u)'
  BY <1>1, <1>2, NamedIsRemoved DEF DeleteUser, InOrg
<1> QED
  BY <1>1, <1>3, <1>4, <1>5, AccountedStays DEF Exists

\* The platform is named for those it switches off; a deleted user stays deleted.
LEMMA SetUserActiveAccounted ==
  ASSUME Types, Keeps, InactiveIsAccounted, NEW u \in Emails, NEW on \in BOOLEAN,
         SetUserActive(u, on)
  PROVE  InactiveIsAccounted'
<1>1. /\ users' = [users EXCEPT ![u].active = on] /\ UNCHANGED <<audit, severed, access, req>>
      /\ switched' = IF on THEN switched \ {u} ELSE switched \cup {u}
      /\ Exists(u) /\ users[u] \in Users
  BY DEF SetUserActive, Exists, Types, OrgRows
<1>2. \A v \in Emails : Removed(v) => Removed(v)' \/ v \in severed'
  BY <1>1, RemovalsStay
<1>3. \A v \in Emails : v # u => users'[v] = users[v] /\ (v \in switched => v \in switched')
  BY <1>1 DEF Types, OrgRows
<1>4. users'[u].deleted = users[u].deleted /\ users'[u].active = on
  BY <1>1 DEF Types, OrgRows, Users
<1>5. ~users'[u].active => u \in switched'
  BY <1>1, <1>4
<1> QED
  BY <1>1, <1>2, <1>3, <1>4, <1>5, AccountedStays DEF Exists

\* The entry is in the log, or its user is accounted for as severed.
LEMMA WriteAuditLogAccounted ==
  ASSUME Types, Keeps, InactiveIsAccounted, NEW p \in Procs, WriteAuditLog(p)
  PROVE  InactiveIsAccounted'
<1>1. /\ Moves(p) /\ UNCHANGED <<users, severed, switched>> /\ req[p].at = "audit"
      /\ access \subseteq access'
      /\ audit' = audit \cup ({req[p].entry} \cap [actor : Emails, target : Emails])
      /\ req[p].entry \in Entries
  BY FinishMoves DEF WriteAuditLog, AuditDone, Types, RequestRows, FindsRows
<1>2. req[p].entry.target \in Emails => req[p].entry \in [actor : Emails, target : Emails]
  BY <1>1 DEF Entries
<1>3. \A v \in Emails : Removed(v) => Removed(v)' \/ v \in severed'
  BY <1>1, <1>2, RemovalsStay DEF Moves
<1> QED
  BY <1>1, <1>3, AccountedStays DEF Exists

\* RemovalsAreLogged puts the two parts together.
LEMMA AccountedIsLogged == InactiveIsAccounted => RemovalsAreLogged
<1>1. ASSUME InactiveIsAccounted, NEW u \in Emails, Exists(u), ~CanSignIn(u),
             u \notin switched \cup severed
      PROVE  Removed(u)
  BY <1>1 DEF InactiveIsAccounted, CanSignIn
<1> QED
  BY <1>1 DEF RemovalsAreLogged, Removed

-----------------------------------------------------------------------------
(* The inductive invariant, action by action *)

\* Actions that neither answer an invitation nor make its user, with the types at hand.
LEMMA OthersJoining ==
  ASSUME Types, Keeps, Joining, severed \subseteq severed',
         \A i \in Invites : invites'[i] = invites[i]
                              \/ (invites[i] = None /\ invites'[i].state = "pending"),
         \A u \in Emails : users'[u] # None => Exists(u) \/ users'[u].from = None,
         \A p \in Procs :
           \/ req'[p] = req[p]
           \/ /\ req'[p].at \notin {"insert", "accept"}
              /\ req[p].at = "accept" => \/ req[p].inv \in severed'
                                        \/ invites[req[p].inv].state = "accepted"
  PROVE  Joining'
<1>1. \A p \in Procs : req[p].at \in {"insert", "accept"} =>
        req[p].inv \in Invites /\ invites[req[p].inv] # None
  BY DEF Types, RequestRows, FindsRows
<1>2. /\ \A u \in Emails : Exists(u) => users[u].from \in Invites \cup {None}
      /\ \A i \in Invites : invites[i] # None => invites[i].email \in Emails
  BY DEF Types, OrgRows, Users, Invitations, Exists
<1> QED
  BY <1>1, <1>2, JoiningStays

\* A request that is not rotating has no token to rotate.
LEMMA NotRotating ==
  ASSUME Sessions, NEW p \in Procs, req[p].at \notin {"rotate", "store"}
  PROVE  req[p].tok = 0
  BY DEF Sessions, RotationsHaveTokens, Rotating

\* A login of its own.
LEMMA LoginKeeps ==
  ASSUME Inv, NEW p \in Procs, NEW u \in Emails, Login(p, u)
  PROVE  Inv'
<1>1. Types' /\ Keeps
  BY LoginTypes DEF Inv
<1>2. /\ access \subseteq access'
      /\ Moves(p) /\ req'[p].at = "store" /\ req'[p].tok = 0 /\ req[p].at = "idle"
      /\ UNCHANGED <<users, invites, tokens, audit, issued, shaken, closed, severed, switched>>
  BY LoginMoves, IdleRequest DEF Login, dbVars, history, Inv, Types, RequestRows
<1>3. Sessions'
  BY <1>2, SessionsStay DEF Inv, Moves
<1>4. Joining'
  BY <1>1, <1>2, OthersJoining DEF Inv, Exists, Moves
<1>5. InactiveIsAccounted'
  BY <1>1, <1>2, SameUsersAccounted DEF Inv, Moves
<1> QED
  BY <1>1, <1>3, <1>4, <1>5 DEF Inv

\* The rotation begins.
LEMMA RefreshKeeps ==
  ASSUME Inv, NEW p \in Procs, NEW t \in tokens, Refresh(p, t)
  PROVE  Inv'
<1>1. Types' /\ Keeps
  BY RefreshTypes DEF Inv
<1>2. /\ access \subseteq access'
      /\ Moves(p) /\ req'[p].at = "rotate" /\ req[p].at = "idle"
      /\ UNCHANGED <<users, invites, audit, severed, switched>>
  BY RefreshMoves, IdleRequest DEF Refresh, dbVars, Inv
<1>3. Sessions'
  BY RefreshSessions DEF Inv
<1>4. Joining'
  BY <1>1, <1>2, OthersJoining DEF Inv, Exists, Moves
<1>5. InactiveIsAccounted'
  BY <1>1, <1>2, SameUsersAccounted DEF Inv, Moves
<1> QED
  BY <1>1, <1>3, <1>4, <1>5 DEF Inv

\* The rotation deletes its token.
LEMMA DeleteRefreshTokenKeeps ==
  ASSUME Inv, NEW p \in Procs, DeleteRefreshToken(p)
  PROVE  Inv'
<1>1. Types' /\ Keeps
  BY DeleteRefreshTokenTypes DEF Inv
<1>2. /\ access \subseteq access'
      /\ Moves(p) /\ req'[p].at = "store" /\ req[p].at = "rotate"
      /\ UNCHANGED <<users, invites, audit, severed, switched>>
  BY GoToMoves DEF DeleteRefreshToken, history, Inv, Types, RequestRows, Steps
<1>3. Sessions'
  BY DeleteRefreshTokenSessions DEF Inv
<1>4. Joining'
  BY <1>1, <1>2, OthersJoining DEF Inv, Exists, Moves
<1>5. InactiveIsAccounted'
  BY <1>1, <1>2, SameUsersAccounted DEF Inv, Moves
<1> QED
  BY <1>1, <1>3, <1>4, <1>5 DEF Inv

\* Or fails to.
LEMMA DeleteFailsKeeps ==
  ASSUME Inv, NEW p \in Procs, DeleteFails(p)
  PROVE  Inv'
<1>1. Types' /\ Keeps
  BY DeleteFailsTypes DEF Inv
<1>2. /\ access \subseteq access'
      /\ Moves(p) /\ req'[p].at = "store" /\ req[p].at = "rotate"
      /\ UNCHANGED <<users, invites, audit, severed, switched>>
  BY GoToMoves DEF DeleteFails, dbVars, Inv, Types, RequestRows, Steps
<1>3. Sessions'
  BY DeleteFailsSessions DEF Inv
<1>4. Joining'
  BY <1>1, <1>2, OthersJoining DEF Inv, Exists, Moves
<1>5. InactiveIsAccounted'
  BY <1>1, <1>2, SameUsersAccounted DEF Inv, Moves
<1> QED
  BY <1>1, <1>3, <1>4, <1>5 DEF Inv

\* A login or a rotation ends.
LEMMA StoreRefreshTokenKeeps ==
  ASSUME Inv, NEW p \in Procs, StoreRefreshToken(p)
  PROVE  Inv'
<1>1. Types' /\ Keeps
  BY StoreRefreshTokenTypes DEF Inv
<1>2. /\ access \subseteq access'
      /\ Moves(p) /\ req'[p].at = "idle" /\ req[p].at = "store"
      /\ UNCHANGED <<users, invites, audit, severed, switched>>
  BY FinishMoves, IdleRequest DEF StoreRefreshToken, history, Inv, Types, RequestRows
<1>3. Sessions'
  BY StoreRefreshTokenSessions DEF Inv
<1>4. Joining'
  BY <1>1, <1>2, OthersJoining DEF Inv, Exists, Moves
<1>5. InactiveIsAccounted'
  BY <1>1, <1>2, SameUsersAccounted DEF Inv, Moves
<1> QED
  BY <1>1, <1>3, <1>4, <1>5 DEF Inv

\* No request moves.
LEMMA LogoutKeeps ==
  ASSUME Inv, NEW a \in access, Logout(a)
  PROVE  Inv'
<1>1. Types' /\ Keeps
  BY LogoutTypes DEF Inv
<1>2. UNCHANGED <<users, invites, audit, access, severed, switched, req>>
  BY DEF Logout
<1>3. Sessions'
  BY LogoutSessions DEF Inv
<1>4. Joining'
  BY <1>1, <1>2, OthersJoining DEF Inv, Exists
<1>5. InactiveIsAccounted'
  BY <1>1, <1>2, SameUsersAccounted DEF Inv
<1> QED
  BY <1>1, <1>3, <1>4, <1>5 DEF Inv

\* No request moves.
LEMMA ExpireKeeps ==
  ASSUME Inv, NEW x \in tokens \cup {i \in Invites : Pending(i)}, Expire(x)
  PROVE  Inv'
<1>1. Types' /\ Keeps
  BY ExpireTypes DEF Inv
<1>2. UNCHANGED <<users, invites, tokens, audit, issued, access, shaken, closed, severed,
                  switched, req>>
  BY DEF Expire, dbVars, history
<1>3. Sessions'
  BY <1>2, SessionsStay DEF Inv
<1>4. Joining'
  BY <1>1, <1>2, OthersJoining DEF Inv, Exists
<1>5. InactiveIsAccounted'
  BY <1>1, <1>2, SameUsersAccounted DEF Inv
<1> QED
  BY <1>1, <1>3, <1>4, <1>5 DEF Inv

\* The invitation is found.
LEMMA AcceptKeeps ==
  ASSUME Inv, NEW p \in Procs, NEW i \in Invites, Accept(p, i)
  PROVE  Inv'
<1>1. Types' /\ Keeps
  BY AcceptTypes DEF Inv
<1>2. /\ access \subseteq access'
      /\ Moves(p) /\ req'[p].at = "insert" /\ req'[p].tok = 0 /\ req[p].at = "idle"
      /\ UNCHANGED <<users, invites, tokens, audit, issued, shaken, closed, severed, switched>>
  BY AcceptMoves, IdleRequest DEF Accept, dbVars, history, Inv
<1>3. Sessions'
  BY <1>2, SessionsStay DEF Inv, Moves
<1>4. Joining'
  BY AcceptJoining DEF Inv
<1>5. InactiveIsAccounted'
  BY <1>1, <1>2, SameUsersAccounted DEF Inv, Moves
<1> QED
  BY <1>1, <1>3, <1>4, <1>5 DEF Inv

\* The user of the invitation is made, or a row with the address is in the way.
LEMMA CreateUserFromInviteKeeps ==
  ASSUME Inv, NEW p \in Procs, CreateUserFromInvite(p)
  PROVE  Inv'
<1>1. Types' /\ Keeps
  BY CreateUserFromInviteTypes DEF Inv
<1>2. /\ access \subseteq access'
      /\ req[p].at = "insert" /\ req[p].tok = 0 /\ req[p].user \in Emails
      /\ UNCHANGED <<invites, tokens, audit, issued, shaken, closed, severed, switched>>
  BY NotRotating DEF CreateUserFromInvite, history, Inv, Types, RequestRows, FindsRows
<1>3. CASE Exists(req[p].user)
  <2>1. Moves(p) /\ req'[p].at = "idle" /\ req'[p].tok = 0 /\ UNCHANGED users
    BY <1>3, FinishMoves, IdleRequest DEF CreateUserFromInvite, Inv, Types, RequestRows
  <2>2. Sessions'
    BY <1>2, <2>1, SessionsStay DEF Inv, Moves
  <2>3. Joining'
    BY <1>1, <1>2, <2>1, OthersJoining DEF Inv, Exists, Moves
  <2>4. InactiveIsAccounted'
    BY <1>1, <1>2, <2>1, SameUsersAccounted DEF Inv, Moves
  <2> QED
    BY <1>1, <2>2, <2>3, <2>4 DEF Inv
<1>4. CASE ~Exists(req[p].user)
  <2>1. Moves(p) /\ SameLocals(p) /\ req'[p].at = "accept"
    BY <1>4, GoToMoves DEF CreateUserFromInvite, Inv, Types, RequestRows, Steps
  <2>2. Sessions'
    BY <1>2, <2>1, SessionsStay DEF Inv, Moves, SameLocals
  <2>3. Joining'
    BY <1>4, CreateUserFromInviteJoining DEF Inv
  <2>4. users' = [users EXCEPT ![req[p].user] =
                   User(invites[req[p].inv].org, invites[req[p].inv].role, req[p].inv)]
    BY <1>4 DEF CreateUserFromInvite
  <2>5. InactiveIsAccounted'
    BY <1>1, <1>2, <2>1, <2>4, NewUserAccounted DEF Inv, Types, Moves
  <2> QED
    BY <1>1, <2>2, <2>3, <2>5 DEF Inv
<1> QED
  BY <1>3, <1>4

\* The invitation is accepted, or has been answered meanwhile.
LEMMA AcceptInvitationKeeps ==
  ASSUME Inv, NEW p \in Procs, AcceptInvitation(p)
  PROVE  Inv'
<1>1. Types' /\ Keeps
  BY AcceptInvitationTypes DEF Inv
<1>2. /\ access \subseteq access'
      /\ req[p].at = "accept" /\ req[p].tok = 0
      /\ req[p].inv \in Invites /\ invites[req[p].inv] \in Invitations
      /\ invites[req[p].inv] # None
      /\ UNCHANGED <<users, tokens, audit, issued, shaken, closed, severed, switched>>
  BY NotRotating
  DEF AcceptInvitation, history, Inv, Types, RequestRows, FindsRows, OrgRows
<1>3. /\ Moves(p) /\ req'[p].at \in {"idle", "login"} /\ req'[p].tok = 0
      /\ ~Pending(req[p].inv) => req'[p].at = "idle" /\ UNCHANGED invites
  <2>1. CASE Pending(req[p].inv)
    BY <1>2, <2>1, GoToMoves DEF AcceptInvitation, Inv, Types, RequestRows, Steps, SameLocals
  <2>2. CASE ~Pending(req[p].inv)
    BY <2>2, FinishMoves, IdleRequest DEF AcceptInvitation, Inv, Types, RequestRows
  <2> QED
    BY <2>1, <2>2
<1>4. Sessions'
  BY <1>2, <1>3, SessionsStay DEF Inv, Moves
<1>5. Joining'
  <2>1. CASE Pending(req[p].inv)
    BY <1>1, <2>1, AcceptInvitationJoining DEF Inv
  <2>2. CASE ~Pending(req[p].inv)
    <3>1. invites[req[p].inv].state \in {"accepted", "revoked"}
      BY <1>2, <2>2 DEF Pending, Invitations
    <3>2. req[p].inv \in severed \/ invites[req[p].inv].state = "accepted"
      BY <1>2, <3>1 DEF Inv, Joining, AcceptsMatch
    <3> QED
      BY <1>1, <1>2, <1>3, <2>2, <3>2, OthersJoining DEF Inv, Exists, Moves
  <2> QED
    BY <2>1, <2>2
<1>6. InactiveIsAccounted'
  BY <1>1, <1>2, <1>3, SameUsersAccounted DEF Inv, Moves
<1> QED
  BY <1>1, <1>4, <1>5, <1>6 DEF Inv

\* The new user signs in.
LEMMA LoginAfterAcceptKeeps ==
  ASSUME Inv, NEW p \in Procs, LoginAfterAccept(p)
  PROVE  Inv'
<1>1. Types' /\ Keeps
  BY LoginAfterAcceptTypes DEF Inv
<1>2. /\ access \subseteq access'
      /\ Moves(p) /\ req'[p].at \in {"store", "idle"} /\ req'[p].tok = 0 /\ req[p].at = "login"
      /\ UNCHANGED <<users, invites, tokens, audit, issued, shaken, closed, severed, switched>>
  BY NotRotating, GoToMoves, FinishMoves, IdleRequest
  DEF LoginAfterAccept, dbVars, history, Inv, Types, RequestRows, Steps, SameLocals
<1>3. Sessions'
  BY <1>2, SessionsStay DEF Inv, Moves
<1>4. Joining'
  BY <1>1, <1>2, OthersJoining DEF Inv, Exists, Moves
<1>5. InactiveIsAccounted'
  BY <1>1, <1>2, SameUsersAccounted DEF Inv, Moves
<1> QED
  BY <1>1, <1>3, <1>4, <1>5 DEF Inv

\* Requests and rows that a switched user leaves alone.
LEMMA PatchUserMoves ==
  ASSUME Types, NEW p \in Procs, NEW a \in access, NEW u \in Emails, NEW on \in BOOLEAN,
         NEW text \in Texts, PatchUser(p, a, u, text, on)
  PROVE  /\ \A q \in Procs : req'[q] = req[q] \/ (req'[q].at = "audit" /\ req'[q].tok = 0)
         /\ \A q \in Procs : req[q].at # "idle" => req'[q] = req[q]
         /\ \A v \in Emails : users'[v] # None => Exists(v)
         /\ UNCHANGED <<invites, tokens, issued, shaken, closed, severed>>
<1>1. /\ req[p].at = "idle" /\ UNCHANGED <<invites, tokens, issued, shaken, closed, severed>>
      /\ Exists(u) /\ users' = [users EXCEPT ![u].active = on]
  BY IdleRequest DEF PatchUser, InOrg
<1>2. on => UNCHANGED req
  BY DEF PatchUser
<1>3. ~on => Moves(p) /\ req'[p].at = "audit" /\ req'[p].tok = 0
  BY LogMoves DEF PatchUser
<1>4. \A v \in Emails : v # u => users'[v] = users[v]
  BY <1>1 DEF Types, OrgRows
<1> QED
  BY <1>1, <1>2, <1>3, <1>4 DEF Moves, Exists

\* An administrator switches a user on, or another off.
LEMMA PatchUserKeeps ==
  ASSUME Inv, NEW p \in Procs, NEW a \in OrgAdmins, NEW u \in Emails, NEW on \in BOOLEAN,
         NEW text \in Texts, PatchUser(p, a, u, text, on)
  PROVE  Inv'
<1> USE DEF OrgAdmins
<1>1. Types' /\ Keeps
  BY PatchUserTypes DEF Inv
<1>2. /\ \A q \in Procs : req'[q] = req[q] \/ (req'[q].at = "audit" /\ req'[q].tok = 0)
      /\ \A q \in Procs : req[q].at # "idle" => req'[q] = req[q]
      /\ \A v \in Emails : users'[v] # None => Exists(v)
      /\ UNCHANGED <<invites, tokens, issued, shaken, closed, severed>>
  BY PatchUserMoves DEF Inv
<1>3. Sessions'
  BY <1>2, SessionsStay DEF Inv
<1>4. Joining'
  BY <1>1, <1>2, OthersJoining DEF Inv, Exists
<1>5. InactiveIsAccounted'
  BY <1>1, PatchUserAccounted DEF Inv
<1> QED
  BY <1>1, <1>3, <1>4, <1>5 DEF Inv

\* An administrator deletes another user.
LEMMA DeleteUserKeeps ==
  ASSUME Inv, NEW p \in Procs, NEW a \in OrgAdmins, NEW u \in Emails, NEW text \in Texts,
         DeleteUser(p, a, u, text)
  PROVE  Inv'
<1> USE DEF OrgAdmins
<1>1. Types' /\ Keeps
  BY DeleteUserTypes DEF Inv
<1>2. /\ Moves(p) /\ req'[p].at = "audit" /\ req'[p].tok = 0 /\ req[p].at = "idle"
      /\ UNCHANGED <<invites, tokens, issued, shaken, closed, severed>>
      /\ \A v \in Emails : users'[v] # None => Exists(v)
  BY LogMoves, IdleRequest DEF DeleteUser, InOrg, Exists, Inv, Types, OrgRows
<1>3. Sessions'
  BY <1>2, SessionsStay DEF Inv, Moves
<1>4. Joining'
  BY <1>1, <1>2, OthersJoining DEF Inv, Exists, Moves
<1>5. InactiveIsAccounted'
  BY <1>1, DeleteUserAccounted DEF Inv
<1> QED
  BY <1>1, <1>3, <1>4, <1>5 DEF Inv

\* An invitation is made.
LEMMA CreateInvitationKeeps ==
  ASSUME Inv, NEW p \in Procs, NEW a \in access, NEW i \in Invites, NEW u \in Emails,
         NEW role \in {"org_admin", "seller"},
         CreateInvitation(p, a, i, u, role)
  PROVE  Inv'
<1>1. Types' /\ Keeps
  BY CreateInvitationTypes DEF Inv
<1>2. /\ access \subseteq access'
      /\ Moves(p) /\ req'[p].at = "audit" /\ req'[p].tok = 0 /\ req[p].at = "idle"
      /\ invites[i] = None /\ invites'[i].state = "pending"
      /\ \A j \in Invites : j # i => invites'[j] = invites[j]
      /\ UNCHANGED <<users, tokens, audit, issued, shaken, closed, severed, switched>>
  BY LogMoves, IdleRequest DEF CreateInvitation, history, Inv, Types, OrgRows
<1>3. Sessions'
  BY <1>2, SessionsStay DEF Inv, Moves
<1>4. Joining'
  BY <1>1, <1>2, OthersJoining DEF Inv, Exists, Moves
<1>5. InactiveIsAccounted'
  BY <1>1, <1>2, SameUsersAccounted DEF Inv, Moves
<1> QED
  BY <1>1, <1>3, <1>4, <1>5 DEF Inv

\* An invitation is revoked.
LEMMA DeleteInvitationKeeps ==
  ASSUME Inv, NEW a \in access, NEW i \in Invites, DeleteInvitation(a, i)
  PROVE  Inv'
<1>1. Types' /\ Keeps
  BY DeleteInvitationTypes DEF Inv
<1>2. /\ access \subseteq access'
      /\ UNCHANGED <<users, tokens, audit, issued, shaken, closed, switched, req>>
      /\ severed \subseteq severed'
  BY DEF DeleteInvitation
<1>3. Sessions'
  BY <1>2, SessionsStay DEF Inv
<1>4. Joining'
  BY <1>1, DeleteInvitationJoining DEF Inv
<1>5. InactiveIsAccounted'
  BY <1>1, <1>2, SameUsersAccounted DEF Inv
<1> QED
  BY <1>1, <1>3, <1>4, <1>5 DEF Inv

\* The entry is written.
LEMMA WriteAuditLogKeeps ==
  ASSUME Inv, NEW p \in Procs, WriteAuditLog(p)
  PROVE  Inv'
<1>1. Types' /\ Keeps
  BY WriteAuditLogTypes DEF Inv
<1>2. /\ Moves(p) /\ req'[p].at = "idle" /\ req'[p].tok = 0 /\ req[p].at = "audit"
      /\ UNCHANGED <<users, invites, tokens, issued, shaken, closed, severed, switched>>
  BY FinishMoves, IdleRequest DEF WriteAuditLog, AuditDone, Inv, Types, RequestRows
<1>3. Sessions'
  BY <1>2, SessionsStay DEF Inv, Moves
<1>4. Joining'
  BY <1>1, <1>2, OthersJoining DEF Inv, Exists, Moves
<1>5. InactiveIsAccounted'
  BY <1>1, WriteAuditLogAccounted DEF Inv
<1> QED
  BY <1>1, <1>3, <1>4, <1>5 DEF Inv

\* The entry is lost.
LEMMA AuditFailsKeeps ==
  ASSUME Inv, NEW p \in Procs, AuditFails(p)
  PROVE  Inv'
<1>1. Types' /\ Keeps
  BY AuditFailsTypes DEF Inv
<1>2. /\ access \subseteq access'
      /\ Moves(p) /\ req'[p].at = "idle" /\ req'[p].tok = 0 /\ req[p].at = "audit"
      /\ UNCHANGED <<users, invites, tokens, audit, issued, shaken, closed, switched>>
      /\ severed' = severed \cup ({req[p].entry.target} \cap Emails)
  BY FinishMoves, IdleRequest DEF AuditFails, AuditDone, Inv, Types, RequestRows
<1>3. Sessions'
  BY <1>2, SessionsStay DEF Inv, Moves
<1>4. Joining'
  BY <1>1, <1>2, OthersJoining DEF Inv, Exists, Moves
<1>5. InactiveIsAccounted'
  BY <1>1, <1>2, SameUsersAccounted DEF Inv, Moves
<1> QED
  BY <1>1, <1>3, <1>4, <1>5 DEF Inv

\* An organisation is made.
LEMMA CreateOrgKeeps ==
  ASSUME Inv, NEW p \in Procs, NEW o \in Orgs, NEW u \in Emails, CreateOrg(p, o, u)
  PROVE  Inv'
<1>1. Types' /\ Keeps
  BY CreateOrgTypes DEF Inv
<1>2. /\ access \subseteq access'
      /\ Moves(p) /\ req'[p].at = "admin" /\ req'[p].tok = 0 /\ req[p].at = "idle"
      /\ UNCHANGED <<users, invites, tokens, audit, issued, shaken, closed, severed, switched>>
  BY CreateOrgMoves, IdleRequest DEF CreateOrg, history, Inv
<1>3. Sessions'
  BY <1>2, SessionsStay DEF Inv, Moves
<1>4. Joining'
  BY <1>1, <1>2, OthersJoining DEF Inv, Exists, Moves
<1>5. InactiveIsAccounted'
  BY <1>1, <1>2, SameUsersAccounted DEF Inv, Moves
<1> QED
  BY <1>1, <1>3, <1>4, <1>5 DEF Inv

\* Its administrator is made, or a row with the address is in the way.
LEMMA CreateOrgAdminKeeps ==
  ASSUME Inv, NEW p \in Procs, CreateOrgAdmin(p)
  PROVE  Inv'
<1>1. Types' /\ Keeps
  BY CreateOrgAdminTypes DEF Inv
<1>2. /\ access \subseteq access'
      /\ Moves(p) /\ req'[p].at = "idle" /\ req'[p].tok = 0 /\ req[p].at = "admin"
      /\ UNCHANGED <<invites, tokens, audit, issued, shaken, closed, switched>>
      /\ severed \subseteq severed' /\ req[p].user \in Emails
  BY FinishMoves, IdleRequest DEF CreateOrgAdmin, Inv, Types, RequestRows, FindsRows
<1>3. Sessions'
  BY <1>2, SessionsStay DEF Inv, Moves
<1>4. CASE Exists(req[p].user)
  <2>1. UNCHANGED users
    BY <1>4 DEF CreateOrgAdmin
  <2>2. Joining'
    BY <1>1, <1>2, <2>1, OthersJoining DEF Inv, Exists, Moves
  <2>3. InactiveIsAccounted'
    BY <1>1, <1>2, <2>1, SameUsersAccounted DEF Inv, Moves
  <2> QED
    BY <1>1, <1>3, <2>2, <2>3 DEF Inv
<1>5. CASE ~Exists(req[p].user)
  <2>1. users' = [users EXCEPT ![req[p].user] = User(req[p].org, "org_admin", None)]
    BY <1>5 DEF CreateOrgAdmin
  <2>2. \A u \in Emails : users'[u] = users[u] \/ users'[u].from = None
    BY <1>2, <2>1 DEF Inv, Types, OrgRows, User
  <2>3. Joining'
    BY <1>1, <1>2, <2>2, OthersJoining DEF Inv, Exists, Moves
  <2>4. InactiveIsAccounted'
    BY <1>1, <1>2, <2>1, NewUserAccounted DEF Inv, Types, Moves
  <2> QED
    BY <1>1, <1>3, <2>3, <2>4 DEF Inv
<1> QED
  BY <1>4, <1>5

\* The platform makes a user.
LEMMA CreateUserKeeps ==
  ASSUME Inv, NEW o \in Orgs, NEW u \in Emails, NEW role \in Roles, CreateUser(o, u, role)
  PROVE  Inv'
<1>1. Types' /\ Keeps
  BY CreateUserTypes DEF Inv
<1>2. /\ access \subseteq access'
      /\ UNCHANGED <<invites, tokens, audit, issued, shaken, closed, severed, switched, req>>
      /\ users' = [users EXCEPT ![u] = User(o, role, None)]
      /\ \A v \in Emails : users'[v] = users[v] \/ users'[v].from = None
  BY DEF CreateUser, history, Inv, Types, OrgRows, User
<1>3. Sessions'
  BY <1>2, SessionsStay DEF Inv
<1>4. Joining'
  BY <1>1, <1>2, OthersJoining DEF Inv, Exists
<1>5. InactiveIsAccounted'
  BY <1>1, <1>2, NewUserAccounted DEF Inv, Types
<1> QED
  BY <1>1, <1>3, <1>4, <1>5 DEF Inv

\* The platform switches a user on or off.
LEMMA SetUserActiveKeeps ==
  ASSUME Inv, NEW u \in Emails, NEW on \in BOOLEAN, SetUserActive(u, on)
  PROVE  Inv'
<1>1. Types' /\ Keeps
  BY SetUserActiveTypes DEF Inv
<1>2. /\ UNCHANGED <<invites, tokens, audit, issued, shaken, closed, severed, req>>
      /\ \A v \in Emails : users'[v] # None => Exists(v)
  BY DEF SetUserActive, Exists, Inv, Types, OrgRows
<1>3. Sessions'
  BY <1>2, SessionsStay DEF Inv
<1>4. Joining'
  BY <1>1, <1>2, OthersJoining DEF Inv, Exists
<1>5. InactiveIsAccounted'
  BY <1>1, SetUserActiveAccounted DEF Inv
<1> QED
  BY <1>1, <1>3, <1>4, <1>5 DEF Inv

\* The platform enters an organisation.
LEMMA ImpersonateKeeps ==
  ASSUME Inv, NEW p \in Procs, NEW a \in access, NEW o \in Orgs, Impersonate(p, a, o)
  PROVE  Inv'
<1>1. Types' /\ Keeps
  BY ImpersonateTypes DEF Inv
<1>2. /\ access \subseteq access'
      /\ Moves(p) /\ req'[p].at = "audit" /\ req'[p].tok = 0 /\ req[p].at = "idle"
      /\ UNCHANGED <<users, invites, tokens, audit, issued, shaken, closed, severed, switched>>
  BY LogMoves, IdleRequest DEF Impersonate, dbVars, history, Inv
<1>3. Sessions'
  BY <1>2, SessionsStay DEF Inv, Moves
<1>4. Joining'
  BY <1>1, <1>2, OthersJoining DEF Inv, Exists, Moves
<1>5. InactiveIsAccounted'
  BY <1>1, <1>2, SameUsersAccounted DEF Inv, Moves
<1> QED
  BY <1>1, <1>3, <1>4, <1>5 DEF Inv

\* The request ends, wherever it is.
LEMMA CutKeeps ==
  ASSUME Inv, NEW p \in Procs, Cut(p)
  PROVE  Inv'
<1>1. Types' /\ Keeps
  BY CutTypes DEF Inv
<1>2. /\ access \subseteq access'
      /\ Moves(p) /\ req'[p].at = "idle" /\ req'[p].tok = 0
      /\ UNCHANGED <<users, invites, tokens, audit, issued, shaken, closed, switched>>
      /\ severed \subseteq severed'
      /\ req[p].at = "accept" => req[p].inv \in severed'
      /\ req[p].at = "audit" /\ req[p].entry.target \in Emails => req[p].entry.target \in severed'
  BY FinishMoves, IdleRequest, AccountsAssumption DEF Cut, dbVars, Inv, Types, RequestRows, FindsRows
<1>3. Sessions'
  BY <1>2, SessionsStay DEF Inv, Moves
<1>4. Joining'
  BY <1>1, <1>2, OthersJoining DEF Inv, Exists, Moves
<1>5. InactiveIsAccounted'
  BY <1>1, <1>2, SameUsersAccounted DEF Inv, Moves
<1> QED
  BY <1>1, <1>3, <1>4, <1>5 DEF Inv

\* The migrations and the organisations of Staff.
LEMMA InitInv == Init => Inv
<1> SUFFICES ASSUME Init
             PROVE  Inv
  OBVIOUS
<1>1. /\ \A p \in Procs : req[p] = Idle
      /\ tokens = {} /\ issued = <<>> /\ closed = {} /\ audit = {}
      /\ invites = [i \in Invites |-> None]
  BY DEF Init
<1>2. /\ users \in [Emails -> Users \cup {None}]
      /\ \A u \in Emails : Exists(u) => /\ users[u].active /\ ~users[u].deleted
                                        /\ users[u].from = None /\ users[u].org \in orgs
  <2>1. ASSUME NEW u \in Emails
        PROVE  \/ users[u] = None
               \/ \E o \in orgs, role \in Roles : users[u] = User(o, role, None)
    BY <2>1 DEF Init, Roles
  <2>2. \A o \in orgs, role \in Roles : User(o, role, None) \in Users
    BY AccountsAssumption DEF Init, User, Users
  <2>3. users = [u \in Emails |-> users[u]]
    BY DEF Init
  <2>4. \A u \in Emails : users[u] \in Users \cup {None}
    BY <2>1, <2>2
  <2> QED
    BY <2>1, <2>3, <2>4 DEF User, Exists
<1>3. OrgRows
  BY <1>1, <1>2, AccountsAssumption DEF Init, OrgRows
<1>4. TokenRows
  <2>1. issued \in Seq([user : Emails, line : 1..MaxTokens]) /\ Len(issued) = 0
    BY <1>1
  <2> QED
    BY <1>1, <2>1, AccountsAssumption DEF TokenRows
<1>5. OtherRows
  <2>1. \A a \in access : a \in Claims /\ a.org \in orgs
    BY AccountsAssumption DEF Init, Claims, Roles
  <2> QED
    BY <1>1, <2>1, AccountsAssumption DEF Init, OtherRows
<1>6. RequestRows
  BY <1>1, IdleRequest DEF Init, RequestRows, FindsRows
<1>7. Sessions
  BY <1>1, IdleRequest
  DEF Sessions, RotationsHaveTokens, LinesHaveUsers, RotationsHoldLines, Rotating,
      RotationKeepsOneToken, LogoutEndsSessions
<1>8. Joining
  BY <1>1, <1>2, IdleRequest
  DEF Joining, AcceptsMatch, UsersHaveInvitations, InvitationsMatchUsers
<1>9. InactiveIsAccounted
  BY <1>2 DEF InactiveIsAccounted
<1> QED
  BY <1>3, <1>4, <1>5, <1>6, <1>7, <1>8, <1>9 DEF Inv, Types

\* Nothing happens.
LEMMA StutterInv ==
  ASSUME Inv, UNCHANGED vars
  PROVE  Inv'
<1>1. UNCHANGED <<orgs, users, invites, tokens, audit, issued, access, req, expired, faults,
                  shaken, closed, severed, switched>>
  BY DEF vars, dbVars, history
<1>2. OrgRows' /\ Keeps
  BY <1>1, SameOrgRows DEF Inv, Types
<1>3. Types'
  BY <1>1, <1>2, SameTokenRows, SameOtherRows, AllFindRows DEF Inv, Types
<1>4. Sessions'
  BY <1>1, SessionsStay DEF Inv
<1>5. Joining'
  BY <1>1, <1>2, OthersJoining DEF Inv, Exists
<1>6. InactiveIsAccounted'
  BY <1>1, <1>2, SameUsersAccounted DEF Inv
<1> QED
  BY <1>3, <1>4, <1>5, <1>6 DEF Inv

\* Every step keeps the invariant.
LEMMA StepInv == Inv /\ [Next]_vars => Inv'
<1> SUFFICES ASSUME Inv, [Next]_vars
             PROVE  Inv'
  OBVIOUS
<1>1. OrgAdmins \subseteq access /\ SuperAdmins \subseteq access /\ Visited \subseteq Orgs
  BY AccountsAssumption DEF OrgAdmins, SuperAdmins
<1>2. CASE \E p \in Procs, u \in Emails : Login(p, u)
  BY <1>2, LoginKeeps
<1>3. CASE \E p \in Procs, t \in tokens : Refresh(p, t)
  BY <1>3, RefreshKeeps
<1>4. CASE \E p \in Procs : DeleteRefreshToken(p)
  BY <1>4, DeleteRefreshTokenKeeps
<1>5. CASE \E p \in Procs : DeleteFails(p)
  BY <1>5, DeleteFailsKeeps
<1>6. CASE \E p \in Procs : StoreRefreshToken(p)
  BY <1>6, StoreRefreshTokenKeeps
<1>7. CASE \E p \in Procs, i \in Invites : Accept(p, i)
  BY <1>7, AcceptKeeps
<1>8. CASE \E p \in Procs : CreateUserFromInvite(p)
  BY <1>8, CreateUserFromInviteKeeps
<1>9. CASE \E p \in Procs : AcceptInvitation(p)
  BY <1>9, AcceptInvitationKeeps
<1>10. CASE \E p \in Procs : LoginAfterAccept(p)
  BY <1>10, LoginAfterAcceptKeeps
<1>11. CASE \E p \in Procs, a \in OrgAdmins, u \in Emails, text \in Texts, on \in BOOLEAN :
              PatchUser(p, a, u, text, on)
  BY <1>11, <1>1, PatchUserKeeps
<1>12. CASE \E p \in Procs, a \in OrgAdmins, u \in Emails, text \in Texts :
              DeleteUser(p, a, u, text)
  BY <1>12, <1>1, DeleteUserKeeps
<1>13. CASE \E p \in Procs, a \in OrgAdmins, i \in Invites, u \in Emails,
              role \in {"org_admin", "seller"} : CreateInvitation(p, a, i, u, role)
  BY <1>13, <1>1, CreateInvitationKeeps
<1>14. CASE \E p \in Procs : WriteAuditLog(p)
  BY <1>14, WriteAuditLogKeeps
<1>15. CASE \E p \in Procs : AuditFails(p)
  BY <1>15, AuditFailsKeeps
<1>16. CASE \E p \in Procs, o \in Orgs, u \in Emails : CreateOrg(p, o, u)
  BY <1>16, CreateOrgKeeps
<1>17. CASE \E p \in Procs : CreateOrgAdmin(p)
  BY <1>17, CreateOrgAdminKeeps
<1>18. CASE \E p \in Procs, a \in SuperAdmins, o \in Visited : Impersonate(p, a, o)
  BY <1>18, <1>1, ImpersonateKeeps
<1>19. CASE \E p \in Procs : Cut(p)
  BY <1>19, CutKeeps
<1>20. CASE \E a \in access : Logout(a)
  BY <1>20, LogoutKeeps
<1>21. CASE \E a \in OrgAdmins, i \in Invites : DeleteInvitation(a, i)
  BY <1>21, <1>1, DeleteInvitationKeeps
<1>22. CASE \E o \in Orgs, u \in Emails, role \in Roles : CreateUser(o, u, role)
  BY <1>22, CreateUserKeeps
<1>23. CASE \E u \in Emails, on \in BOOLEAN : SetUserActive(u, on)
  BY <1>23, SetUserActiveKeeps
<1>24. CASE \E x \in tokens \cup {i \in Invites : Pending(i)} : Expire(x)
  BY <1>24, ExpireKeeps
<1>25. CASE UNCHANGED vars
  BY <1>25, StutterInv
<1> QED
  BY <1>2, <1>3, <1>4, <1>5, <1>6, <1>7, <1>8, <1>9, <1>10, <1>11, <1>12, <1>13,
     <1>14, <1>15, <1>16, <1>17, <1>18, <1>19, <1>20, <1>21, <1>22, <1>23, <1>24, <1>25 DEF Next

\* The inductive invariant holds in every reachable state.
LEMMA Invariant == Spec => []Inv
<1>1. Init => Inv
  BY InitInv
<1>2. Inv /\ [Next]_vars => Inv'
  BY StepInv
<1> QED
  BY <1>1, <1>2, PTL DEF Spec

-----------------------------------------------------------------------------
(* The properties *)

\* Whatever requests run beside each other and end early, every row refers to rows that
\* are there, and a request finds the rows that its first statement found or made.
THEOREM RowsReferToRows == Spec => []TypeOK
<1>1. Inv => TypeOK
  BY TypesAreTypeOK DEF Inv
<1> QED
  BY <1>1, Invariant, PTL

\* auth.Service.Refresh: a login keeps one refresh token, however many logins and
\* rotations run at once, unless two rotations of its token did or a DELETE failed.
THEOREM OneTokenPerLogin == Spec => []RotationKeepsOneToken
<1>1. Inv => RotationKeepsOneToken
  BY DEF Inv, Sessions
<1> QED
  BY <1>1, Invariant, PTL

\* auth.Service.Logout: no refresh token of a login outlives the logout of its user,
\* except through a rotation that was running or had run beside another.
THEOREM LogoutIsFinal == Spec => []LogoutEndsSessions
<1>1. Inv => LogoutEndsSessions
  BY DEF Inv, Sessions
<1> QED
  BY <1>1, Invariant, PTL

\* invitations.Service.Accept: invitations and the users they made agree, though they are
\* written by two statements and others revoke, patch and delete between them.
THEOREM InvitationsMatch == Spec => []InvitationsMatchUsers
<1>1. Inv => InvitationsMatchUsers
  BY DEF Inv, Joining
<1> QED
  BY <1>1, Invariant, PTL

\* orgadmin.Service: whatever administrators and the platform do beside each other, the
\* log names an administrator of his organisation for everybody who can no longer sign in,
\* unless the platform switched him off or the entry was lost.
THEOREM RemovalsAreAccounted == Spec => []RemovalsAreLogged
<1>1. Inv => RemovalsAreLogged
  BY AccountedIsLogged DEF Inv
<1> QED
  BY <1>1, Invariant, PTL
=============================================================================
