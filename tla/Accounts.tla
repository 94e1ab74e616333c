------------------------------ MODULE Accounts ------------------------------
(***************************************************************************)
(* Users, their sessions and their organisations: internal/auth (login,    *)
(* rotation of refresh tokens, logout), internal/invitations, and the      *)
(* handlers of internal/orgadmin and internal/admin that change rows.      *)
(*                                                                         *)
(* A handler is a request that runs its SQL statements one by one, outside *)
(* any transaction, while others run theirs; it can end between any two of *)
(* them when a statement fails, its client leaves or the server stops.     *)
(*                                                                         *)
(* The address of a user is unique, also after the user is deleted, so a   *)
(* row of tb_users is named by it.  Names, passwords, plans, is_active of  *)
(* organisations and credit_limit (which nothing reads) are left out.      *)
(***************************************************************************)
EXTENDS Integers, Sequences, FiniteSets

CONSTANTS Orgs,      \* organisations there may be, Home among them
          Home,      \* the organisation of migration 003
          Emails,    \* addresses of users, Root among them
          Root,      \* the user of migration 003
          Staff,     \* administrators that organisations have from before, signed in
          Employer,  \* Employer[u]: their organisation
          Invites,   \* tokens of invitations
          Procs,     \* requests that may run at once
          MaxTokens, \* bound: refresh tokens issued
          MaxStarts, \* bound: requests made, and deadlines passed
          MaxFaults, \* bound: statements that fail, requests cut off
          Visited,   \* bound: organisations the platform's administrators impersonate
          None

Roles == {"super_admin", "org_admin", "seller"}
Claims == [user : Emails, org : Orgs, role : Roles]
Entries == [actor : Emails, target : Emails \cup Invites \cup Orgs]
Users == [org : Orgs, role : Roles, active : BOOLEAN, deleted : BOOLEAN,
          from : Invites \cup {None}]
Invitations == [org : Orgs, email : Emails, role : Roles \ {"super_admin"},
                state : {"pending", "accepted", "revoked"}]

ASSUME AccountsAssumption ==
  /\ Home \in Orgs
  /\ Root \in Emails
  /\ Visited \subseteq Orgs
  /\ Staff \subseteq Emails \ {Root}
  /\ Employer \in [Staff -> Orgs]
  /\ MaxTokens \in Nat
  /\ MaxStarts \in Nat
  /\ MaxFaults \in Nat
  /\ Orgs \cap (Emails \cup Invites) = {}
  /\ Emails \cap Invites = {}
  /\ None \notin Orgs \cup Emails \cup Invites \cup Users \cup Invitations \cup Entries

VARIABLES
  \* PostgreSQL
  orgs,     \* rows of tb_organizations
  users,    \* users[u]: the row of tb_users with that address, or None
  invites,  \* invites[i]: the row of tb_invitations, or None before there is one
  tokens,   \* rows of tb_refresh_tokens, by their place in issued
  audit,    \* rows of tb_audit_logs on users deactivated or deleted; others are left out
  \* The server, its clients and the clock
  issued,   \* whom each refresh token was made for, and from which login on
  access,   \* claims of the access tokens that clients hold
  req,      \* req[p]: the statement that request p makes next, and its locals
  expired,  \* refresh tokens and invitations past their expires_at
  \* History
  faults,   \* failures so far
  shaken,   \* logins of which two requests rotated one token, or a delete failed,
            \* or a rotation ran while the user logged out
  closed,   \* logins before the last logout of their user
  severed,  \* invitations, organisations and users whose request did not reach its end
  switched, \* users that the platform, and nobody since, made inactive
  starts    \* requests, and deadlines, so far

dbVars == <<orgs, users, invites, tokens, audit>>
history == <<faults, shaken, closed, severed, switched>>
vars == <<dbVars, issued, access, req, expired, history, starts>>

\* from is history: the invitation that made the row.
User(o, role, i) == [org |-> o, role |-> role, active |-> TRUE, deleted |-> FALSE, from |-> i]
Steps == {"idle", "rotate", "store", "insert", "accept", "login", "admin", "audit"}
Requests == [at : Steps, user : Emails \cup {None}, org : Orgs \cup {None},
             inv : Invites \cup {None}, tok : 0..MaxTokens, entry : Entries \cup {None}]

Idle == [at |-> "idle", user |-> None, org |-> None, inv |-> None, tok |-> 0, entry |-> None]
Exists(u) == users[u] # None
CanSignIn(u) == Exists(u) /\ users[u].active /\ ~users[u].deleted
Pending(i) == invites[i] # None /\ invites[i].state = "pending"
Line(t) == issued[t].line
\* RequireOrgAdmin and RequireSuperAdmin read the claims, not the row of the user.
OrgAdmins == {a \in access : a.role = "org_admin"}
SuperAdmins == {a \in access : a.role = "super_admin"}
Asks == starts < MaxStarts /\ starts' = starts + 1
Finish(p) == req' = [req EXCEPT ![p] = Idle]
GoTo(p, step) == req' = [req EXCEPT ![p].at = step]

\* The migrations, the organisations of Staff, and access tokens of logins that have
\* been logged out.
Init ==
  /\ orgs = {Home} \cup {Employer[u] : u \in Staff}
  /\ users = [u \in Emails |-> CASE u = Root -> User(Home, "super_admin", None)
                                [] u \in Staff -> User(Employer[u], "org_admin", None)
                                [] OTHER -> None]
  /\ invites = [i \in Invites |-> None]
  /\ tokens = {}
  /\ audit = {}
  /\ issued = <<>>
  /\ access = {[user |-> Root, org |-> Home, role |-> "super_admin"]}
               \cup {[user |-> u, org |-> Employer[u], role |-> "org_admin"] : u \in Staff}
  /\ req = [p \in Procs |-> Idle]
  /\ expired = {}
  /\ faults = 0
  /\ shaken = {}
  /\ closed = {}
  /\ severed = {}
  /\ switched = {}
  /\ starts = 0

---------------------------------------------------------------------------
(* Sessions: auth.Service.                                                 *)

\* Service.Login, up to the INSERT of the refresh token.
Login(p, u) ==
  /\ Asks
  /\ req[p] = Idle
  /\ CanSignIn(u)
  /\ req' = [req EXCEPT ![p] = [Idle EXCEPT !.at = "store", !.user = u]]
  /\ UNCHANGED <<dbVars, issued, access, expired, history>>

\* Service.Refresh: FindUserByRefreshToken and the check of expires_at.
Refresh(p, t) ==
  /\ Asks
  /\ req[p] = Idle
  /\ t \in tokens \ expired
  /\ CanSignIn(issued[t].user)
  /\ req' = [req EXCEPT ![p] = [Idle EXCEPT !.at = "rotate", !.user = issued[t].user, !.tok = t]]
  /\ shaken' = IF \E q \in Procs : req[q].at = "rotate" /\ req[q].tok = t
                 THEN shaken \cup {Line(t)} ELSE shaken
  /\ UNCHANGED <<dbVars, issued, access, expired, faults, closed, severed, switched>>

\* Mutant of DeleteRefreshToken: the old token stays.
KeepRefreshToken(p) ==
  /\ req[p].at = "rotate"
  /\ GoTo(p, "store")
  /\ UNCHANGED <<dbVars, issued, access, expired, history, starts>>

\* A token that is gone is deleted too: no row, no error.
DeleteRefreshToken(p) ==
  /\ req[p].at = "rotate"
  /\ tokens' = tokens \ {req[p].tok}
  /\ GoTo(p, "store")
  /\ UNCHANGED <<orgs, users, invites, audit, issued, access, expired, history, starts>>

\* The delete fails, the rotation goes on.
DeleteFails(p) ==
  /\ req[p].at = "rotate"
  /\ faults < MaxFaults
  /\ faults' = faults + 1
  /\ shaken' = shaken \cup {Line(req[p].tok)}
  /\ GoTo(p, "store")
  /\ UNCHANGED <<dbVars, issued, access, expired, closed, severed, switched, starts>>

\* generateTokenPair: the claims are those of the row as it was read.
StoreRefreshToken(p) ==
  /\ req[p].at = "store"
  /\ Len(issued) < MaxTokens
  /\ LET t == Len(issued) + 1
         u == req[p].user
     IN /\ issued' = Append(issued,
              [user |-> u, line |-> IF req[p].tok = 0 THEN t ELSE Line(req[p].tok)])
        /\ tokens' = tokens \cup {t}
        /\ access' = access \cup {[user |-> u, org |-> users[u].org, role |-> users[u].role]}
  /\ Finish(p)
  /\ UNCHANGED <<orgs, users, invites, audit, expired, history, starts>>

\* History: a rotation of a token of the user runs.
ShakenByLogout(a) ==
  shaken' = shaken \cup {Line(req[p].tok) :
              p \in {q \in Procs : req[q].tok # 0 /\ req[q].user = a.user}}

TokensOf(u) == {t \in DOMAIN issued : issued[t].user = u}

\* Mutant of Logout: only the newest refresh token of the user goes.
LogoutNewest(a) ==
  /\ Asks
  /\ tokens' = {t \in tokens : t \notin TokensOf(a.user)
                                 \/ \E s \in tokens \cap TokensOf(a.user) : s > t}
  /\ closed' = closed \cup {Line(t) : t \in TokensOf(a.user)}
  /\ ShakenByLogout(a)
  /\ UNCHANGED <<orgs, users, invites, audit, issued, access, req, expired, faults,
                 severed, switched>>

\* DELETE of all refresh tokens of the user; access tokens live on.
Logout(a) ==
  /\ Asks
  /\ tokens' = tokens \ TokensOf(a.user)
  /\ closed' = closed \cup {Line(t) : t \in TokensOf(a.user)}
  /\ ShakenByLogout(a)
  /\ UNCHANGED <<orgs, users, invites, audit, issued, access, req, expired, faults,
                 severed, switched>>

\* expires_at passes: of a refresh token (30 days), or of an invitation (7 days).
Expire(x) ==
  /\ Asks
  /\ x \notin expired
  /\ expired' = expired \cup {x}
  /\ UNCHANGED <<dbVars, issued, access, req, history>>

---------------------------------------------------------------------------
(* Invitations: invitations.Service.                                       *)

\* Mutant of Accept: the invitation is marked before the user is made.
AcceptFirst(p, i) ==
  /\ Asks
  /\ req[p] = Idle
  /\ Pending(i)
  /\ i \notin expired
  /\ req' = [req EXCEPT ![p] = [Idle EXCEPT !.at = "accept", !.inv = i, !.user = invites[i].email]]
  /\ UNCHANGED <<dbVars, issued, access, expired, history>>

\* Service.ValidateToken.
Accept(p, i) ==
  /\ Asks
  /\ req[p] = Idle
  /\ Pending(i)
  /\ i \notin expired
  /\ req' = [req EXCEPT ![p] = [Idle EXCEPT !.at = "insert", !.inv = i, !.user = invites[i].email]]
  /\ UNCHANGED <<dbVars, issued, access, expired, history>>

\* Mutant of CreateUserFromInvite: the row that is there is taken for the new one.
CreateOrFindUser(p) ==
  /\ req[p].at = "insert"
  /\ LET u == req[p].user
         i == req[p].inv
     IN users' = IF Exists(u) THEN users
                 ELSE [users EXCEPT ![u] = User(invites[i].org, invites[i].role, i)]
  /\ GoTo(p, "accept")
  /\ UNCHANGED <<orgs, invites, tokens, audit, issued, access, expired, history, starts>>

\* A row with the address, of any organisation and deleted or not, is a conflict.
CreateUserFromInvite(p) ==
  /\ req[p].at = "insert"
  /\ LET u == req[p].user
         i == req[p].inv
     IN IF Exists(u)
          THEN Finish(p) /\ UNCHANGED users
          ELSE /\ users' = [users EXCEPT ![u] = User(invites[i].org, invites[i].role, i)]
               /\ GoTo(p, "accept")
  /\ UNCHANGED <<orgs, invites, tokens, audit, issued, access, expired, history, starts>>

\* An invitation that was revoked meanwhile is an error; the user has been made.
AcceptInvitation(p) ==
  /\ req[p].at = "accept"
  /\ LET i == req[p].inv
     IN IF Pending(i)
          THEN invites' = [invites EXCEPT ![i].state = "accepted"] /\ GoTo(p, "login")
          ELSE Finish(p) /\ UNCHANGED invites
  /\ UNCHANGED <<orgs, users, tokens, audit, issued, access, expired, history, starts>>

\* authSvc.Login with the password just given.
LoginAfterAccept(p) ==
  /\ req[p].at = "login"
  /\ IF CanSignIn(req[p].user) THEN GoTo(p, "store") ELSE Finish(p)
  /\ UNCHANGED <<dbVars, issued, access, expired, history, starts>>

---------------------------------------------------------------------------
(* Organisation users: orgadmin.Service, for claims a with role org_admin. *)

\* The UPDATE is done; the row of tb_audit_logs comes next.
Log(p, a, target) ==
  req' = [req EXCEPT ![p] = [Idle EXCEPT !.at = "audit",
            !.entry = [actor |-> a.user, target |-> target]]]
InOrg(u, a) == Exists(u) /\ users[u].org = a.org /\ ~users[u].deleted

\* The ids in the claims are texts that PostgreSQL printed; the one in the URL may be another
\* text of the same UUID, in capitals or without hyphens.  The services compare texts,
\* the statements rows.
Texts == {"printed", "other"}
IsOwnId(a, u, text) == u = a.user /\ text = "printed"

\* Mutant of PatchUser: the UPDATE does not ask for the organisation.
PatchAnyUser(p, a, u, text, on) ==
  /\ Asks
  /\ req[p] = Idle
  /\ on = FALSE => ~IsOwnId(a, u, text)
  /\ Exists(u) /\ ~users[u].deleted
  /\ users' = [users EXCEPT ![u].active = on]
  /\ switched' = switched \ {u}
  /\ IF on THEN UNCHANGED req ELSE Log(p, a, u)
  /\ UNCHANGED <<orgs, invites, tokens, audit, issued, access, expired, faults, shaken,
                 closed, severed>>

\* Nobody may switch himself off, unless with another text of his id.
PatchUser(p, a, u, text, on) ==
  /\ Asks
  /\ req[p] = Idle
  /\ on = FALSE => ~IsOwnId(a, u, text)
  /\ InOrg(u, a)
  /\ users' = [users EXCEPT ![u].active = on]
  /\ switched' = switched \ {u}
  /\ IF on THEN UNCHANGED req ELSE Log(p, a, u)
  /\ UNCHANGED <<orgs, invites, tokens, audit, issued, access, expired, faults, shaken,
                 closed, severed>>

\* Service.DeleteUser and SoftDeleteUser: refresh tokens are left where they are.
DeleteUser(p, a, u, text) ==
  /\ Asks
  /\ req[p] = Idle
  /\ ~IsOwnId(a, u, text)
  /\ InOrg(u, a)
  /\ users' = [users EXCEPT ![u].active = FALSE, ![u].deleted = TRUE]
  /\ switched' = switched \ {u}
  /\ Log(p, a, u)
  /\ UNCHANGED <<orgs, invites, tokens, audit, issued, access, expired, faults, shaken,
                 closed, severed>>

\* Nothing is asked about the address: it may be a user's, or invited already.
CreateInvitation(p, a, i, u, role) ==
  /\ Asks
  /\ req[p] = Idle
  /\ invites[i] = None
  /\ invites' = [invites EXCEPT ![i] =
       [org |-> a.org, email |-> u, role |-> role, state |-> "pending"]]
  /\ Log(p, a, i)
  /\ UNCHANGED <<orgs, users, tokens, audit, issued, access, expired, history>>

\* The row is deleted; a request that has found it goes on.
DeleteInvitation(a, i) ==
  /\ Asks
  /\ Pending(i)
  /\ invites[i].org = a.org
  /\ invites' = [invites EXCEPT ![i].state = "revoked"]
  /\ severed' = IF \E p \in Procs : req[p].at \in {"insert", "accept"} /\ req[p].inv = i
                  THEN severed \cup {i} ELSE severed
  /\ UNCHANGED <<orgs, users, tokens, audit, issued, access, req, expired, faults, shaken,
                 closed, switched>>

\* The last statement of the request.  Impersonate answers with its token after it.
AuditDone(p) ==
  /\ access' = IF req[p].entry.target \in Orgs
                 THEN access \cup {[user |-> req[p].entry.actor, org |-> req[p].entry.target,
                                    role |-> "org_admin"]}
                 ELSE access
  /\ Finish(p)
  /\ UNCHANGED <<orgs, users, invites, tokens, issued, expired, shaken, closed, switched, starts>>

WriteAuditLog(p) ==
  /\ req[p].at = "audit"
  /\ audit' = audit \cup ({req[p].entry} \cap [actor : Emails, target : Emails])
  /\ UNCHANGED <<faults, severed>>
  /\ AuditDone(p)

\* A failed write is a warning.
AuditFails(p) ==
  /\ req[p].at = "audit"
  /\ faults < MaxFaults
  /\ faults' = faults + 1
  /\ severed' = severed \cup ({req[p].entry.target} \cap Emails)
  /\ UNCHANGED audit
  /\ AuditDone(p)

---------------------------------------------------------------------------
(* The platform: admin.Service, for an access token of a super_admin.      *)

CreateOrg(p, o, u) ==
  /\ Asks
  /\ SuperAdmins # {}
  /\ req[p] = Idle
  /\ o \notin orgs
  /\ orgs' = orgs \cup {o}
  /\ req' = [req EXCEPT ![p] = [Idle EXCEPT !.at = "admin", !.org = o, !.user = u]]
  /\ UNCHANGED <<users, invites, tokens, audit, issued, access, expired, history>>

\* A conflict is answered; the organisation stays, without a user.
CreateOrgAdmin(p) ==
  /\ req[p].at = "admin"
  /\ LET u == req[p].user
         o == req[p].org
     IN IF Exists(u)
          THEN severed' = severed \cup {o} /\ UNCHANGED users
          ELSE users' = [users EXCEPT ![u] = User(o, "org_admin", None)] /\ UNCHANGED severed
  /\ Finish(p)
  /\ UNCHANGED <<orgs, invites, tokens, audit, issued, access, expired, faults, shaken,
                 closed, switched, starts>>

CreateUser(o, u, role) ==
  /\ Asks
  /\ SuperAdmins # {}
  /\ o \in orgs
  /\ ~Exists(u)
  /\ users' = [users EXCEPT ![u] = User(o, role, None)]
  /\ UNCHANGED <<orgs, invites, tokens, audit, issued, access, req, expired, history>>

\* No check and no entry in the log; a deleted row can be made active, and stays deleted.
SetUserActive(u, on) ==
  /\ Asks
  /\ SuperAdmins # {}
  /\ Exists(u)
  /\ users' = [users EXCEPT ![u].active = on]
  /\ switched' = IF on THEN switched \ {u} ELSE switched \cup {u}
  /\ UNCHANGED <<orgs, invites, tokens, audit, issued, access, req, expired, faults,
                 shaken, closed,
                 severed>>

Impersonate(p, a, o) ==
  /\ Asks
  /\ req[p] = Idle
  /\ o \in orgs
  /\ Log(p, a, o)
  /\ UNCHANGED <<dbVars, issued, access, expired, history>>

---------------------------------------------------------------------------
\* The request ends before its next statement.
Cut(p) ==
  /\ req[p] # Idle
  /\ faults < MaxFaults
  /\ faults' = faults + 1
  /\ severed' = severed \cup ({req[p].inv, req[p].org} \ {None})
                        \cup (IF req[p].at = "audit" THEN {req[p].entry.target} \cap Emails ELSE {})
  /\ Finish(p)
  /\ UNCHANGED <<dbVars, issued, access, expired, shaken, closed, switched, starts>>


Next ==
  \/ \E p \in Procs :
       \/ \E u \in Emails : Login(p, u)
       \/ \E t \in tokens : Refresh(p, t)
       \/ DeleteRefreshToken(p)
       \/ DeleteFails(p)
       \/ StoreRefreshToken(p)
       \/ \E i \in Invites : Accept(p, i)
       \/ CreateUserFromInvite(p)
       \/ AcceptInvitation(p)
       \/ LoginAfterAccept(p)
       \/ \E a \in OrgAdmins, u \in Emails, text \in Texts, on \in BOOLEAN :
            PatchUser(p, a, u, text, on)
       \/ \E a \in OrgAdmins, u \in Emails, text \in Texts : DeleteUser(p, a, u, text)
       \/ \E a \in OrgAdmins, i \in Invites, u \in Emails, role \in {"org_admin", "seller"} :
            CreateInvitation(p, a, i, u, role)
       \/ WriteAuditLog(p)
       \/ AuditFails(p)
       \/ \E o \in Orgs, u \in Emails : CreateOrg(p, o, u)
       \/ CreateOrgAdmin(p)
       \/ \E a \in SuperAdmins, o \in Visited : Impersonate(p, a, o)
       \/ Cut(p)
  \/ \E a \in access : Logout(a)
  \/ \E a \in OrgAdmins, i \in Invites : DeleteInvitation(a, i)
  \/ \E o \in Orgs, u \in Emails, role \in Roles : CreateUser(o, u, role)
  \/ \E u \in Emails, on \in BOOLEAN : SetUserActive(u, on)
  \/ \E x \in tokens \cup {i \in Invites : Pending(i)} : Expire(x)

Spec == Init /\ [][Next]_vars

---------------------------------------------------------------------------
(* Properties.                                                             *)

\* Types, and the foreign keys: the organisation of every user and of every invitation
\* exists, the user of every refresh token exists, and a request that goes on after its
\* first statement finds the rows that statement found or made.
TypeOK ==
  /\ Home \in orgs /\ orgs \subseteq Orgs
  /\ users \in [Emails -> Users \cup {None}]
  /\ \A u \in Emails : Exists(u) => users[u].org \in orgs
  /\ invites \in [Invites -> Invitations \cup {None}]
  /\ \A i \in Invites : invites[i] # None => invites[i].org \in orgs
  /\ issued \in Seq([user : Emails, line : 1..MaxTokens]) /\ Len(issued) <= MaxTokens
  /\ \A t \in DOMAIN issued : Exists(issued[t].user) /\ Line(t) <= t
  /\ tokens \subseteq DOMAIN issued
  /\ audit \subseteq Entries
  /\ access \subseteq Claims
  /\ req \in [Procs -> Requests]
  /\ \A p \in Procs :
       /\ req[p].at \in {"rotate", "store", "accept", "login"} => Exists(req[p].user)
       /\ req[p].at \in {"insert", "accept", "login"} => req[p].inv # None
       /\ req[p].at = "admin" => req[p].org \in orgs
  /\ expired \subseteq (1..MaxTokens) \cup Invites
  /\ faults \in 0..MaxFaults

\* Rotation of refresh tokens (auth.Service.Refresh): a login has one live refresh token
\* however often it is refreshed, unless two requests found the same token before one of
\* them deleted it, or the delete failed.
RotationKeepsOneToken ==
  \A s, t \in tokens : s # t /\ Line(s) = Line(t) => Line(t) \in shaken

\* auth.Service.Logout: no login from before the logout of its user has a live refresh
\* token, unless a rotation of one was running, or had run beside another.
LogoutEndsSessions ==
  \A t \in tokens : Line(t) \in closed => Line(t) \in shaken

\* invitations.Service.Accept: an accepted invitation has made the user it names, in its
\* organisation and role.  An invitation that has made its user without being accepted
\* belongs to a request between the two statements, or to one that was cut off there or
\* whose invitation was revoked there.
InvitationsMatchUsers ==
  /\ \A i \in Invites : invites[i] # None /\ invites[i].state = "accepted" =>
       LET u == invites[i].email
       IN /\ Exists(u) /\ users[u].from = i
          /\ users[u].org = invites[i].org /\ users[u].role = invites[i].role
  /\ \A u \in Emails : Exists(u) /\ users[u].from # None =>
       LET i == users[u].from
       IN \/ invites[i].state = "accepted"
          \/ \E p \in Procs : req[p].at = "accept" /\ req[p].inv = i
          \/ i \in severed

\* Entries in the log, or about to be, on users made inactive.
Removals == {e \in audit \cup {req[p].entry : p \in {q \in Procs : req[q].at = "audit"}} :
               e.target \in Emails}

\* orgadmin.Service: whoever can no longer sign in was switched off by the platform, or the
\* audit log names, or is about to name, an administrator with a token for that user's
\* organisation who did it; or that entry was lost.  So an organisation whose last
\* administrators removed each other, or themselves, finds in the log who it was.
RemovalsAreLogged ==
  \A u \in Emails : Exists(u) /\ ~CanSignIn(u) =>
    \/ u \in switched \cup severed
    \/ \E e \in Removals, a \in OrgAdmins :
         e.target = u /\ e.actor = a.user /\ users[u].org = a.org
=============================================================================
