---------------------------- MODULE AdminAccounts ----------------------------
(***************************************************************************)
(* Administrator accounts, roles and sessions (app/service/src/main.rs and *)
(* app/service/src/db/mod.rs).  A session is a copy, made at login, of the *)
(* account's role and of that role's permissions; a change of an account   *)
(* or of a role is followed by the removal of the sessions it makes stale. *)
(* Each handler reads, decides and writes in separate statements, and      *)
(* handlers of several connections run at once.  Passwords are right or    *)
(* wrong; time is a counter.                                               *)
(***************************************************************************)
EXTENDS Integers

CONSTANTS
  AaUser,        \* account ids
  AaFirst,       \* accounts that are administrators at first
  AaWorker,      \* connections served at once
  AaPermissions, \* permission sets a role can be given
  AaWindow, AaLockout, AaTtl, AaMaxFailures,  \* the security policy
  MaxAaRequests, MaxAaTime                    \* bounds

ASSUME AccountAssumption ==
  /\ AaFirst \subseteq AaUser /\ AaFirst # {}
  /\ AaLockout \in Nat /\ AaWindow \in Nat /\ AaTtl \in Nat /\ AaMaxFailures \in Nat

VARIABLES
  aaUsers,     \* admin_user rows
  aaRoles,     \* admin_role rows
  aaSessions,  \* ServiceState.sessions, by token
  aaFailures,  \* ServiceState.login_failures
  aaNow,
  aaReq,       \* what each connection is doing
  aaOverlap,   \* whether two requests have ever been under way at once
  aaRequests

aaVars == <<aaUsers, aaRoles, aaSessions, aaFailures, aaNow, aaReq, aaOverlap, aaRequests>>

NoUser == [there |-> FALSE]
NoRole == [there |-> FALSE]
User(role, status, must, legacy) ==
  [there |-> TRUE, role |-> role, status |-> status, must |-> must, legacy |-> legacy]
Role(permissions, status) == [there |-> TRUE, permissions |-> permissions, status |-> status]
AaRole == {"administrator", "operator"}
AaIdle == [at |-> "idle"]
NoFailure == [count |-> 0, first |-> 0, locked |-> 0]

\* A database with an administrator, perhaps other accounts, and an operator
\* role of some permissions.  The accounts of an earlier release have a hash
\* that is not Argon2id, and may have a first password still to be changed.
AaInit ==
  /\ \E old \in BOOLEAN : aaUsers \in [AaUser -> {NoUser} \cup {User(r, "active", old, old) : r \in AaRole}]
  /\ \A u \in AaFirst : aaUsers[u].there /\ aaUsers[u].role = "administrator"
  /\ \E p \in AaPermissions :
       aaRoles = [administrator |-> Role({"admin.users", "admin.roles"}, "active"),
                  operator |-> Role(p, "active")]
  /\ aaSessions = {} /\ aaFailures = [u \in AaUser |-> NoFailure]
  /\ aaNow = 1
  /\ aaReq = [w \in AaWorker |-> AaIdle] /\ aaOverlap = FALSE /\ aaRequests = 0

-----------------------------------------------------------------------------
(* Helpers.                                                                *)

AaBegin(w) ==
  /\ aaReq[w].at = "idle" /\ aaRequests < MaxAaRequests
  /\ aaRequests' = aaRequests + 1
  /\ aaOverlap' = (aaOverlap \/ \E v \in AaWorker : aaReq[v].at # "idle")

AaWait(w, r) == aaReq' = [aaReq EXCEPT ![w] = r]
AaDone(w) == AaWait(w, AaIdle)
AaStep(w, at) == aaReq[w].at = at /\ UNCHANGED <<aaOverlap, aaRequests, aaNow>>

\* session_from_request: an expired session is none.
Live(s) == s.expires > aaNow

\* authorize_request: a session that must change its password may do nothing
\* else; otherwise the permission of the route is needed.
Authorized(s, permission) == Live(s) /\ ~s.must /\ permission \in s.permissions

\* prune_login_failures.
Pruned(f, now) == IF f.locked > now \/ now - f.first <= AaWindow THEN f ELSE NoFailure

\* record_login_failure, with the time at which the login began.
FailedLogin(f, now) ==
  LET g == Pruned(f, now)
      h == IF g.count = 0 \/ now - g.first > AaWindow
           THEN [count |-> 0, first |-> now, locked |-> 0] ELSE g
  IN IF h.locked > now THEN h
     ELSE [h EXCEPT !.count = @ + 1,
                    !.locked = IF h.count + 1 >= AaMaxFailures THEN now + AaLockout ELSE @]

Administrators == {u \in AaUser : aaUsers[u].there /\ aaUsers[u].role = "administrator"
                                   /\ aaUsers[u].status = "active"}

\* count_admin_users_by_role.
UsersOf(role, statuses) == {u \in AaUser : aaUsers[u].there /\ aaUsers[u].role = role
                                            /\ aaUsers[u].status \in statuses}

-----------------------------------------------------------------------------
(* Login and own sessions.                                                 *)

\* write_auth_login_response: the lock, the account and the password, which is
\* right or wrong.  A wrong one is counted, unless it is the default password
\* that a request for default access stands for.
LoginStart(w, u, password) ==
  LET f == Pruned(aaFailures[u], aaNow)
      row == aaUsers[u]
  IN /\ AaBegin(w)
     /\ aaFailures' = [aaFailures EXCEPT ![u] = f]
     /\ AaWait(w, IF f.locked > aaNow THEN AaIdle
                  ELSE IF ~row.there \/ row.status # "active" \/ password = "wrong"
                  THEN [at |-> "login-failed", user |-> u, now |-> aaNow]
                  ELSE IF password = "not the default" THEN AaIdle
                  ELSE [at |-> IF row.legacy THEN "login-upgrade" ELSE "login-role",
                        user |-> u, row |-> row, now |-> aaNow])
     /\ UNCHANGED <<aaUsers, aaRoles, aaSessions, aaNow>>

\* login_failure_response.
LoginFailed(w) ==
  /\ AaStep(w, "login-failed")
  /\ LET r == aaReq[w] IN aaFailures' = [aaFailures EXCEPT ![r.user] = FailedLogin(@, r.now)]
  /\ AaDone(w)
  /\ UNCHANGED <<aaUsers, aaRoles, aaSessions>>

\* update_admin_user_password stores the hash anew; an error is ignored.
LoginUpgrade(w, stored) ==
  LET r == aaReq[w]
  IN /\ AaStep(w, "login-upgrade")
     /\ aaUsers' = IF stored /\ aaUsers[r.user].there
                   THEN [aaUsers EXCEPT ![r.user].must = FALSE, ![r.user].legacy = FALSE] ELSE aaUsers
     /\ AaWait(w, [at |-> "login-role", user |-> r.user, row |-> r.row, now |-> r.now])
     /\ UNCHANGED <<aaRoles, aaSessions, aaFailures>>

\* The role, which must be active.
LoginRole(w) ==
  LET r == aaReq[w]
      role == aaRoles[r.row.role]
  IN /\ AaStep(w, "login-role")
     /\ AaWait(w, IF role.there /\ role.status = "active"
                  THEN [at |-> "login-insert", user |-> r.user, row |-> r.row, now |-> r.now,
                        permissions |-> role.permissions]
                  ELSE AaIdle)
     /\ UNCHANGED <<aaUsers, aaRoles, aaSessions, aaFailures>>

\* clear_login_failures and the session.  A token is its connection's and
\* request's own.
LoginInsert(w) ==
  LET r == aaReq[w]
  IN /\ AaStep(w, "login-insert")
     /\ aaFailures' = [aaFailures EXCEPT ![r.user] = NoFailure]
     /\ aaSessions' = aaSessions \cup
          {[token |-> <<w, aaRequests>>, user |-> r.user, role |-> r.row.role, must |-> r.row.must,
            permissions |-> r.permissions, expires |-> r.now + AaTtl]}
     /\ AaDone(w)
     /\ UNCHANGED <<aaUsers, aaRoles>>

\* write_auth_logout_response.
Logout(w, s) ==
  /\ AaBegin(w) /\ s \in aaSessions
  /\ aaSessions' = aaSessions \ {s}
  /\ UNCHANGED <<aaReq, aaUsers, aaRoles, aaFailures, aaNow>>

\* delete_auth_session_response: another session of the same account.
Revoke(w, s, t) ==
  /\ AaBegin(w) /\ s \in aaSessions /\ Live(s) /\ ~s.must
  /\ t \in aaSessions \ {s} /\ t.user = s.user
  /\ aaSessions' = aaSessions \ {t}
  /\ UNCHANGED <<aaReq, aaUsers, aaRoles, aaFailures, aaNow>>

\* write_auth_password_response writes the row,
PasswordWrite(w, s) ==
  /\ AaBegin(w) /\ s \in aaSessions /\ Live(s)
  /\ LET row == aaUsers[s.user]
     IN IF row.there /\ row.status = "active"
        THEN aaUsers' = [aaUsers EXCEPT ![s.user].must = FALSE, ![s.user].legacy = FALSE]
             /\ AaWait(w, [at |-> "password", user |-> s.user, token |-> s.token])
        ELSE UNCHANGED <<aaUsers, aaReq>>
  /\ UNCHANGED <<aaRoles, aaSessions, aaFailures, aaNow>>

\* complete_password_change_sessions.
KeptAfterPassword(user, token) ==
  {IF s.token = token THEN [s EXCEPT !.must = FALSE] ELSE s :
     s \in {t \in aaSessions : Live(t) /\ (t.user # user \/ t.token = token)}}

PasswordSessions(w) ==
  /\ AaStep(w, "password")
  /\ aaSessions' = KeptAfterPassword(aaReq[w].user, aaReq[w].token)
  /\ AaDone(w)
  /\ UNCHANGED <<aaUsers, aaRoles, aaFailures>>

-----------------------------------------------------------------------------
(* Accounts and roles.                                                     *)

\* The last active administrator is not to be removed or demoted.
LastOfAdministrators(row) ==
  /\ row.role = "administrator" /\ row.status = "active"
  /\ \A u, v \in Administrators : u = v

StaleSessionsIgnoreRole(actor, row, u, role, status, password) ==
  u # actor /\ row.there /\ (row.status # status \/ password)

\* Whether a saved account's sessions are stale.
StaleSessions(actor, row, u, role, status, password) ==
  u # actor /\ row.there /\ (row.role # role \/ row.status # status \/ password)

\* write_admin_user_response up to the write.
SaveUserCheck(w, s, u, role, status, password) ==
  LET row == aaUsers[u]
  IN /\ AaBegin(w) /\ s \in aaSessions /\ Authorized(s, "admin.users")
     /\ aaRoles[role].there /\ aaRoles[role].status = "active"
     /\ row.there \/ password
     /\ row.there => /\ u = s.user => status = "active" /\ row.role = role
                     /\ (role # "administrator" \/ status # "active") => ~LastOfAdministrators(row)
     /\ AaWait(w, [at |-> "save-user", user |-> u, role |-> role, status |-> status, password |-> password,
                   stale |-> StaleSessions(s.user, row, u, role, status, password)])
     /\ UNCHANGED <<aaUsers, aaRoles, aaSessions, aaFailures, aaNow>>

\* save_admin_user: an account that went away meanwhile is made again if the
\* request carries a password.
SaveUserWrite(w) ==
  LET r == aaReq[w]
      row == aaUsers[r.user]
  IN /\ AaStep(w, "save-user")
     /\ IF row.there \/ r.password
        THEN /\ aaUsers' = [aaUsers EXCEPT ![r.user] =
                  User(r.role, r.status, IF r.password THEN TRUE ELSE row.must,
                       IF r.password THEN FALSE ELSE row.legacy)]
             /\ AaWait(w, IF r.stale THEN [at |-> "drop-user", user |-> r.user] ELSE AaIdle)
        ELSE AaDone(w) /\ UNCHANGED aaUsers
     /\ UNCHANGED <<aaRoles, aaSessions, aaFailures>>

\* delete_admin_user_response.
DeleteUserCheck(w, s, u) ==
  /\ AaBegin(w) /\ s \in aaSessions /\ Authorized(s, "admin.users")
  /\ aaUsers[u].there /\ u # s.user /\ ~LastOfAdministrators(aaUsers[u])
  /\ AaWait(w, [at |-> "delete-user", user |-> u])
  /\ UNCHANGED <<aaUsers, aaRoles, aaSessions, aaFailures, aaNow>>

DeleteUserWrite(w) ==
  LET u == aaReq[w].user
  IN /\ AaStep(w, "delete-user")
     /\ aaUsers' = [aaUsers EXCEPT ![u] = NoUser]
     /\ AaWait(w, IF aaUsers[u].there THEN [at |-> "drop-user", user |-> u] ELSE AaIdle)
     /\ UNCHANGED <<aaRoles, aaSessions, aaFailures>>

\* invalidate_user_sessions.
DropUserSessions(w) ==
  /\ AaStep(w, "drop-user")
  /\ aaSessions' = {s \in aaSessions : Live(s) /\ s.user # aaReq[w].user}
  /\ AaDone(w)
  /\ UNCHANGED <<aaUsers, aaRoles, aaFailures>>

\* write_admin_role_response up to the write: a role of active accounts stays
\* active, and one's own role keeps the right to manage roles.
SaveRoleCheck(w, s, role, permissions, status) ==
  LET own == aaUsers[s.user].there /\ aaUsers[s.user].role = role
      row == aaRoles[role]
  IN /\ AaBegin(w) /\ s \in aaSessions /\ Authorized(s, "admin.roles")
     /\ status # "active" => UsersOf(role, {"active"}) = {}
     /\ own => status = "active" /\ "admin.roles" \in permissions
     /\ AaWait(w, [at |-> "save-role", role |-> role, permissions |-> permissions, status |-> status,
                   stale |-> row.there /\ (row.status # status \/ row.permissions # permissions)])
     /\ UNCHANGED <<aaUsers, aaRoles, aaSessions, aaFailures, aaNow>>

SaveRoleWrite(w) ==
  LET r == aaReq[w]
  IN /\ AaStep(w, "save-role")
     /\ aaRoles' = [aaRoles EXCEPT ![r.role] = Role(r.permissions, r.status)]
     /\ AaWait(w, IF r.stale THEN [at |-> "drop-role", role |-> r.role] ELSE AaIdle)
     /\ UNCHANGED <<aaUsers, aaSessions, aaFailures>>

\* invalidate_role_sessions.
DropRoleSessions(w) ==
  /\ AaStep(w, "drop-role")
  /\ aaSessions' = {s \in aaSessions : Live(s) /\ s.role # aaReq[w].role}
  /\ AaDone(w)
  /\ UNCHANGED <<aaUsers, aaRoles, aaFailures>>

\* A role is deleted only when no account has it, disabled ones included.
Deletable(role) == UsersOf(role, {"active", "disabled"}) = {}

\* delete_admin_role_response.
DeleteRoleCheck(w, s, role) ==
  /\ AaBegin(w) /\ s \in aaSessions /\ Authorized(s, "admin.roles")
  /\ aaRoles[role].there /\ Deletable(role)
  /\ AaWait(w, [at |-> "delete-role", role |-> role])
  /\ UNCHANGED <<aaUsers, aaRoles, aaSessions, aaFailures, aaNow>>

DeleteRoleWrite(w) ==
  /\ AaStep(w, "delete-role")
  /\ aaRoles' = [aaRoles EXCEPT ![aaReq[w].role] = NoRole]
  /\ AaDone(w)
  /\ UNCHANGED <<aaUsers, aaSessions, aaFailures>>

AaTick ==
  /\ aaNow < MaxAaTime /\ aaNow' = aaNow + 1
  /\ UNCHANGED <<aaUsers, aaRoles, aaSessions, aaFailures, aaReq, aaOverlap, aaRequests>>

AaOwn(w) ==
  \/ \E u \in AaUser, password \in {"right", "wrong", "not the default"} : LoginStart(w, u, password)
  \/ \E stored \in BOOLEAN : LoginUpgrade(w, stored)
  \/ LoginFailed(w) \/ LoginRole(w) \/ LoginInsert(w) \/ PasswordSessions(w)
  \/ \E s \in aaSessions :
       Logout(w, s) \/ PasswordWrite(w, s) \/ \E t \in aaSessions : Revoke(w, s, t)

AaManage(w) ==
  \/ SaveUserWrite(w) \/ DeleteUserWrite(w) \/ DropUserSessions(w)
  \/ SaveRoleWrite(w) \/ DropRoleSessions(w) \/ DeleteRoleWrite(w)
  \/ \E s \in aaSessions :
       \/ \E u \in AaUser : DeleteUserCheck(w, s, u)
       \/ \E u \in AaUser, role \in AaRole, status \in {"active", "disabled"}, p \in BOOLEAN :
            SaveUserCheck(w, s, u, role, status, p)
       \/ \E role \in AaRole, p \in AaPermissions, status \in {"active", "disabled"} :
            SaveRoleCheck(w, s, role, p, status)
       \/ \E role \in AaRole : DeleteRoleCheck(w, s, role)

AaNext == AaTick \/ \E w \in AaWorker : AaOwn(w) \/ AaManage(w)

AaSpec == AaInit /\ [][AaNext]_aaVars

-----------------------------------------------------------------------------
(* Properties.                                                             *)

\* An account always has its role: no order of saves and deletions, one after
\* the other, leaves an account with a role that is gone, or an active account
\* with a role that is disabled (delete_admin_role_response,
\* write_admin_role_response, write_admin_user_response).
AccountsHaveRoles ==
  ~aaOverlap => \A u \in AaUser : aaUsers[u].there =>
    /\ aaRoles[aaUsers[u].role].there
    /\ aaUsers[u].status = "active" => aaRoles[aaUsers[u].role].status = "active"

\* A session is never out of date: between requests, a live session has the
\* role of its account and the permissions of that role, both active, provided
\* requests did not overlap (invalidate_user_sessions, invalidate_role_sessions).
SessionsMatchAccounts ==
  ~aaOverlap /\ (\A w \in AaWorker : aaReq[w].at = "idle") =>
    \A s \in aaSessions : Live(s) =>
      LET row == aaUsers[s.user]
      IN /\ row.there /\ row.status = "active" /\ row.role = s.role
         /\ aaRoles[s.role].there /\ aaRoles[s.role].permissions = s.permissions

\* An active administrator remains, provided requests did not overlap
\* (delete_admin_user_response, write_admin_user_response).
AdministratorRemains == ~aaOverlap => Administrators # {}

\* Roles are known, a token names one session, and a lock ends no later than
\* the policy's lockout from now.
AaTypeOK ==
  /\ \A u \in AaUser : aaUsers[u].there => aaUsers[u].role \in AaRole
  /\ \A s, t \in aaSessions : s.token = t.token => s = t
  /\ \A u \in AaUser : aaFailures[u].locked <= aaNow + AaLockout

\* Accounts, roles and sessions fit together after every request that did not
\* overlap another, and somebody can still administer them.
AccountSafety ==
  /\ AaTypeOK
  /\ AccountsHaveRoles
  /\ SessionsMatchAccounts
  /\ AdministratorRemains

=============================================================================
