--------------------------- MODULE AccountProofs ----------------------------
(***************************************************************************)
(* Proofs about the accounts of the administration and about the count of  *)
(* days by which the reports bound their periods.                          *)
(***************************************************************************)
EXTENDS CalendarDays, AdminAccounts, TLAPS

-----------------------------------------------------------------------------
(***************************************************************************)
(* AdminAccounts, for any users, roles, permissions and connections, and   *)
(* any number of requests, failures and seconds.                           *)
(***************************************************************************)

AaStatus == {"active", "disabled"}
AaGrants == AaPermissions \cup {{"admin.users", "admin.roles"}}

UserRow == [there : {TRUE}, role : AaRole, status : AaStatus, must : BOOLEAN, legacy : BOOLEAN]
RoleRow == [there : {TRUE}, permissions : AaGrants, status : AaStatus]
FailureRow == [count : Nat, first : Int, locked : Int]
SessionRow == [token : AaWorker \X Nat, user : AaUser, role : AaRole, must : BOOLEAN,
               permissions : AaGrants, expires : Int]

AaPlaces == {"idle", "login-upgrade", "login-role", "login-failed", "login-insert", "password", "save-user",
             "delete-user", "drop-user", "save-role", "drop-role", "delete-role"}

\* The request of a connection names an account or a role.
RequestTyped(r) ==
  /\ r.at \in AaPlaces
  /\ r.at \in {"login-upgrade", "login-role", "login-failed", "login-insert", "password", "save-user",
               "delete-user", "drop-user"} => r.user \in AaUser
  /\ r.at \in {"save-user", "save-role", "drop-role", "delete-role"} => r.role \in AaRole
  /\ r.at \in {"save-user", "save-role"} => r.status \in AaStatus /\ r.stale \in BOOLEAN
  /\ r.at = "save-user" => r.password \in BOOLEAN
  /\ r.at = "save-role" => r.permissions \in AaGrants
  /\ r.at \in {"login-upgrade", "login-role", "login-insert", "login-failed"} => r.now \in Nat /\ r.now <= aaNow
  /\ r.at \in {"login-upgrade", "login-role", "login-insert"} => r.row \in UserRow
  /\ r.at = "login-insert" => r.permissions \in AaGrants

AccountTypes ==
  /\ aaUsers \in [AaUser -> {NoUser} \cup UserRow]
  /\ aaRoles \in [AaRole -> {NoRole} \cup RoleRow]
  /\ aaSessions \subseteq SessionRow
  /\ aaFailures \in [AaUser -> FailureRow]
  /\ aaNow \in Nat /\ aaRequests \in Nat /\ aaOverlap \in BOOLEAN
  /\ aaReq = [w \in AaWorker |-> aaReq[w]]
  /\ \A w \in AaWorker : RequestTyped(aaReq[w])

\* A token names one session, and is older than the request that its
\* connection is serving.
TokensOK ==
  /\ \A s \in aaSessions :
       /\ s.token[2] <= aaRequests
       /\ aaReq[s.token[1]].at # "idle" => s.token[2] < aaRequests
  /\ \A s, t \in aaSessions : s.token = t.token => s = t

LocksOK == \A u \in AaUser : aaFailures[u].locked <= aaNow + AaLockout

\* A session as its account and its role are.
Matches(s) ==
  /\ aaUsers[s.user] \in UserRow /\ aaUsers[s.user].status = "active"
  /\ aaUsers[s.user].role = s.role
  /\ aaRoles[s.role] \in RoleRow /\ aaRoles[s.role].permissions = s.permissions

\* What a request that nobody disturbs knows when it comes to its write.
Knows(r) ==
  /\ r.at \in {"login-upgrade", "login-role", "login-insert"} =>
       /\ aaUsers[r.user] \in UserRow /\ aaUsers[r.user].role = r.row.role
       /\ aaUsers[r.user].status = "active"
  /\ r.at = "login-insert" =>
       aaRoles[r.row.role] \in RoleRow /\ aaRoles[r.row.role].permissions = r.permissions
  /\ r.at = "save-user" =>
       /\ aaRoles[r.role] \in RoleRow /\ aaRoles[r.role].status = "active"
       /\ aaUsers[r.user] \in UserRow =>
            /\ r.role # "administrator" \/ r.status # "active" => ~LastOfAdministrators(aaUsers[r.user])
            /\ ~r.stale => aaUsers[r.user].role = r.role /\ aaUsers[r.user].status = r.status
  /\ r.at = "delete-user" /\ aaUsers[r.user] \in UserRow => ~LastOfAdministrators(aaUsers[r.user])
  /\ r.at = "save-role" =>
       /\ r.status # "active" => UsersOf(r.role, {"active"}) = {}
       /\ aaRoles[r.role] \in RoleRow /\ ~r.stale =>
            aaRoles[r.role].permissions = r.permissions
  /\ r.at = "delete-role" => Deletable(r.role)

\* The sessions that a request has still to remove.
ToDrop(r, s) ==
  \/ r.at = "drop-user" /\ s.user = r.user
  \/ r.at = "drop-role" /\ s.role = r.role

\* With no overlap one connection at most is busy, and it knows what it needs.
AloneOK ==
  /\ \A v, w \in AaWorker : aaReq[v].at # "idle" /\ aaReq[w].at # "idle" => v = w
  /\ \A w \in AaWorker : Knows(aaReq[w])
  /\ \A u \in AaUser : aaUsers[u] \in UserRow =>
       /\ aaRoles[aaUsers[u].role] \in RoleRow
       /\ aaUsers[u].status = "active" => aaRoles[aaUsers[u].role].status = "active"
  /\ \A s \in aaSessions : Live(s) => Matches(s) \/ \E w \in AaWorker : ToDrop(aaReq[w], s)
  /\ Administrators # {}

AccountInv ==
  /\ AccountTypes
  /\ TokensOK
  /\ LocksOK
  /\ ~aaOverlap => AloneOK

\* The step is connection w's: the others keep their requests.
OnlyMoves(w) ==
  /\ aaReq' = [v \in AaWorker |-> aaReq'[v]]
  /\ \A v \in AaWorker \ {w} : aaReq'[v] = aaReq[v]

\* A request goes on.
LEMMA Waited ==
  ASSUME AccountTypes, NEW w \in AaWorker, NEW q, AaWait(w, q)
  PROVE  OnlyMoves(w) /\ aaReq'[w] = q
  BY Zenon DEF AaWait, AccountTypes, OnlyMoves

\* A step of one connection keeps the types if what it writes has them.
LEMMA StepTypes ==
  ASSUME AccountTypes, NEW w \in AaWorker, OnlyMoves(w), aaNow' = aaNow,
         RequestTyped(aaReq[w])',
         aaUsers' \in [AaUser -> {NoUser} \cup UserRow],
         aaRoles' \in [AaRole -> {NoRole} \cup RoleRow],
         aaSessions' \subseteq SessionRow, aaFailures' \in [AaUser -> FailureRow],
         aaRequests' \in Nat, aaOverlap' \in BOOLEAN
  PROVE  AccountTypes'
<1>1. \A v \in AaWorker \ {w} : RequestTyped(aaReq[v])'
  BY DEF AccountTypes, OnlyMoves, RequestTyped
<1>2. QED
  BY Zenon, <1>1 DEF AccountTypes, OnlyMoves

\* The beginning of a request: it counts, and overlaps with any other.
LEMMA Begun ==
  ASSUME AccountTypes, NEW w \in AaWorker, AaBegin(w)
  PROVE  /\ aaReq[w].at = "idle" /\ aaRequests' = aaRequests + 1
         /\ aaRequests' \in Nat /\ aaOverlap' \in BOOLEAN
         /\ ~aaOverlap' => ~aaOverlap /\ \A v \in AaWorker : aaReq[v].at = "idle"
<1>1. aaReq[w].at = "idle" /\ aaRequests' = aaRequests + 1 /\ aaRequests' \in Nat
  BY DEF AaBegin, AccountTypes
<1>2. aaOverlap' = (aaOverlap \/ \E v \in AaWorker : aaReq[v].at # "idle") /\ aaOverlap \in BOOLEAN
  BY Zenon DEF AaBegin, AccountTypes
<1>3. QED
  BY Zenon, <1>1, <1>2

\* Tokens, when no session is added.
LEMMA TokensKept ==
  ASSUME AccountTypes, TokensOK, NEW w \in AaWorker, OnlyMoves(w),
         \A s \in aaSessions' : \E t \in aaSessions : s.token = t.token,
         \A s, t \in aaSessions' : s.token = t.token => s = t,
         \/ aaRequests' = aaRequests + 1
         \/ aaRequests' = aaRequests /\ aaReq[w].at # "idle"
  PROVE  TokensOK'
<1> SUFFICES ASSUME NEW s \in aaSessions'
             PROVE  /\ s.token[2] <= aaRequests'
                    /\ aaReq'[s.token[1]].at # "idle" => s.token[2] < aaRequests'
  BY Zenon DEF TokensOK
<1>1. PICK t \in aaSessions : s.token = t.token
  BY Zenon
<1>2. /\ t.token[1] \in AaWorker /\ t.token[2] \in Nat /\ aaRequests \in Nat
      /\ t.token[2] <= aaRequests
      /\ aaReq[t.token[1]].at # "idle" => t.token[2] < aaRequests
  BY Zenon DEF AccountTypes, SessionRow, TokensOK
<1>3. CASE aaRequests' = aaRequests + 1
  BY <1>1, <1>2, <1>3
<1>4. CASE aaRequests' = aaRequests /\ aaReq[w].at # "idle"
  <2>1. CASE t.token[1] = w
    BY Zenon, <1>1, <1>2, <1>4, <2>1
  <2>2. CASE t.token[1] # w
    <3>1. aaReq'[t.token[1]] = aaReq[t.token[1]]
      BY Zenon, <1>2, <2>2 DEF OnlyMoves
    <3>2. QED
      BY Zenon, <1>1, <1>2, <1>4, <3>1
  <2>3. QED
    BY Zenon, <2>1, <2>2
<1>5. QED
  BY Zenon, <1>3, <1>4

\* Tokens, when sessions are only removed.
LEMMA FewerTokens ==
  ASSUME AccountTypes, TokensOK, NEW w \in AaWorker, OnlyMoves(w), aaSessions' \subseteq aaSessions,
         \/ aaRequests' = aaRequests + 1
         \/ aaRequests' = aaRequests /\ aaReq[w].at # "idle"
  PROVE  TokensOK'
<1>1. \A s \in aaSessions' : \E t \in aaSessions : s.token = t.token
  BY Zenon
<1>2. \A s, t \in aaSessions' : s.token = t.token => s = t
  BY Zenon DEF TokensOK
<1>3. QED
  BY Zenon, <1>1, <1>2, TokensKept

\* The state of a connection that nobody disturbs: what a step must show.
LEMMA AloneStep ==
  ASSUME AccountTypes, NEW w \in AaWorker, OnlyMoves(w),
         \A v \in AaWorker \ {w} : aaReq[v].at = "idle",
         Knows(aaReq[w])',
         \A u \in AaUser : aaUsers'[u] \in UserRow =>
           /\ aaRoles'[aaUsers'[u].role] \in RoleRow
           /\ aaUsers'[u].status = "active" => aaRoles'[aaUsers'[u].role].status = "active",
         \A s \in aaSessions' : Live(s)' => Matches(s)' \/ ToDrop(aaReq'[w], s),
         Administrators' # {}
  PROVE  AloneOK'
<1>1. \A v \in AaWorker \ {w} : aaReq'[v].at = "idle"
  BY Zenon DEF OnlyMoves
<1>2. \A v \in AaWorker \ {w} : Knows(aaReq[v])'
  BY Zenon, <1>1 DEF Knows
<1>3. \A v, x \in AaWorker : aaReq'[v].at # "idle" /\ aaReq'[x].at # "idle" => v = x
  BY Zenon, <1>1
<1>4. \A v \in AaWorker : Knows(aaReq[v])'
  BY Zenon, <1>2
<1>5. \A s \in aaSessions' : Live(s)' => Matches(s)' \/ \E v \in AaWorker : ToDrop(aaReq'[v], s)
  BY Zenon
<1>6. QED
  BY Zenon, <1>3, <1>4, <1>5 DEF AloneOK, ToDrop

\* In such a state the sessions match, but for those the busy connection is
\* to remove.
LEMMA AloneSessions ==
  ASSUME AloneOK, NEW w \in AaWorker, \A v \in AaWorker \ {w} : aaReq[v].at = "idle",
         NEW s \in aaSessions, Live(s)
  PROVE  Matches(s) \/ ToDrop(aaReq[w], s)
  BY Zenon DEF AloneOK, ToDrop

\* A step that changes no account and no role, of a connection that has
\* nothing to remove.
LEMMA AloneReads ==
  ASSUME AccountTypes, AloneOK, NEW w \in AaWorker, OnlyMoves(w),
         \A v \in AaWorker \ {w} : aaReq[v].at = "idle",
         aaReq[w].at \notin {"drop-user", "drop-role"},
         UNCHANGED <<aaUsers, aaRoles, aaNow>>, aaSessions' \subseteq aaSessions, Knows(aaReq[w])'
  PROVE  AloneOK'
<1>1. \A u \in AaUser : aaUsers'[u] \in UserRow =>
           /\ aaRoles'[aaUsers'[u].role] \in RoleRow
           /\ aaUsers'[u].status = "active" => aaRoles'[aaUsers'[u].role].status = "active"
  BY Zenon DEF AloneOK
<1>2. ASSUME NEW s \in aaSessions', Live(s)' PROVE Matches(s)'
  <2>1. s \in aaSessions /\ Live(s)
    BY Zenon, <1>2 DEF Live
  <2>2. ~ToDrop(aaReq[w], s)
    BY Zenon DEF ToDrop
  <2>3. Matches(s)
    BY Zenon, <2>1, <2>2, AloneSessions
  <2>4. QED
    BY Zenon, <2>3 DEF Matches
<1>3. Administrators' # {}
  BY Zenon DEF AloneOK, Administrators
<1>4. QED
  BY Zenon, <1>1, <1>2, <1>3, AloneStep

\* prune_login_failures and record_login_failure lock no account for longer
\* than before, or than the lockout from the time of the login.
LEMMA FailureRows ==
  ASSUME NEW f \in FailureRow, NEW now \in Nat, NEW b \in Nat, f.locked <= b, now + AaLockout <= b
  PROVE  /\ Pruned(f, now) \in FailureRow /\ Pruned(f, now).locked <= b
         /\ FailedLogin(f, now) \in FailureRow /\ FailedLogin(f, now).locked <= b
         /\ NoFailure \in FailureRow /\ NoFailure.locked <= b
<1>1. NoFailure \in FailureRow /\ NoFailure.locked <= b
  BY DEF NoFailure, FailureRow
<1>2. Pruned(f, now) \in FailureRow /\ Pruned(f, now).locked <= b
  BY Zenon, <1>1 DEF Pruned
<1> DEFINE g == Pruned(f, now)
           n == [count |-> 0, first |-> now, locked |-> 0]
           h == IF g.count = 0 \/ now - g.first > AaWindow THEN n ELSE g
           k == IF h.count + 1 >= AaMaxFailures THEN now + AaLockout ELSE h.locked
           c == h.count + 1
           e == [h EXCEPT !.count = c, !.locked = k]
<1>3. FailedLogin(f, now) = IF h.locked > now THEN h ELSE e
  BY Zenon DEF FailedLogin
<1>4. n \in FailureRow /\ n.locked <= b
  BY DEF FailureRow
<1> HIDE DEF g, n
<1>5. h \in FailureRow /\ h.locked <= b
  BY Zenon, <1>2, <1>4 DEF g
<1> HIDE DEF h
<1>6. k \in Int /\ k <= b /\ c \in Nat
  BY <1>5, AccountAssumption DEF FailureRow
<1> HIDE DEF k, c
<1>7. e \in FailureRow /\ e.locked = k
  BY Zenon, <1>5, <1>6 DEF FailureRow
<1>8. QED
  BY Zenon, <1>1, <1>2, <1>3, <1>5, <1>6, <1>7

\* The types a step needs to know.
LEMMA AccountTyped ==
  ASSUME AccountInv
  PROVE  /\ AccountTypes /\ TokensOK /\ LocksOK
         /\ aaUsers \in [AaUser -> {NoUser} \cup UserRow]
         /\ aaRoles \in [AaRole -> {NoRole} \cup RoleRow]
         /\ aaSessions \subseteq SessionRow /\ aaFailures \in [AaUser -> FailureRow]
         /\ aaNow \in Nat /\ aaRequests \in Nat /\ aaOverlap \in BOOLEAN
         /\ \A w \in AaWorker : RequestTyped(aaReq[w])
  BY Zenon DEF AccountInv, AccountTypes

\* A later step of a request: if it was never overlapped, it is alone.
LEMMA Stepped ==
  ASSUME AccountInv, NEW w \in AaWorker, NEW at, AaStep(w, at), at # "idle"
  PROVE  /\ aaReq[w].at = at /\ UNCHANGED <<aaOverlap, aaRequests, aaNow>>
         /\ ~aaOverlap' => AloneOK /\ \A v \in AaWorker \ {w} : aaReq[v].at = "idle"
<1>1. aaReq[w].at = at /\ UNCHANGED <<aaOverlap, aaRequests, aaNow>>
  BY Zenon DEF AaStep
<1>2. QED
  BY Zenon, <1>1 DEF AccountInv, AloneOK

\* A login begins.
LEMMA LoginStartKeeps ==
  ASSUME AccountInv, NEW w \in AaWorker, NEW u \in AaUser, NEW password,
         LoginStart(w, u, password)
  PROVE  AccountInv'
<1>t. /\ AccountTypes /\ TokensOK /\ LocksOK
      /\ aaUsers \in [AaUser -> {NoUser} \cup UserRow] /\ aaFailures \in [AaUser -> FailureRow]
      /\ aaSessions \subseteq SessionRow /\ aaNow \in Nat
      /\ aaRoles \in [AaRole -> {NoRole} \cup RoleRow]
  BY Zenon, AccountTyped
<1>b. /\ aaReq[w].at = "idle" /\ aaRequests' = aaRequests + 1
      /\ aaRequests' \in Nat /\ aaOverlap' \in BOOLEAN
      /\ ~aaOverlap' => ~aaOverlap /\ \A v \in AaWorker : aaReq[v].at = "idle"
  BY Zenon, <1>t, Begun DEF LoginStart
<1>u. UNCHANGED <<aaUsers, aaRoles, aaSessions, aaNow>>
  BY Zenon DEF LoginStart
<1> DEFINE f == Pruned(aaFailures[u], aaNow)
           row == aaUsers[u]
           at == IF row.legacy THEN "login-upgrade" ELSE "login-role"
           q == IF f.locked > aaNow THEN AaIdle
                ELSE IF ~row.there \/ row.status # "active" \/ password = "wrong"
                THEN [at |-> "login-failed", user |-> u, now |-> aaNow]
                ELSE IF password = "not the default" THEN AaIdle
                ELSE [at |-> at, user |-> u, row |-> row, now |-> aaNow]
<1>w. AaWait(w, q) /\ aaFailures' = [aaFailures EXCEPT ![u] = f]
  BY Zenon DEF LoginStart
<1>f. f \in FailureRow /\ f.locked <= aaNow + AaLockout
  <2>1. aaNow + AaLockout \in Nat /\ aaFailures[u] \in FailureRow
        /\ aaFailures[u].locked <= aaNow + AaLockout
    BY <1>t, AccountAssumption DEF LocksOK
  <2>2. QED
    BY <1>t, <2>1, FailureRows
<1> HIDE DEF f
<1>a. at \in {"login-upgrade", "login-role"}
  BY Zenon
<1> HIDE DEF at
<1>q. \/ q = AaIdle
      \/ /\ row \in UserRow /\ row.status = "active"
         /\ q = [at |-> at, user |-> u, row |-> row, now |-> aaNow]
      \/ q = [at |-> "login-failed", user |-> u, now |-> aaNow]
  <2>1. row.there => row \in UserRow
    BY <1>t DEF NoUser
  <2>2. QED
    BY Zenon, <2>1
<1> HIDE DEF q
<1>1. OnlyMoves(w) /\ aaReq'[w] = q
  BY Zenon, <1>t, <1>w, Waited
<1>2. RequestTyped(aaReq[w])' /\ Knows(aaReq[w])'
  <2>1. CASE q = AaIdle
    BY <1>1, <2>1 DEF AaIdle, RequestTyped, AaPlaces, Knows
  <2>2. CASE /\ row \in UserRow /\ row.status = "active"
             /\ q = [at |-> at, user |-> u, row |-> row, now |-> aaNow]
    BY <1>1, <1>a, <1>t, <1>u, <2>2 DEF RequestTyped, AaPlaces, Knows
  <2>3. CASE q = [at |-> "login-failed", user |-> u, now |-> aaNow]
    BY <1>1, <1>t, <1>u, <2>3 DEF RequestTyped, AaPlaces, Knows
  <2>4. QED
    BY Zenon, <1>q, <2>1, <2>2, <2>3
<1>3. AccountTypes'
  BY Zenon, <1>1, <1>2, <1>b, <1>f, <1>t, <1>u, <1>w, StepTypes
<1>4. TokensOK'
  BY Zenon, <1>1, <1>b, <1>t, <1>u, FewerTokens
<1>5. LocksOK'
  BY Zenon, <1>f, <1>t, <1>u, <1>w DEF LocksOK
<1>6. ~aaOverlap' => AloneOK'
  BY Zenon, <1>1, <1>2, <1>b, <1>t, <1>u, AloneReads DEF AccountInv
<1>7. QED
  BY Zenon, <1>3, <1>4, <1>5, <1>6 DEF AccountInv

\* A step that only removes sessions, or none, and may count a failure.
LEMMA QuietStep ==
  ASSUME AccountInv, NEW w \in AaWorker, OnlyMoves(w),
         UNCHANGED <<aaUsers, aaRoles, aaNow>>, aaSessions' \subseteq aaSessions,
         aaFailures' \in [AaUser -> FailureRow], LocksOK',
         \/ AaBegin(w)
         \/ /\ UNCHANGED <<aaOverlap, aaRequests>>
            /\ aaReq[w].at \notin {"idle", "drop-user", "drop-role"},
         RequestTyped(aaReq[w])',
         ~aaOverlap' => Knows(aaReq[w])'
  PROVE  AccountInv'
<1>t. /\ AccountTypes /\ TokensOK /\ aaSessions \subseteq SessionRow
      /\ aaUsers \in [AaUser -> {NoUser} \cup UserRow]
      /\ aaRoles \in [AaRole -> {NoRole} \cup RoleRow]
      /\ aaRequests \in Nat /\ aaOverlap \in BOOLEAN
  BY Zenon, AccountTyped
<1>1. /\ aaRequests' \in Nat /\ aaOverlap' \in BOOLEAN
      /\ \/ aaRequests' = aaRequests + 1
         \/ aaRequests' = aaRequests /\ aaReq[w].at # "idle"
      /\ aaReq[w].at \notin {"drop-user", "drop-role"}
      /\ ~aaOverlap' => ~aaOverlap /\ \A v \in AaWorker \ {w} : aaReq[v].at = "idle"
  <2>1. CASE AaBegin(w)
    BY Zenon, <1>t, <2>1, Begun
  <2>2. CASE /\ UNCHANGED <<aaOverlap, aaRequests>>
             /\ aaReq[w].at \notin {"idle", "drop-user", "drop-role"}
    <3>1. ~aaOverlap => \A v \in AaWorker \ {w} : aaReq[v].at = "idle"
      BY Zenon, <2>2 DEF AccountInv, AloneOK
    <3>2. QED
      BY Zenon, <1>t, <2>2, <3>1
  <2>3. QED
    BY Zenon, <2>1, <2>2
<1>2. AccountTypes'
  BY Zenon, <1>1, <1>t, StepTypes
<1>3. TokensOK'
  BY Zenon, <1>1, <1>t, FewerTokens
<1>4. ~aaOverlap' => AloneOK'
  BY Zenon, <1>1, <1>t, AloneReads DEF AccountInv
<1>5. QED
  BY Zenon, <1>2, <1>3, <1>4 DEF AccountInv

\* An idle connection is typed and knows nothing.
LEMMA IdleKnows ==
  ASSUME NEW w \in AaWorker, aaReq'[w] = AaIdle
  PROVE  RequestTyped(aaReq[w])' /\ Knows(aaReq[w])'
  BY DEF AaIdle, RequestTyped, AaPlaces, Knows

\* A request that is at its start, or that has written, has nothing to know.
LEMMA NothingToKnow ==
  ASSUME NEW w \in AaWorker,
         aaReq'[w].at \in {"idle", "login-failed", "password", "drop-user", "drop-role"}
  PROVE  Knows(aaReq[w])'
  BY DEF Knows

\* A failed login is counted with the time at which it began.
LEMMA LoginFailedKeeps ==
  ASSUME AccountInv, NEW w \in AaWorker, LoginFailed(w)
  PROVE  AccountInv'
<1>t. /\ AccountTypes /\ LocksOK /\ aaFailures \in [AaUser -> FailureRow] /\ aaNow \in Nat
      /\ RequestTyped(aaReq[w])
  BY Zenon, AccountTyped
<1>u. /\ UNCHANGED <<aaUsers, aaRoles, aaSessions, aaOverlap, aaRequests, aaNow>>
      /\ aaReq[w].at = "login-failed" /\ AaWait(w, AaIdle)
  BY Zenon DEF LoginFailed, AaStep, AaDone
<1> DEFINE u == aaReq[w].user
           now == aaReq[w].now
           f == FailedLogin(aaFailures[u], now)
<1>1. u \in AaUser /\ now \in Nat /\ now <= aaNow
  BY Zenon, <1>t, <1>u DEF RequestTyped
<1>2. aaFailures' = [aaFailures EXCEPT ![u] = f]
  BY Zenon DEF LoginFailed
<1> HIDE DEF u, now
<1>3. f \in FailureRow /\ f.locked <= aaNow + AaLockout
  <2>1. /\ aaNow + AaLockout \in Nat /\ now + AaLockout <= aaNow + AaLockout
        /\ aaFailures[u] \in FailureRow /\ aaFailures[u].locked <= aaNow + AaLockout
    BY <1>1, <1>t, AccountAssumption DEF LocksOK
  <2>2. QED
    BY Zenon, <1>1, <2>1, FailureRows
<1> HIDE DEF f
<1>4. aaFailures' \in [AaUser -> FailureRow] /\ LocksOK'
  BY Zenon, <1>2, <1>3, <1>t, <1>u DEF LocksOK
<1>5. OnlyMoves(w) /\ aaReq'[w] = AaIdle
  BY Zenon, <1>t, <1>u, Waited
<1>6. QED
  BY Zenon, <1>4, <1>5, <1>u, IdleKnows, QuietStep

\* The failures of a step that counts none.
LEMMA FailuresKept ==
  ASSUME AccountInv, UNCHANGED <<aaFailures, aaNow>>
  PROVE  aaFailures' \in [AaUser -> FailureRow] /\ LocksOK'
  BY Zenon DEF AccountInv, AccountTypes, LocksOK

\* The role of a login.
LEMMA LoginRoleKeeps ==
  ASSUME AccountInv, NEW w \in AaWorker, LoginRole(w)
  PROVE  AccountInv'
<1>t. /\ AccountTypes /\ RequestTyped(aaReq[w]) /\ aaRoles \in [AaRole -> {NoRole} \cup RoleRow]
      /\ aaNow \in Nat
  BY Zenon, AccountTyped
<1>u. /\ UNCHANGED <<aaUsers, aaRoles, aaSessions, aaFailures, aaOverlap, aaRequests, aaNow>>
      /\ aaReq[w].at = "login-role"
  BY Zenon DEF LoginRole, AaStep
<1> DEFINE r == aaReq[w]
           role == aaRoles[r.row.role]
           n == [at |-> "login-insert", user |-> r.user, row |-> r.row, now |-> r.now,
                 permissions |-> role.permissions]
           q == IF role.there /\ role.status = "active" THEN n ELSE AaIdle
<1>1. /\ r.user \in AaUser /\ r.now \in Nat /\ r.now <= aaNow /\ r.row \in UserRow
      /\ r.row.role \in AaRole
  BY Zenon, <1>t, <1>u DEF RequestTyped, UserRow
<1>w. AaWait(w, q)
  BY Zenon DEF LoginRole
<1>2. OnlyMoves(w) /\ aaReq'[w] = q
  BY Zenon, <1>t, <1>w, Waited
<1>3. q = AaIdle \/ (q = n /\ role \in RoleRow)
  <2>1. ~NoRole.there
    BY Zenon DEF NoRole
  <2>2. role \in {NoRole} \cup RoleRow
    BY <1>1, <1>t, Zenon
  <2>3. role.there => role \in RoleRow
    BY <2>1, <2>2, Zenon
  <2>4. QED
    BY <2>3, Zenon
<1>4. CASE q = AaIdle
  BY Zenon, <1>2, <1>4, <1>u, IdleKnows, FailuresKept, QuietStep
<1>5. CASE q = n /\ role \in RoleRow
  <2>1. role.permissions \in AaGrants
    BY Zenon, <1>5 DEF RoleRow
  <2>2. aaReq'[w] = n
    BY Zenon, <1>2, <1>5
  <2>3. RequestTyped(aaReq[w])'
    BY <1>1, <1>u, <2>1, <2>2 DEF RequestTyped, AaPlaces
  <2>4. ASSUME ~aaOverlap' PROVE Knows(aaReq[w])'
    <3>1. Knows(r)
      BY Zenon, <1>u, <2>4 DEF AccountInv, AloneOK
    <3>2. /\ aaUsers[r.user] \in UserRow /\ aaUsers[r.user].role = r.row.role
          /\ aaUsers[r.user].status = "active"
      BY Zenon, <1>u, <3>1 DEF Knows
    <3>3. /\ aaReq'[w].at = "login-insert" /\ aaReq'[w].user = r.user
          /\ aaReq'[w].row = r.row /\ aaReq'[w].permissions = role.permissions
      BY <2>2
    <3>4. aaUsers' = aaUsers /\ aaRoles'[r.row.role] = role
      BY <1>u, <3>2, Zenon
    <3> HIDE DEF role, r
    <3>5. QED
      BY <1>5, <3>2, <3>3, <3>4 DEF Knows
  <2>5. QED
    BY Zenon, <1>2, <1>u, <2>3, <2>4, FailuresKept, QuietStep
<1>6. QED
  BY Zenon, <1>3, <1>4, <1>5

\* A step of a request keeps the invariant if what it writes has the types
\* and, where no other request is being served, fits together.
LEMMA RequestStep ==
  ASSUME AccountInv, NEW w \in AaWorker, OnlyMoves(w), aaNow' = aaNow,
         \/ AaBegin(w)
         \/ UNCHANGED <<aaOverlap, aaRequests>> /\ aaReq[w].at # "idle",
         RequestTyped(aaReq[w])',
         aaUsers' \in [AaUser -> {NoUser} \cup UserRow],
         aaRoles' \in [AaRole -> {NoRole} \cup RoleRow],
         aaSessions' \subseteq SessionRow, aaFailures' \in [AaUser -> FailureRow],
         TokensOK', LocksOK',
         /\ AloneOK /\ ~aaOverlap /\ (\A v \in AaWorker \ {w} : aaReq[v].at = "idle")
         => AloneOK'
  PROVE  AccountInv'
<1>t. AccountTypes /\ aaRequests \in Nat /\ aaOverlap \in BOOLEAN
  BY Zenon, AccountTyped
<1>1. /\ aaRequests' \in Nat /\ aaOverlap' \in BOOLEAN
      /\ ~aaOverlap' => ~aaOverlap /\ \A v \in AaWorker \ {w} : aaReq[v].at = "idle"
  <2>1. CASE AaBegin(w)
    BY Zenon, <1>t, <2>1, Begun
  <2>2. CASE UNCHANGED <<aaOverlap, aaRequests>> /\ aaReq[w].at # "idle"
    <3>1. ~aaOverlap => \A v \in AaWorker \ {w} : aaReq[v].at = "idle"
      BY Zenon, <2>2 DEF AccountInv, AloneOK
    <3>2. QED
      BY Zenon, <1>t, <2>2, <3>1
  <2>3. QED
    BY Zenon, <2>1, <2>2
<1>2. AccountTypes'
  BY Zenon, <1>1, <1>t, StepTypes
<1>3. ~aaOverlap' => AloneOK'
  <2>1. ~aaOverlap => AloneOK
    BY Zenon DEF AccountInv
  <2>2. QED
    BY Zenon, <1>1, <2>1
<1>4. QED
  BY Zenon, <1>2, <1>3 DEF AccountInv

\* A login opens a session under a token of its own, with what it has read.
LEMMA LoginInsertKeeps ==
  ASSUME AccountInv, NEW w \in AaWorker, LoginInsert(w)
  PROVE  AccountInv'
<1>t. /\ AccountTypes /\ TokensOK /\ LocksOK /\ RequestTyped(aaReq[w])
      /\ aaUsers \in [AaUser -> {NoUser} \cup UserRow] /\ aaFailures \in [AaUser -> FailureRow]
      /\ aaSessions \subseteq SessionRow /\ aaNow \in Nat /\ aaRequests \in Nat
      /\ aaRoles \in [AaRole -> {NoRole} \cup RoleRow]
  BY Zenon, AccountTyped
<1>u. /\ UNCHANGED <<aaUsers, aaRoles, aaOverlap, aaRequests, aaNow>>
      /\ aaReq[w].at = "login-insert" /\ AaWait(w, AaIdle)
  BY Zenon DEF LoginInsert, AaStep, AaDone
<1> DEFINE r == aaReq[w]
           n == [token |-> <<w, aaRequests>>, user |-> r.user, role |-> r.row.role,
                 must |-> r.row.must, permissions |-> r.permissions, expires |-> r.now + AaTtl]
<1>w. /\ aaSessions' = aaSessions \cup {n}
      /\ aaFailures' = [aaFailures EXCEPT ![r.user] = NoFailure]
  BY Zenon DEF LoginInsert
<1>1. /\ r.user \in AaUser /\ r.now \in Nat /\ r.row \in UserRow /\ r.permissions \in AaGrants
      /\ r.row.role \in AaRole /\ r.row.must \in BOOLEAN
  BY Zenon, <1>t, <1>u DEF RequestTyped, UserRow
<1>2. OnlyMoves(w) /\ aaReq'[w] = AaIdle
  BY Zenon, <1>t, <1>u, Waited
<1>3. RequestTyped(aaReq[w])' /\ Knows(aaReq[w])' /\ aaReq'[w].at = "idle"
  BY <1>2, IdleKnows DEF AaIdle
<1>4. n \in SessionRow
  <2>1. r.now + AaTtl \in Int /\ <<w, aaRequests>> \in AaWorker \X Nat
    BY <1>1, <1>t, AccountAssumption
  <2>2. QED
    BY Zenon, <1>1, <2>1 DEF SessionRow
<1>5. aaSessions' \subseteq SessionRow
  BY Zenon, <1>4, <1>t, <1>w
<1>6. aaFailures' \in [AaUser -> FailureRow] /\ LocksOK'
  <2>1. NoFailure \in FailureRow /\ NoFailure.locked <= aaNow + AaLockout
    BY <1>t, AccountAssumption DEF NoFailure, FailureRow
  <2>2. QED
    BY Zenon, <1>t, <1>u, <1>w, <2>1 DEF LocksOK
<1>n. /\ n.token = <<w, aaRequests>> /\ n.token[1] = w /\ n.token[2] = aaRequests
      /\ n.user = r.user /\ n.role = r.row.role /\ n.permissions = r.permissions
  BY Zenon
<1> HIDE DEF n
<1>7. TokensOK'
  <2>1. ASSUME NEW s \in aaSessions
        PROVE  /\ s.token # n.token /\ s.token[2] <= aaRequests
               /\ aaReq'[s.token[1]].at # "idle" => s.token[2] < aaRequests
    <3>1. /\ s.token[2] <= aaRequests /\ s.token[1] \in AaWorker /\ s.token[2] \in Nat
          /\ aaReq[s.token[1]].at # "idle" => s.token[2] < aaRequests
      BY Zenon, <1>t DEF TokensOK, SessionRow
    <3>2. CASE s.token[1] = w
      BY <1>3, <1>n, <1>t, <1>u, <3>1, <3>2
    <3>3. CASE s.token[1] # w
      BY Zenon, <1>2, <1>n, <3>1, <3>3 DEF OnlyMoves
    <3>4. QED
      BY Zenon, <3>2, <3>3
  <2>2. \A s, t \in aaSessions' : s.token = t.token => s = t
    BY Zenon, <1>t, <1>w, <2>1 DEF TokensOK
  <2>3. ASSUME NEW s \in aaSessions'
        PROVE  /\ s.token[2] <= aaRequests'
               /\ aaReq'[s.token[1]].at # "idle" => s.token[2] < aaRequests'
    BY <1>3, <1>n, <1>t, <1>u, <1>w, <2>1
  <2>4. QED
    BY Zenon, <2>2, <2>3 DEF TokensOK
<1>8. ASSUME AloneOK, \A v \in AaWorker \ {w} : aaReq[v].at = "idle" PROVE AloneOK'
  <2>1. \A u \in AaUser : aaUsers'[u] \in UserRow =>
           /\ aaRoles'[aaUsers'[u].role] \in RoleRow
           /\ aaUsers'[u].status = "active" => aaRoles'[aaUsers'[u].role].status = "active"
    BY Zenon, <1>8, <1>u DEF AloneOK
  <2>2. Matches(n)
    <3>1. Knows(r)
      BY Zenon, <1>8 DEF AloneOK
    <3>2. /\ aaUsers[r.user] \in UserRow /\ aaUsers[r.user].role = r.row.role
          /\ aaUsers[r.user].status = "active" /\ aaRoles[r.row.role] \in RoleRow /\ aaRoles[r.row.role].permissions = r.permissions
      BY Zenon, <1>u, <3>1 DEF Knows
    <3>3. QED
      BY Zenon, <1>1, <1>n, <3>2 DEF Matches
  <2>3. ASSUME NEW s \in aaSessions', Live(s)' PROVE Matches(s)'
    <3>1. CASE s = n
      BY Zenon, <1>u, <2>2, <3>1 DEF Matches
    <3>2. CASE s \in aaSessions
      <4>1. Live(s) /\ ~ToDrop(aaReq[w], s)
        BY Zenon, <1>u, <2>3 DEF Live, ToDrop
      <4>2. Matches(s)
        BY Zenon, <1>8, <3>2, <4>1, AloneSessions
      <4>3. QED
        BY Zenon, <1>u, <4>2 DEF Matches
    <3>3. QED
      BY Zenon, <1>w, <3>1, <3>2
  <2>4. Administrators' # {}
    BY Zenon, <1>8, <1>u DEF AloneOK, Administrators
  <2>5. QED
    BY Zenon, <1>2, <1>3, <1>8, <1>t, <2>1, <2>3, <2>4, AloneStep
<1>9. QED
  BY Zenon, <1>2, <1>3, <1>5, <1>6, <1>7, <1>8, <1>t, <1>u, RequestStep

\* A logout or the removal of another session of one's own.
LEMMA LogoutKeeps ==
  ASSUME AccountInv, NEW w \in AaWorker, AaBegin(w), aaSessions' \subseteq aaSessions,
         UNCHANGED <<aaReq, aaUsers, aaRoles, aaFailures, aaNow>>
  PROVE  AccountInv'
<1>t. AccountTypes /\ RequestTyped(aaReq[w])
  BY Zenon, AccountTyped
<1>1. OnlyMoves(w)
  BY Zenon, <1>t DEF OnlyMoves, AccountTypes
<1>2. RequestTyped(aaReq[w])' /\ Knows(aaReq[w])'
  BY Zenon, <1>t DEF AaBegin, RequestTyped, Knows
<1>3. QED
  BY Zenon, <1>1, <1>2, FailuresKept, QuietStep

\* An account is written anew and keeps its role and its status.
LEMMA HashWritten ==
  ASSUME AccountInv, NEW w \in AaWorker, NEW u \in AaUser, aaUsers[u] \in UserRow,
         NEW m \in UserRow, m.role = aaUsers[u].role, m.status = aaUsers[u].status,
         aaUsers' = [aaUsers EXCEPT ![u] = m],
         UNCHANGED <<aaRoles, aaSessions, aaFailures, aaNow>>, OnlyMoves(w),
         \/ AaBegin(w)
         \/ UNCHANGED <<aaOverlap, aaRequests>> /\ aaReq[w].at # "idle",
         aaReq[w].at \notin {"drop-user", "drop-role"},
         RequestTyped(aaReq[w])', AloneOK => Knows(aaReq[w])'
  PROVE  AccountInv'
<1>t. /\ AccountTypes /\ TokensOK /\ aaUsers \in [AaUser -> {NoUser} \cup UserRow]
      /\ aaSessions \subseteq SessionRow /\ aaRoles \in [AaRole -> {NoRole} \cup RoleRow]
  BY Zenon, AccountTyped
<1>1. /\ aaUsers' \in [AaUser -> {NoUser} \cup UserRow]
      /\ \A x \in AaUser : aaUsers'[x] \in UserRow =>
           /\ aaUsers[x] \in UserRow /\ aaUsers'[x].role = aaUsers[x].role
           /\ aaUsers'[x].status = aaUsers[x].status
      /\ \A x \in AaUser : aaUsers[x] \in UserRow =>
           /\ aaUsers'[x] \in UserRow /\ aaUsers'[x].role = aaUsers[x].role
           /\ aaUsers'[x].status = aaUsers[x].status
  BY Zenon, <1>t
<1>2. aaFailures' \in [AaUser -> FailureRow] /\ LocksOK'
  BY Zenon, FailuresKept
<1>3. TokensOK'
  BY Zenon, <1>t, FewerTokens DEF AaBegin
<1>4. ASSUME AloneOK, \A v \in AaWorker \ {w} : aaReq[v].at = "idle" PROVE AloneOK'
  <2>1. \A x \in AaUser : aaUsers'[x] \in UserRow =>
         /\ aaRoles'[aaUsers'[x].role] \in RoleRow
         /\ aaUsers'[x].status = "active" => aaRoles'[aaUsers'[x].role].status = "active"
    <3>1. aaRoles' = aaRoles
      BY Zenon
    <3>2. \A x \in AaUser : aaUsers[x] \in UserRow =>
           /\ aaRoles[aaUsers[x].role] \in RoleRow
           /\ aaUsers[x].status = "active" => aaRoles[aaUsers[x].role].status = "active"
      BY Zenon, <1>4 DEF AloneOK
    <3>3. QED
      BY Zenon, <1>1, <3>1, <3>2
  <2>2. ASSUME NEW t \in aaSessions', Live(t)' PROVE Matches(t)'
    <3>1. t \in aaSessions /\ Live(t) /\ ~ToDrop(aaReq[w], t) /\ t.user \in AaUser
      BY Zenon, <1>t, <2>2 DEF Live, ToDrop, SessionRow
    <3>2. Matches(t)
      BY Zenon, <1>4, <3>1, AloneSessions
    <3>3. QED
      BY Zenon, <1>1, <3>1, <3>2 DEF Matches
  <2>3. Administrators' # {}
    <3>1. PICK x \in AaUser : /\ aaUsers[x].there /\ aaUsers[x].role = "administrator"
                              /\ aaUsers[x].status = "active"
      BY Zenon, <1>4 DEF AloneOK, Administrators
    <3>2. aaUsers[x] \in UserRow
      BY <1>t, <3>1 DEF NoUser
    <3>3. /\ aaUsers'[x].role = "administrator" /\ aaUsers'[x].status = "active"
          /\ aaUsers'[x] \in UserRow
      BY Zenon, <1>1, <3>1, <3>2
    <3>4. aaUsers'[x].there
      BY Zenon, <3>3 DEF UserRow
    <3>5. QED
      BY Zenon, <3>3, <3>4 DEF Administrators
  <2>4. QED
    BY Zenon, <1>4, <1>t, <2>1, <2>2, <2>3, AloneStep
<1>5. QED
  BY Zenon, <1>1, <1>2, <1>3, <1>4, <1>t, RequestStep

\* A password is changed: the account keeps its role and its status.
LEMMA PasswordWriteKeeps ==
  ASSUME AccountInv, NEW w \in AaWorker, NEW s \in aaSessions, PasswordWrite(w, s)
  PROVE  AccountInv'
<1>t. /\ AccountTypes /\ aaUsers \in [AaUser -> {NoUser} \cup UserRow]
      /\ aaSessions \subseteq SessionRow
  BY Zenon, AccountTyped
<1>u. UNCHANGED <<aaRoles, aaSessions, aaFailures, aaNow>> /\ AaBegin(w)
  BY Zenon DEF PasswordWrite
<1> DEFINE u == s.user
           row == aaUsers[u]
           q == [at |-> "password", user |-> u, token |-> s.token]
           m == [row EXCEPT !.must = FALSE, !.legacy = FALSE]
<1>1. u \in AaUser
  BY Zenon, <1>t DEF SessionRow
<1>2. CASE UNCHANGED <<aaUsers, aaReq>>
  BY Zenon, <1>2, <1>u, LogoutKeeps
<1>3. CASE /\ row.there /\ row.status = "active" /\ aaUsers' = [aaUsers EXCEPT ![u] = m]
           /\ AaWait(w, q)
  <2>1. row \in UserRow
    BY <1>1, <1>3, <1>t DEF NoUser
  <2>2. m \in UserRow /\ m.role = row.role /\ m.status = row.status
    BY Zenon, <2>1 DEF UserRow
  <2> HIDE DEF m
  <2>3. OnlyMoves(w) /\ aaReq'[w] = q
    BY Zenon, <1>3, <1>t, Waited
  <2>4. RequestTyped(aaReq[w])' /\ Knows(aaReq[w])'
    BY <1>1, <2>3 DEF RequestTyped, AaPlaces, Knows
  <2>5. aaReq[w].at \notin {"drop-user", "drop-role"}
    BY Zenon, <1>u DEF AaBegin
  <2>6. QED
    BY Zenon, <1>1, <1>3, <1>u, <2>1, <2>2, <2>3, <2>4, <2>5, HashWritten
<1>4. QED
  BY Zenon, <1>2, <1>3 DEF PasswordWrite

\* A hash is upgraded in the middle of a login, which still knows the role.
LEMMA LoginUpgradeKeeps ==
  ASSUME AccountInv, NEW w \in AaWorker, NEW stored, LoginUpgrade(w, stored)
  PROVE  AccountInv'
<1>t. /\ AccountTypes /\ RequestTyped(aaReq[w]) /\ aaNow \in Nat
      /\ aaUsers \in [AaUser -> {NoUser} \cup UserRow]
  BY Zenon, AccountTyped
<1>u. /\ UNCHANGED <<aaRoles, aaSessions, aaFailures, aaOverlap, aaRequests, aaNow>>
      /\ aaReq[w].at = "login-upgrade"
  BY Zenon DEF LoginUpgrade, AaStep
<1> DEFINE r == aaReq[w]
           row == aaUsers[r.user]
           q == [at |-> "login-role", user |-> r.user, row |-> r.row, now |-> r.now]
           m == [row EXCEPT !.must = FALSE, !.legacy = FALSE]
<1>1. r.user \in AaUser /\ r.now \in Nat /\ r.now <= aaNow /\ r.row \in UserRow
  BY Zenon, <1>t, <1>u DEF RequestTyped
<1>w. AaWait(w, q)
  BY Zenon DEF LoginUpgrade
<1>2. OnlyMoves(w) /\ aaReq'[w] = q
  BY Zenon, <1>t, <1>w, Waited
<1>3. /\ aaReq'[w].at = "login-role" /\ aaReq'[w].user = r.user
      /\ aaReq'[w].row = r.row /\ aaReq'[w].now = r.now
  BY <1>2
<1>4. RequestTyped(aaReq[w])'
  BY <1>1, <1>3, <1>u DEF RequestTyped, AaPlaces
<1>5. ASSUME AloneOK
      PROVE  row \in UserRow /\ row.role = r.row.role /\ row.status = "active"
  BY Zenon, <1>5, <1>u DEF AloneOK, Knows
<1>6. CASE aaUsers' = aaUsers
  <2>1. ASSUME AloneOK PROVE Knows(aaReq[w])'
    BY Zenon, <1>3, <1>5, <1>6, <2>1 DEF Knows
  <2>2. QED
    BY Zenon, <1>2, <1>4, <1>6, <1>u, <2>1, FailuresKept, QuietStep DEF AccountInv
<1>7. CASE row.there /\ aaUsers' = [aaUsers EXCEPT ![r.user] = m]
  <2>1. row \in UserRow
    BY <1>1, <1>7, <1>t DEF NoUser
  <2>2. m \in UserRow /\ m.role = row.role /\ m.status = row.status
    BY Zenon, <2>1 DEF UserRow
  <2> HIDE DEF m
  <2>3. aaUsers'[r.user] = m
    BY Zenon, <1>1, <1>7, <1>t
  <2>4. ASSUME AloneOK PROVE Knows(aaReq[w])'
    BY Zenon, <1>3, <1>5, <2>2, <2>3, <2>4 DEF Knows
  <2>5. QED
    BY Zenon, <1>1, <1>2, <1>4, <1>7, <1>u, <2>1, <2>2, <2>4, HashWritten
<1>8. QED
  BY Zenon, <1>6, <1>7 DEF LoginUpgrade

\* The end of a password change: the account keeps the session that asked.
LEMMA PasswordSessionsKeeps ==
  ASSUME AccountInv, NEW w \in AaWorker, PasswordSessions(w)
  PROVE  AccountInv'
<1>t. /\ AccountTypes /\ TokensOK /\ aaUsers \in [AaUser -> {NoUser} \cup UserRow]
      /\ aaSessions \subseteq SessionRow /\ aaRoles \in [AaRole -> {NoRole} \cup RoleRow]
  BY Zenon, AccountTyped
<1>u. /\ UNCHANGED <<aaUsers, aaRoles, aaFailures, aaOverlap, aaRequests, aaNow>>
      /\ aaReq[w].at = "password" /\ AaWait(w, AaIdle)
  BY Zenon DEF PasswordSessions, AaStep, AaDone
<1> DEFINE user == aaReq[w].user
           token == aaReq[w].token
           Kept(t) == IF t.token = token THEN [t EXCEPT !.must = FALSE] ELSE t
<1>1. aaSessions' = {Kept(t) : t \in {t \in aaSessions : Live(t) /\ (t.user # user \/ t.token = token)}}
  BY Zenon DEF PasswordSessions, KeptAfterPassword
<1>2. \A t \in aaSessions : /\ Kept(t) \in SessionRow /\ Kept(t).token = t.token
                            /\ Kept(t).user = t.user /\ Kept(t).role = t.role
                            /\ Kept(t).permissions = t.permissions /\ Kept(t).expires = t.expires
  BY Zenon, <1>t DEF SessionRow
<1>3. \A s \in aaSessions' : \E t \in aaSessions : Live(t) /\ s = Kept(t)
  BY Zenon, <1>1
<1> HIDE DEF Kept, user, token
<1>4. aaSessions' \subseteq SessionRow
  BY Zenon, <1>2, <1>3
<1>5. OnlyMoves(w) /\ aaReq'[w] = AaIdle
  BY Zenon, <1>t, <1>u, Waited
<1>6. RequestTyped(aaReq[w])' /\ Knows(aaReq[w])'
  BY Zenon, <1>5, IdleKnows
<1>7. aaFailures' \in [AaUser -> FailureRow] /\ LocksOK'
  BY Zenon, <1>u, FailuresKept
<1>8. TokensOK'
  <2>1. \A s \in aaSessions' : \E t \in aaSessions : s.token = t.token
    BY Zenon, <1>2, <1>3
  <2>2. ASSUME NEW s \in aaSessions', NEW x \in aaSessions', s.token = x.token PROVE s = x
    <3>1. PICK t \in aaSessions : s = Kept(t)
      BY Zenon, <1>3
    <3>2. PICK y \in aaSessions : x = Kept(y)
      BY Zenon, <1>3
    <3>3. t.token = y.token
      BY Zenon, <1>2, <2>2, <3>1, <3>2
    <3>4. t = y
      BY Zenon, <1>t, <3>3 DEF TokensOK
    <3>5. QED
      BY Zenon, <3>1, <3>2, <3>4
  <2>3. QED
    BY Zenon, <1>5, <1>t, <1>u, <2>1, <2>2, TokensKept
<1>9. ASSUME AloneOK, \A v \in AaWorker \ {w} : aaReq[v].at = "idle" PROVE AloneOK'
  <2>1. \A x \in AaUser : aaUsers'[x] \in UserRow =>
           /\ aaRoles'[aaUsers'[x].role] \in RoleRow
           /\ aaUsers'[x].status = "active" => aaRoles'[aaUsers'[x].role].status = "active"
    BY Zenon, <1>9, <1>u DEF AloneOK
  <2>2. ASSUME NEW s \in aaSessions' PROVE Matches(s)'
    <3>1. PICK t \in aaSessions : Live(t) /\ s = Kept(t)
      BY Zenon, <1>3
    <3>2. ~ToDrop(aaReq[w], t)
      BY Zenon, <1>u DEF ToDrop
    <3>3. Matches(t)
      BY Zenon, <1>9, <3>1, <3>2, AloneSessions
    <3>4. s.user = t.user /\ s.role = t.role /\ s.permissions = t.permissions
      BY Zenon, <1>2, <3>1
    <3>5. QED
      BY Zenon, <1>u, <3>3, <3>4 DEF Matches
  <2>3. Administrators' # {}
    BY Zenon, <1>9, <1>u DEF AloneOK, Administrators
  <2>4. QED
    BY Zenon, <1>5, <1>6, <1>9, <1>t, <2>1, <2>2, <2>3, AloneStep
<1>10. QED
  BY Zenon, <1>4, <1>5, <1>6, <1>7, <1>8, <1>9, <1>t, <1>u, RequestStep

\* A request for a change of accounts or roles begins, with what it has read.
LEMMA CheckKeeps ==
  ASSUME AccountInv, NEW w \in AaWorker, AaBegin(w), OnlyMoves(w),
         UNCHANGED <<aaUsers, aaRoles, aaSessions, aaFailures, aaNow>>,
         RequestTyped(aaReq[w])',
         AloneOK /\ (\A v \in AaWorker : aaReq[v].at = "idle") => Knows(aaReq[w])'
  PROVE  AccountInv'
<1>1. AccountTypes
  BY Zenon, AccountTyped
<1>2. ~aaOverlap' => ~aaOverlap /\ \A v \in AaWorker : aaReq[v].at = "idle"
  BY Zenon, <1>1, Begun
<1>3. ~aaOverlap' => Knows(aaReq[w])'
  BY Zenon, <1>2 DEF AccountInv
<1>4. QED
  BY Zenon, <1>3, FailuresKept, QuietStep

\* write_admin_user_response up to the write.
LEMMA SaveUserCheckKeeps ==
  ASSUME AccountInv, NEW w \in AaWorker, NEW s \in aaSessions, NEW u \in AaUser,
         NEW role \in AaRole, NEW status \in AaStatus, NEW password \in BOOLEAN,
         SaveUserCheck(w, s, u, role, status, password)
  PROVE  AccountInv'
<1>t. /\ AccountTypes /\ aaUsers \in [AaUser -> {NoUser} \cup UserRow]
      /\ aaSessions \subseteq SessionRow /\ aaRoles \in [AaRole -> {NoRole} \cup RoleRow]
  BY Zenon, AccountTyped
<1> DEFINE row == aaUsers[u]
           stale == StaleSessions(s.user, row, u, role, status, password)
           q == [at |-> "save-user", user |-> u, role |-> role, status |-> status,
                 password |-> password, stale |-> stale]
<1>u. /\ UNCHANGED <<aaUsers, aaRoles, aaSessions, aaFailures, aaNow>> /\ AaBegin(w)
      /\ Live(s) /\ AaWait(w, q)
      /\ aaRoles[role].there /\ aaRoles[role].status = "active"
      /\ row.there => /\ u = s.user => status = "active" /\ row.role = role
                      /\ (role # "administrator" \/ status # "active") => ~LastOfAdministrators(row)
  BY Zenon DEF SaveUserCheck, Authorized
<1>1. stale \in BOOLEAN
  BY Zenon DEF StaleSessions
<1>2. row \in UserRow => row.there = TRUE
  BY Zenon DEF UserRow
<1>3. ASSUME row \in UserRow, ~stale
      PROVE  u = s.user \/ (row.role = role /\ row.status = status)
  BY Zenon, <1>2, <1>3 DEF StaleSessions
<1> HIDE DEF stale
<1>4. OnlyMoves(w) /\ aaReq'[w] = q
  BY Zenon, <1>t, <1>u, Waited
<1>5. RequestTyped(aaReq[w])'
  BY <1>1, <1>4 DEF RequestTyped, AaPlaces
<1>6. ASSUME AloneOK, \A v \in AaWorker : aaReq[v].at = "idle" PROVE Knows(aaReq[w])'
  <2>1. aaRoles[role] \in RoleRow
    <3>1. ~NoRole.there
      BY Zenon DEF NoRole
    <3>2. aaRoles[role] \in {NoRole} \cup RoleRow
      BY <1>t, Zenon
    <3>3. QED
      BY <1>u, <3>1, <3>2, Zenon
  <2>2. ASSUME row \in UserRow, ~stale PROVE row.role = role /\ row.status = status
    <3>1. CASE u = s.user
      <4>1. ~ToDrop(aaReq[w], s)
        BY Zenon, <1>6 DEF ToDrop
      <4>2. Matches(s)
        BY Zenon, <1>6, <1>u, <4>1, AloneSessions
      <4>3. row.status = "active"
        BY Zenon, <3>1, <4>2 DEF Matches
      <4>4. QED
        BY Zenon, <1>2, <1>u, <2>2, <3>1, <4>3
    <3>2. QED
      BY Zenon, <1>3, <2>2, <3>1
  <2>3. Administrators' = Administrators
    BY Zenon, <1>u DEF Administrators
  <2>4. ASSUME row \in UserRow, role # "administrator" \/ status # "active"
        PROVE  ~LastOfAdministrators(aaUsers[u])'
    BY Zenon, <1>2, <1>u, <2>3, <2>4 DEF LastOfAdministrators
  <2>5. /\ aaReq'[w].at = "save-user" /\ aaReq'[w].user = u /\ aaReq'[w].role = role
        /\ aaReq'[w].status = status /\ aaReq'[w].stale = stale
    BY <1>4
  <2>6. aaUsers'[u] = row /\ aaRoles'[role] = aaRoles[role] /\ aaRoles[role].status = "active"
    BY <1>u, Zenon
  <2> HIDE DEF q
  <2>7. QED
    BY <2>1, <2>2, <2>4, <2>5, <2>6 DEF Knows
<1>7. QED
  BY Zenon, <1>4, <1>5, <1>6, <1>u, CheckKeeps

\* delete_admin_user_response up to the write.
LEMMA DeleteUserCheckKeeps ==
  ASSUME AccountInv, NEW w \in AaWorker, NEW s \in aaSessions, NEW u \in AaUser,
         DeleteUserCheck(w, s, u)
  PROVE  AccountInv'
<1>t. AccountTypes
  BY Zenon, AccountTyped
<1> DEFINE q == [at |-> "delete-user", user |-> u]
<1>u. /\ UNCHANGED <<aaUsers, aaRoles, aaSessions, aaFailures, aaNow>> /\ AaBegin(w)
      /\ AaWait(w, q) /\ ~LastOfAdministrators(aaUsers[u])
  BY Zenon DEF DeleteUserCheck
<1>1. OnlyMoves(w) /\ aaReq'[w] = q
  BY Zenon, <1>t, <1>u, Waited
<1>2. RequestTyped(aaReq[w])'
  BY <1>1 DEF RequestTyped, AaPlaces
<1>3. Administrators' = Administrators
  BY Zenon, <1>u DEF Administrators
<1>4. ~LastOfAdministrators(aaUsers[u])'
  BY Zenon, <1>3, <1>u DEF LastOfAdministrators
<1>5. Knows(aaReq[w])'
  BY <1>1, <1>4 DEF Knows
<1>6. QED
  BY Zenon, <1>1, <1>2, <1>5, <1>u, CheckKeeps

\* write_admin_role_response up to the write.
LEMMA SaveRoleCheckKeeps ==
  ASSUME AccountInv, NEW w \in AaWorker, NEW s \in aaSessions, NEW role \in AaRole,
         NEW permissions \in AaPermissions, NEW status \in AaStatus,
         SaveRoleCheck(w, s, role, permissions, status)
  PROVE  AccountInv'
<1>t. AccountTypes
  BY Zenon, AccountTyped
<1> DEFINE row == aaRoles[role]
           stale == row.there /\ (row.status # status \/ row.permissions # permissions)
           q == [at |-> "save-role", role |-> role, permissions |-> permissions,
                 status |-> status, stale |-> stale]
<1>u. /\ UNCHANGED <<aaUsers, aaRoles, aaSessions, aaFailures, aaNow>> /\ AaBegin(w)
      /\ AaWait(w, q) /\ (status # "active" => UsersOf(role, {"active"}) = {})
  BY Zenon DEF SaveRoleCheck
<1>1. stale \in BOOLEAN
  BY Zenon
<1>2. row \in RoleRow /\ ~stale => row.permissions = permissions
  BY Zenon DEF RoleRow
<1> HIDE DEF stale
<1>3. OnlyMoves(w) /\ aaReq'[w] = q
  BY Zenon, <1>t, <1>u, Waited
<1>4. permissions \in AaGrants
  BY Zenon DEF AaGrants
<1>5. RequestTyped(aaReq[w])'
  BY <1>1, <1>3, <1>4 DEF RequestTyped, AaPlaces
<1>6. UsersOf(role, {"active"})' = UsersOf(role, {"active"})
  BY Zenon, <1>u DEF UsersOf
<1>7. Knows(aaReq[w])'
  <2>1. /\ aaReq'[w].at = "save-role" /\ aaReq'[w].role = role /\ aaReq'[w].stale = stale
        /\ aaReq'[w].permissions = permissions /\ aaReq'[w].status = status
    BY <1>3
  <2>2. aaRoles'[role] = row /\ (status # "active" => UsersOf(role, {"active"})' = {})
    BY <1>6, <1>u, Zenon
  <2> HIDE DEF q, row
  <2>3. QED
    BY <1>2, <2>1, <2>2 DEF Knows
<1>8. QED
  BY Zenon, <1>3, <1>5, <1>7, <1>u, CheckKeeps

\* delete_admin_role_response up to the write.
LEMMA DeleteRoleCheckKeeps ==
  ASSUME AccountInv, NEW w \in AaWorker, NEW s \in aaSessions, NEW role \in AaRole,
         DeleteRoleCheck(w, s, role)
  PROVE  AccountInv'
<1>t. AccountTypes
  BY Zenon, AccountTyped
<1> DEFINE q == [at |-> "delete-role", role |-> role]
<1>u. /\ UNCHANGED <<aaUsers, aaRoles, aaSessions, aaFailures, aaNow>> /\ AaBegin(w)
      /\ AaWait(w, q) /\ Deletable(role)
  BY Zenon DEF DeleteRoleCheck
<1>1. OnlyMoves(w) /\ aaReq'[w] = q
  BY Zenon, <1>t, <1>u, Waited
<1>2. RequestTyped(aaReq[w])'
  BY <1>1 DEF RequestTyped, AaPlaces
<1>3. Deletable(role)'
  BY Zenon, <1>u DEF Deletable, UsersOf
<1>4. Knows(aaReq[w])'
  BY <1>1, <1>3 DEF Knows
<1>5. QED
  BY Zenon, <1>1, <1>2, <1>4, <1>u, CheckKeeps

\* A write to one account that is not the last active administrator's, or
\* leaves that one an active administrator, leaves an administrator.
LEMMA AdministratorKept ==
  ASSUME AloneOK, aaUsers \in [AaUser -> {NoUser} \cup UserRow], NEW u \in AaUser,
         NEW n \in {NoUser} \cup UserRow, aaUsers' = [aaUsers EXCEPT ![u] = n],
         \/ aaUsers[u] \in UserRow => ~LastOfAdministrators(aaUsers[u])
         \/ n \in UserRow /\ n.role = "administrator" /\ n.status = "active"
  PROVE  Administrators' # {}
<1>1. \A x \in Administrators : x # u => x \in Administrators'
  BY Zenon DEF Administrators
<1>2. CASE n \in UserRow /\ n.role = "administrator" /\ n.status = "active"
  <2>1. n.there
    BY Zenon, <1>2 DEF UserRow
  <2>2. u \in Administrators'
    BY Zenon, <1>2, <2>1 DEF Administrators
  <2>3. QED
    BY Zenon, <2>2
<1>3. CASE aaUsers[u] \in UserRow => ~LastOfAdministrators(aaUsers[u])
  <2>1. PICK x \in Administrators : TRUE
    BY Zenon DEF AloneOK
  <2>2. CASE x # u
    BY Zenon, <1>1, <2>2
  <2>3. CASE x = u
    <3>1. aaUsers[u] \in UserRow /\ aaUsers[u].role = "administrator" /\ aaUsers[u].status = "active"
      BY <2>3 DEF Administrators, NoUser
    <3>2. PICK y \in Administrators, z \in Administrators : y # z
      BY Zenon, <1>3, <3>1 DEF LastOfAdministrators
    <3>3. y # u \/ z # u
      BY Zenon, <3>2
    <3>4. QED
      BY Zenon, <1>1, <3>3
  <2>4. QED
    BY Zenon, <2>2, <2>3
<1>4. QED
  BY Zenon, <1>2, <1>3

\* The sessions of the other accounts, when one account is written.
LEMMA OtherSessionsMatch ==
  ASSUME AccountTypes, AloneOK, NEW w \in AaWorker, \A v \in AaWorker \ {w} : aaReq[v].at = "idle",
         aaReq[w].at \notin {"drop-user", "drop-role"},
         NEW u \in AaUser, NEW n, aaUsers' = [aaUsers EXCEPT ![u] = n],
         UNCHANGED <<aaRoles, aaSessions, aaNow>>, NEW s \in aaSessions', Live(s)'
  PROVE  Matches(s) /\ (s.user # u => Matches(s)')
<1>1. s \in aaSessions /\ Live(s)
  BY Zenon DEF Live
<1>2. ~ToDrop(aaReq[w], s)
  BY Zenon DEF ToDrop
<1>3. Matches(s)
  BY Zenon, <1>1, <1>2, AloneSessions
<1>4. s.user \in AaUser /\ aaUsers \in [AaUser -> {NoUser} \cup UserRow]
  BY Zenon, <1>1 DEF AccountTypes, SessionRow
<1>5. s.user # u => Matches(s)'
  BY Zenon, <1>3, <1>4 DEF Matches
<1>6. QED
  BY Zenon, <1>3, <1>5

\* save_admin_user.
LEMMA SaveUserWriteKeeps ==
  ASSUME AccountInv, NEW w \in AaWorker, SaveUserWrite(w)
  PROVE  AccountInv'
<1>t. /\ AccountTypes /\ TokensOK /\ aaUsers \in [AaUser -> {NoUser} \cup UserRow]
      /\ aaSessions \subseteq SessionRow /\ aaRoles \in [AaRole -> {NoRole} \cup RoleRow]
      /\ RequestTyped(aaReq[w])
  BY Zenon, AccountTyped
<1>u. /\ UNCHANGED <<aaRoles, aaSessions, aaFailures, aaOverlap, aaRequests, aaNow>>
      /\ aaReq[w].at = "save-user"
  BY Zenon DEF SaveUserWrite, AaStep
<1> DEFINE r == aaReq[w]
           row == aaUsers[r.user]
           m == IF r.password THEN TRUE ELSE row.must
           l == IF r.password THEN FALSE ELSE row.legacy
           n == User(r.role, r.status, m, l)
           q == IF r.stale THEN [at |-> "drop-user", user |-> r.user] ELSE AaIdle
<1>1. /\ r.user \in AaUser /\ r.role \in AaRole /\ r.status \in AaStatus /\ r.stale \in BOOLEAN
      /\ r.password \in BOOLEAN
  BY Zenon, <1>t, <1>u DEF RequestTyped
<1>2. CASE AaDone(w) /\ UNCHANGED aaUsers
  <2>1. OnlyMoves(w) /\ aaReq'[w] = AaIdle
    BY Zenon, <1>2, <1>t, Waited DEF AaDone
  <2>2. QED
    BY Zenon, <1>2, <1>u, <2>1, IdleKnows, FailuresKept, QuietStep
<1>3. CASE /\ row.there \/ r.password
           /\ aaUsers' = [aaUsers EXCEPT ![r.user] = n] /\ AaWait(w, q)
  <2>1. m \in BOOLEAN /\ l \in BOOLEAN
    <3>1. row \in UserRow => row.must \in BOOLEAN /\ row.legacy \in BOOLEAN
      BY Zenon DEF UserRow
    <3>2. row.there => row \in UserRow
      BY <1>1, <1>t DEF NoUser
    <3>3. r.password \/ (row.must \in BOOLEAN /\ row.legacy \in BOOLEAN)
      BY Zenon, <1>3, <3>1, <3>2
    <3>4. QED
      BY Zenon, <3>3
  <2> HIDE DEF m, l
  <2>2. n \in UserRow /\ n.role = r.role /\ n.status = r.status
    BY Zenon, <1>1, <2>1 DEF User, UserRow
  <2> HIDE DEF n
  <2>3. aaUsers' \in [AaUser -> {NoUser} \cup UserRow] /\ aaUsers'[r.user] = n
    BY Zenon, <1>1, <1>3, <1>t, <2>2
  <2>4. OnlyMoves(w) /\ aaReq'[w] = q
    BY Zenon, <1>3, <1>t, Waited
  <2>5. RequestTyped(aaReq[w])' /\ Knows(aaReq[w])'
    <3>1. CASE r.stale
      BY <1>1, <2>4, <3>1 DEF RequestTyped, AaPlaces, Knows
    <3>2. CASE ~r.stale
      BY Zenon, <2>4, <3>2, IdleKnows
    <3>3. QED
      BY Zenon, <1>1, <3>1, <3>2
  <2>6. aaFailures' \in [AaUser -> FailureRow] /\ LocksOK'
    BY Zenon, <1>u, FailuresKept
  <2>7. TokensOK'
    BY Zenon, <1>t, <1>u, <2>4, FewerTokens
  <2>8. ASSUME AloneOK, \A v \in AaWorker \ {w} : aaReq[v].at = "idle" PROVE AloneOK'
    <3>1. Knows(r)
      BY Zenon, <2>8 DEF AloneOK
    <3>2. /\ aaRoles[r.role] \in RoleRow /\ aaRoles[r.role].status = "active"
          /\ row \in UserRow =>
               /\ r.role # "administrator" \/ r.status # "active" => ~LastOfAdministrators(row)
               /\ ~r.stale => row.role = r.role /\ row.status = r.status
      BY Zenon, <1>u, <3>1 DEF Knows
    <3>3. \A x \in AaUser : aaUsers'[x] \in UserRow =>
           /\ aaRoles'[aaUsers'[x].role] \in RoleRow
           /\ aaUsers'[x].status = "active" => aaRoles'[aaUsers'[x].role].status = "active"
      BY Zenon, <1>1, <1>3, <1>t, <1>u, <2>2, <2>8, <3>2 DEF AloneOK
    <3>4. ASSUME NEW s \in aaSessions', Live(s)' PROVE Matches(s)' \/ ToDrop(aaReq'[w], s)
      <4>1. Matches(s) /\ (s.user # r.user => Matches(s)')
        BY Zenon, <1>1, <1>3, <1>t, <1>u, <2>8, <3>4, OtherSessionsMatch
      <4>2. CASE s.user = r.user /\ r.stale
        BY <2>4, <4>2 DEF ToDrop
      <4>3. CASE s.user = r.user /\ ~r.stale
        <5>1. row \in UserRow /\ row.status = "active" /\ row.role = s.role
          BY Zenon, <4>1, <4>3 DEF Matches
        <5>2. n.status = "active" /\ n.role = s.role
          BY Zenon, <2>2, <3>2, <4>3, <5>1
        <5>3. QED
          BY Zenon, <1>u, <2>2, <2>3, <4>1, <4>3, <5>2 DEF Matches
      <4>4. QED
        BY Zenon, <1>1, <4>1, <4>2, <4>3
    <3>5. Administrators' # {}
      <4>1. \/ row \in UserRow => ~LastOfAdministrators(row)
            \/ n \in UserRow /\ n.role = "administrator" /\ n.status = "active"
        BY Zenon, <2>2, <3>2
      <4>2. QED
        BY Zenon, <1>1, <1>3, <1>t, <2>2, <2>8, <4>1, AdministratorKept
    <3>6. QED
      BY Zenon, <1>t, <2>4, <2>5, <2>8, <3>3, <3>4, <3>5, AloneStep
  <2>9. QED
    BY Zenon, <1>t, <1>u, <2>3, <2>4, <2>5, <2>6, <2>7, <2>8, RequestStep
<1>4. QED
  BY Zenon, <1>2, <1>3 DEF SaveUserWrite

\* The row of a deleted account goes, and its sessions are next.
LEMMA DeleteUserWriteKeeps ==
  ASSUME AccountInv, NEW w \in AaWorker, DeleteUserWrite(w)
  PROVE  AccountInv'
<1>t. /\ AccountTypes /\ TokensOK /\ aaUsers \in [AaUser -> {NoUser} \cup UserRow]
      /\ aaSessions \subseteq SessionRow /\ aaRoles \in [AaRole -> {NoRole} \cup RoleRow]
      /\ RequestTyped(aaReq[w])
  BY Zenon, AccountTyped
<1> DEFINE u == aaReq[w].user
           q == IF aaUsers[u].there THEN [at |-> "drop-user", user |-> u] ELSE AaIdle
<1>u. /\ UNCHANGED <<aaRoles, aaSessions, aaFailures, aaOverlap, aaRequests, aaNow>>
      /\ aaReq[w].at = "delete-user" /\ AaWait(w, q)
      /\ aaUsers' = [aaUsers EXCEPT ![u] = NoUser]
  BY Zenon DEF DeleteUserWrite, AaStep
<1>1. u \in AaUser
  BY Zenon, <1>t, <1>u DEF RequestTyped
<1> HIDE DEF u
<1>2. aaUsers' \in [AaUser -> {NoUser} \cup UserRow] /\ NoUser \notin UserRow
  BY Zenon, <1>1, <1>t, <1>u DEF NoUser, UserRow
<1>3. OnlyMoves(w) /\ aaReq'[w] = q
  BY Zenon, <1>t, <1>u, Waited
<1>4. \/ q = AaIdle
      \/ q = [at |-> "drop-user", user |-> u]
  BY Zenon
<1>5. RequestTyped(aaReq[w])' /\ Knows(aaReq[w])'
  <2>1. CASE q = AaIdle
    BY Zenon, <1>3, <2>1, IdleKnows
  <2>2. CASE q = [at |-> "drop-user", user |-> u]
    <3>1. aaReq'[w].at = "drop-user" /\ aaReq'[w].user = u
      BY <1>3, <2>2
    <3>2. QED
      BY <1>1, <3>1, NothingToKnow DEF RequestTyped, AaPlaces
  <2>3. QED
    BY Zenon, <1>4, <2>1, <2>2
<1>6. aaFailures' \in [AaUser -> FailureRow] /\ LocksOK'
  BY Zenon, <1>u, FailuresKept
<1>7. TokensOK'
  BY Zenon, <1>3, <1>t, <1>u, FewerTokens
<1>8. ASSUME AloneOK, \A v \in AaWorker \ {w} : aaReq[v].at = "idle" PROVE AloneOK'
  <2>1. Knows(aaReq[w])
    BY Zenon, <1>8 DEF AloneOK
  <2>2. aaUsers[u] \in UserRow => ~LastOfAdministrators(aaUsers[u])
    BY Zenon, <1>u, <2>1 DEF Knows, u
  <2>3. \A x \in AaUser : aaUsers'[x] \in UserRow =>
           /\ aaRoles'[aaUsers'[x].role] \in RoleRow
           /\ aaUsers'[x].status = "active" => aaRoles'[aaUsers'[x].role].status = "active"
    BY Zenon, <1>1, <1>2, <1>8, <1>t, <1>u DEF AloneOK
  <2>4. ASSUME NEW s \in aaSessions', Live(s)' PROVE Matches(s)' \/ ToDrop(aaReq'[w], s)
    <3>1. Matches(s) /\ (s.user # u => Matches(s)')
      BY Zenon, <1>1, <1>8, <1>t, <1>u, <2>4, OtherSessionsMatch
    <3>2. CASE s.user = u
      <4>1. aaUsers[u].there = TRUE
        BY Zenon, <3>1, <3>2 DEF Matches, UserRow
      <4>2. aaReq'[w] = [at |-> "drop-user", user |-> u]
        BY Zenon, <1>3, <4>1
      <4>3. QED
        BY <3>2, <4>2 DEF ToDrop
    <3>3. QED
      BY Zenon, <3>1, <3>2
  <2>5. Administrators' # {}
    BY Zenon, <1>1, <1>8, <1>t, <1>u, <2>2, AdministratorKept
  <2>6. QED
    BY Zenon, <1>3, <1>5, <1>8, <1>t, <2>3, <2>4, <2>5, AloneStep
<1>9. QED
  BY Zenon, <1>2, <1>3, <1>5, <1>6, <1>7, <1>8, <1>t, <1>u, RequestStep

\* invalidate_user_sessions and invalidate_role_sessions: the sessions that do
\* not match are gone.
LEMMA DropKeeps ==
  ASSUME AccountInv, NEW w \in AaWorker, aaReq[w].at \in {"drop-user", "drop-role"},
         aaSessions' \subseteq {s \in aaSessions : Live(s) /\ ~ToDrop(aaReq[w], s)}, AaDone(w),
         UNCHANGED <<aaUsers, aaRoles, aaFailures, aaOverlap, aaRequests, aaNow>>
  PROVE  AccountInv'
<1>t. /\ AccountTypes /\ TokensOK /\ aaUsers \in [AaUser -> {NoUser} \cup UserRow]
      /\ aaSessions \subseteq SessionRow /\ aaRoles \in [AaRole -> {NoRole} \cup RoleRow]
  BY Zenon, AccountTyped
<1>1. OnlyMoves(w) /\ aaReq'[w] = AaIdle
  BY Zenon, <1>t, Waited DEF AaDone
<1>2. RequestTyped(aaReq[w])' /\ Knows(aaReq[w])'
  BY Zenon, <1>1, IdleKnows
<1>3. aaFailures' \in [AaUser -> FailureRow] /\ LocksOK'
  BY Zenon, FailuresKept
<1>4. TokensOK'
  BY Zenon, <1>1, <1>t, FewerTokens
<1>5. ASSUME AloneOK, \A v \in AaWorker \ {w} : aaReq[v].at = "idle" PROVE AloneOK'
  <2>1. \A x \in AaUser : aaUsers'[x] \in UserRow =>
           /\ aaRoles'[aaUsers'[x].role] \in RoleRow
           /\ aaUsers'[x].status = "active" => aaRoles'[aaUsers'[x].role].status = "active"
    BY Zenon, <1>5 DEF AloneOK
  <2>2. ASSUME NEW s \in aaSessions' PROVE Matches(s)'
    <3>1. s \in aaSessions /\ Live(s) /\ ~ToDrop(aaReq[w], s)
      BY Zenon
    <3>2. Matches(s)
      BY Zenon, <1>5, <3>1, AloneSessions
    <3>3. QED
      BY Zenon, <3>2 DEF Matches
  <2>3. Administrators' # {}
    BY Zenon, <1>5 DEF AloneOK, Administrators
  <2>4. QED
    BY Zenon, <1>1, <1>2, <1>5, <1>t, <2>1, <2>2, <2>3, AloneStep
<1>6. aaSessions' \subseteq SessionRow
  BY Zenon, <1>t
<1>7. QED
  BY Zenon, <1>1, <1>2, <1>3, <1>4, <1>5, <1>6, <1>t, RequestStep

\* A write to one role that leaves the accounts of the role with it, and says
\* which sessions are to be removed.
LEMMA RoleWritten ==
  ASSUME AccountInv, NEW w \in AaWorker, NEW role \in AaRole, NEW n \in {NoRole} \cup RoleRow,
         aaReq[w].at \in {"save-role", "delete-role"},
         aaRoles' = [aaRoles EXCEPT ![role] = n], OnlyMoves(w),
         UNCHANGED <<aaUsers, aaSessions, aaFailures, aaOverlap, aaRequests, aaNow>>,
         RequestTyped(aaReq[w])', Knows(aaReq[w])',
         Knows(aaReq[w]) =>
           /\ \A u \in AaUser : aaUsers[u] \in UserRow /\ aaUsers[u].role = role =>
                n \in RoleRow /\ (aaUsers[u].status = "active" => n.status = "active")
           /\ \A s \in aaSessions : Matches(s) /\ s.role = role =>
                (n \in RoleRow /\ n.permissions = s.permissions) \/ ToDrop(aaReq'[w], s)
  PROVE  AccountInv'
<1>t. /\ AccountTypes /\ TokensOK /\ aaUsers \in [AaUser -> {NoUser} \cup UserRow]
      /\ aaSessions \subseteq SessionRow /\ aaRoles \in [AaRole -> {NoRole} \cup RoleRow]
  BY Zenon, AccountTyped
<1>1. aaRoles' \in [AaRole -> {NoRole} \cup RoleRow]
  BY Zenon, <1>t
<1>2. aaFailures' \in [AaUser -> FailureRow] /\ LocksOK'
  BY Zenon, FailuresKept
<1>3. TokensOK'
  BY Zenon, <1>t, FewerTokens
<1>4. ASSUME AloneOK, \A v \in AaWorker \ {w} : aaReq[v].at = "idle" PROVE AloneOK'
  <2>1. Knows(aaReq[w])
    BY Zenon, <1>4 DEF AloneOK
  <2>2. ASSUME NEW x \in AaUser, aaUsers'[x] \in UserRow
        PROVE  /\ aaRoles'[aaUsers'[x].role] \in RoleRow
               /\ aaUsers'[x].status = "active" => aaRoles'[aaUsers'[x].role].status = "active"
    <3>1. aaUsers[x] \in UserRow /\ aaUsers[x].role \in AaRole
      BY Zenon, <2>2 DEF UserRow
    <3>2. CASE aaUsers[x].role = role
      BY Zenon, <1>t, <2>1, <3>1, <3>2
    <3>3. CASE aaUsers[x].role # role
      BY Zenon, <1>4, <1>t, <3>1, <3>3 DEF AloneOK
    <3>4. QED
      BY Zenon, <3>2, <3>3
  <2>3. ASSUME NEW s \in aaSessions', Live(s)' PROVE Matches(s)' \/ ToDrop(aaReq'[w], s)
    <3>1. s \in aaSessions /\ Live(s) /\ ~ToDrop(aaReq[w], s)
      BY Zenon, <2>3 DEF Live, ToDrop
    <3>2. Matches(s)
      BY Zenon, <1>4, <3>1, AloneSessions
    <3>3. s.role \in AaRole
      BY Zenon, <1>t, <3>1 DEF SessionRow
    <3>4. CASE s.role = role
      <4>1. CASE n \in RoleRow /\ n.permissions = s.permissions
        BY <1>t, <3>2, <3>4, <4>1 DEF Matches
      <4>2. QED
        BY Zenon, <2>1, <3>1, <3>2, <3>4, <4>1
    <3>5. CASE s.role # role
      BY Zenon, <1>t, <3>2, <3>3, <3>5 DEF Matches
    <3>6. QED
      BY Zenon, <3>4, <3>5
  <2>4. Administrators' # {}
    BY Zenon, <1>4 DEF AloneOK, Administrators
  <2>5. QED
    BY Zenon, <1>4, <1>t, <2>2, <2>3, <2>4, AloneStep
<1>5. QED
  BY Zenon, <1>1, <1>2, <1>3, <1>4, <1>t, RequestStep

\* The write of a role.
LEMMA SaveRoleWriteKeeps ==
  ASSUME AccountInv, NEW w \in AaWorker, SaveRoleWrite(w)
  PROVE  AccountInv'
<1>t. /\ AccountTypes /\ RequestTyped(aaReq[w]) /\ aaRoles \in [AaRole -> {NoRole} \cup RoleRow]
  BY Zenon, AccountTyped
<1> DEFINE r == aaReq[w]
           n == Role(r.permissions, r.status)
           q == IF r.stale THEN [at |-> "drop-role", role |-> r.role] ELSE AaIdle
<1>u. /\ UNCHANGED <<aaUsers, aaSessions, aaFailures, aaOverlap, aaRequests, aaNow>>
      /\ r.at = "save-role" /\ AaWait(w, q) /\ aaRoles' = [aaRoles EXCEPT ![r.role] = n]
  BY Zenon DEF SaveRoleWrite, AaStep
<1>1. /\ r.role \in AaRole /\ r.status \in AaStatus /\ r.stale \in BOOLEAN
      /\ r.permissions \in AaGrants
  BY Zenon, <1>t, <1>u DEF RequestTyped
<1>2. n \in RoleRow /\ n.permissions = r.permissions /\ n.status = r.status
  BY Zenon, <1>1 DEF Role, RoleRow
<1> HIDE DEF n
<1>3. OnlyMoves(w) /\ aaReq'[w] = q
  BY Zenon, <1>t, <1>u, Waited
<1>4. RequestTyped(aaReq[w])' /\ Knows(aaReq[w])'
  <2>1. CASE r.stale
    <3>1. aaReq'[w].at = "drop-role" /\ aaReq'[w].role = r.role
      BY <1>3, <2>1
    <3>2. QED
      BY <1>1, <3>1, NothingToKnow DEF RequestTyped, AaPlaces
  <2>2. CASE ~r.stale
    BY Zenon, <1>3, <2>2, IdleKnows
  <2>3. QED
    BY Zenon, <1>1, <2>1, <2>2
<1>5. ASSUME Knows(r), NEW u \in AaUser, aaUsers[u] \in UserRow, aaUsers[u].role = r.role,
             aaUsers[u].status = "active"
      PROVE  n.status = "active"
  <2>1. aaUsers[u].there = TRUE
    BY Zenon, <1>5 DEF UserRow
  <2>2. u \in UsersOf(r.role, {"active"})
    BY Zenon, <1>5, <2>1 DEF UsersOf
  <2>3. QED
    BY Zenon, <1>2, <1>5, <1>u, <2>2 DEF Knows
<1>6. ASSUME Knows(r), NEW s \in aaSessions, Matches(s), s.role = r.role
      PROVE  n.permissions = s.permissions \/ ToDrop(aaReq'[w], s)
  <2>1. CASE r.stale
    BY <1>3, <1>6, <2>1 DEF ToDrop
  <2>2. CASE ~r.stale
    <3>1. aaRoles[r.role] \in RoleRow /\ aaRoles[r.role].permissions = s.permissions
      BY Zenon, <1>6 DEF Matches
    <3>2. QED
      BY Zenon, <1>2, <1>6, <1>u, <2>2, <3>1 DEF Knows
  <2>3. QED
    BY Zenon, <1>1, <2>1, <2>2
<1>7. QED
  BY Zenon, <1>1, <1>2, <1>3, <1>4, <1>5, <1>6, <1>u, RoleWritten

\* A deleted role is nobody's.
LEMMA DeleteRoleWriteKeeps ==
  ASSUME AccountInv, NEW w \in AaWorker, DeleteRoleWrite(w)
  PROVE  AccountInv'
<1>t. AccountTypes /\ RequestTyped(aaReq[w]) /\ aaSessions \subseteq SessionRow
  BY Zenon, AccountTyped
<1> DEFINE role == aaReq[w].role
<1>u. /\ UNCHANGED <<aaUsers, aaSessions, aaFailures, aaOverlap, aaRequests, aaNow>>
      /\ aaReq[w].at = "delete-role" /\ AaWait(w, AaIdle)
      /\ aaRoles' = [aaRoles EXCEPT ![role] = NoRole]
  BY Zenon DEF DeleteRoleWrite, AaStep, AaDone
<1>1. role \in AaRole
  BY Zenon, <1>t, <1>u DEF RequestTyped
<1>2. OnlyMoves(w) /\ aaReq'[w] = AaIdle
  BY Zenon, <1>t, <1>u, Waited
<1>3. RequestTyped(aaReq[w])' /\ Knows(aaReq[w])'
  BY Zenon, <1>2, IdleKnows
<1>4. ASSUME Knows(aaReq[w]), NEW u \in AaUser, aaUsers[u] \in UserRow
      PROVE  aaUsers[u].role # role
  <2>1. aaUsers[u].there = TRUE /\ aaUsers[u].status \in {"active", "disabled"}
    BY Zenon, <1>4 DEF UserRow, AaStatus
  <2>2. UsersOf(role, {"active", "disabled"}) = {}
    BY Zenon, <1>4, <1>u DEF Knows, Deletable
  <2>3. QED
    BY Zenon, <2>1, <2>2 DEF UsersOf
<1>5. ASSUME Knows(aaReq[w]), NEW s \in aaSessions, Matches(s)
      PROVE  s.role # role
  <2>1. s.user \in AaUser
    BY Zenon, <1>t DEF SessionRow
  <2>2. QED
    BY Zenon, <1>4, <1>5, <2>1 DEF Matches
<1> HIDE DEF role
<1>6. QED
  BY Zenon, <1>1, <1>2, <1>3, <1>4, <1>5, <1>u, RoleWritten

\* Time passes: locks and sessions only come nearer to their end.
LEMMA AaTickKeeps ==
  ASSUME AccountInv, AaTick
  PROVE  AccountInv'
<1>t. /\ AccountTypes /\ aaNow \in Nat /\ aaSessions \subseteq SessionRow
      /\ aaFailures \in [AaUser -> FailureRow] /\ LocksOK
  BY Zenon, AccountTyped
<1>u. /\ aaNow' = aaNow + 1
      /\ UNCHANGED <<aaUsers, aaRoles, aaSessions, aaFailures, aaReq, aaOverlap, aaRequests>>
  BY Zenon DEF AaTick
<1>1. ASSUME NEW w \in AaWorker, RequestTyped(aaReq[w]) PROVE RequestTyped(aaReq[w])'
  BY <1>1, <1>t, <1>u DEF RequestTyped
<1>2. AccountTypes'
  <2>1. aaNow' \in Nat
    BY <1>t, <1>u
  <2>2. QED
    BY Zenon, <1>1, <1>t, <1>u, <2>1 DEF AccountTypes
<1>3. TokensOK'
  BY Zenon, <1>u DEF AccountInv, TokensOK
<1>4. LocksOK'
  <2>1. \A u \in AaUser : aaFailures[u].locked \in Int /\ aaFailures[u].locked <= aaNow + AaLockout
    BY Zenon, <1>t DEF LocksOK, FailureRow
  <2>2. QED
    BY <1>t, <1>u, <2>1, AccountAssumption DEF LocksOK
<1>5. ASSUME AloneOK PROVE AloneOK'
  <2>1. \A v, w \in AaWorker : aaReq'[v].at # "idle" /\ aaReq'[w].at # "idle" => v = w
    BY Zenon, <1>5, <1>u DEF AloneOK
  <2>2. ASSUME NEW w \in AaWorker PROVE Knows(aaReq[w])'
    <3>1. Knows(aaReq[w])
      BY Zenon, <1>5 DEF AloneOK
    <3>2. Administrators' = Administrators
      BY Zenon, <1>u DEF Administrators
    <3>3. \A x : LastOfAdministrators(x)' => LastOfAdministrators(x)
      BY Zenon, <3>2 DEF LastOfAdministrators
    <3>4. \A x, y : UsersOf(x, y)' = UsersOf(x, y)
      BY Zenon, <1>u DEF UsersOf
    <3>5. QED
      BY <1>u, <3>1, <3>3, <3>4 DEF Knows, Deletable
  <2>3. \A u \in AaUser : aaUsers'[u] \in UserRow =>
           /\ aaRoles'[aaUsers'[u].role] \in RoleRow
           /\ aaUsers'[u].status = "active" => aaRoles'[aaUsers'[u].role].status = "active"
    BY Zenon, <1>5, <1>u DEF AloneOK
  <2>4. ASSUME NEW s \in aaSessions', Live(s)'
        PROVE  Matches(s)' \/ \E w \in AaWorker : ToDrop(aaReq'[w], s)
    <3>1. s.expires \in Int
      BY Zenon, <1>t, <1>u DEF SessionRow
    <3>2. Live(s)
      BY <1>t, <1>u, <2>4, <3>1 DEF Live
    <3>3. Matches(s) \/ \E w \in AaWorker : ToDrop(aaReq[w], s)
      BY Zenon, <1>5, <1>u, <3>2 DEF AloneOK
    <3>4. Matches(s) => Matches(s)'
      BY Zenon, <1>u DEF Matches
    <3>5. QED
      BY Zenon, <1>u, <3>3, <3>4
  <2>5. Administrators' # {}
    BY Zenon, <1>5, <1>u DEF AloneOK, Administrators
  <2>6. QED
    BY Zenon, <2>1, <2>2, <2>3, <2>4, <2>5 DEF AloneOK, ToDrop
<1>6. ~aaOverlap' => AloneOK'
  BY Zenon, <1>5, <1>u DEF AccountInv
<1>7. QED
  BY Zenon, <1>2, <1>3, <1>4, <1>6 DEF AccountInv

\* A database at first: the accounts have the roles, there are no sessions.
LEMMA AccountInit ==
  ASSUME AaInit
  PROVE  AccountInv
<1>0. PICK old \in BOOLEAN :
        aaUsers \in [AaUser -> {NoUser} \cup {User(r, "active", old, old) : r \in AaRole}]
  BY Zenon DEF AaInit
<1>1. \A r \in AaRole : User(r, "active", old, old) \in UserRow /\ User(r, "active", old, old).status = "active"
  BY Zenon DEF User, UserRow, AaStatus
<1> DEFINE A == {NoUser} \cup {User(r, "active", old, old) : r \in AaRole}
<1>2. aaUsers \in [AaUser -> {NoUser} \cup UserRow]
  <2>1. aaUsers \in [AaUser -> A]
    BY Zenon, <1>0
  <2>2. A \subseteq {NoUser} \cup UserRow
    BY Zenon, <1>1
  <2> DEFINE B == {NoUser} \cup UserRow
  <2> HIDE DEF A, B
  <2>3. aaUsers \in [AaUser -> A] /\ A \subseteq B
    BY Zenon, <2>1, <2>2 DEF B
  <2>4. aaUsers \in [AaUser -> B]
    BY Zenon, <2>3
  <2>5. QED
    BY Zenon, <2>4 DEF B
<1>3. PICK p \in AaPermissions :
         aaRoles = [administrator |-> Role({"admin.users", "admin.roles"}, "active"),
                    operator |-> Role(p, "active")]
  BY Zenon DEF AaInit
<1>4. \A g \in AaGrants : Role(g, "active") \in RoleRow /\ Role(g, "active").status = "active"
  BY Zenon DEF Role, RoleRow, AaStatus
<1>5. /\ aaRoles \in [AaRole -> {NoRole} \cup RoleRow]
      /\ \A r \in AaRole : aaRoles[r] \in RoleRow /\ aaRoles[r].status = "active"
  <2>1. /\ Role({"admin.users", "admin.roles"}, "active") \in RoleRow
        /\ Role({"admin.users", "admin.roles"}, "active").status = "active"
        /\ Role(p, "active") \in RoleRow /\ Role(p, "active").status = "active"
    BY Zenon, <1>4 DEF AaGrants
  <2>2. QED
    BY <1>3, <2>1 DEF AaRole
<1>6. /\ aaSessions = {} /\ aaNow \in Nat /\ aaRequests = 0 /\ aaOverlap \in BOOLEAN
      /\ aaReq = [w \in AaWorker |-> AaIdle] /\ \A w \in AaWorker : aaReq[w] = AaIdle
  BY Zenon DEF AaInit
<1>7. aaFailures \in [AaUser -> FailureRow] /\ LocksOK
  <2>1. NoFailure \in FailureRow /\ NoFailure.locked <= aaNow + AaLockout
    BY <1>6, AccountAssumption DEF NoFailure, FailureRow
  <2>2. QED
    BY Zenon, <2>1 DEF AaInit, LocksOK
<1>8. \A w \in AaWorker : RequestTyped(aaReq[w]) /\ Knows(aaReq[w]) /\ aaReq[w].at = "idle"
  BY Zenon, <1>6 DEF AaIdle, RequestTyped, AaPlaces, Knows
<1>9. AccountTypes
  <2>1. aaReq = [w \in AaWorker |-> aaReq[w]]
    BY Zenon, <1>6
  <2>2. QED
    BY Zenon, <1>2, <1>5, <1>6, <1>7, <1>8, <2>1 DEF AccountTypes
<1>10. TokensOK
  BY Zenon, <1>6 DEF TokensOK
<1>11. Administrators # {}
  <2>1. PICK u \in AaFirst : u \in AaUser
    BY Zenon, AccountAssumption
  <2>2. aaUsers[u].there /\ aaUsers[u].role = "administrator"
    BY Zenon DEF AaInit
  <2>3. ASSUME NEW x \in A, x.there PROVE x.status = "active"
    <3>1. x # NoUser
      BY <2>3 DEF NoUser
    <3>2. PICK r \in AaRole : x = User(r, "active", old, old)
      BY Zenon, <3>1
    <3>3. QED
      BY Zenon, <1>1, <3>2
  <2>4. aaUsers[u] \in A
    BY Zenon, <1>0, <2>1
  <2>5. u \in Administrators
    BY Zenon, <2>1, <2>2, <2>3, <2>4 DEF Administrators
  <2>6. QED
    BY Zenon, <2>5
<1>12. \A u \in AaUser : aaUsers[u] \in UserRow => aaUsers[u].role \in AaRole
  BY Zenon DEF UserRow
<1>13. AloneOK
  BY Zenon, <1>11, <1>12, <1>5, <1>6, <1>8 DEF AloneOK
<1>14. QED
  BY Zenon, <1>10, <1>13, <1>7, <1>9 DEF AccountInv

\* Every request, step by step, keeps accounts, roles and sessions together.
THEOREM AccountInvariant == AaSpec => []AccountInv
<1>1. AaInit => AccountInv
  BY Zenon, AccountInit
<1>2. AccountInv /\ [AaNext]_aaVars => AccountInv'
  <2> SUFFICES ASSUME AccountInv, [AaNext]_aaVars PROVE AccountInv'
    BY Zenon
  <2>1. CASE AaTick
    BY Zenon, <2>1, AaTickKeeps
  <2>2. ASSUME NEW w \in AaWorker, AaOwn(w) PROVE AccountInv'
    <3>1. ASSUME NEW u \in AaUser, NEW password, LoginStart(w, u, password)
          PROVE  AccountInv'
      BY Zenon, <3>1, LoginStartKeeps
    <3>0. ASSUME NEW stored \in BOOLEAN, LoginUpgrade(w, stored) PROVE AccountInv'
      BY Zenon, <3>0, LoginUpgradeKeeps
    <3>2. CASE LoginFailed(w) \/ LoginRole(w) \/ LoginInsert(w) \/ PasswordSessions(w)
      BY Zenon, <3>2, LoginFailedKeeps, LoginRoleKeeps, LoginInsertKeeps, PasswordSessionsKeeps
    <3>3. ASSUME NEW s \in aaSessions, Logout(w, s) PROVE AccountInv'
      BY Zenon, <3>3, LogoutKeeps DEF Logout
    <3>4. ASSUME NEW s \in aaSessions, PasswordWrite(w, s) PROVE AccountInv'
      BY Zenon, <3>4, PasswordWriteKeeps
    <3>5. ASSUME NEW s \in aaSessions, NEW t \in aaSessions, Revoke(w, s, t) PROVE AccountInv'
      BY Zenon, <3>5, LogoutKeeps DEF Revoke
    <3>6. QED
      BY Zenon, <2>2, <3>0, <3>1, <3>2, <3>3, <3>4, <3>5 DEF AaOwn
  <2>3. ASSUME NEW w \in AaWorker, AaManage(w) PROVE AccountInv'
    <3>1. CASE SaveUserWrite(w) \/ DeleteUserWrite(w) \/ SaveRoleWrite(w) \/ DeleteRoleWrite(w)
      BY Zenon, <3>1, SaveUserWriteKeeps, DeleteUserWriteKeeps, SaveRoleWriteKeeps, DeleteRoleWriteKeeps
    <3>2. CASE DropUserSessions(w)
      BY Zenon, <3>2, DropKeeps DEF DropUserSessions, AaStep, ToDrop
    <3>3. CASE DropRoleSessions(w)
      BY Zenon, <3>3, DropKeeps DEF DropRoleSessions, AaStep, ToDrop
    <3>4. ASSUME NEW s \in aaSessions, NEW u \in AaUser, DeleteUserCheck(w, s, u)
          PROVE  AccountInv'
      BY Zenon, <3>4, DeleteUserCheckKeeps
    <3>5. ASSUME NEW s \in aaSessions, NEW u \in AaUser, NEW role \in AaRole,
                 NEW status \in {"active", "disabled"}, NEW p \in BOOLEAN,
                 SaveUserCheck(w, s, u, role, status, p)
          PROVE  AccountInv'
      BY Zenon, <3>5, SaveUserCheckKeeps DEF AaStatus
    <3>6. ASSUME NEW s \in aaSessions, NEW role \in AaRole, NEW p \in AaPermissions,
                 NEW status \in {"active", "disabled"}, SaveRoleCheck(w, s, role, p, status)
          PROVE  AccountInv'
      BY Zenon, <3>6, SaveRoleCheckKeeps DEF AaStatus
    <3>7. ASSUME NEW s \in aaSessions, NEW role \in AaRole, DeleteRoleCheck(w, s, role)
          PROVE  AccountInv'
      BY Zenon, <3>7, DeleteRoleCheckKeeps
    <3>8. QED
      BY Zenon, <2>3, <3>1, <3>2, <3>3, <3>4, <3>5, <3>6, <3>7 DEF AaManage
  <2>4. CASE UNCHANGED aaVars
    <3>1. UNCHANGED <<aaUsers, aaRoles, aaSessions, aaFailures, aaNow, aaReq, aaOverlap, aaRequests>>
      BY Zenon, <2>4 DEF aaVars
    <3>2. AccountTypes' /\ TokensOK' /\ LocksOK'
      BY <3>1 DEF AccountInv, AccountTypes, TokensOK, LocksOK, RequestTyped
    <3>3. AloneOK => AloneOK'
      <4>1. Administrators' = Administrators /\ \A x, y : UsersOf(x, y)' = UsersOf(x, y)
        BY <3>1, Zenon DEF Administrators, UsersOf
      <4>2. ASSUME NEW r, Knows(r) PROVE Knows(r)'
        <5>1. \A x : LastOfAdministrators(x)' => LastOfAdministrators(x)
          BY <4>1, Zenon DEF LastOfAdministrators
        <5>2. \A x : Deletable(x) => Deletable(x)'
          BY <4>1, Zenon DEF Deletable
        <5>3. QED
          BY <3>1, <4>1, <4>2, <5>1, <5>2 DEF Knows
      <4>3. \A s : (Matches(s) <=> Matches(s)') /\ (Live(s) <=> Live(s)')
        BY <3>1, Zenon DEF Matches, Live
      <4>4. QED
        BY <3>1, <4>1, <4>2, <4>3 DEF AloneOK
    <3>4. QED
      BY Zenon, <3>1, <3>2, <3>3 DEF AccountInv
  <2>5. QED
    BY Zenon, <2>1, <2>2, <2>3, <2>4 DEF AaNext
<1>3. QED
  BY <1>1, <1>2, PTL DEF AaSpec

\* Accounts, roles and sessions always fit together: a token names one
\* session, a lock ends in time, and after every request that overlapped no
\* other an account has its role, a live session has the role and the
\* permissions of its account, and an active administrator remains
\* (write_admin_user_response, write_admin_role_response and their kin).
THEOREM AccountsAlwaysSafe == AaSpec => []AccountSafety
<1>1. AccountInv => AccountSafety
  <2> SUFFICES ASSUME AccountInv PROVE AccountSafety
    BY Zenon
  <2>t. /\ AccountTypes /\ TokensOK /\ LocksOK /\ aaSessions \subseteq SessionRow
        /\ aaUsers \in [AaUser -> {NoUser} \cup UserRow]
    BY Zenon, AccountTyped
  <2>1. \A u \in AaUser : aaUsers[u].there => aaUsers[u] \in UserRow /\ aaUsers[u].role \in AaRole
    <3>1. \A u \in AaUser : aaUsers[u].there => aaUsers[u] \in UserRow
      BY <2>t DEF NoUser
    <3>2. \A r : r \in UserRow => r.role \in AaRole
      BY Zenon DEF UserRow
    <3>3. QED
      BY Zenon, <3>1, <3>2
  <2>2. AaTypeOK
    BY Zenon, <2>1, <2>t DEF AaTypeOK, TokensOK, LocksOK
  <2>3. \A r : r \in RoleRow => r.there = TRUE
    BY Zenon DEF RoleRow
  <2>4. \A r : r \in UserRow => r.there = TRUE
    BY Zenon DEF UserRow
  <2>5. AccountsHaveRoles
    BY Zenon, <2>1, <2>3 DEF AccountsHaveRoles, AccountInv, AloneOK
  <2>6. ASSUME AloneOK, \A w \in AaWorker : aaReq[w].at = "idle", NEW s \in aaSessions, Live(s)
        PROVE  Matches(s)
    BY Zenon, <2>6 DEF AloneOK, ToDrop
  <2>7. SessionsMatchAccounts
    BY Zenon, <2>3, <2>4, <2>6 DEF SessionsMatchAccounts, AccountInv, Matches
  <2>8. AdministratorRemains
    BY Zenon DEF AdministratorRemains, AccountInv, AloneOK
  <2>9. QED
    BY Zenon, <2>2, <2>5, <2>7, <2>8 DEF AccountSafety
<1>2. QED
  BY <1>1, AccountInvariant, PTL

-----------------------------------------------------------------------------
(***************************************************************************)
(* CalendarDays, for every day from any start that the formula counts.     *)
(***************************************************************************)

\* Days before the March that begins the year: the formula's part that depends
\* on the year alone.
YearDays(year) ==
  LET era == year \div 400
      yearOfEra == year - era * 400
  IN era * 146097 + yearOfEra * 365 + yearOfEra \div 4 - yearOfEra \div 100

\* A year that begins in March has as many days as the calendar gives it.
LEMMA YearLength ==
  ASSUME NEW y \in Int
  PROVE  YearDays(y) = YearDays(y - 1) + (IF LeapYear(y) THEN 366 ELSE 365)
<1> DEFINE e == y \div 400
           r == y % 400
<1>1. e \in Int /\ r \in 0 .. 399 /\ y = 400 * e + r
  BY SMT
<1>2. y - e * 400 = r
  BY <1>1, SMT
<1>3. y % 4 = r % 4 /\ y % 100 = r % 100
  BY <1>1, SMT
<1>4. CASE r = 0
  <2>1. (y - 1) \div 400 = e - 1 /\ (y - 1) - (e - 1) * 400 = 399
    BY <1>1, <1>4, SMT
  <2>2. LeapYear(y)
    BY <1>3, <1>4, SMT DEF LeapYear
  <2> HIDE DEF e
  <2>3. YearDays(y) = e * 146097
    BY <1>2, <1>4, SMT DEF YearDays, e
  <2>4. YearDays(y - 1) = (e - 1) * 146097 + 399 * 365 + 99 - 3
    BY <2>1, SMT DEF YearDays
  <2>5. QED
    BY <1>1, <2>2, <2>3, <2>4, SMT
<1>5. CASE r # 0
  <2>1. (y - 1) \div 400 = e /\ (y - 1) - e * 400 = r - 1
    BY <1>1, <1>5, SMT
  <2>2. (IF LeapYear(y) THEN 366 ELSE 365)
          = 365 + (r \div 4 - (r - 1) \div 4) - (r \div 100 - (r - 1) \div 100)
    BY <1>1, <1>3, <1>5, SMT DEF LeapYear
  <2>3. YearDays(y) = e * 146097 + r * 365 + r \div 4 - r \div 100
    BY <1>2, SMT DEF YearDays
  <2>4. YearDays(y - 1) = e * 146097 + (r - 1) * 365 + (r - 1) \div 4 - (r - 1) \div 100
    BY <2>1, SMT DEF YearDays
  <2>5. QED
    BY <1>1, <2>2, <2>3, <2>4, SMT
<1>6. QED
  BY <1>4, <1>5, SMT

\* The first day is day 0.
LEMMA EpochIsZero == EpochDays(1970, 1, 1) = 0
<1>1. (1970 - 1) \div 400 = 4 /\ 1969 - 4 * 400 = 369
  BY SMT
<1>2. 369 \div 4 = 92 /\ 369 \div 100 = 3 /\ (153 * 10 + 2) \div 5 = 306
  BY SMT
<1>3. QED
  BY <1>1, <1>2, SMT DEF EpochDays

\* Days from the beginning of March to the k-th month after it.
MonthDays(k) == (153 * k + 2) \div 5

\* Days from the beginning of the era to the day before 1970-01-01.
EraStart == 719469

\* The formula is the year's part, the month's and the day's.
LEMMA EpochDaysSplit ==
  ASSUME NEW y \in Int, NEW m \in 1 .. 12, NEW d \in Int
  PROVE  /\ m > 2 => EpochDays(y, m, d) = YearDays(y) + MonthDays(m - 3) + d - EraStart
         /\ m <= 2 => EpochDays(y, m, d) = YearDays(y - 1) + MonthDays(m + 9) + d - EraStart
         /\ YearDays(y) \in Int /\ YearDays(y - 1) \in Int
         /\ MonthDays(m - 3) \in Int /\ MonthDays(m + 9) \in Int
<1>1. \A z \in Int : YearDays(z) \in Int /\ MonthDays(z) \in Int
  BY SMT DEF YearDays, MonthDays
<1>2. CASE m > 2
  BY <1>1, <1>2, SMT DEF EpochDays, YearDays, MonthDays, EraStart
<1>3. CASE m <= 2
  BY <1>1, <1>3, SMT DEF EpochDays, YearDays, MonthDays, EraStart
<1>4. QED
  BY <1>1, <1>2, <1>3, SMT

IsDate(y, m, d) ==
  y \in Int /\ m \in 1 .. 12 /\ d \in 1 .. 31 /\ d <= DaysInMonth(y, m)

\* The formula counts one day from every date to the next: within a month,
\* into the next month, from February into March of a leap year and of
\* another, and into the new year.
LEMMA NextDay ==
  ASSUME NEW y, NEW m, NEW d, IsDate(y, m, d)
  PROVE  LET n == NextDate(y, m, d)
         IN IsDate(n[1], n[2], n[3]) /\ EpochDays(n[1], n[2], n[3]) = EpochDays(y, m, d) + 1
<1> SUFFICES ASSUME y \in Int, m \in 1 .. 12, d \in 1 .. 31, d <= DaysInMonth(y, m),
                    NEW n, n = NextDate(y, m, d)
             PROVE  /\ n[1] \in Int /\ n[2] \in 1 .. 12 /\ n[3] \in 1 .. 31
                    /\ n[3] <= DaysInMonth(n[1], n[2])
                    /\ EpochDays(n[1], n[2], n[3]) = EpochDays(y, m, d) + 1
  BY Zenon DEF IsDate
<1>e. EraStart \in Int
  BY SMT DEF EraStart
<1>1. \A z \in Int, k \in 1 .. 12 : DaysInMonth(z, k) \in 28 .. 31
  BY SMT DEF DaysInMonth
<1>2. CASE d < DaysInMonth(y, m)
  <2>1. NextDate(y, m, d) = <<y, m, d + 1>>
    BY <1>2, SMT DEF NextDate
  <2>2. EpochDays(y, m, d + 1) = EpochDays(y, m, d) + 1
    <3>x. \A x \in Int :
            /\ m > 2 => EpochDays(y, m, x) = YearDays(y) + MonthDays(m - 3) + x - EraStart
            /\ m <= 2 => EpochDays(y, m, x) = YearDays(y - 1) + MonthDays(m + 9) + x - EraStart
      BY EpochDaysSplit, Zenon
    <3>1. ASSUME NEW e \in Int, e = d + 1
          PROVE  EpochDays(y, m, e) = EpochDays(y, m, d) + 1
      <4>d. d \in Int
        BY SMT
      <4>2. /\ YearDays(y) \in Int /\ YearDays(y - 1) \in Int
            /\ MonthDays(m - 3) \in Int /\ MonthDays(m + 9) \in Int
        BY <4>d, EpochDaysSplit, Zenon
      <4>3. QED
        BY <1>e, <3>1, <3>x, <4>2, <4>d, SMT
    <3>2. QED
      BY <3>1, SMT
  <2>3. d + 1 \in 1 .. 31 /\ d + 1 <= DaysInMonth(y, m)
    BY <1>1, <1>2, SMT
  <2>4. QED
    BY <2>1, <2>2, <2>3, SMT
<1>3. CASE d = DaysInMonth(y, m) /\ m = 12
  <2>1. DaysInMonth(y, 12) = 31 /\ DaysInMonth(y + 1, 1) = 31
    BY SMT DEF DaysInMonth
  <2>2. NextDate(y, m, d) = <<y + 1, 1, 1>>
    BY <1>3, <2>1, SMT DEF NextDate
  <2>3. /\ EpochDays(y, 12, 31) = YearDays(y) + 275 + 31 - EraStart
        /\ EpochDays(y + 1, 1, 1) = YearDays(y) + 306 + 1 - EraStart
        /\ YearDays(y) \in Int
    <3>1. MonthDays(9) = 275 /\ MonthDays(10) = 306
      BY SMT DEF MonthDays
    <3>2. ASSUME NEW z \in Int, z = y + 1
          PROVE  EpochDays(z, 1, 1) = YearDays(z - 1) + MonthDays(10) + 1 - EraStart
      BY EpochDaysSplit, SMT
    <3>3. EpochDays(y, 12, 31) = YearDays(y) + MonthDays(9) + 31 - EraStart /\ YearDays(y) \in Int
      BY EpochDaysSplit, SMT
    <3>4. y + 1 \in Int /\ (y + 1) - 1 = y
      BY SMT
    <3>5. QED
      BY <3>1, <3>2, <3>3, <3>4, SMT
  <2>4. EpochDays(y + 1, 1, 1) = EpochDays(y, 12, 31) + 1
    BY <1>e, <2>3, SMT
  <2>5. QED
    BY <1>3, <2>1, <2>2, <2>4, SMT
<1>4. CASE d = DaysInMonth(y, m) /\ m < 12
  <2>1. NextDate(y, m, d) = <<y, m + 1, 1>> /\ m + 1 \in 1 .. 12
    BY <1>1, <1>4, SMT DEF NextDate
  <2>2. 1 <= DaysInMonth(y, m + 1)
    BY <1>1, <2>1, SMT
  <2>3. CASE m = 1
    <3>1. MonthDays(10) = 306 /\ MonthDays(11) = 337
      BY SMT DEF MonthDays
    <3>2. d = 31
      BY <1>4, <2>3, SMT DEF DaysInMonth
    <3>3. /\ EpochDays(y, 1, 31) = YearDays(y - 1) + MonthDays(10) + 31 - EraStart
          /\ EpochDays(y, 2, 1) = YearDays(y - 1) + MonthDays(11) + 1 - EraStart
          /\ YearDays(y - 1) \in Int
      BY EpochDaysSplit, SMT
    <3>4. EpochDays(y, 2, 1) = EpochDays(y, 1, 31) + 1
      BY <1>e, <3>1, <3>3, SMT
    <3>5. QED
      BY <2>1, <2>2, <2>3, <3>2, <3>4, SMT
  <2>4. CASE m = 2
    <3>m. MonthDays(11) = 337 /\ MonthDays(0) = 0
      BY SMT DEF MonthDays
    <3>1. /\ EpochDays(y, 2, d) = YearDays(y - 1) + MonthDays(11) + d - EraStart
          /\ EpochDays(y, 3, 1) = YearDays(y) + MonthDays(0) + 1 - EraStart
          /\ YearDays(y) \in Int /\ YearDays(y - 1) \in Int
      BY EpochDaysSplit, SMT
    <3>2. d = IF LeapYear(y) THEN 29 ELSE 28
      BY <1>4, <2>4, SMT DEF DaysInMonth
    <3>3. EpochDays(y, 3, 1) = EpochDays(y, 2, d) + 1
      BY <1>e, <3>1, <3>2, <3>m, YearLength, SMT
    <3>4. QED
      BY <2>1, <2>2, <2>4, <3>3, SMT
  <2>5. CASE m \in 3 .. 11
    <3>1. ASSUME NEW k \in 1 .. 12, k = m + 1
          PROVE  EpochDays(y, k, 1) = EpochDays(y, m, d) + 1
      <4>d. d \in Int /\ 1 \in Int /\ EraStart \in Int /\ m > 2 /\ k > 2
        BY <2>5, <3>1, SMT DEF EraStart
      <4>1. /\ DaysInMonth(y, m) = MonthDays(k - 3) - MonthDays(m - 3)
            /\ MonthDays(k - 3) \in Int /\ MonthDays(m - 3) \in Int
        BY <2>5, <3>1, SMT DEF DaysInMonth, MonthDays
      <4>2. \A x \in Int : m > 2 => EpochDays(y, m, x) = YearDays(y) + MonthDays(m - 3) + x - EraStart
        BY EpochDaysSplit, Zenon
      <4>3. \A x \in Int : k > 2 => EpochDays(y, k, x) = YearDays(y) + MonthDays(k - 3) + x - EraStart
        BY EpochDaysSplit, Zenon
      <4>4. YearDays(y) \in Int
        BY <4>d, EpochDaysSplit, Zenon
      <4>5. /\ EpochDays(y, m, d) = YearDays(y) + MonthDays(m - 3) + d - EraStart
            /\ EpochDays(y, k, 1) = YearDays(y) + MonthDays(k - 3) + 1 - EraStart
        BY <4>2, <4>3, <4>d, SMT
      <4>6. QED
        BY <1>4, <4>1, <4>4, <4>5, <4>d, SMT
    <3>3. EpochDays(y, m + 1, 1) = EpochDays(y, m, d) + 1
      BY <2>1, <3>1, SMT
    <3>4. QED
      BY <2>1, <2>2, <3>3, SMT
  <2>6. m = 1 \/ m = 2 \/ m \in 3 .. 11
    BY <1>4, SMT
  <2>7. QED
    BY <2>3, <2>4, <2>5, <2>6, Zenon
<1>5. QED
  BY <1>1, <1>2, <1>3, <1>4, SMT

CalInv ==
  /\ calDay \in [y : Int, m : 1 .. 12, d : 1 .. 31, count : Int, walked : Nat]
  /\ calDay.d <= DaysInMonth(calDay.y, calDay.m)
  /\ CountsDays

\* The formula counts days as the calendar does for every date, however far
\* the walk goes and in whatever year it begins, before and after the era
\* boundaries (rfc3339_epoch_nanos).
THEOREM DaysAlwaysCounted == CalSpec => []CountsDays
<1>1. CalInit => CalInv
  <2>1. ASSUME NEW s \in CalStarts, calDay = [s EXCEPT !.walked = 0]
        PROVE  CalInv
    <3>1. /\ s \in [y : Int, m : 1 .. 12, d : 1 .. 31, count : Int, walked : Nat]
          /\ s.d <= DaysInMonth(s.y, s.m) /\ EpochDays(s.y, s.m, s.d) = s.count
      BY CalAssumption, SMT
    <3>2. /\ calDay.y = s.y /\ calDay.m = s.m /\ calDay.d = s.d /\ calDay.count = s.count
          /\ calDay \in [y : Int, m : 1 .. 12, d : 1 .. 31, count : Int, walked : Nat]
      BY <2>1, <3>1, SMT
    <3>3. QED
      BY <3>1, <3>2, SMT DEF CalInv, CountsDays
  <2>2. QED
    BY <2>1, SMT DEF CalInit
<1>2. CalInv /\ [CalNext]_calVars => CalInv'
  <2>1. ASSUME CalInv, CalNext
        PROVE  CalInv'
    <3> DEFINE n == NextDate(calDay.y, calDay.m, calDay.d)
    <3>1. /\ calDay.y \in Int /\ calDay.m \in 1 .. 12 /\ calDay.d \in 1 .. 31
          /\ calDay.count \in Int /\ calDay.walked \in Nat
      BY <2>1, SMT DEF CalInv
    <3>2. /\ n[1] \in Int /\ n[2] \in 1 .. 12 /\ n[3] \in 1 .. 31
          /\ n[3] <= DaysInMonth(n[1], n[2])
          /\ EpochDays(n[1], n[2], n[3]) = calDay.count + 1
      <4>1. EpochDays(calDay.y, calDay.m, calDay.d) = calDay.count
        BY <2>1, Zenon DEF CalInv, CountsDays
      <4>2. IsDate(calDay.y, calDay.m, calDay.d)
        BY <2>1, <3>1, SMT DEF CalInv, IsDate
      <4>3. IsDate(n[1], n[2], n[3]) /\ EpochDays(n[1], n[2], n[3]) = calDay.count + 1
        BY <4>1, <4>2, NextDay, SMT
      <4> HIDE DEF n
      <4>4. QED
        BY <4>3, Zenon DEF IsDate
    <3>3. calDay' = [y |-> n[1], m |-> n[2], d |-> n[3], count |-> calDay.count + 1,
                     walked |-> calDay.walked + 1]
      BY <2>1, SMT DEF CalNext
    <3> HIDE DEF n
    <3>4. /\ calDay'.y = n[1] /\ calDay'.m = n[2] /\ calDay'.d = n[3]
          /\ calDay'.count = calDay.count + 1
          /\ calDay' \in [y : Int, m : 1 .. 12, d : 1 .. 31, count : Int, walked : Nat]
      BY <3>1, <3>2, <3>3, SMT
    <3>5. QED
      BY <3>2, <3>4, SMT DEF CalInv, CountsDays
  <2>2. ASSUME CalInv, UNCHANGED calVars
        PROVE  CalInv'
    BY <2>2, SMT DEF CalInv, calVars, CountsDays
  <2>3. QED
    BY <2>1, <2>2, SMT
<1>3. CalInv => CountsDays
  BY SMT DEF CalInv
<1>4. QED
  BY <1>1, <1>2, <1>3, PTL DEF CalSpec

=============================================================================
