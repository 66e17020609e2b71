------------------------------ MODULE Accounts ------------------------------
(***************************************************************************)
(* Users, logins and sessions of the API (apps/api/internal/auth, users):  *)
(* users, roles and password hashes in PostgreSQL, sessions in Redis, and  *)
(* the operations that read and change both.  The limits on failed logins  *)
(* are in LoginLimits; a login that they refuse changes nothing here.      *)
(*                                                                         *)
(* An operation is a goroutine of some replica.  Its steps are single      *)
(* statements: a change of a user is visible to others once its            *)
(* transaction commits, and row locks are held until it ends (PostgreSQL,  *)
(* read committed); a Redis pipeline is atomic, but it can fail, before or *)
(* after Redis has run it.  An operation can end without notice at any     *)
(* step (Crash).                                                           *)
(*                                                                         *)
(* A password hash is a pair: pw names the password, enc the parameters it *)
(* was hashed with.  The audit record of a change is written in its        *)
(* transaction and is part of its commit here.                             *)
(***************************************************************************)
EXTENDS Integers, FiniteSets

CONSTANTS
  Users,       \* user IDs (and their emails)
  Ops,         \* bound: operations in progress at once
  Sessions,    \* bound: the sessions that logins can create
  MaxEndings,  \* bound: password changes and disablings of a user
  NoOp,        \* no operation: a lock that is free
  NoUser,      \* no user
  NoSession    \* no session

ASSUME AccountsAssumption ==
  /\ MaxEndings \in Nat
  /\ NoOp \notin Ops /\ NoUser \notin Users /\ NoSession \notin Sessions

VARIABLES
  users,      \* the users table, as committed
  rowLock,    \* the operation that has locked each user's row
  adminLock,  \* the operation that has locked the admin role
  sess,       \* the sessions in Redis and in the hands of clients
  op          \* the operations in progress

accounts == <<users, rowLock, adminLock, sess, op>>

-----------------------------------------------------------------------------

Roles == {"admin", "viewer"}

Hash == [pw : 0 .. MaxEndings, enc : {"old", "new"}]

\* A user keeps at least one role.  endings is a history: the password changes and
\* disablings, each of which ends the user's sessions.
User ==
  [status : {"absent", "active", "disabled"}, hash : Hash, roles : (SUBSET Roles) \ {{}},
   endings : 0 .. MaxEndings]

\* A session: "free", "delayed" (its login gave up, and Redis may still create it),
\* "live", "ended".  handed: a client has the token.  endings is the user's when it was
\* created.  A live session is in the user's set of sessions, which is written with it
\* and outlives it.
Session ==
  [state : {"free", "delayed", "live", "ended"}, user : Users \cup {NoUser}, handed : BOOLEAN,
   endings : 0 .. MaxEndings]

\* pc of an operation: "check" (about to check the password), "tx" (about to take the
\* first lock of its transaction), "row" (it has locked the admin role), "keyshare"
\* (about to reference the admin role), "create", "list" and "delete" (the commands to
\* Redis inside the transaction), "commit", "undo" (about to delete the session of a
\* login that was not recorded), "failed" (about to audit a failed login), "answer",
\* and of a request "touch", "user", "serve".
Op ==
  [pc : {"idle", "check", "tx", "row", "keyshare", "create", "list", "delete", "commit", "undo",
         "failed", "answer", "touch", "user", "serve"},
   kind : {"login", "change", "set", "disable", "enable", "grant", "revoke", "request"},
   user : Users \cup {NoUser}, role : Roles, hash : Hash, new : User,
   session : Sessions \cup {NoSession}, keys : SUBSET Sessions]

AccountsTypeOK ==
  /\ users \in [Users -> User]
  /\ rowLock \in [Users -> Ops \cup {NoOp}]
  /\ adminLock \in Ops \cup {NoOp}
  /\ sess \in [Sessions -> Session]
  /\ op \in [Ops -> Op]

Admins == {u \in Users : users[u].status = "active" /\ "admin" \in users[u].roles}

FirstHash == [pw |-> 0, enc |-> "new"]

NewUser(roles) == [status |-> "active", hash |-> FirstHash, roles |-> roles, endings |-> 0]

Absent == [NewUser(Roles) EXCEPT !.status = "absent"]

Idle ==
  [pc |-> "idle", kind |-> "request", user |-> NoUser, role |-> "viewer", hash |-> FirstHash,
   new |-> Absent, session |-> NoSession, keys |-> {}]

FreeSession == [state |-> "free", user |-> NoUser, handed |-> FALSE, endings |-> 0]

\* A database in use: at least one active admin, hashes of old parameters.
AccountsInit ==
  /\ users \in [Users -> {Absent, [NewUser(Roles) EXCEPT !.hash.enc = "old"]}]
  /\ Admins # {}
  /\ rowLock = [u \in Users |-> NoOp]
  /\ adminLock = NoOp
  /\ sess = [s \in Sessions |-> FreeSession]
  /\ op = [o \in Ops |-> Idle]

-----------------------------------------------------------------------------

Goto(o, pc) == op' = [op EXCEPT ![o].pc = pc]
End(o) == op' = [op EXCEPT ![o] = Idle]

\* The transaction of o ends: its locks are released.
Release(o) ==
  /\ rowLock' = [u \in Users |-> IF rowLock[u] = o THEN NoOp ELSE rowLock[u]]
  /\ adminLock' = IF adminLock = o THEN NoOp ELSE adminLock

DeleteSession(s) == sess' = [sess EXCEPT ![s].state = "ended"]

-----------------------------------------------------------------------------
(* Logins                                                                  *)

StartLogin(o, u) ==
  /\ op[o].pc = "idle"
  /\ op' = [op EXCEPT ![o] = [Idle EXCEPT !.kind = "login", !.user = u, !.pc = "check"]]
  /\ UNCHANGED <<users, rowLock, adminLock, sess>>

\* The user is read and the password checked: it does not match (or the user is unknown
\* or disabled, which a change of one's own password does not ask), or it matches.
CheckPassword(o) ==
  LET user == users[op[o].user]
  IN
  /\ op[o].pc = "check"
  /\ \/ Goto(o, "failed")
     \/ /\ user.status = "active" \/ (op[o].kind = "change" /\ user.status # "absent")
        /\ op' = [op EXCEPT ![o].pc = "tx", ![o].hash = user.hash]
  /\ UNCHANGED <<users, rowLock, adminLock, sess>>

\* fail, wrongPassword: a transaction of its own audits the failure.
AuditFailure(o) ==
  /\ op[o].pc = "failed"
  /\ End(o)
  /\ UNCHANGED <<users, rowLock, adminLock, sess>>

\* Mutant: the login is recorded whatever has changed since the check.
StillValid_Always(o) == TRUE

\* RecordLogin's condition: active, and the hash is the one that was checked.
StillValid(o) ==
  users[op[o].user].status = "active" /\ users[op[o].user].hash = op[o].hash

\* RecordLogin waits for the row's lock and updates the row, if it may; a hash of old
\* parameters may be upgraded with it.
RecordLogin(o) ==
  LET u == op[o].user
  IN
  /\ op[o].pc = "tx"
  /\ op[o].kind = "login"
  /\ rowLock[u] = NoOp
  /\ IF StillValid(o)
       THEN /\ rowLock' = [rowLock EXCEPT ![u] = o]
            /\ \E enc \in {users[u].hash.enc, "new"} :
                 op' = [op EXCEPT ![o].pc = "create", ![o].new = [users[u] EXCEPT !.hash.enc = enc]]
       ELSE Goto(o, "failed") /\ UNCHANGED rowLock
  /\ UNCHANGED <<users, adminLock, sess>>

\* Sessions.Create inside the transaction.  When it fails, Redis may still create the
\* session later, and the login does not know.
CreateSession(o) ==
  LET u == op[o].user
      session(state) == [FreeSession EXCEPT !.state = state, !.user = u, !.endings = users[u].endings]
  IN
  /\ op[o].pc = "create"
  /\ \/ \E s \in {s \in Sessions : sess[s].state = "free"} :
          \/ /\ sess' = [sess EXCEPT ![s] = session("live")]
             /\ op' = [op EXCEPT ![o].pc = "commit", ![o].session = s]
             /\ UNCHANGED <<rowLock, adminLock>>
          \/ /\ sess' = [sess EXCEPT ![s] = session("delayed")]
             /\ Release(o)
             /\ End(o)
     \/ Release(o) /\ End(o) /\ UNCHANGED sess
  /\ UNCHANGED users

\* The pipeline of a Create that was given up reaches Redis.
LateCreate(s) ==
  /\ sess[s].state = "delayed"
  /\ sess' = [sess EXCEPT ![s].state = "live"]
  /\ UNCHANGED <<users, rowLock, adminLock, op>>

\* A login whose transaction failed after its session was created deletes the session,
\* if it can.
UndoSession(o) ==
  /\ op[o].pc = "undo"
  /\ DeleteSession(op[o].session) \/ UNCHANGED sess
  /\ End(o)
  /\ UNCHANGED <<users, rowLock, adminLock>>

\* The client of a login gets its token.
Answer(o) ==
  /\ op[o].pc = "answer"
  /\ sess' = [sess EXCEPT ![op[o].session].handed = TRUE]
  /\ End(o)
  /\ UNCHANGED <<users, rowLock, adminLock>>

-----------------------------------------------------------------------------
(* Changes of a user                                                       *)

\* The request of an admin begins a change of a user.
StartChange(o, u, kind, role) ==
  /\ op[o].pc = "idle"
  /\ users[u].status # "absent"
  /\ op' = [op EXCEPT ![o] = [Idle EXCEPT !.kind = kind, !.user = u, !.role = role, !.pc = "tx"]]
  /\ UNCHANGED <<users, rowLock, adminLock, sess>>

SetUserPassword(o, u) == StartChange(o, u, "set", "viewer")

\* A change of the email or the name only is not one of these.
UpdateUser(o, u) == \E kind \in {"disable", "enable"} : StartChange(o, u, kind, "viewer")

GrantRole(o, u) == \E role \in Roles : StartChange(o, u, "grant", role)

RevokeRole(o, u) == \E role \in Roles : StartChange(o, u, "revoke", role)

\* A user is created in a transaction of its own, with at least one role.
CreateUser(u) ==
  /\ users[u].status = "absent"
  /\ \E roles \in (SUBSET Roles) \ {{}} : users' = [users EXCEPT ![u] = NewUser(roles)]
  /\ UNCHANGED <<rowLock, adminLock, sess, op>>

\* Mutant: only a revocation takes the admin role's lock.
CanLeaveNoAdmin_RevokeOnly(o) == op[o].kind = "revoke" /\ op[o].role = "admin"

\* The changes that could leave no active admin lock the admin role first.
CanLeaveNoAdmin(o) ==
  op[o].kind = "disable" \/ (op[o].kind = "revoke" /\ op[o].role = "admin")

LockAdminRole(o) ==
  /\ op[o].pc = "tx"
  /\ CanLeaveNoAdmin(o)
  /\ adminLock = NoOp
  /\ adminLock' = o
  /\ Goto(o, "row")
  /\ UNCHANGED <<users, rowLock, sess>>

\* lastAdmin: the user is an active admin, and no other is.
LastAdmin(u) == Admins = {u}

\* A revocation is refused for the last admin, and for a user's last role.
Revoked(u, role) ==
  IF (role = "admin" /\ LastAdmin(u)) \/ users[u].roles = {role}
    THEN users[u] ELSE [users[u] EXCEPT !.roles = @ \ {role}]

NewPassword(user) == [user EXCEPT !.hash = [pw |-> @.pw + 1, enc |-> "new"]]

\* What a change makes of the user it has locked: the user itself when there is nothing
\* to change or the change is refused.
Changed(o) ==
  LET u == op[o].user
      kind == op[o].kind
  IN
  CASE kind = "set" -> NewPassword(users[u])
    [] kind = "change" -> IF users[u].hash = op[o].hash THEN NewPassword(users[u]) ELSE users[u]
    [] kind = "disable" -> IF LastAdmin(u) THEN users[u] ELSE [users[u] EXCEPT !.status = "disabled"]
    [] kind = "enable" -> [users[u] EXCEPT !.status = "active"]
    [] kind = "grant" -> [users[u] EXCEPT !.roles = @ \cup {op[o].role}]
    [] kind = "revoke" -> Revoked(u, op[o].role)

\* A password change and a disabling end the user's sessions.
Ending(user, new) ==
  new.hash # user.hash \/ (new.status = "disabled" /\ user.status = "active")

GrantsAdmin(o) == op[o].kind = "grant" /\ op[o].role = "admin"

\* The row is locked, and the transaction goes on if there is something to change.  A
\* password change whose hash is no longer the user's fails like a wrong password.
LockUser(o) ==
  LET u == op[o].user
      new == Changed(o)
      ending == Ending(users[u], new)
  IN
  /\ op[o].pc = IF CanLeaveNoAdmin(o) THEN "row" ELSE "tx"
  /\ op[o].kind # "login"
  /\ rowLock[u] = NoOp
  /\ ending => users[u].endings < MaxEndings
  /\ IF new = users[u]
       THEN /\ Release(o)
            /\ IF op[o].kind = "change" THEN Goto(o, "failed") ELSE End(o)
       ELSE /\ rowLock' = [rowLock EXCEPT ![u] = o]
            /\ op' = [op EXCEPT
                 ![o].pc = IF ending THEN "list" ELSE IF GrantsAdmin(o) THEN "keyshare" ELSE "commit",
                 ![o].new = IF ending THEN [new EXCEPT !.endings = @ + 1] ELSE new]
            /\ UNCHANGED adminLock
  /\ UNCHANGED <<users, sess>>

\* Mutant: the role's row is locked "for update".
ExcludesKeyShare_Update == TRUE

\* Whether LockAdminRole's lock, "for no key update", excludes the key-share lock of a
\* foreign key.
ExcludesKeyShare == FALSE

\* The new row of user_roles takes a key-share lock on the admin role's row.
KeyShareAdminRole(o) ==
  /\ op[o].pc = "keyshare"
  /\ ExcludesKeyShare => adminLock = NoOp
  /\ Goto(o, "commit")
  /\ UNCHANGED <<users, rowLock, adminLock, sess>>

\* DeleteUser reads the keys of the user's sessions,
ListSessions(o) ==
  /\ op[o].pc = "list"
  /\ op' = [op EXCEPT ![o].pc = "delete",
              ![o].keys = {s \in Sessions : sess[s].user = op[o].user /\ sess[s].state = "live"}]
  /\ UNCHANGED <<users, rowLock, adminLock, sess>>

\* and deletes them.  When that fails, Redis may have deleted them all the same.
DeleteSessions(o) ==
  /\ op[o].pc = "delete"
  /\ sess' = [s \in Sessions |->
                IF s \in op[o].keys THEN [sess[s] EXCEPT !.state = "ended"] ELSE sess[s]]
  /\ \/ Goto(o, "commit") /\ UNCHANGED <<rowLock, adminLock>>
     \/ Release(o) /\ End(o)
  /\ UNCHANGED users

\* The transaction fails, before its end or at its commit.
Abort(o) ==
  /\ op[o].pc \in {"tx", "row", "keyshare", "list", "delete", "commit"}
  /\ Release(o)
  /\ IF op[o].session # NoSession THEN Goto(o, "undo") ELSE End(o)
  /\ UNCHANGED <<users, sess>>

\* The transaction commits; the answer may be lost, and then the operation has failed
\* for its caller.
Commit(o) ==
  /\ op[o].pc = "commit"
  /\ users' = [users EXCEPT ![op[o].user] = op[o].new]
  /\ Release(o)
  /\ IF op[o].kind = "login" THEN Goto(o, "answer") \/ Goto(o, "undo") ELSE End(o)
  /\ UNCHANGED sess

\* The replica dies: PostgreSQL rolls the transaction back.
Crash(o) ==
  /\ op[o].pc # "idle"
  /\ Release(o)
  /\ End(o)
  /\ UNCHANGED <<users, sess>>

-----------------------------------------------------------------------------
(* Requests with a session                                                 *)

\* Lookup finds the session in Redis.
Lookup(o, s) ==
  /\ op[o].pc = "idle"
  /\ sess[s].handed
  /\ sess[s].state = "live"
  /\ op' = [op EXCEPT ![o] = [Idle EXCEPT !.pc = "touch", !.session = s, !.user = sess[s].user]]
  /\ UNCHANGED <<users, rowLock, adminLock, sess>>

\* Lookup writes the time of the request back, only if the session still exists; it
\* writes nothing when it did so within the last minute.
Touch(o) ==
  /\ op[o].pc = "touch"
  /\ \/ Goto(o, "user")
     \/ sess[op[o].session].state # "live" /\ End(o)
  /\ UNCHANGED <<users, rowLock, adminLock, sess>>

\* Authenticate reads the user; the session of one who is not active is deleted, if that
\* succeeds.
ReadUser(o) ==
  /\ op[o].pc = "user"
  /\ IF users[op[o].user].status = "active"
       THEN Goto(o, "serve") /\ UNCHANGED sess
       ELSE End(o) /\ (DeleteSession(op[o].session) \/ UNCHANGED sess)
  /\ UNCHANGED <<users, rowLock, adminLock>>

\* The request reads something, or it changes a user as an action of its own.
ServeOther(o) ==
  /\ op[o].pc = "serve"
  /\ End(o)
  /\ UNCHANGED <<users, rowLock, adminLock, sess>>

\* Logout; when it fails, Redis may have deleted the session all the same.
Logout(o) ==
  /\ op[o].pc = "serve"
  /\ DeleteSession(op[o].session) \/ UNCHANGED sess
  /\ End(o)
  /\ UNCHANGED <<users, rowLock, adminLock>>

\* ChangePassword: the current password is checked as a login's is.
ChangePassword(o) ==
  /\ op[o].pc = "serve"
  /\ op' = [op EXCEPT ![o].kind = "change", ![o].session = NoSession, ![o].pc = "check"]
  /\ UNCHANGED <<users, rowLock, adminLock, sess>>

\* A session reaches its idle or its absolute limit.
SessionExpires(s) ==
  /\ sess[s].state = "live"
  /\ DeleteSession(s)
  /\ UNCHANGED <<users, rowLock, adminLock, op>>

-----------------------------------------------------------------------------

LoginStep(o) ==
  \/ CheckPassword(o) \/ AuditFailure(o) \/ RecordLogin(o) \/ CreateSession(o)
  \/ UndoSession(o) \/ Answer(o)

ChangeStep(o) ==
  \/ LockAdminRole(o) \/ LockUser(o) \/ KeyShareAdminRole(o) \/ ListSessions(o)
  \/ DeleteSessions(o) \/ Commit(o) \/ Abort(o)

RequestStep(o) ==
  Touch(o) \/ ReadUser(o) \/ ServeOther(o) \/ Logout(o) \/ ChangePassword(o)

AccountsNext ==
  \/ \E o \in Ops :
       \/ \E u \in Users :
            \/ StartLogin(o, u)
            \/ SetUserPassword(o, u) \/ UpdateUser(o, u) \/ GrantRole(o, u) \/ RevokeRole(o, u)
       \/ \E s \in Sessions : Lookup(o, s)
       \/ LoginStep(o) \/ ChangeStep(o) \/ RequestStep(o) \/ Crash(o)
  \/ \E u \in Users : CreateUser(u)
  \/ \E s \in Sessions : LateCreate(s) \/ SessionExpires(s)

AccountsSpec == AccountsInit /\ [][AccountsNext]_accounts

-----------------------------------------------------------------------------
(* Properties                                                              *)

\* A session a client can use belongs to an active user and was opened after the user's
\* password last changed and after the user was last disabled: no login that was under
\* way, no lost answer of Redis or PostgreSQL and no failed transaction lets one survive
\* (SetPassword, Update, RecordLogin).
SessionsEndWithAccess ==
  \A s \in Sessions : sess[s].handed /\ sess[s].state = "live" =>
    LET user == users[sess[s].user]
    IN user.status = "active" /\ sess[s].endings = user.endings

\* Some active user is an admin, whatever disablings and revocations run at once
\* (LockAdminRole, lastAdmin).
AdminRemains == Admins # {}

WaitsFor(o, p) ==
  \/ op[o].pc = (IF CanLeaveNoAdmin(o) THEN "row" ELSE "tx") /\ rowLock[op[o].user] = p
  \/ op[o].pc = "tx" /\ CanLeaveNoAdmin(o) /\ adminLock = p
  \/ op[o].pc = "keyshare" /\ ExcludesKeyShare /\ adminLock = p

\* No two operations wait for each other's locks, although a disabling locks the admin
\* role before the user's row and a grant of admin locks them the other way round
\* (LockAdminRole's "no key update").
NoLockCycle ==
  ~ \E o, p \in Ops : o # p /\ WaitsFor(o, p) /\ WaitsFor(p, o)
=============================================================================
