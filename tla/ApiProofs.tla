------------------------------ MODULE ApiProofs -----------------------------
(***************************************************************************)
(* The API's state, for any users, accounts, addresses, applications and   *)
(* callers: what Accounts, LoginLimits and Inventory promise in every      *)
(* interleaving of requests and replicas.                                  *)
(***************************************************************************)
EXTENDS Accounts, LoginLimits, Inventory, FiniteSetTheorems, WellFoundedInduction, TLAPS

-----------------------------------------------------------------------------
(***************************************************************************)
(* Accounts for any users, operations and sessions: some admin remains, no *)
(* two operations wait for each other, and no session a client can use     *)
(* outlives its user's access.                                             *)
(*                                                                         *)
(* All three rest on who holds which lock (LocksHeld): what a transaction  *)
(* has read of the row it has locked is still so when it commits           *)
(* (RowsPrepared).  The admins need in addition that the admin role's      *)
(* lock keeps another admin in office until a disabling or a revocation    *)
(* commits (AdminElsewhere), the sessions that every session a client has  *)
(* or is about to get was seen by the listing that ends them (Swept).      *)
(***************************************************************************)

\* The steps of an operation that hold the lock of its user's row, and those
\* that hold the admin role's if the operation takes it.
RowSteps == {"create", "keyshare", "list", "delete", "commit"}
AdminSteps == {"row", "list", "delete", "commit"}

\* CanLeaveNoAdmin of an operation's record.
Demote(q) == q.kind = "disable" \/ (q.kind = "revoke" /\ q.role = "admin")

\* Operation q hands, or is about to hand, session s to a client.
Claims(q, s) == q.kind = "login" /\ q.pc \in {"commit", "answer"} /\ q.session = s

\* A user's password changes are among the endings, so both stay within bounds.
Bounded(user) == user.hash.pw <= user.endings

\* An operation works on a user, and its step fits its kind.
WellFormed(q) ==
  /\ q.pc # "idle" => q.user \in Users
  /\ q.pc \in {"create", "answer", "undo"} => q.kind = "login"
  /\ q.pc \in {"row", "keyshare", "list", "delete"} => q.kind # "login"
  /\ q.pc = "row" => Demote(q)
  /\ q.pc = "keyshare" => q.kind = "grant" /\ q.role = "admin"
  /\ q.pc = "check" => q.kind \in {"login", "change"}
  /\ q.pc \in {"tx", "list", "delete", "commit"} => q.kind # "request"
  /\ q.kind \notin {"login", "request"} => q.session = NoSession
  /\ Bounded(q.new)

OpsFormed == \A o \in Ops : WellFormed(op[o])

UsersBounded == \A u \in Users : Bounded(users[u])

\* The operations at their steps hold the locks these need, and no others.
LocksHeld ==
  /\ \A o \in Ops : \A u \in Users : rowLock[u] = o <=> op[o].pc \in RowSteps /\ op[o].user = u
  /\ \A o \in Ops :
       /\ adminLock = o => op[o].pc \in AdminSteps
       /\ op[o].pc \in AdminSteps /\ Demote(op[o]) => adminLock = o

\* A client has, or a login is about to hand it, session s.
Claimed(s) == sess[s].handed \/ \E o \in Ops : Claims(op[o], s)

\* Sessions belong to users, and only those that Redis has created are claimed.
SessionsPlaced ==
  \A s \in Sessions :
    /\ sess[s].state \in {"delayed", "live"} => sess[s].user \in Users
    /\ sess[s].state \in {"free", "delayed"} => ~Claimed(s)

\* What operation q will write, seen from the row it has locked.
Prepared(q) ==
  /\ q.pc \in {"tx", "row"} \cup RowSteps => users[q.user].status # "absent"
  /\ q.pc \in RowSteps =>
       /\ q.new.status # "absent"
       /\ ~Demote(q) =>
            /\ users[q.user].status = "active" => q.new.status = "active"
            /\ "admin" \in users[q.user].roles => "admin" \in q.new.roles
       /\ q.kind = "login" => users[q.user].status = "active"
       /\ q.kind = "login" \/ q.pc = "keyshare" => q.new.endings = users[q.user].endings

RowsPrepared == \A o \in Ops : Prepared(op[o])

\* While a change that could leave no admin has its row, another user is an admin.
Elsewhere(q) == q.pc \in RowSteps /\ Demote(q) => \E u \in Admins : u # q.user

AdminElsewhere == \A o \in Ops : Elsewhere(op[o])

\* The live sessions of user u that a client has or is about to get.
Usable(u) == {s \in Sessions : sess[s].user = u /\ sess[s].state = "live" /\ Claimed(s)}

\* A change that ends sessions has listed every usable one, then has ended them.
SweptBy(q) ==
  /\ q.pc = "delete" => Usable(q.user) \subseteq q.keys
  /\ q.pc = "commit" =>
       \/ Usable(q.user) = {}
       \/ /\ q.new.endings = users[q.user].endings
          /\ users[q.user].status = "active" => q.new.status = "active"

Swept == \A o \in Ops : SweptBy(op[o])

\* A usable session, handed out or not, goes with its user's access.
UsableFresh ==
  \A u \in Users : \A s \in Usable(u) : users[u].status = "active" /\ sess[s].endings = users[u].endings

LockInv == AccountsTypeOK /\ UsersBounded /\ OpsFormed /\ LocksHeld

AccountsInv ==
  /\ LockInv /\ SessionsPlaced /\ RowsPrepared
  /\ AdminElsewhere /\ AdminRemains /\ Swept /\ UsableFresh

-----------------------------------------------------------------------------
(* What a step of one operation leaves alone                               *)

\* Operation o becomes q; it takes and releases locks of its own only.
Moves(o, q) ==
  /\ op' = [op EXCEPT ![o] = q]
  /\ q \in Op /\ WellFormed(q)
  /\ rowLock' \in [Users -> Ops \cup {NoOp}] /\ adminLock' \in Ops \cup {NoOp}
  /\ \A u \in Users : \A p \in Ops : p # o => (rowLock'[u] = p <=> rowLock[u] = p)
  /\ \A u \in Users : rowLock'[u] = o <=> q.pc \in RowSteps /\ q.user = u
  /\ \A p \in Ops : p # o => (adminLock' = p <=> adminLock = p)
  /\ adminLock' = o => q.pc \in AdminSteps
  /\ q.pc \in AdminSteps /\ Demote(q) => adminLock' = o

\* Sessions are ended, claimed only by the login that has them, and created only
\* unclaimed and late, or by q under the lock of its user's row.
SessionsMove(o, q) ==
  /\ sess' \in [Sessions -> Session]
  /\ \A s \in Sessions :
       \/ sess'[s].state = "ended"
       \/ /\ sess'[s].state = sess[s].state /\ sess'[s].user = sess[s].user /\ sess'[s].endings = sess[s].endings
          /\ sess'[s].handed => Claimed(s)
       \/ sess[s].state = "free" /\ sess'[s].state = "delayed" /\ ~sess'[s].handed /\ sess'[s].user \in Users
       \/ /\ sess[s].state = "free" /\ sess'[s].state = "live" /\ ~sess'[s].handed
          /\ sess'[s].user = q.user /\ q.user \in Users /\ sess'[s].endings = users[q.user].endings
          /\ users[q.user].status = "active" /\ rowLock[q.user] = o
  /\ \A s \in Sessions : Claims(q, s) =>
       Claims(op[o], s) \/ (sess[s].state = "free" /\ sess'[s].state = "live")

\* The locks stay with the operations that work under them.
LEMMA LocksMove ==
  ASSUME LockInv, NEW o \in Ops, NEW q, Moves(o, q)
  PROVE  /\ op' \in [Ops -> Op] /\ op'[o] = q /\ \A p \in Ops : p # o => op'[p] = op[p]
         /\ OpsFormed' /\ LocksHeld'
<1>1. op' \in [Ops -> Op] /\ op'[o] = q /\ \A p \in Ops : p # o => op'[p] = op[p]
  BY DEF LockInv, AccountsTypeOK, Moves
<1>2. OpsFormed'
  <2>1. ASSUME NEW p \in Ops PROVE WellFormed(op'[p])
    BY <1>1 DEF LockInv, OpsFormed, Moves
  <2> QED
    BY <2>1 DEF OpsFormed, WellFormed, Demote, Bounded
<1>3. LocksHeld'
  <2>1. ASSUME NEW p \in Ops, NEW u \in Users
        PROVE  rowLock'[u] = p <=> op'[p].pc \in RowSteps /\ op'[p].user = u
    BY <1>1 DEF LockInv, LocksHeld, Moves
  <2>2. ASSUME NEW p \in Ops
        PROVE  /\ adminLock' = p => op'[p].pc \in AdminSteps
               /\ op'[p].pc \in AdminSteps /\ Demote(op'[p]) => adminLock' = p
    BY <1>1 DEF LockInv, LocksHeld, Moves
  <2> QED
    BY <2>1, <2>2 DEF LocksHeld, Demote
<1> QED
  BY <1>1, <1>2, <1>3

\* A session becomes usable only when its login creates it.
LEMMA UsableMove ==
  ASSUME LockInv, SessionsPlaced, NEW o \in Ops, NEW q, Moves(o, q), SessionsMove(o, q)
  PROVE  /\ SessionsPlaced'
         /\ \A u \in Users : u # q.user \/ rowLock[q.user] # o => Usable(u)' \subseteq Usable(u)
         /\ \A u \in Users : \A s \in Usable(u)' :
              \/ s \in Usable(u) /\ sess'[s].endings = sess[s].endings
              \/ /\ u = q.user /\ sess'[s].endings = users[q.user].endings
                 /\ users[q.user].status = "active" /\ rowLock[q.user] = o
<1>1. op'[o] = q /\ \A p \in Ops : p # o => op'[p] = op[p]
  BY LocksMove
<1>2. ASSUME NEW s \in Sessions, Claimed(s)', sess'[s].state # "ended"
      PROVE  Claimed(s) \/ (sess[s].state = "free" /\ sess'[s].state = "live")
  <2>1. CASE sess'[s].handed
    BY <1>2, <2>1 DEF SessionsMove
  <2>2. CASE \E p \in Ops : Claims(op'[p], s)
    BY <1>1, <2>2 DEF SessionsMove, Claimed
  <2> QED
    BY <1>2, <2>1, <2>2 DEF Claimed, Claims
<1>3. ASSUME NEW s \in Sessions
      PROVE  /\ sess'[s].state \in {"delayed", "live"} => sess'[s].user \in Users
             /\ sess'[s].state \in {"free", "delayed"} => ~Claimed(s)'
  <2>1. sess'[s].state \in {"delayed", "live"} => sess'[s].user \in Users
    BY DEF SessionsMove, SessionsPlaced
  <2>2. ASSUME sess'[s].state \in {"free", "delayed"} PROVE ~Claimed(s)'
    BY <1>2, <2>2 DEF SessionsMove, SessionsPlaced
  <2> QED
    BY <2>1, <2>2
<1>4. ASSUME NEW u \in Users, NEW s \in Usable(u)'
      PROVE  \/ s \in Usable(u) /\ sess'[s].endings = sess[s].endings
             \/ /\ u = q.user /\ sess'[s].endings = users[q.user].endings
                /\ users[q.user].status = "active" /\ rowLock[q.user] = o
  <2>1. s \in Sessions /\ sess'[s].user = u /\ sess'[s].state = "live" /\ Claimed(s)'
    BY DEF Usable
  <2> QED
    BY <1>2, <2>1 DEF SessionsMove, SessionsPlaced, Usable
<1> QED
  BY <1>3, <1>4 DEF SessionsPlaced

\* A step that writes no user keeps what the transactions rest on.
LEMMA MoveKeeps ==
  ASSUME AccountsInv, NEW o \in Ops, NEW q, Moves(o, q), SessionsMove(o, q), UNCHANGED users,
         Prepared(q), Elsewhere(q), SweptBy(q)'
  PROVE  AccountsInv'
<1>0. LockInv /\ SessionsPlaced
  BY DEF AccountsInv
<1>1. /\ op' \in [Ops -> Op] /\ op'[o] = q /\ \A p \in Ops : p # o => op'[p] = op[p]
      /\ OpsFormed' /\ LocksHeld'
  BY <1>0, LocksMove
<1>2. /\ SessionsPlaced'
      /\ \A u \in Users : u # q.user \/ rowLock[q.user] # o => Usable(u)' \subseteq Usable(u)
      /\ \A u \in Users : \A s \in Usable(u)' :
           \/ s \in Usable(u) /\ sess'[s].endings = sess[s].endings
           \/ /\ u = q.user /\ sess'[s].endings = users[q.user].endings
              /\ users[q.user].status = "active" /\ rowLock[q.user] = o
  BY <1>0, UsableMove
<1>3. LockInv'
  BY <1>0, <1>1 DEF LockInv, AccountsTypeOK, Moves, SessionsMove, UsersBounded
<1>4. RowsPrepared'
  <2>1. \A p \in Ops : Prepared(op'[p])
    BY <1>1 DEF AccountsInv, RowsPrepared
  <2> QED
    BY <2>1 DEF RowsPrepared, Prepared
<1>5. AdminElsewhere' /\ AdminRemains'
  <2>1. \A p \in Ops : Elsewhere(op'[p])
    BY <1>1 DEF AccountsInv, AdminElsewhere
  <2>2. Admins' = Admins
    BY DEF Admins
  <2> QED
    BY <2>1, <2>2 DEF AccountsInv, AdminElsewhere, AdminRemains, Elsewhere
<1>6. Swept'
  <2>1. ASSUME NEW p \in Ops, p # o, NEW r, r = op[p] PROVE SweptBy(r)'
    <3>1. SweptBy(r) /\ (r.pc \in RowSteps => r.user \in Users /\ rowLock[r.user] = p)
      BY <1>0, <2>1 DEF AccountsInv, Swept, LockInv, LocksHeld, OpsFormed, WellFormed, RowSteps
    <3>2. r.pc \in RowSteps => Usable(r.user)' \subseteq Usable(r.user)
      BY <1>2, <2>1, <3>1
    <3> QED
      BY <3>1, <3>2 DEF SweptBy, RowSteps
  <2>2. ASSUME NEW p \in Ops, NEW r, r = op'[p] PROVE SweptBy(r)'
    BY <1>1, <2>1, <2>2
  <2> QED
    BY <2>2 DEF Swept, SweptBy, Usable
<1>7. UsableFresh'
  BY <1>2 DEF AccountsInv, UsableFresh
<1> QED
  BY <1>2, <1>3, <1>4, <1>5, <1>6, <1>7 DEF AccountsInv

\* The sessions are as before, or some of them are ended.
LEMMA SessionsEnd ==
  ASSUME AccountsTypeOK, NEW o \in Ops, NEW q, \A s \in Sessions : Claims(q, s) => Claims(op[o], s),
         sess' \in [Sessions -> Session],
         \A s \in Sessions : sess'[s] = sess[s] \/ sess'[s].state = "ended"
  PROVE  SessionsMove(o, q)
BY DEF SessionsMove, Claimed

\* Release frees the locks of its operation only.
LEMMA ReleaseFrees ==
  ASSUME AccountsTypeOK, NEW o \in Ops, Release(o)
  PROVE  /\ rowLock' \in [Users -> Ops \cup {NoOp}] /\ adminLock' \in Ops \cup {NoOp}
         /\ \A u \in Users : rowLock'[u] # o /\ \A p \in Ops : p # o => (rowLock'[u] = p <=> rowLock[u] = p)
         /\ adminLock' # o /\ \A p \in Ops : p # o => (adminLock' = p <=> adminLock = p)
BY AccountsAssumption DEF AccountsTypeOK, Release

\* An operation that ends, fails or goes on without a transaction.
LEMMA MovesAway ==
  ASSUME AccountsInv, NEW o \in Ops, NEW q \in Op, WellFormed(q), op' = [op EXCEPT ![o] = q],
         q.pc \in {"idle", "check", "failed", "undo", "touch", "user", "serve"},
         UNCHANGED users,
         Release(o) \/ (UNCHANGED <<rowLock, adminLock>> /\ op[o].pc \notin RowSteps \cup AdminSteps),
         SessionsMove(o, q)
  PROVE  AccountsInv'
<1>1. AccountsTypeOK /\ LocksHeld
  BY DEF AccountsInv, LockInv
<1>2. q.pc \notin RowSteps \cup AdminSteps
  BY DEF RowSteps, AdminSteps
<1>3. /\ rowLock' \in [Users -> Ops \cup {NoOp}] /\ adminLock' \in Ops \cup {NoOp}
      /\ \A u \in Users : rowLock'[u] # o /\ \A p \in Ops : p # o => (rowLock'[u] = p <=> rowLock[u] = p)
      /\ adminLock' # o /\ \A p \in Ops : p # o => (adminLock' = p <=> adminLock = p)
  <2>1. CASE Release(o)
    BY <1>1, <2>1, ReleaseFrees
  <2>2. CASE UNCHANGED <<rowLock, adminLock>> /\ op[o].pc \notin RowSteps \cup AdminSteps
    BY <1>1, <2>2 DEF AccountsTypeOK, LocksHeld
  <2> QED
    BY <2>1, <2>2
<1>4. Moves(o, q)
  BY <1>2, <1>3 DEF Moves
<1>5. Prepared(q) /\ Elsewhere(q) /\ SweptBy(q)'
  BY <1>2 DEF Prepared, Elsewhere, SweptBy, RowSteps
<1> QED
  BY <1>4, <1>5, MoveKeeps

\* A step of a transaction that keeps its locks.
LEMMA MovesOn ==
  ASSUME AccountsInv, NEW o \in Ops, NEW q \in Op, WellFormed(q), op' = [op EXCEPT ![o] = q],
         UNCHANGED <<users, rowLock, adminLock>>,
         q.pc \in RowSteps <=> op[o].pc \in RowSteps,
         op[o].pc \in AdminSteps => q.pc \in AdminSteps,
         q.pc \in AdminSteps /\ Demote(q) => op[o].pc \in AdminSteps /\ Demote(op[o]),
         op[o].pc \in RowSteps => q.user = op[o].user, SessionsMove(o, q),
         Prepared(q), Elsewhere(q), SweptBy(q)'
  PROVE  AccountsInv'
<1>1. AccountsTypeOK /\ LocksHeld
  BY DEF AccountsInv, LockInv
<1>2. Moves(o, q)
  BY <1>1 DEF Moves, AccountsTypeOK, LocksHeld
<1> QED
  BY <1>2, MoveKeeps

\* What an operation is, and the records that steps make of it.
LEMMA OpTyped ==
  ASSUME LockInv, NEW o \in Ops
  PROVE  /\ op[o] \in Op /\ WellFormed(op[o])
         /\ op = [p \in Ops |-> op[p]]
         /\ Idle \in Op /\ WellFormed(Idle) /\ Idle.pc = "idle" /\ Idle.kind = "request"
         /\ Idle.session = NoSession /\ Idle.new \in User /\ Bounded(Idle.new)
<1>1. op[o] \in Op /\ WellFormed(op[o]) /\ op = [p \in Ops |-> op[p]]
  BY DEF LockInv, AccountsTypeOK, OpsFormed
<1>2. FirstHash \in Hash /\ FirstHash.pw = 0
  BY AccountsAssumption DEF FirstHash, Hash
<1>3. Absent \in User /\ Absent.hash = FirstHash /\ Absent.endings = 0
  <2>1. PICK roles : roles = Roles
    OBVIOUS
  <2>2. roles \in (SUBSET Roles) \ {{}}
    BY <2>1 DEF Roles
  <2>3. Absent = [status |-> "absent", hash |-> FirstHash, roles |-> roles, endings |-> 0]
    BY <2>1 DEF Absent, NewUser
  <2> QED
    BY <1>2, <2>2, <2>3, AccountsAssumption DEF User
<1>4. /\ Idle \in Op /\ Idle.pc = "idle" /\ Idle.kind = "request"
      /\ Idle.session = NoSession /\ Idle.new = Absent
  BY <1>2, <1>3 DEF Idle, Op, Roles
<1>5. Bounded(Absent)
  BY <1>2, <1>3 DEF Bounded
<1> QED
  BY <1>1, <1>3, <1>4, <1>5 DEF WellFormed

\* Operations begin, and the steps outside a transaction.
LEMMA OutsideKeeps ==
  ASSUME AccountsInv, NEW o \in Ops,
         \/ \E u \in Users : StartLogin(o, u)
         \/ \E s \in Sessions : Lookup(o, s)
         \/ AuditFailure(o) \/ UndoSession(o) \/ Answer(o) \/ RequestStep(o) \/ Crash(o)
         \/ CheckPassword(o) /\ Goto(o, "failed")
  PROVE  AccountsInv'
<1>0. LockInv /\ AccountsTypeOK
  BY DEF AccountsInv, LockInv
<1>1. PICK q \in Op : q = op[o] /\ WellFormed(q)
  BY <1>0, OpTyped
<1>2. /\ Idle \in Op /\ WellFormed(Idle) /\ Idle.pc = "idle" /\ Idle.kind = "request" /\ Idle.session = NoSession
      /\ Idle.new \in User /\ Bounded(Idle.new)
  BY <1>0, <1>1, OpTyped
<1>3. ASSUME NEW r, r.pc \notin {"commit", "answer"} PROVE \A s \in Sessions : ~Claims(r, s)
  BY <1>3 DEF Claims
<1>4. ASSUME NEW pc \in {"failed", "user", "serve"}, Goto(o, pc), UNCHANGED <<users, rowLock, adminLock, sess>>,
             q.pc \in {"check", "touch", "user"}
      PROVE  AccountsInv'
  <2>1. PICK r : r = [q EXCEPT !.pc = pc]
    OBVIOUS
  <2>2. /\ r \in Op /\ r.pc = pc /\ r.user = q.user /\ r.new = q.new /\ r.kind = q.kind /\ r.session = q.session
    BY <2>1 DEF Op
  <2>3. WellFormed(r)
    BY <1>1, <1>4, <2>2 DEF WellFormed
  <2>4. op' = [op EXCEPT ![o] = r]
    BY <1>1, <1>4, <2>1 DEF Goto
  <2>5. SessionsMove(o, r)
    BY <1>0, <1>3, <1>4, <2>2, SessionsEnd DEF AccountsTypeOK
  <2> QED
    BY <1>1, <1>4, <2>2, <2>3, <2>4, <2>5, MovesAway DEF RowSteps, AdminSteps
<1>5. ASSUME End(o), UNCHANGED users,
             Release(o) \/ (UNCHANGED <<rowLock, adminLock>> /\ q.pc \notin RowSteps \cup AdminSteps),
             SessionsMove(o, Idle)
      PROVE  AccountsInv'
  <2>1. op' = [op EXCEPT ![o] = Idle]
    BY <1>5 DEF End
  <2> QED
    BY <1>1, <1>2, <1>5, <2>1, MovesAway
<1>6. ASSUME UNCHANGED sess PROVE SessionsMove(o, Idle)
  BY <1>0, <1>2, <1>3, <1>6, SessionsEnd DEF AccountsTypeOK
<1>7. ASSUME NEW s, DeleteSession(s) PROVE SessionsMove(o, Idle)
  <2>1. \A t \in Sessions : sess'[t] = sess[t] \/ sess'[t].state = "ended"
    BY <1>0, <1>7 DEF DeleteSession, AccountsTypeOK, Session
  <2>2. sess' \in [Sessions -> Session]
    BY <1>0, <1>7 DEF DeleteSession, AccountsTypeOK, Session
  <2> QED
    BY <1>0, <1>2, <1>3, <2>1, <2>2, SessionsEnd
<1>8. CASE \E u \in Users : StartLogin(o, u)
  <2>1. PICK u \in Users : StartLogin(o, u)
    BY <1>8
  <2>2. PICK r : r = [Idle EXCEPT !.kind = "login", !.user = u, !.pc = "check"]
    OBVIOUS
  <2>3. r \in Op /\ r.pc = "check" /\ r.user = u /\ r.kind = "login" /\ r.new = Idle.new
    BY <1>2, <2>2 DEF Op
  <2>4. WellFormed(r)
    BY <1>2, <2>3 DEF WellFormed
  <2>5. op' = [op EXCEPT ![o] = r] /\ UNCHANGED <<users, rowLock, adminLock, sess>> /\ q.pc = "idle"
    BY <1>1, <2>1, <2>2 DEF StartLogin
  <2>6. SessionsMove(o, r)
    BY <1>0, <1>3, <2>3, <2>5, SessionsEnd DEF AccountsTypeOK
  <2> QED
    BY <1>1, <2>3, <2>4, <2>5, <2>6, MovesAway DEF RowSteps, AdminSteps
<1>9. CASE \E s \in Sessions : Lookup(o, s)
  <2>1. PICK s \in Sessions : Lookup(o, s)
    BY <1>9
  <2>2. PICK u \in Users : u = sess[s].user
    BY <2>1 DEF Lookup, AccountsInv, SessionsPlaced
  <2>3. PICK r : r = [Idle EXCEPT !.pc = "touch", !.session = s, !.user = u]
    OBVIOUS
  <2>4. r \in Op /\ r.pc = "touch" /\ r.user = u /\ r.new = Idle.new /\ r.kind = "request"
    BY <1>2, <2>3 DEF Op
  <2>5. WellFormed(r)
    BY <1>2, <2>4 DEF WellFormed
  <2>6. op' = [op EXCEPT ![o] = r] /\ UNCHANGED <<users, rowLock, adminLock, sess>> /\ q.pc = "idle"
    BY <1>1, <2>1, <2>2, <2>3 DEF Lookup
  <2>7. SessionsMove(o, r)
    BY <1>0, <1>3, <2>4, <2>6, SessionsEnd DEF AccountsTypeOK
  <2> QED
    BY <1>1, <2>4, <2>5, <2>6, <2>7, MovesAway DEF RowSteps, AdminSteps
<1>10. CASE AuditFailure(o) \/ ServeOther(o)
  BY <1>1, <1>5, <1>6, <1>10 DEF AuditFailure, ServeOther, RowSteps, AdminSteps
<1>11. CASE UndoSession(o) \/ Logout(o)
  BY <1>1, <1>5, <1>6, <1>7, <1>11 DEF UndoSession, Logout, RowSteps, AdminSteps
<1>12. CASE Answer(o)
  <2>1. q.pc = "answer" /\ q.kind = "login" /\ UNCHANGED <<users, rowLock, adminLock>> /\ End(o)
    BY <1>1, <1>12 DEF Answer, WellFormed
  <2>2. sess' = [sess EXCEPT ![q.session].handed = TRUE]
    BY <1>1, <1>12 DEF Answer
  <2>3. sess' \in [Sessions -> Session]
    BY <1>0, <2>2 DEF AccountsTypeOK, Session
  <2>4. ASSUME NEW s \in Sessions
        PROVE  /\ sess'[s].state = sess[s].state /\ sess'[s].user = sess[s].user
               /\ sess'[s].endings = sess[s].endings
               /\ sess'[s].handed => Claimed(s)
    <3>1. CASE s = q.session
      <4>1. Claimed(s)
        BY <1>1, <2>1, <3>1 DEF Claimed, Claims
      <4> QED
        BY <1>0, <2>2, <3>1, <4>1 DEF AccountsTypeOK, Session
    <3>2. CASE s # q.session
      BY <1>0, <2>2, <3>2 DEF AccountsTypeOK, Claimed
    <3> QED
      BY <3>1, <3>2
  <2>5. SessionsMove(o, Idle)
    BY <1>2, <1>3, <2>3, <2>4 DEF SessionsMove
  <2> QED
    BY <1>5, <2>1, <2>5 DEF RowSteps, AdminSteps
<1>13. CASE Touch(o)
  BY <1>1, <1>4, <1>5, <1>6, <1>13 DEF Touch, RowSteps, AdminSteps
<1>14. CASE ReadUser(o)
  BY <1>1, <1>4, <1>5, <1>6, <1>7, <1>14 DEF ReadUser, RowSteps, AdminSteps
<1>15. CASE ChangePassword(o)
  <2>1. PICK r : r = [q EXCEPT !.kind = "change", !.session = NoSession, !.pc = "check"]
    OBVIOUS
  <2>2. r \in Op /\ r.pc = "check" /\ r.kind = "change" /\ r.user = q.user /\ r.new = q.new /\ r.session = NoSession
    BY <2>1 DEF Op
  <2>3. q.pc = "serve" /\ op' = [op EXCEPT ![o] = r] /\ UNCHANGED <<users, rowLock, adminLock, sess>>
    BY <1>1, <1>15, <2>1 DEF ChangePassword
  <2>4. WellFormed(r)
    BY <1>1, <2>2, <2>3 DEF WellFormed
  <2>5. SessionsMove(o, r)
    BY <1>0, <1>3, <2>2, <2>3, SessionsEnd DEF AccountsTypeOK
  <2> QED
    BY <1>1, <2>2, <2>3, <2>4, <2>5, MovesAway DEF RowSteps, AdminSteps
<1>16. CASE Crash(o)
  BY <1>5, <1>6, <1>16 DEF Crash
<1>17. CASE CheckPassword(o) /\ Goto(o, "failed")
  BY <1>1, <1>4, <1>17 DEF CheckPassword
<1> QED
  BY <1>8, <1>9, <1>10, <1>11, <1>12, <1>13, <1>14, <1>15, <1>16, <1>17 DEF RequestStep

\* A transaction locks its user's row.
LEMMA TakesRow ==
  ASSUME AccountsInv, NEW o \in Ops, NEW q \in Op, WellFormed(q), op' = [op EXCEPT ![o] = q],
         UNCHANGED <<users, adminLock, sess>>, q.user \in Users, rowLock[q.user] = NoOp,
         rowLock' = [rowLock EXCEPT ![q.user] = o],
         op[o].pc \notin RowSteps, q.pc \in RowSteps,
         op[o].pc \in AdminSteps => q.pc \in AdminSteps,
         q.pc \in AdminSteps /\ Demote(q) => op[o].pc \in AdminSteps /\ Demote(op[o]),
         \A s \in Sessions : ~Claims(q, s),
         Prepared(q), Elsewhere(q), SweptBy(q)'
  PROVE  AccountsInv'
<1>1. AccountsTypeOK /\ LocksHeld
  BY DEF AccountsInv, LockInv
<1>2. Moves(o, q)
  <2>1. rowLock' \in [Users -> Ops \cup {NoOp}] /\ adminLock' \in Ops \cup {NoOp}
    BY <1>1 DEF AccountsTypeOK
  <2>2. \A u \in Users : rowLock'[u] = IF u = q.user THEN o ELSE rowLock[u]
    BY <1>1 DEF AccountsTypeOK
  <2>3. \A u \in Users : \A p \in Ops : p # o => (rowLock'[u] = p <=> rowLock[u] = p)
    BY <2>2, AccountsAssumption
  <2>4. \A u \in Users : rowLock'[u] = o <=> q.pc \in RowSteps /\ q.user = u
    BY <1>1, <2>2 DEF LocksHeld
  <2>5. /\ adminLock' = o => q.pc \in AdminSteps
        /\ q.pc \in AdminSteps /\ Demote(q) => adminLock' = o
    BY <1>1 DEF LocksHeld
  <2> QED
    BY <2>1, <2>3, <2>4, <2>5 DEF Moves
<1>3. SessionsMove(o, q)
  BY <1>1, SessionsEnd DEF AccountsTypeOK
<1> QED
  BY <1>2, <1>3, MoveKeeps

\* A transaction begins.
LEMMA BeginKeeps ==
  ASSUME AccountsInv, NEW o \in Ops,
         \/ CheckPassword(o)
         \/ \E u \in Users : SetUserPassword(o, u) \/ UpdateUser(o, u) \/ GrantRole(o, u) \/ RevokeRole(o, u)
         \/ LockAdminRole(o)
  PROVE  AccountsInv'
<1>0. LockInv /\ AccountsTypeOK
  BY DEF AccountsInv, LockInv
<1>1. PICK q \in Op : q = op[o] /\ WellFormed(q)
  BY <1>0, OpTyped
<1>2. Idle \in Op /\ WellFormed(Idle) /\ Idle.new \in User /\ Bounded(Idle.new) /\ Idle.session = NoSession
  BY <1>0, <1>1, OpTyped
<1>3. ASSUME NEW r \in Op, r.pc = "tx", WellFormed(r), op' = [op EXCEPT ![o] = r], q.pc \in {"idle", "check"},
             UNCHANGED <<users, rowLock, adminLock, sess>>, users[r.user].status # "absent"
      PROVE  AccountsInv'
  <2>1. SessionsMove(o, r)
    BY <1>0, <1>3, SessionsEnd DEF AccountsTypeOK, Claims
  <2>2. Prepared(r) /\ Elsewhere(r) /\ SweptBy(r)'
    BY <1>3 DEF Prepared, Elsewhere, SweptBy, RowSteps
  <2> QED
    BY <1>1, <1>3, <2>1, <2>2, MovesOn DEF RowSteps, AdminSteps
<1>4. CASE CheckPassword(o)
  <2>1. CASE Goto(o, "failed")
    BY <1>4, <2>1, OutsideKeeps
  <2>2. CASE ~Goto(o, "failed")
    <3>1. q.pc = "check" /\ q.user \in Users
      BY <1>1, <1>4 DEF CheckPassword, WellFormed
    <3>2. PICK h \in Hash : h = users[q.user].hash
      BY <1>0, <3>1 DEF AccountsTypeOK, User
    <3>3. PICK r : r = [q EXCEPT !.pc = "tx", !.hash = h]
      OBVIOUS
    <3>4. r \in Op /\ r.pc = "tx" /\ r.user = q.user /\ r.new = q.new /\ r.kind = q.kind /\ r.session = q.session
      BY <3>3 DEF Op
    <3>5. /\ op' = [op EXCEPT ![o] = r] /\ UNCHANGED <<users, rowLock, adminLock, sess>>
          /\ users[q.user].status # "absent"
      BY <1>1, <1>4, <2>2, <3>2, <3>3 DEF CheckPassword
    <3>6. WellFormed(r)
      BY <1>1, <3>1, <3>4 DEF WellFormed
    <3> QED
      BY <1>3, <3>1, <3>4, <3>5, <3>6
  <2> QED
    BY <2>1, <2>2
<1>5. CASE \E u \in Users : SetUserPassword(o, u) \/ UpdateUser(o, u) \/ GrantRole(o, u) \/ RevokeRole(o, u)
  <2>1. PICK u \in Users, kind \in {"set", "disable", "enable", "grant", "revoke"}, role \in Roles :
          StartChange(o, u, kind, role)
    BY <1>5 DEF SetUserPassword, UpdateUser, GrantRole, RevokeRole, Roles
  <2>2. PICK r : r = [Idle EXCEPT !.kind = kind, !.user = u, !.role = role, !.pc = "tx"]
    OBVIOUS
  <2>3. r \in Op /\ r.pc = "tx" /\ r.user = u /\ r.new = Idle.new /\ r.kind = kind /\ r.session = NoSession
    BY <1>2, <2>2 DEF Op
  <2>4. /\ op' = [op EXCEPT ![o] = r] /\ UNCHANGED <<users, rowLock, adminLock, sess>> /\ q.pc = "idle"
        /\ users[u].status # "absent"
    BY <1>1, <2>1, <2>2 DEF StartChange
  <2>5. WellFormed(r)
    BY <1>2, <2>3 DEF WellFormed
  <2> QED
    BY <1>3, <2>3, <2>4, <2>5
<1>6. CASE LockAdminRole(o)
  <2>1. PICK r : r = [q EXCEPT !.pc = "row"]
    OBVIOUS
  <2>2. /\ r \in Op /\ r.pc = "row" /\ r.user = q.user /\ r.new = q.new /\ r.kind = q.kind /\ r.role = q.role
        /\ r.session = q.session
    BY <2>1 DEF Op
  <2>3. /\ op' = [op EXCEPT ![o] = r] /\ UNCHANGED <<users, rowLock, sess>> /\ q.pc = "tx"
        /\ adminLock = NoOp /\ adminLock' = o /\ Demote(q)
    BY <1>1, <1>6, <2>1 DEF LockAdminRole, Goto, CanLeaveNoAdmin, Demote
  <2>4. WellFormed(r)
    BY <1>1, <2>2, <2>3 DEF WellFormed, Demote
  <2>5. Moves(o, r)
    <3>1. \A u \in Users : rowLock[u] # o
      BY <1>0, <1>1, <2>3 DEF LockInv, LocksHeld, RowSteps
    <3> QED
      BY <1>0, <2>2, <2>3, <2>4, <3>1, AccountsAssumption DEF Moves, AccountsTypeOK, RowSteps, AdminSteps
  <2>6. SessionsMove(o, r)
    BY <1>0, <2>2, <2>3, SessionsEnd DEF AccountsTypeOK, Claims
  <2>7. Prepared(r) /\ Elsewhere(r) /\ SweptBy(r)'
    <3>1. Prepared(q)
      BY <1>1 DEF AccountsInv, RowsPrepared
    <3> QED
      BY <2>2, <2>3, <3>1 DEF Prepared, Elsewhere, SweptBy, RowSteps
  <2> QED
    BY <2>3, <2>5, <2>6, <2>7, MoveKeeps
<1> QED
  BY <1>4, <1>5, <1>6

\* What a change makes of the row it has locked.
LEMMA ChangedFacts ==
  ASSUME LockInv, NEW o \in Ops, NEW q, q = op[o], NEW u \in Users, u = q.user, NEW user, user = users[u],
         NEW n, n = Changed(o), q.kind \notin {"login", "request"}, user.status # "absent",
         Ending(user, n) => user.endings < MaxEndings
  PROVE  /\ n \in User /\ n.status # "absent" /\ n.endings = user.endings
         /\ n.hash.pw <= user.endings + 1
         /\ ~Ending(user, n) => Bounded(n) /\ (user.status = "active" => n.status = "active")
         /\ ~Demote(q) => /\ user.status = "active" => n.status = "active"
                          /\ "admin" \in user.roles => "admin" \in n.roles
         /\ Demote(q) /\ n # user => Admins # {u}
         /\ q.kind = "grant" => ~Ending(user, n)
<1>1. /\ user \in User /\ q \in Op /\ user.hash.pw <= user.endings /\ user.endings \in 0 .. MaxEndings
      /\ user.hash \in Hash /\ user.hash.pw \in 0 .. MaxEndings /\ MaxEndings \in Nat
      /\ user.roles \in (SUBSET Roles) \ {{}} /\ user.status \in {"active", "disabled"} /\ q.role \in Roles
  BY AccountsAssumption DEF LockInv, AccountsTypeOK, UsersBounded, Bounded, User, Hash, Op
<1>2. user = [user EXCEPT !.hash = user.hash] /\ Bounded(user)
  BY <1>1 DEF User, Bounded
<1>3. CASE n = user
  BY <1>1, <1>2, <1>3 DEF Ending, Demote
<1>4. CASE n # user /\ q.kind \in {"set", "change"}
  <2>1. PICK h : h = [pw |-> user.hash.pw + 1, enc |-> "new"]
    OBVIOUS
  <2>2. n = [user EXCEPT !.hash = h]
    BY <1>1, <1>4, <2>1 DEF Changed, NewPassword
  <2>3. h.pw = user.hash.pw + 1 /\ h.enc = "new"
    BY <2>1
  <2>4. /\ n.hash = h /\ n.status = user.status /\ n.roles = user.roles /\ n.endings = user.endings
    BY <1>1, <2>2 DEF User
  <2>5. h # user.hash
    BY <1>1, <2>3
  <2>6. Ending(user, n)
    BY <2>4, <2>5 DEF Ending
  <2>7. h \in Hash
    BY <1>1, <2>1, <2>6 DEF Hash
  <2>8. n \in User
    BY <1>1, <2>2, <2>7 DEF User
  <2> QED
    BY <1>1, <1>4, <2>3, <2>4, <2>6, <2>8 DEF Demote
<1>5. CASE n # user /\ q.kind = "disable"
  <2>1. n = [user EXCEPT !.status = "disabled"] /\ ~LastAdmin(u)
    BY <1>5 DEF Changed
  <2>2. /\ n \in User /\ n.hash = user.hash /\ n.status = "disabled" /\ n.endings = user.endings
    BY <1>1, <2>1 DEF User
  <2>3. user.status = "active"
    <3>1. user.status = "disabled" => n = user
      BY <1>1, <2>1 DEF User
    <3> QED
      BY <1>1, <1>5, <3>1
  <2> QED
    BY <1>1, <1>5, <2>1, <2>2, <2>3 DEF Ending, LastAdmin, Demote
<1>6. CASE n # user /\ q.kind = "enable"
  <2>1. n = [user EXCEPT !.status = "active"]
    BY <1>6 DEF Changed
  <2>2. /\ n \in User /\ n.hash = user.hash /\ n.status = "active" /\ n.endings = user.endings /\ n.roles = user.roles
    BY <1>1, <2>1 DEF User
  <2> QED
    BY <1>1, <1>6, <2>2 DEF Ending, Demote, Bounded
<1>7. CASE n # user /\ q.kind \in {"grant", "revoke"}
  <2>1. PICK roles : /\ n = [user EXCEPT !.roles = roles]
                     /\ \/ q.kind = "grant" /\ roles = user.roles \cup {q.role}
                        \/ /\ q.kind = "revoke" /\ roles = user.roles \ {q.role} /\ user.roles # {q.role}
                           /\ q.role = "admin" => ~LastAdmin(u)
    BY <1>1, <1>7 DEF Changed, Revoked
  <2>2. roles \in (SUBSET Roles) \ {{}}
    BY <1>1, <2>1
  <2>3. /\ n \in User /\ n.hash = user.hash /\ n.status = user.status /\ n.endings = user.endings /\ n.roles = roles
    BY <1>1, <2>1, <2>2 DEF User
  <2>4. ~Demote(q) /\ "admin" \in user.roles => "admin" \in roles
    BY <2>1 DEF Demote
  <2>5. Demote(q) => Admins # {u}
    BY <1>7, <2>1 DEF Demote, LastAdmin
  <2> QED
    BY <1>1, <2>3, <2>4, <2>5 DEF Ending, Bounded
<1> QED
  BY <1>1, <1>3, <1>4, <1>5, <1>6, <1>7 DEF Op

\* A login records itself and creates its session.
LEMMA LoginKeeps ==
  ASSUME AccountsInv, NEW o \in Ops, RecordLogin(o) \/ CreateSession(o)
  PROVE  AccountsInv'
<1>0. LockInv /\ AccountsTypeOK
  BY DEF AccountsInv, LockInv
<1>1. PICK q \in Op : q = op[o] /\ WellFormed(q)
  BY <1>0, OpTyped
<1>2. Prepared(q) /\ q.user \in Users
  BY <1>1 DEF AccountsInv, RowsPrepared, WellFormed, RecordLogin, CreateSession
<1>3. PICK user \in User : user = users[q.user]
  BY <1>0, <1>2 DEF AccountsTypeOK
<1>4. Bounded(user)
  BY <1>0, <1>2, <1>3 DEF LockInv, UsersBounded
<1>5. CASE RecordLogin(o) /\ StillValid(o)
  <2>1. user.hash \in Hash
    BY DEF User
  <2>2. PICK enc \in {"old", "new"} :
          op' = [op EXCEPT ![o].pc = "create", ![o].new = [users[q.user] EXCEPT !.hash.enc = enc]]
    <3>1. user.hash.enc \in {"old", "new"}
      BY <2>1 DEF Hash
    <3> QED
      BY <1>1, <1>3, <1>5, <3>1 DEF RecordLogin
  <2>3. PICK h : h = [user.hash EXCEPT !.enc = enc]
    OBVIOUS
  <2>4. h \in Hash /\ h.pw = user.hash.pw
    BY <2>1, <2>3 DEF Hash
  <2>5. PICK n : n = [user EXCEPT !.hash = h]
    OBVIOUS
  <2>6. /\ n \in User /\ n.hash = h /\ n.status = user.status /\ n.roles = user.roles /\ n.endings = user.endings
    BY <2>4, <2>5 DEF User
  <2>7. Bounded(n)
    BY <1>4, <2>4, <2>6 DEF Bounded
  <2>8. [users[q.user] EXCEPT !.hash.enc = enc] = n
    BY <1>3, <2>3, <2>5 DEF User
  <2>9. PICK r : r = [q EXCEPT !.pc = "create", !.new = n]
    OBVIOUS
  <2>10. r \in Op /\ r.pc = "create" /\ r.user = q.user /\ r.new = n /\ r.kind = q.kind /\ r.role = q.role
    BY <2>6, <2>9 DEF Op
  <2>11. op' = [op EXCEPT ![o] = r]
    BY <1>1, <2>2, <2>8, <2>9
  <2>12. /\ q.pc = "tx" /\ q.kind = "login" /\ rowLock[q.user] = NoOp /\ rowLock' = [rowLock EXCEPT ![q.user] = o]
         /\ UNCHANGED <<users, adminLock, sess>> /\ user.status = "active"
    BY <1>1, <1>3, <1>5 DEF RecordLogin, StillValid
  <2>13. WellFormed(r)
    BY <1>2, <2>7, <2>10, <2>12 DEF WellFormed
  <2>14. Prepared(r) /\ Elsewhere(r) /\ SweptBy(r)' /\ \A s \in Sessions : ~Claims(r, s)
    BY <1>3, <2>6, <2>10, <2>12 DEF Prepared, Elsewhere, SweptBy, RowSteps, Demote, Claims
  <2> QED
    BY <1>1, <1>2, <2>10, <2>11, <2>12, <2>13, <2>14, TakesRow DEF RowSteps, AdminSteps
<1>6. CASE RecordLogin(o) /\ ~StillValid(o)
  <2>1. PICK r : r = [q EXCEPT !.pc = "failed"]
    OBVIOUS
  <2>2. r \in Op /\ r.pc = "failed" /\ r.user = q.user /\ r.new = q.new /\ r.kind = q.kind /\ r.session = q.session
    BY <2>1 DEF Op
  <2>3. /\ op' = [op EXCEPT ![o] = r] /\ UNCHANGED <<users, rowLock, adminLock, sess>> /\ q.pc = "tx"
    BY <1>1, <1>6, <2>1 DEF RecordLogin, Goto
  <2>4. WellFormed(r)
    BY <1>1, <2>2, <2>3 DEF WellFormed
  <2>5. SessionsMove(o, r)
    BY <1>0, <2>2, <2>3, SessionsEnd DEF AccountsTypeOK, Claims
  <2> QED
    BY <1>1, <2>2, <2>3, <2>4, <2>5, MovesAway DEF RowSteps, AdminSteps
<1>7. CASE CreateSession(o)
  <2>1. q.pc = "create" /\ q.kind = "login" /\ UNCHANGED users
    BY <1>1, <1>7 DEF CreateSession, WellFormed
  <2>2. /\ user.status = "active" /\ q.new.endings = user.endings /\ rowLock[q.user] = o
    BY <1>0, <1>1, <1>2, <1>3, <2>1 DEF Prepared, RowSteps, LockInv, LocksHeld
  <2>3. /\ Idle \in Op /\ WellFormed(Idle) /\ Idle.pc = "idle"
    BY <1>0, OpTyped
  <2>4. ASSUME Release(o), End(o), SessionsMove(o, Idle) PROVE AccountsInv'
    BY <2>1, <2>3, <2>4, MovesAway DEF End
  <2>5. \A s \in Sessions : ~Claims(Idle, s)
    BY <2>3 DEF Claims
  <2>6. user.endings \in 0 .. MaxEndings
    BY DEF User
  <2>7. ASSUME NEW s \in Sessions, sess[s].state = "free", NEW state \in {"live", "delayed"}, NEW new,
               new = [FreeSession EXCEPT !.state = state, !.user = q.user, !.endings = user.endings],
               sess' = [sess EXCEPT ![s] = new]
        PROVE  /\ sess' \in [Sessions -> Session]
               /\ sess'[s].state = state /\ sess'[s].user = q.user /\ sess'[s].endings = user.endings
               /\ ~sess'[s].handed
               /\ \A t \in Sessions : t # s => sess'[t] = sess[t]
    <3>1. new = [state |-> state, user |-> q.user, handed |-> FALSE, endings |-> user.endings]
      BY <2>7 DEF FreeSession
    <3>2. new \in Session
      BY <1>2, <2>6, <3>1 DEF Session
    <3>3. sess' \in [Sessions -> Session] /\ sess'[s] = new /\ \A t \in Sessions : t # s => sess'[t] = sess[t]
      BY <1>0, <2>7, <3>2 DEF AccountsTypeOK
    <3>4. new.state = state /\ new.user = q.user /\ new.endings = user.endings /\ new.handed = FALSE
      BY <3>1
    <3> QED
      BY <3>3, <3>4
  <2>8. CASE \E s \in Sessions : /\ sess[s].state = "free"
               /\ sess' = [sess EXCEPT ![s] = [FreeSession EXCEPT !.state = "live", !.user = q.user, !.endings = user.endings]]
               /\ op' = [op EXCEPT ![o].pc = "commit", ![o].session = s]
               /\ UNCHANGED <<rowLock, adminLock>>
    <3>1. PICK s \in Sessions : /\ sess[s].state = "free"
               /\ sess' = [sess EXCEPT ![s] = [FreeSession EXCEPT !.state = "live", !.user = q.user, !.endings = user.endings]]
               /\ op' = [op EXCEPT ![o].pc = "commit", ![o].session = s]
               /\ UNCHANGED <<rowLock, adminLock>>
      BY <2>8
    <3>2. PICK r : r = [q EXCEPT !.pc = "commit", !.session = s]
      OBVIOUS
    <3>3. /\ r \in Op /\ r.pc = "commit" /\ r.user = q.user /\ r.new = q.new /\ r.kind = q.kind /\ r.role = q.role
          /\ r.session = s
      BY <3>2 DEF Op
    <3>4. op' = [op EXCEPT ![o] = r]
      BY <1>1, <3>1, <3>2
    <3>5. /\ sess' \in [Sessions -> Session]
          /\ sess'[s].state = "live" /\ sess'[s].user = q.user /\ sess'[s].endings = user.endings
          /\ ~sess'[s].handed
          /\ \A t \in Sessions : t # s => sess'[t] = sess[t]
      BY <2>7, <3>1
    <3>6. SessionsMove(o, r)
      BY <1>2, <1>3, <2>2, <3>1, <3>3, <3>5 DEF SessionsMove, Claims, Claimed
    <3>7. WellFormed(r)
      BY <1>1, <1>2, <2>1, <3>3 DEF WellFormed
    <3>8. Prepared(r) /\ Elsewhere(r)
      BY <1>2, <2>1, <3>3 DEF Prepared, Elsewhere, RowSteps, Demote
    <3>9. SweptBy(r)'
      <4>1. /\ r.new.endings = users'[r.user].endings
            /\ users'[r.user].status = "active" => r.new.status = "active"
        BY <1>2, <1>3, <2>1, <2>2, <3>3 DEF Prepared, RowSteps, Demote
      <4> QED
        BY <3>3, <4>1 DEF SweptBy
    <3> QED
      BY <1>1, <2>1, <3>1, <3>3, <3>4, <3>6, <3>7, <3>8, <3>9, MovesOn DEF RowSteps, AdminSteps, Demote
  <2>9. CASE \E s \in Sessions : /\ sess[s].state = "free"
               /\ sess' = [sess EXCEPT ![s] = [FreeSession EXCEPT !.state = "delayed", !.user = q.user, !.endings = user.endings]]
               /\ Release(o) /\ End(o)
    <3>1. PICK s \in Sessions : /\ sess[s].state = "free"
               /\ sess' = [sess EXCEPT ![s] = [FreeSession EXCEPT !.state = "delayed", !.user = q.user, !.endings = user.endings]]
               /\ Release(o) /\ End(o)
      BY <2>9
    <3>2. /\ sess' \in [Sessions -> Session]
          /\ sess'[s].state = "delayed" /\ sess'[s].user = q.user /\ ~sess'[s].handed
          /\ \A t \in Sessions : t # s => sess'[t] = sess[t]
      BY <2>7, <3>1
    <3>3. SessionsMove(o, Idle)
      BY <1>2, <2>5, <3>1, <3>2 DEF SessionsMove, Claimed
    <3> QED
      BY <2>4, <3>1, <3>3
  <2>10. CASE Release(o) /\ End(o) /\ UNCHANGED sess
    BY <1>0, <2>4, <2>5, <2>10, SessionsEnd DEF AccountsTypeOK
  <2> QED
    BY <1>1, <1>3, <1>7, <2>8, <2>9, <2>10 DEF CreateSession
<1> QED
  BY <1>5, <1>6, <1>7

\* A change locks its row, and prepares what it will write.
LEMMA LockUserKeeps ==
  ASSUME AccountsInv, NEW o \in Ops, LockUser(o)
  PROVE  AccountsInv'
<1>0. LockInv /\ AccountsTypeOK
  BY DEF AccountsInv, LockInv
<1>1. PICK q \in Op : q = op[o] /\ WellFormed(q)
  BY <1>0, OpTyped
<1>2. /\ q.pc = (IF Demote(q) THEN "row" ELSE "tx") /\ q.kind # "login" /\ rowLock[q.user] = NoOp
      /\ UNCHANGED <<users, sess>>
  BY <1>1 DEF LockUser, CanLeaveNoAdmin, Demote
<1>3. q.user \in Users /\ q.kind # "request" /\ Prepared(q)
  BY <1>1, <1>2 DEF AccountsInv, RowsPrepared, WellFormed, Demote
<1>4. PICK u \in Users : u = q.user
  BY <1>3
<1>5. PICK user \in User : user = users[u]
  BY <1>0 DEF AccountsTypeOK
<1>6. PICK n : n = Changed(o)
  OBVIOUS
<1>7. user.status # "absent" /\ (Ending(user, n) => user.endings < MaxEndings)
  BY <1>1, <1>2, <1>3, <1>4, <1>5, <1>6 DEF LockUser, Prepared
<1>8. /\ n \in User /\ n.status # "absent" /\ n.endings = user.endings
      /\ n.hash.pw <= user.endings + 1
      /\ ~Ending(user, n) => Bounded(n) /\ (user.status = "active" => n.status = "active")
      /\ ~Demote(q) => /\ user.status = "active" => n.status = "active"
                       /\ "admin" \in user.roles => "admin" \in n.roles
      /\ Demote(q) /\ n # user => Admins # {u}
      /\ q.kind = "grant" => ~Ending(user, n)
  BY <1>0, <1>1, <1>2, <1>3, <1>4, <1>5, <1>6, <1>7, ChangedFacts
<1>9. CASE n = user
  <2>1. Release(o) /\ IF q.kind = "change" THEN Goto(o, "failed") ELSE End(o)
    BY <1>1, <1>4, <1>5, <1>6, <1>9 DEF LockUser
  <2>2. PICK r \in Op : WellFormed(r) /\ op' = [op EXCEPT ![o] = r] /\ r.pc \in {"idle", "failed"}
    <3>1. CASE q.kind = "change"
      <4>1. PICK r : r = [q EXCEPT !.pc = "failed"]
        OBVIOUS
      <4>2. r \in Op /\ r.pc = "failed" /\ r.user = q.user /\ r.new = q.new /\ r.kind = q.kind /\ r.session = q.session
        BY <4>1 DEF Op
      <4>3. WellFormed(r)
        BY <1>1, <1>3, <4>2 DEF WellFormed
      <4> QED
        BY <1>1, <2>1, <3>1, <4>1, <4>2, <4>3 DEF Goto
    <3>2. CASE q.kind # "change"
      BY <1>0, <2>1, <3>2, OpTyped DEF End
    <3> QED
      BY <3>1, <3>2
  <2>3. SessionsMove(o, r)
    BY <1>0, <1>2, <2>2, SessionsEnd DEF AccountsTypeOK, Claims
  <2> QED
    BY <1>2, <2>1, <2>2, <2>3, MovesAway
<1>10. CASE n # user
  <2>1. PICK ending \in BOOLEAN : ending = Ending(user, n)
    BY DEF Ending
  <2>2. PICK m : m = IF ending THEN [n EXCEPT !.endings = user.endings + 1] ELSE n
    OBVIOUS
  <2>3. /\ user.endings \in 0 .. MaxEndings /\ MaxEndings \in Nat
    BY AccountsAssumption DEF User
  <2>4. /\ m \in User /\ m.status = n.status /\ m.roles = n.roles /\ m.hash = n.hash
        /\ m.endings = IF ending THEN user.endings + 1 ELSE user.endings
    BY <1>7, <1>8, <2>1, <2>2, <2>3 DEF User
  <2>5. Bounded(m)
    <3>1. CASE ending
      BY <1>8, <2>4, <3>1 DEF Bounded
    <3>2. CASE ~ending
      BY <1>8, <2>1, <2>2, <3>2
    <3> QED
      BY <3>1, <3>2
  <2>6. PICK pc \in {"list", "keyshare", "commit"} :
          pc = IF ending THEN "list" ELSE IF GrantsAdmin(o) THEN "keyshare" ELSE "commit"
    OBVIOUS
  <2>7. PICK r : r = [q EXCEPT !.pc = pc, !.new = m]
    OBVIOUS
  <2>8. /\ r \in Op /\ r.pc = pc /\ r.user = u /\ r.new = m /\ r.kind = q.kind /\ r.role = q.role
        /\ r.session = q.session
    BY <1>4, <2>4, <2>7 DEF Op
  <2>9. /\ op' = [op EXCEPT ![o] = r] /\ rowLock' = [rowLock EXCEPT ![u] = o] /\ UNCHANGED adminLock
    <3>1. /\ rowLock' = [rowLock EXCEPT ![u] = o] /\ UNCHANGED adminLock
          /\ op' = [op EXCEPT
                 ![o].pc = IF Ending(user, n) THEN "list" ELSE IF GrantsAdmin(o) THEN "keyshare" ELSE "commit",
                 ![o].new = IF Ending(user, n) THEN [n EXCEPT !.endings = @ + 1] ELSE n]
      BY <1>1, <1>4, <1>5, <1>6, <1>10 DEF LockUser
    <3>2. [n EXCEPT !.endings = @ + 1] = [n EXCEPT !.endings = user.endings + 1]
      BY <1>8
    <3>3. op' = [op EXCEPT ![o].pc = pc, ![o].new = m]
      BY <2>1, <2>2, <2>6, <3>1, <3>2
    <3> QED
      BY <1>1, <2>7, <3>1, <3>3
  <2>10. r.pc = "keyshare" <=> ~ending /\ q.kind = "grant" /\ q.role = "admin"
    BY <1>1, <2>6, <2>8 DEF GrantsAdmin
  <2>11. WellFormed(r)
    BY <1>1, <1>2, <1>3, <2>5, <2>6, <2>8, <2>10 DEF WellFormed
  <2>12. Prepared(r)
    BY <1>2, <1>5, <1>7, <1>8, <2>4, <2>8, <2>10 DEF Prepared, RowSteps, Demote
  <2>13. Elsewhere(r)
    BY <1>8, <1>10, <2>8 DEF Elsewhere, Demote, AccountsInv, AdminRemains
  <2>14. SweptBy(r)'
    <3>1. r.pc = "commit" => ~ending
      BY <2>6, <2>8
    <3>2. r.pc = "commit" =>
            /\ r.new.endings = users'[r.user].endings
            /\ users'[r.user].status = "active" => r.new.status = "active"
      BY <1>2, <1>5, <1>8, <2>1, <2>4, <2>8, <3>1
    <3> QED
      BY <2>6, <2>8, <3>2 DEF SweptBy
  <2>15. \A s \in Sessions : ~Claims(r, s)
    BY <1>2, <2>8 DEF Claims
  <2>16. /\ q.pc \notin RowSteps /\ r.pc \in RowSteps
         /\ q.pc \in AdminSteps => r.pc \in AdminSteps
         /\ r.pc \in AdminSteps /\ Demote(r) => q.pc \in AdminSteps /\ Demote(q)
    BY <1>2, <2>6, <2>8, <2>10 DEF RowSteps, AdminSteps, Demote
  <2> QED
    BY <1>1, <1>2, <1>4, <2>8, <2>9, <2>11, <2>12, <2>13, <2>14, <2>15, <2>16, TakesRow
<1> QED
  BY <1>9, <1>10

\* A change ends the sessions of its user; or its transaction fails.
LEMMA SweepKeeps ==
  ASSUME AccountsInv, NEW o \in Ops,
         KeyShareAdminRole(o) \/ ListSessions(o) \/ DeleteSessions(o) \/ Abort(o)
  PROVE  AccountsInv'
<1>0. LockInv /\ AccountsTypeOK
  BY DEF AccountsInv, LockInv
<1>1. PICK q \in Op : q = op[o] /\ WellFormed(q)
  BY <1>0, OpTyped
<1>2. Prepared(q) /\ Elsewhere(q) /\ SweptBy(q) /\ q.user \in Users /\ UNCHANGED users
  BY <1>1 DEF AccountsInv, RowsPrepared, AdminElsewhere, Swept, WellFormed,
       KeyShareAdminRole, ListSessions, DeleteSessions, Abort
<1>3. Idle \in Op /\ WellFormed(Idle) /\ Idle.pc = "idle"
  BY <1>0, OpTyped
<1>4. CASE KeyShareAdminRole(o)
  <2>1. PICK r : r = [q EXCEPT !.pc = "commit"]
    OBVIOUS
  <2>2. /\ r \in Op /\ r.pc = "commit" /\ r.user = q.user /\ r.new = q.new /\ r.kind = q.kind /\ r.role = q.role
        /\ r.session = q.session
    BY <2>1 DEF Op
  <2>3. /\ op' = [op EXCEPT ![o] = r] /\ UNCHANGED <<rowLock, adminLock, sess>>
        /\ q.pc = "keyshare" /\ q.kind = "grant" /\ q.role = "admin"
    BY <1>1, <1>4, <2>1 DEF KeyShareAdminRole, Goto, WellFormed
  <2>4. WellFormed(r)
    BY <1>1, <2>2, <2>3 DEF WellFormed
  <2>5. SessionsMove(o, r)
    BY <1>0, <2>2, <2>3, SessionsEnd DEF AccountsTypeOK, Claims
  <2>6. Prepared(r) /\ Elsewhere(r)
    BY <1>2, <2>2, <2>3 DEF Prepared, Elsewhere, RowSteps, Demote
  <2>7. SweptBy(r)'
    <3>1. /\ r.new.endings = users'[r.user].endings
          /\ users'[r.user].status = "active" => r.new.status = "active"
      BY <1>2, <2>2, <2>3 DEF Prepared, RowSteps, Demote
    <3> QED
      BY <2>2, <3>1 DEF SweptBy
  <2> QED
    BY <1>1, <1>2, <2>2, <2>3, <2>4, <2>5, <2>6, <2>7, MovesOn DEF RowSteps, AdminSteps, Demote
<1>5. CASE ListSessions(o)
  <2>1. PICK seen \in SUBSET Sessions : seen = {s \in Sessions : sess[s].user = q.user /\ sess[s].state = "live"}
    OBVIOUS
  <2>2. PICK r : r = [q EXCEPT !.pc = "delete", !.keys = seen]
    OBVIOUS
  <2>3. /\ r \in Op /\ r.pc = "delete" /\ r.user = q.user /\ r.new = q.new /\ r.kind = q.kind /\ r.role = q.role
        /\ r.session = q.session /\ r.keys = seen
    BY <2>2 DEF Op
  <2>4. /\ op' = [op EXCEPT ![o] = r] /\ UNCHANGED <<rowLock, adminLock, sess>> /\ q.pc = "list" /\ q.kind # "login"
    BY <1>1, <1>5, <2>1, <2>2 DEF ListSessions, WellFormed
  <2>5. WellFormed(r)
    BY <1>1, <2>3, <2>4 DEF WellFormed
  <2>6. SessionsMove(o, r)
    BY <1>0, <2>3, <2>4, SessionsEnd DEF AccountsTypeOK, Claims
  <2>7. Prepared(r) /\ Elsewhere(r)
    BY <1>2, <2>3, <2>4 DEF Prepared, Elsewhere, RowSteps, Demote
  <2>8. SweptBy(r)'
    BY <2>1, <2>3, <2>4 DEF SweptBy, Usable
  <2> QED
    BY <1>1, <1>2, <2>3, <2>4, <2>5, <2>6, <2>7, <2>8, MovesOn DEF RowSteps, AdminSteps, Demote
<1>6. CASE DeleteSessions(o)
  <2>1. q.pc = "delete" /\ q.kind # "login"
    BY <1>1, <1>6 DEF DeleteSessions, WellFormed
  <2>2. \A s \in Sessions : sess'[s] = IF s \in q.keys THEN [sess[s] EXCEPT !.state = "ended"] ELSE sess[s]
    BY <1>1, <1>6 DEF DeleteSessions
  <2>3. \A s \in Sessions : /\ sess'[s] \in Session
                            /\ s \in q.keys => sess'[s].state = "ended" /\ sess'[s].handed = sess[s].handed
                            /\ s \notin q.keys => sess'[s] = sess[s]
    BY <1>0, <2>2 DEF AccountsTypeOK, Session
  <2>4. sess' \in [Sessions -> Session]
    <3>1. sess' = [s \in Sessions |-> sess'[s]]
      BY <1>6 DEF DeleteSessions
    <3> QED
      BY <2>3, <3>1
  <2>5. CASE Release(o) /\ End(o)
    <3>1. SessionsMove(o, Idle)
      BY <1>0, <1>3, <2>3, <2>4, SessionsEnd DEF Claims
    <3> QED
      BY <1>2, <1>3, <2>5, <3>1, MovesAway DEF End
  <2>6. CASE Goto(o, "commit") /\ UNCHANGED <<rowLock, adminLock>>
    <3>1. PICK r : r = [q EXCEPT !.pc = "commit"]
      OBVIOUS
    <3>2. /\ r \in Op /\ r.pc = "commit" /\ r.user = q.user /\ r.new = q.new /\ r.kind = q.kind /\ r.role = q.role
          /\ r.session = q.session
      BY <3>1 DEF Op
    <3>3. op' = [op EXCEPT ![o] = r]
      BY <1>1, <2>6, <3>1 DEF Goto
    <3>4. WellFormed(r)
      BY <1>1, <2>1, <3>2 DEF WellFormed
    <3>5. SessionsMove(o, r)
      BY <1>0, <2>1, <2>3, <2>4, <3>2, SessionsEnd DEF Claims
    <3>6. Prepared(r) /\ Elsewhere(r)
      BY <1>2, <2>1, <3>2 DEF Prepared, Elsewhere, RowSteps, Demote
    <3>7. SweptBy(r)'
      <4>1. ASSUME NEW s \in Usable(r.user)' PROVE FALSE
        <5>1. s \in Sessions /\ sess'[s].user = r.user /\ sess'[s].state = "live" /\ Claimed(s)'
          BY DEF Usable
        <5>2. sess'[s] = sess[s] /\ s \notin q.keys
          BY <2>3, <5>1
        <5>3. ASSUME NEW p \in Ops, Claims(op'[p], s) PROVE Claims(op[p], s)
          <6>1. p # o
            BY <1>0, <2>1, <3>2, <3>3, <5>3 DEF Claims, AccountsTypeOK
          <6> QED
            BY <1>0, <3>3, <5>3, <6>1 DEF AccountsTypeOK
        <5>4. Claimed(s)
          BY <5>1, <5>2, <5>3 DEF Claimed, Claims
        <5> QED
          BY <1>2, <2>1, <3>2, <5>1, <5>2, <5>4 DEF SweptBy, Usable
      <4> QED
        BY <3>2, <4>1 DEF SweptBy
    <3> QED
      BY <1>1, <1>2, <2>1, <2>6, <3>2, <3>3, <3>4, <3>5, <3>6, <3>7, MovesOn DEF RowSteps, AdminSteps, Demote
  <2> QED
    BY <1>6, <2>5, <2>6 DEF DeleteSessions
<1>7. CASE Abort(o)
  <2>1. Release(o) /\ UNCHANGED sess /\ q.pc \in {"tx", "row", "keyshare", "list", "delete", "commit"}
    BY <1>1, <1>7 DEF Abort
  <2>2. CASE q.session = NoSession
    <3>1. op' = [op EXCEPT ![o] = Idle]
      BY <1>1, <1>7, <2>2 DEF Abort, End
    <3>2. SessionsMove(o, Idle)
      BY <1>0, <1>3, <2>1, SessionsEnd DEF AccountsTypeOK, Claims
    <3> QED
      BY <1>2, <1>3, <2>1, <3>1, <3>2, MovesAway
  <2>3. CASE q.session # NoSession
    <3>1. PICK r : r = [q EXCEPT !.pc = "undo"]
      OBVIOUS
    <3>2. r \in Op /\ r.pc = "undo" /\ r.user = q.user /\ r.new = q.new /\ r.kind = q.kind /\ r.session = q.session
      BY <3>1 DEF Op
    <3>3. op' = [op EXCEPT ![o] = r]
      BY <1>1, <1>7, <2>3, <3>1 DEF Abort, Goto
    <3>4. q.kind = "login"
      BY <1>1, <2>1, <2>3 DEF WellFormed, Demote
    <3>5. WellFormed(r)
      BY <1>1, <1>2, <3>2, <3>4 DEF WellFormed
    <3>6. SessionsMove(o, r)
      BY <1>0, <2>1, <3>2, SessionsEnd DEF AccountsTypeOK, Claims
    <3> QED
      BY <1>2, <2>1, <3>2, <3>3, <3>5, <3>6, MovesAway
  <2> QED
    BY <2>2, <2>3
<1> QED
  BY <1>4, <1>5, <1>6, <1>7

\* A transaction commits: nobody else has changed its row, nobody else can have
\* left its user the last admin, and the sessions it ends are gone.
LEMMA CommitKeeps ==
  ASSUME AccountsInv, NEW o \in Ops, Commit(o)
  PROVE  AccountsInv'
<1>0. LockInv /\ AccountsTypeOK /\ SessionsPlaced
  BY DEF AccountsInv, LockInv
<1>1. PICK q \in Op : q = op[o] /\ WellFormed(q)
  BY <1>0, OpTyped
<1>2. /\ q.pc = "commit" /\ q.user \in Users /\ Release(o) /\ UNCHANGED sess
      /\ Prepared(q) /\ Elsewhere(q) /\ SweptBy(q)
  BY <1>1 DEF Commit, WellFormed, AccountsInv, RowsPrepared, AdminElsewhere, Swept
<1>3. PICK u \in Users, n \in User : u = q.user /\ n = q.new
  BY <1>2 DEF Op
<1>4. users' = [users EXCEPT ![u] = n] /\ Bounded(n)
  BY <1>1, <1>3 DEF Commit, WellFormed
<1>5. users' \in [Users -> User] /\ users'[u] = n /\ \A v \in Users : v # u => users'[v] = users[v]
  BY <1>0, <1>4 DEF AccountsTypeOK
<1>6. PICK r \in Op : /\ WellFormed(r) /\ op' = [op EXCEPT ![o] = r] /\ r.pc \in {"idle", "answer", "undo"}
                      /\ \A s \in Sessions : Claims(r, s) => Claims(q, s)
  <2>1. CASE q.kind # "login"
    <3>1. Idle \in Op /\ WellFormed(Idle) /\ Idle.pc = "idle"
      BY <1>0, OpTyped
    <3> QED
      BY <1>1, <2>1, <3>1 DEF Commit, End, Claims
  <2>2. CASE q.kind = "login"
    <3>1. PICK pc \in {"answer", "undo"} : Goto(o, pc)
      BY <1>1, <2>2 DEF Commit
    <3>2. PICK r : r = [q EXCEPT !.pc = pc]
      OBVIOUS
    <3>3. r \in Op /\ r.pc = pc /\ r.user = q.user /\ r.new = q.new /\ r.kind = q.kind /\ r.session = q.session
      BY <3>2 DEF Op
    <3>4. WellFormed(r)
      BY <1>1, <1>2, <2>2, <3>3 DEF WellFormed
    <3> QED
      BY <1>1, <1>2, <3>1, <3>2, <3>3, <3>4 DEF Goto, Claims
  <2> QED
    BY <2>1, <2>2
<1>7. Moves(o, r)
  <2>1. r.pc \notin RowSteps \cup AdminSteps
    BY <1>6 DEF RowSteps, AdminSteps
  <2> QED
    BY <1>0, <1>2, <1>6, <2>1, ReleaseFrees DEF Moves
<1>8. SessionsMove(o, r)
  BY <1>0, <1>1, <1>2, <1>6, SessionsEnd DEF AccountsTypeOK
<1>9. /\ op' \in [Ops -> Op] /\ op'[o] = r /\ \A p \in Ops : p # o => op'[p] = op[p]
      /\ OpsFormed' /\ LocksHeld'
  BY <1>0, <1>7, LocksMove
<1>10. SessionsPlaced'
  BY <1>0, <1>7, <1>8, UsableMove
<1>11. \A v : Usable(v)' \subseteq Usable(v)
  <2>1. ASSUME NEW s \in Sessions, Claimed(s)' PROVE Claimed(s)
    <3>1. ASSUME NEW p \in Ops, Claims(op'[p], s) PROVE Claims(op[p], s)
      BY <1>1, <1>6, <1>9, <3>1
    <3> QED
      BY <1>2, <2>1, <3>1 DEF Claimed, Claims
  <2> QED
    BY <1>2, <2>1 DEF Usable
<1>12. LockInv'
  <2>1. UsersBounded'
    BY <1>0, <1>4, <1>5 DEF LockInv, UsersBounded, Bounded
  <2>2. AccountsTypeOK'
    BY <1>0, <1>2, <1>5, <1>9, ReleaseFrees DEF AccountsTypeOK
  <2> QED
    BY <1>9, <2>1, <2>2 DEF LockInv
<1>13. ASSUME NEW p \in Ops, p # o, op[p].pc \in RowSteps PROVE op[p].user \in Users /\ op[p].user # u
  BY <1>0, <1>1, <1>2, <1>3, <1>13 DEF LockInv, OpsFormed, WellFormed, LocksHeld, RowSteps
<1>14. RowsPrepared'
  <2>1. ASSUME NEW p \in Ops, p # o, NEW t, t = op[p] PROVE Prepared(t)'
    <3>1. Prepared(t) /\ WellFormed(t) /\ n.status # "absent"
      BY <1>0, <1>2, <1>3, <2>1 DEF AccountsInv, RowsPrepared, LockInv, OpsFormed, Prepared, RowSteps
    <3>2. CASE t.user = u
      BY <1>5, <1>13, <2>1, <3>1, <3>2 DEF Prepared
    <3>3. CASE t.user # u
      <4>1. t.pc # "idle" => users'[t.user] = users[t.user]
        BY <1>5, <3>1, <3>3 DEF WellFormed
      <4> QED
        BY <3>1, <4>1 DEF Prepared, RowSteps
    <3> QED
      BY <3>2, <3>3
  <2>2. Prepared(r)'
    BY <1>6 DEF Prepared, RowSteps
  <2>3. ASSUME NEW p \in Ops, NEW t, t = op'[p] PROVE Prepared(t)'
    BY <1>9, <2>1, <2>2, <2>3
  <2> QED
    BY <2>3 DEF RowsPrepared, Prepared
<1>15. (\A v \in Admins : v # u => v \in Admins') /\ (~Demote(q) => Admins \subseteq Admins')
  <2>1. \A v \in Admins : v # u => v \in Admins'
    BY <1>5 DEF Admins
  <2>2. ~Demote(q) /\ u \in Admins => u \in Admins'
    BY <1>2, <1>3, <1>5 DEF Admins, Prepared, RowSteps
  <2> QED
    BY <2>1, <2>2
<1>16. AdminRemains'
  <2>1. CASE Demote(q)
    BY <1>2, <1>3, <1>15, <2>1 DEF Elsewhere, RowSteps, AdminRemains
  <2>2. CASE ~Demote(q)
    BY <1>15, <2>2 DEF AccountsInv, AdminRemains
  <2> QED
    BY <2>1, <2>2
<1>17. AdminElsewhere'
  <2>1. ASSUME NEW p \in Ops, p # o, op[p].pc \in RowSteps, Demote(op[p]) PROVE ~Demote(q)
    <3>1. op[p].pc \in AdminSteps
      BY <1>0, <2>1 DEF LockInv, OpsFormed, WellFormed, RowSteps, AdminSteps, Demote
    <3> QED
      BY <1>0, <1>1, <1>2, <2>1, <3>1 DEF LockInv, LocksHeld, AdminSteps
  <2>2. ASSUME NEW p \in Ops, p # o, NEW t, t = op[p] PROVE Elsewhere(t)'
    <3>1. Elsewhere(t)
      BY <2>2 DEF AccountsInv, AdminElsewhere
    <3>2. t.pc \in RowSteps /\ Demote(t) => Admins \subseteq Admins'
      BY <1>15, <2>1, <2>2
    <3> QED
      BY <3>1, <3>2 DEF Elsewhere
  <2>3. Elsewhere(r)'
    BY <1>6 DEF Elsewhere, RowSteps
  <2>4. ASSUME NEW p \in Ops, NEW t, t = op'[p] PROVE Elsewhere(t)'
    BY <1>9, <2>2, <2>3, <2>4
  <2> QED
    BY <2>4 DEF AdminElsewhere, Elsewhere
<1>18. Swept'
  <2>1. ASSUME NEW p \in Ops, p # o, NEW t, t = op[p] PROVE SweptBy(t)'
    <3>1. SweptBy(t) /\ Usable(t.user)' \subseteq Usable(t.user)
      BY <1>11, <2>1 DEF AccountsInv, Swept
    <3>2. t.pc \in RowSteps => users'[t.user] = users[t.user]
      BY <1>5, <1>13, <2>1
    <3> QED
      BY <3>1, <3>2 DEF SweptBy, RowSteps
  <2>2. SweptBy(r)'
    BY <1>6 DEF SweptBy
  <2>3. ASSUME NEW p \in Ops, NEW t, t = op'[p] PROVE SweptBy(t)'
    BY <1>9, <2>1, <2>2, <2>3
  <2> QED
    BY <2>3 DEF Swept, SweptBy, Usable
<1>19. UsableFresh'
  <2>1. ASSUME NEW v \in Users, NEW s \in Usable(v)'
        PROVE  users'[v].status = "active" /\ sess'[s].endings = users'[v].endings
    <3>1. s \in Usable(v) /\ users[v].status = "active" /\ sess[s].endings = users[v].endings
      BY <1>11, <2>1 DEF AccountsInv, UsableFresh
    <3>2. CASE v = u
      BY <1>2, <1>3, <1>5, <3>1, <3>2 DEF SweptBy
    <3>3. CASE v # u
      BY <1>2, <1>5, <3>1, <3>3
    <3> QED
      BY <3>2, <3>3
  <2> QED
    BY <2>1 DEF UsableFresh
<1> QED
  BY <1>10, <1>12, <1>14, <1>16, <1>17, <1>18, <1>19 DEF AccountsInv

\* A user is created where there was none: no transaction is about that row.
LEMMA CreateUserKeeps ==
  ASSUME AccountsInv, NEW u \in Users, CreateUser(u)
  PROVE  AccountsInv'
<1>0. LockInv /\ AccountsTypeOK
  BY DEF AccountsInv, LockInv
<1>1. PICK roles \in (SUBSET Roles) \ {{}} : users' = [users EXCEPT ![u] = NewUser(roles)]
  BY DEF CreateUser
<1>2. users[u].status = "absent" /\ UNCHANGED <<rowLock, adminLock, sess, op>>
  BY DEF CreateUser
<1>3. PICK n : n = NewUser(roles)
  OBVIOUS
<1>4. n \in User /\ Bounded(n)
  BY <1>3, AccountsAssumption DEF NewUser, User, FirstHash, Hash, Bounded
<1>5. users' \in [Users -> User] /\ users'[u] = n /\ \A v \in Users : v # u => users'[v] = users[v]
  BY <1>0, <1>1, <1>3, <1>4 DEF AccountsTypeOK
<1>6. LockInv'
  <2>1. AccountsTypeOK' /\ UsersBounded'
    BY <1>0, <1>2, <1>4, <1>5 DEF AccountsTypeOK, LockInv, UsersBounded, Bounded
  <2>2. OpsFormed' /\ LocksHeld'
    BY <1>0, <1>2 DEF LockInv, OpsFormed, WellFormed, LocksHeld, Demote, Bounded
  <2> QED
    BY <2>1, <2>2 DEF LockInv
<1>7. SessionsPlaced' /\ \A v : Usable(v)' = Usable(v)
  BY <1>2 DEF AccountsInv, SessionsPlaced, Usable, Claimed, Claims
<1>8. ASSUME NEW p \in Ops, NEW t, t = op[p]
      PROVE  Prepared(t)' /\ Elsewhere(t)' /\ SweptBy(t)'
  <2>1. Prepared(t) /\ Elsewhere(t) /\ SweptBy(t) /\ WellFormed(t)
    BY <1>0, <1>8 DEF AccountsInv, RowsPrepared, AdminElsewhere, Swept, LockInv, OpsFormed
  <2>2. t.pc \in {"tx", "row"} \cup RowSteps => users'[t.user] = users[t.user]
    BY <1>2, <1>5, <2>1 DEF Prepared, WellFormed, RowSteps
  <2>3. Admins \subseteq Admins'
    BY <1>2, <1>5 DEF Admins
  <2>4. Prepared(t)'
    BY <2>1, <2>2 DEF Prepared
  <2>5. Elsewhere(t)'
    BY <2>1, <2>3 DEF Elsewhere
  <2>6. SweptBy(t)'
    BY <1>7, <2>1, <2>2 DEF SweptBy, RowSteps
  <2> QED
    BY <2>4, <2>5, <2>6
<1>9. RowsPrepared' /\ AdminElsewhere' /\ Swept'
  <2>1. \A p \in Ops : op'[p] = op[p]
    BY <1>2
  <2>2. ASSUME NEW p \in Ops, NEW t, t = op'[p] PROVE Prepared(t)' /\ Elsewhere(t)' /\ SweptBy(t)'
    BY <1>8, <2>1, <2>2
  <2>3. RowsPrepared'
    BY <2>2 DEF RowsPrepared, Prepared
  <2>4. AdminElsewhere'
    BY <2>2 DEF AdminElsewhere, Elsewhere
  <2>5. Swept'
    BY <2>2 DEF Swept, SweptBy, Usable
  <2> QED
    BY <2>3, <2>4, <2>5
<1>10. AdminRemains'
  BY <1>2, <1>5 DEF AccountsInv, AdminRemains, Admins
<1>11. UsableFresh'
  BY <1>2, <1>5, <1>7 DEF AccountsInv, UsableFresh
<1> QED
  BY <1>6, <1>7, <1>9, <1>10, <1>11 DEF AccountsInv

\* Redis creates a session nobody waits for any more, or a session expires.
LEMMA RedisKeeps ==
  ASSUME AccountsInv, NEW s \in Sessions, LateCreate(s) \/ SessionExpires(s)
  PROVE  AccountsInv'
<1>0. LockInv /\ AccountsTypeOK /\ SessionsPlaced
  BY DEF AccountsInv, LockInv
<1>1. UNCHANGED <<users, rowLock, adminLock, op>>
  BY DEF LateCreate, SessionExpires
<1>2. PICK state \in {"live", "ended"} : /\ sess' = [sess EXCEPT ![s].state = state]
                                         /\ state = "live" => sess[s].state = "delayed"
  BY DEF LateCreate, SessionExpires, DeleteSession
<1>3. /\ sess' \in [Sessions -> Session] /\ sess'[s].state = state
      /\ \A t \in Sessions : t # s => sess'[t] = sess[t]
      /\ \A t \in Sessions : /\ sess'[t].user = sess[t].user /\ sess'[t].handed = sess[t].handed
                             /\ sess'[t].endings = sess[t].endings
  BY <1>0, <1>2 DEF AccountsTypeOK, Session
<1>4. \A t \in Sessions : Claimed(t)' <=> Claimed(t)
  BY <1>1, <1>3 DEF Claimed, Claims
<1>5. SessionsPlaced' /\ \A u : Usable(u)' \subseteq Usable(u)
  <2>1. SessionsPlaced'
    BY <1>0, <1>2, <1>3, <1>4 DEF SessionsPlaced
  <2>2. \A u : Usable(u)' \subseteq Usable(u)
    BY <1>0, <1>2, <1>3, <1>4 DEF SessionsPlaced, Usable
  <2> QED
    BY <2>1, <2>2
<1>6. LockInv'
  BY <1>0, <1>1, <1>3 DEF LockInv, AccountsTypeOK, UsersBounded, Bounded, OpsFormed, WellFormed, LocksHeld, Demote
<1>7. RowsPrepared' /\ AdminElsewhere' /\ AdminRemains'
  BY <1>1 DEF AccountsInv, RowsPrepared, Prepared, AdminElsewhere, Elsewhere, AdminRemains, Admins, Demote
<1>8. Swept'
  <2>1. ASSUME NEW p \in Ops, NEW t, t = op[p] PROVE SweptBy(t)'
    <3>1. SweptBy(t) /\ Usable(t.user)' \subseteq Usable(t.user)
      BY <1>5, <2>1 DEF AccountsInv, Swept
    <3> QED
      BY <1>1, <3>1 DEF SweptBy
  <2>2. ASSUME NEW p \in Ops, NEW t, t = op'[p] PROVE SweptBy(t)'
    BY <1>1, <2>1, <2>2
  <2> QED
    BY <2>2 DEF Swept, SweptBy, Usable
<1>9. UsableFresh'
  BY <1>1, <1>3, <1>5 DEF AccountsInv, UsableFresh, Usable
<1> QED
  BY <1>5, <1>6, <1>7, <1>8, <1>9 DEF AccountsInv

-----------------------------------------------------------------------------
(* The theorems                                                            *)

\* Locks, prepared rows, admins and sessions, in every state.
THEOREM AccountsInvariant == AccountsSpec => []AccountsInv
<1>1. AccountsInit => AccountsInv
  <2> SUFFICES ASSUME AccountsInit PROVE AccountsInv
    OBVIOUS
  <2>1. FirstHash \in Hash /\ FirstHash.pw = 0
    BY AccountsAssumption DEF FirstHash, Hash
  <2>2. PICK h : h = [pw |-> 0, enc |-> "old"]
    OBVIOUS
  <2>3. PICK roles \in (SUBSET Roles) \ {{}} : roles = Roles
    BY DEF Roles
  <2>4. PICK first : first = [status |-> "active", hash |-> h, roles |-> roles, endings |-> 0]
    OBVIOUS
  <2>5. first \in User /\ Bounded(first)
    <3>1. h \in Hash /\ first.hash.pw = 0 /\ first.endings = 0
      BY <2>2, <2>4, AccountsAssumption DEF Hash
    <3> QED
      BY <2>4, <3>1, AccountsAssumption DEF User, Bounded
  <2>6. [NewUser(Roles) EXCEPT !.hash.enc = "old"] = first
    BY <2>2, <2>3, <2>4 DEF NewUser, FirstHash
  <2>7. Absent = [status |-> "absent", hash |-> FirstHash, roles |-> roles, endings |-> 0]
    BY <2>3 DEF Absent, NewUser
  <2>8. Absent \in User /\ Bounded(Absent)
    BY <2>1, <2>7, AccountsAssumption DEF User, Bounded
  <2>9. users \in [Users -> User] /\ UsersBounded
    BY <2>5, <2>6, <2>8 DEF AccountsInit, UsersBounded
  <2>10. /\ Idle \in Op /\ Idle.pc = "idle" /\ Idle.kind = "request" /\ Idle.new = Absent
    BY <2>1, <2>8 DEF Idle, Op, Roles
  <2>11. WellFormed(Idle)
    BY <2>8, <2>10 DEF WellFormed
  <2>12. FreeSession \in Session /\ FreeSession.state = "free" /\ FreeSession.handed = FALSE
    BY AccountsAssumption DEF FreeSession, Session
  <2>13. AccountsTypeOK /\ OpsFormed
    BY <2>9, <2>10, <2>11, <2>12 DEF AccountsInit, AccountsTypeOK, OpsFormed
  <2>14. LocksHeld
    BY <2>10, AccountsAssumption DEF AccountsInit, LocksHeld, RowSteps, AdminSteps
  <2>15. \A s \in Sessions : ~Claimed(s) /\ sess[s].state = "free"
    BY <2>10, <2>12 DEF AccountsInit, Claimed, Claims
  <2>16. SessionsPlaced /\ UsableFresh
    BY <2>15 DEF SessionsPlaced, UsableFresh, Usable
  <2>17. RowsPrepared /\ AdminElsewhere /\ Swept
    BY <2>10 DEF AccountsInit, RowsPrepared, Prepared, AdminElsewhere, Elsewhere, Swept, SweptBy, RowSteps
  <2> QED
    BY <2>9, <2>13, <2>14, <2>16, <2>17 DEF AccountsInit, AccountsInv, LockInv, AdminRemains
<1>2. AccountsInv /\ [AccountsNext]_accounts => AccountsInv'
  <2> SUFFICES ASSUME AccountsInv, [AccountsNext]_accounts PROVE AccountsInv'
    OBVIOUS
  <2>1. ASSUME NEW o \in Ops, NEW u \in Users,
               \/ StartLogin(o, u) \/ SetUserPassword(o, u) \/ UpdateUser(o, u) \/ GrantRole(o, u) \/ RevokeRole(o, u)
        PROVE  AccountsInv'
    BY <2>1, OutsideKeeps, BeginKeeps
  <2>2. ASSUME NEW o \in Ops, NEW s \in Sessions, Lookup(o, s) PROVE AccountsInv'
    BY <2>2, OutsideKeeps
  <2>3. ASSUME NEW o \in Ops, LoginStep(o) PROVE AccountsInv'
    BY <2>3, OutsideKeeps, BeginKeeps, LoginKeeps DEF LoginStep
  <2>4. ASSUME NEW o \in Ops, ChangeStep(o) PROVE AccountsInv'
    BY <2>4, BeginKeeps, LockUserKeeps, SweepKeeps, CommitKeeps DEF ChangeStep
  <2>5. ASSUME NEW o \in Ops, RequestStep(o) \/ Crash(o) PROVE AccountsInv'
    BY <2>5, OutsideKeeps
  <2>6. CASE UNCHANGED accounts
    <3>1. UNCHANGED <<users, rowLock, adminLock, sess, op>>
      BY <2>6 DEF accounts
    <3>2. LockInv' /\ SessionsPlaced'
      BY <3>1 DEF AccountsInv, LockInv, AccountsTypeOK, UsersBounded, Bounded, OpsFormed, WellFormed, LocksHeld, Demote,
           SessionsPlaced, Claimed, Claims
    <3>3. RowsPrepared' /\ AdminElsewhere' /\ AdminRemains'
      BY <3>1 DEF AccountsInv, RowsPrepared, Prepared, AdminElsewhere, Elsewhere, AdminRemains, Admins, Demote
    <3>4. Swept' /\ UsableFresh'
      BY <3>1 DEF AccountsInv, Swept, SweptBy, UsableFresh, Usable, Claimed, Claims
    <3> QED
      BY <3>2, <3>3, <3>4 DEF AccountsInv
  <2> QED
    BY <2>1, <2>2, <2>3, <2>4, <2>5, <2>6, CreateUserKeeps, RedisKeeps DEF AccountsNext
<1> QED
  BY <1>1, <1>2, PTL DEF AccountsSpec

\* Some active user is an admin in every state, whatever disablings and
\* revocations run at once (users.Service: LockAdminRole and lastAdmin).
THEOREM AnAdminRemains == AccountsSpec => []AdminRemains
BY AccountsInvariant, PTL DEF AccountsInv

\* A session a client can use belongs to an active user and was opened after the
\* user's last password change and disabling, whatever fails on the way
\* (SetPassword, Update, RecordLogin, Sessions.DeleteUser).
THEOREM AccessEndsSessions == AccountsSpec => []SessionsEndWithAccess
<1>1. AccountsInv => SessionsEndWithAccess
  BY DEF AccountsInv, SessionsPlaced, UsableFresh, Usable, Claimed, SessionsEndWithAccess
<1> QED
  BY <1>1, AccountsInvariant, PTL

\* No two operations wait for each other's locks (LockAdminRole takes the role's
\* row "for no key update", which a grant's foreign key does not wait for).
THEOREM LocksAcyclic == AccountsSpec => []NoLockCycle
<1>1. AccountsInv => NoLockCycle
  <2> SUFFICES ASSUME LockInv, NEW o \in Ops, NEW p \in Ops, o # p, WaitsFor(o, p), WaitsFor(p, o)
               PROVE  FALSE
    BY DEF AccountsInv, NoLockCycle
  <2>1. ASSUME NEW a \in Ops, NEW b \in Ops, WaitsFor(a, b)
        PROVE  /\ op[a].pc \in {"tx", "row"}
               /\ (op[a].pc = "row" => op[b].pc \in RowSteps)
               /\ (op[a].pc = "tx" => op[b].pc \in RowSteps \/ op[b].pc = "row")
    BY <2>1 DEF WaitsFor, LockInv, OpsFormed, WellFormed, LocksHeld, ExcludesKeyShare, CanLeaveNoAdmin,
         RowSteps, AdminSteps
  <2> QED
    BY <2>1 DEF RowSteps
<1> QED
  BY <1>1, AccountsInvariant, PTL

-----------------------------------------------------------------------------
(***************************************************************************)
(* LimitsExact of LoginLimits, for any accounts, addresses, limits and     *)
(* finite number of attempts at once.                                      *)
(*                                                                         *)
(* An attempt is counted before its password is checked, so an invariant   *)
(* of counts and failures alone is not inductive: it has to count the      *)
(* attempts that are under way (NothingUncounted) and, among them, those   *)
(* that were let in and may still fail (RoomForAdmitted).                  *)
(***************************************************************************)

-----------------------------------------------------------------------------
(* The inductive invariant.                                                *)

\* The attempts in progress that were let in.
Admits(k) == {a \in InProgress(k) : attempt[a].pc = "check"}

\* An attempt in progress has an account and an address, one that is not has none.
AttemptsPlaced ==
  \A a \in Attempts :
    IF attempt[a].pc = "idle" THEN attempt[a] = NoAttempt
    ELSE attempt[a].account \in Accounts /\ attempt[a].address \in Addresses

\* Whatever failed or is in progress is in the count, but for the attempts that
\* were in progress when the key was removed, whose count went with it.
NothingUncounted ==
  \A k \in Counters : count[k] >= wrong[k] + Cardinality(InProgress(k)) - carried[k]

\* Should every attempt that was let in fail, the limit still holds.
RoomForAdmitted ==
  \A k \in Counters : wrong[k] + Cardinality(Admits(k)) <= Limit(k) + carried[k]

\* A counter without a key is 0.
CountsHaveKeys == \A k \in Counters : k \in keys \/ count[k] = 0

LimitsInv ==
  /\ LimitsTypeOK
  /\ AttemptsPlaced
  /\ NothingUncounted
  /\ RoomForAdmitted
  /\ NoPhantomFailures
  /\ CountsHaveKeys

-----------------------------------------------------------------------------
(* Attempts that begin and end.                                            *)

\* The attempts of a counter are finitely many, and those let in are among them.
LEMMA LimitsBounded ==
  \A k : /\ IsFiniteSet(InProgress(k)) /\ IsFiniteSet(Admits(k))
         /\ Cardinality(InProgress(k)) \in 0 .. Cardinality(Attempts)
         /\ Cardinality(Admits(k)) \in Nat
         /\ Cardinality(Admits(k)) <= Cardinality(InProgress(k))
<1> SUFFICES ASSUME NEW k
             PROVE  /\ IsFiniteSet(InProgress(k)) /\ IsFiniteSet(Admits(k))
                    /\ Cardinality(InProgress(k)) \in 0 .. Cardinality(Attempts)
                    /\ Cardinality(Admits(k)) \in Nat
                    /\ Cardinality(Admits(k)) <= Cardinality(InProgress(k))
  OBVIOUS
<1>1. InProgress(k) \in SUBSET Attempts /\ Admits(k) \in SUBSET InProgress(k)
  BY DEF InProgress, Admits
<1>2. IsFiniteSet(InProgress(k)) /\ Cardinality(InProgress(k)) <= Cardinality(Attempts)
  BY <1>1, FS_Subset, LoginLimitsAssumption
<1>3. IsFiniteSet(Admits(k)) /\ Cardinality(Admits(k)) <= Cardinality(InProgress(k))
  BY <1>1, <1>2, FS_Subset
<1> QED
  BY <1>2, <1>3, FS_CardinalityType, LoginLimitsAssumption

\* An attempt that ends leaves its two counters' attempts, and no others.
LEMMA EndLeaves ==
  ASSUME LimitsInv, NEW a \in Attempts, attempt[a].pc # "idle", EndAttempt(a), NEW k \in Counters
  PROVE  /\ Cardinality(InProgress(k))' =
              Cardinality(InProgress(k)) - (IF k \in CountersOf(a) THEN 1 ELSE 0)
         /\ Cardinality(Admits(k))' =
              Cardinality(Admits(k)) - (IF k \in CountersOf(a) /\ attempt[a].pc = "check" THEN 1 ELSE 0)
         /\ InProgress(k)' = InProgress(k) \ {a}
<1>1. \A b \in Attempts : attempt'[b] = IF b = a THEN NoAttempt ELSE attempt[b]
  BY DEF EndAttempt, LimitsInv, LimitsTypeOK
<1>2. InProgress(k)' = InProgress(k) \ {a} /\ Admits(k)' = Admits(k) \ {a}
  BY <1>1, LoginLimitsAssumption DEF InProgress, Admits, CountersOf, NoAttempt
<1>3. /\ a \in InProgress(k) <=> k \in CountersOf(a)
      /\ a \in Admits(k) <=> k \in CountersOf(a) /\ attempt[a].pc = "check"
  BY DEF InProgress, Admits
<1>4. Cardinality(InProgress(k) \ {a}) = Cardinality(InProgress(k)) - (IF k \in CountersOf(a) THEN 1 ELSE 0)
  <2>1. Cardinality(InProgress(k)) \in Nat /\ IsFiniteSet(InProgress(k))
    BY LimitsBounded
  <2>2. Cardinality(InProgress(k) \ {a}) =
          IF a \in InProgress(k) THEN Cardinality(InProgress(k)) - 1 ELSE Cardinality(InProgress(k))
    BY <2>1, FS_RemoveElement
  <2> QED
    BY <1>3, <2>1, <2>2
<1>5. Cardinality(Admits(k) \ {a}) =
        Cardinality(Admits(k)) - (IF k \in CountersOf(a) /\ attempt[a].pc = "check" THEN 1 ELSE 0)
  <2>1. Cardinality(Admits(k)) \in Nat /\ IsFiniteSet(Admits(k))
    BY LimitsBounded
  <2>2. Cardinality(Admits(k) \ {a}) =
          IF a \in Admits(k) THEN Cardinality(Admits(k)) - 1 ELSE Cardinality(Admits(k))
    BY <2>1, FS_RemoveElement
  <2> QED
    BY <1>3, <2>1, <2>2
<1> QED
  BY <1>2, <1>4, <1>5

\* What an attempt that ends leaves is well-formed.
LEMMA EndPlaced ==
  ASSUME LimitsInv, NEW a \in Attempts, EndAttempt(a)
  PROVE  attempt' \in [Attempts -> Attempt] /\ AttemptsPlaced'
<1>1. NoAttempt \in Attempt
  BY DEF NoAttempt, Attempt
<1>2. \A b \in Attempts : attempt'[b] = IF b = a THEN NoAttempt ELSE attempt[b]
  BY DEF EndAttempt, LimitsInv, LimitsTypeOK
<1>3. attempt' \in [Attempts -> Attempt]
  BY <1>1 DEF EndAttempt, LimitsInv, LimitsTypeOK
<1>4. AttemptsPlaced'
  BY <1>2 DEF AttemptsPlaced, NoAttempt, LimitsInv
<1> QED
  BY <1>3, <1>4

\* The arithmetic of the limits.
LEMMA Numbers ==
  /\ \A k \in Counters : Limit(k) \in Nat \ {0}
  /\ Cardinality(Attempts) \in Nat /\ MaxCount \in Nat
  /\ LimitsTypeOK => \A k \in Counters : count[k] \in Int /\ wrong[k] \in Nat /\ carried[k] \in Nat
<1>1. Cardinality(Attempts) \in Nat
  BY FS_CardinalityType, LoginLimitsAssumption
<1>2. \A k \in Counters : Limit(k) \in Nat \ {0}
  BY LoginLimitsAssumption DEF Limit
<1> QED
  BY <1>1, <1>2, LoginLimitsAssumption DEF LimitsTypeOK

-----------------------------------------------------------------------------
(* One lemma per action.                                                   *)

\* Begin: the attempt takes its place in both counts.
LEMMA AttemptBegins ==
  ASSUME LimitsInv, NEW a \in Attempts, NEW account \in Accounts, NEW address \in Addresses,
         Begin(a, account, address)
  PROVE  LimitsInv'
<1> DEFINE ks == {account, address}
           new == [pc |-> IF \A k \in ks : Admitted(k) THEN "check" ELSE "refused",
                   account |-> account, address |-> address]
<1>1. /\ attempt[a] = NoAttempt /\ ks \subseteq Counters
      /\ \A k \in ks : count[k] < MaxCount
      /\ keys' = keys \cup ks /\ UNCHANGED <<wrong, carried, lost>>
  BY DEF Begin, Add, LimitsInv, AttemptsPlaced, Counters
<1>2. new \in Attempt /\ new.pc # "idle" /\ new.account = account /\ new.address = address
      /\ (new.pc = "check" => \A k \in ks : Admitted(k))
  BY DEF Attempt
<1>3. \A k \in Counters : count'[k] = IF k \in ks THEN count[k] + 1 ELSE count[k]
  BY DEF Begin, Add
<1>4. attempt' \in [Attempts -> Attempt] /\ \A b \in Attempts : attempt'[b] = IF b = a THEN new ELSE attempt[b]
  BY <1>2 DEF Begin, LimitsInv, LimitsTypeOK
<1> HIDE DEF new
<1>5. ASSUME NEW k \in Counters
      PROVE  /\ Cardinality(InProgress(k))' = Cardinality(InProgress(k)) + (IF k \in ks THEN 1 ELSE 0)
             /\ Cardinality(Admits(k))' =
                  Cardinality(Admits(k)) + (IF k \in ks /\ new.pc = "check" THEN 1 ELSE 0)
  <2>1. a \notin InProgress(k) /\ a \notin Admits(k)
    BY <1>1, LoginLimitsAssumption DEF InProgress, Admits, CountersOf, NoAttempt
  <2>2. InProgress(k)' = IF k \in ks THEN InProgress(k) \cup {a} ELSE InProgress(k)
    BY <1>2, <1>4, <2>1 DEF InProgress, CountersOf
  <2>3. Admits(k)' = IF k \in ks /\ new.pc = "check" THEN Admits(k) \cup {a} ELSE Admits(k)
    BY <1>2, <1>4, <2>1 DEF Admits, InProgress, CountersOf
  <2>4. /\ IsFiniteSet(InProgress(k)) /\ Cardinality(InProgress(k)) \in Nat
        /\ IsFiniteSet(Admits(k)) /\ Cardinality(Admits(k)) \in Nat
    BY LimitsBounded
  <2>5. /\ Cardinality(InProgress(k) \cup {a}) = Cardinality(InProgress(k)) + 1
        /\ Cardinality(Admits(k) \cup {a}) = Cardinality(Admits(k)) + 1
    BY <2>1, <2>4, FS_AddElement
  <2> QED
    BY <2>2, <2>3, <2>4, <2>5
<1>6. ASSUME NEW k \in Counters
      PROVE  /\ count'[k] \in -Cardinality(Attempts) .. MaxCount
             /\ count'[k] >= wrong'[k] + Cardinality(InProgress(k))' - carried'[k]
             /\ wrong'[k] + Cardinality(Admits(k))' <= Limit(k) + carried'[k]
             /\ ~lost'[k] => count'[k] <= wrong'[k] + Cardinality(InProgress(k))'
  <2>1. /\ count[k] \in -Cardinality(Attempts) .. MaxCount
        /\ count[k] >= wrong[k] + Cardinality(InProgress(k)) - carried[k]
        /\ wrong[k] + Cardinality(Admits(k)) <= Limit(k) + carried[k]
        /\ ~lost[k] => count[k] <= wrong[k] + Cardinality(InProgress(k))
    BY DEF LimitsInv, LimitsTypeOK, NothingUncounted, RoomForAdmitted, NoPhantomFailures
  <2>2. /\ Cardinality(InProgress(k)) \in Nat /\ Cardinality(Admits(k)) \in Nat
        /\ Cardinality(Admits(k)) <= Cardinality(InProgress(k))
    BY LimitsBounded
  <2>3. k \in ks /\ new.pc = "check" => count[k] + 1 <= Limit(k)
    BY <1>2 DEF Admitted
  <2>4. /\ Limit(k) \in Nat /\ count[k] \in Int /\ wrong[k] \in Nat /\ carried[k] \in Nat
        /\ Cardinality(Attempts) \in Nat /\ MaxCount \in Nat
    BY Numbers DEF LimitsInv
  <2>5. k \in ks => count[k] < MaxCount
    BY <1>1
  <2> QED
    BY <1>1, <1>3, <1>5, <2>1, <2>2, <2>3, <2>4, <2>5
<1>7. LimitsTypeOK'
  <2>1. count' \in [Counters -> -Cardinality(Attempts) .. MaxCount]
    BY <1>6 DEF Begin, Add
  <2> QED
    BY <1>1, <1>4, <2>1 DEF LimitsTypeOK, LimitsInv
<1>8. AttemptsPlaced'
  BY <1>2, <1>4 DEF AttemptsPlaced, LimitsInv
<1>9. NothingUncounted' /\ RoomForAdmitted' /\ NoPhantomFailures'
  BY <1>6 DEF NothingUncounted, RoomForAdmitted, NoPhantomFailures, Limit
<1>10. CountsHaveKeys'
  BY <1>1, <1>3 DEF CountsHaveKeys, LimitsInv
<1> QED
  BY <1>7, <1>8, <1>9, <1>10 DEF LimitsInv

\* An attempt that ends keeps the invariant if each of its counters is taken back,
\* is lost, or has one failure more.
LEMMA EndKeeps ==
  ASSUME LimitsInv, NEW a \in Attempts, attempt[a].pc # "idle", EndAttempt(a),
         count' \in [Counters -> Int], wrong' \in [Counters -> Nat], lost' \in [Counters -> BOOLEAN],
         UNCHANGED carried, keys' \in SUBSET Counters, keys \subseteq keys',
         \A k \in Counters \ CountersOf(a) :
           count'[k] = count[k] /\ wrong'[k] = wrong[k] /\ (lost[k] => lost'[k]),
         \A k \in CountersOf(a) :
           \/ k \in keys' /\ count'[k] = count[k] - 1 /\ wrong'[k] = wrong[k] /\ (lost[k] => lost'[k])
           \/ count'[k] = count[k] /\ wrong'[k] = wrong[k] /\ lost'[k]
           \/ count'[k] = count[k] /\ wrong'[k] = wrong[k] + 1 /\ attempt[a].pc = "check" /\ (lost[k] => lost'[k])
  PROVE  LimitsInv'
<1>1. ASSUME NEW k \in Counters
      PROVE  /\ count'[k] \in -Cardinality(Attempts) .. MaxCount
             /\ count'[k] >= wrong'[k] + Cardinality(InProgress(k))' - carried'[k]
             /\ wrong'[k] + Cardinality(Admits(k))' <= Limit(k) + carried'[k]
             /\ ~lost'[k] => count'[k] <= wrong'[k] + Cardinality(InProgress(k))'
             /\ k \in keys' \/ count'[k] = 0
  <2>1. /\ count[k] \in -Cardinality(Attempts) .. MaxCount
        /\ count[k] >= wrong[k] + Cardinality(InProgress(k)) - carried[k]
        /\ wrong[k] + Cardinality(Admits(k)) <= Limit(k) + carried[k]
        /\ ~lost[k] => count[k] <= wrong[k] + Cardinality(InProgress(k))
        /\ k \in keys \/ count[k] = 0
        /\ carried[k] \in 0 .. Cardinality(Attempts)
    BY DEF LimitsInv, LimitsTypeOK, NothingUncounted, RoomForAdmitted, NoPhantomFailures, CountsHaveKeys
  <2>2. /\ Cardinality(InProgress(k)) \in Nat /\ Cardinality(Admits(k)) \in Nat
        /\ Cardinality(InProgress(k))' \in Nat
    <3>1. Cardinality(InProgress(k))' \in Nat
      <4>1. InProgress(k)' = InProgress(k) \ {a} /\ IsFiniteSet(InProgress(k))
        BY EndLeaves, LimitsBounded
      <4>2. IsFiniteSet(InProgress(k)')
        BY <4>1, FS_RemoveElement
      <4> QED
        BY <4>2, FS_CardinalityType
    <3> QED
      BY LimitsBounded, <3>1
  <2>3. /\ Limit(k) \in Nat /\ count[k] \in Int /\ wrong[k] \in Nat /\ carried[k] \in Nat
        /\ Cardinality(Attempts) \in Nat /\ MaxCount \in Nat
    BY Numbers DEF LimitsInv
  <2>4. /\ Cardinality(InProgress(k))' =
             Cardinality(InProgress(k)) - (IF k \in CountersOf(a) THEN 1 ELSE 0)
        /\ Cardinality(Admits(k))' =
             Cardinality(Admits(k)) - (IF k \in CountersOf(a) /\ attempt[a].pc = "check" THEN 1 ELSE 0)
    BY EndLeaves
  <2> QED
    BY <2>1, <2>2, <2>3, <2>4
<1>2. LimitsTypeOK'
  <2>1. count' \in [Counters -> -Cardinality(Attempts) .. MaxCount]
    BY <1>1
  <2> QED
    BY <2>1, EndPlaced DEF LimitsTypeOK, LimitsInv
<1>3. AttemptsPlaced'
  BY EndPlaced
<1>4. NothingUncounted' /\ RoomForAdmitted' /\ NoPhantomFailures' /\ CountsHaveKeys'
  BY <1>1 DEF NothingUncounted, RoomForAdmitted, NoPhantomFailures, CountsHaveKeys, Limit
<1> QED
  BY <1>2, <1>3, <1>4 DEF LimitsInv

\* takeBack, whether Redis ran it or not.
LEMMA TakeBackKeeps ==
  ASSUME LimitsInv, NEW a \in Attempts, attempt[a].pc # "idle", TakeBack(a), EndAttempt(a),
         UNCHANGED <<wrong, carried>>
  PROVE  LimitsInv'
<1>1. CountersOf(a) \subseteq Counters
  BY DEF LimitsInv, AttemptsPlaced, CountersOf, Counters
<1>2. /\ count \in [Counters -> Int] /\ keys \in SUBSET Counters
      /\ wrong' \in [Counters -> Nat] /\ lost \in [Counters -> BOOLEAN]
  BY Numbers DEF LimitsInv, LimitsTypeOK
<1>3. CASE Add(CountersOf(a), -1) /\ UNCHANGED lost
  BY <1>1, <1>2, <1>3, EndKeeps DEF Add
<1>4. CASE Lose(a) /\ Add(CountersOf(a), -1)
  BY <1>1, <1>2, <1>4, EndKeeps DEF Add, Lose
<1>5. CASE Lose(a) /\ UNCHANGED <<count, keys>>
  BY <1>1, <1>2, <1>5, EndKeeps DEF Lose
<1> QED
  BY <1>3, <1>4, <1>5 DEF TakeBack

\* An attempt that fails, or ends without taking its count back.
LEMMA StopKeeps ==
  ASSUME LimitsInv, NEW a \in Attempts,
         \/ Fail(a) \/ Abandoned(a)
         \/ attempt[a].pc = "check" /\ Lose(a) /\ UNCHANGED <<count, keys, wrong, carried>> /\ EndAttempt(a)
  PROVE  LimitsInv'
<1>1. attempt[a].pc # "idle" /\ EndAttempt(a)
  BY DEF Fail, Abandoned
<1>2. CountersOf(a) \subseteq Counters
  BY <1>1 DEF LimitsInv, AttemptsPlaced, CountersOf, Counters
<1>3. /\ count \in [Counters -> Int] /\ keys \in SUBSET Counters
      /\ wrong \in [Counters -> Nat] /\ lost \in [Counters -> BOOLEAN]
  BY Numbers DEF LimitsInv, LimitsTypeOK
<1>4. CASE Fail(a)
  BY <1>1, <1>2, <1>3, <1>4, EndKeeps DEF Fail
<1>5. CASE Lose(a) /\ UNCHANGED <<count, keys, wrong, carried>>
  BY <1>1, <1>2, <1>3, <1>5, EndKeeps DEF Lose
<1> QED
  BY <1>4, <1>5 DEF Abandoned

\* Succeeded: the account's key is deleted, the address's count taken back.
LEMMA ClearKeeps ==
  ASSUME LimitsInv, NEW a \in Attempts, attempt[a].pc = "check", Clear(a), EndAttempt(a)
  PROVE  LimitsInv'
<1>1. PICK account \in Accounts, address \in Addresses :
        attempt[a].account = account /\ attempt[a].address = address
  BY DEF LimitsInv, AttemptsPlaced
<1>2. /\ CountersOf(a) = {account, address} /\ account # address
      /\ account \in Counters /\ address \in Counters
  BY <1>1, LoginLimitsAssumption DEF CountersOf, Counters
<1>3. /\ count \in [Counters -> Int] /\ keys \in SUBSET Counters
      /\ wrong \in [Counters -> Nat] /\ lost \in [Counters -> BOOLEAN]
      /\ carried \in [Counters -> 0 .. Cardinality(Attempts)]
  BY Numbers DEF LimitsInv, LimitsTypeOK
<1>4. /\ Cardinality(InProgress(account) \ {a}) \in 0 .. Cardinality(Attempts)
      /\ Cardinality(InProgress(account))' = Cardinality(InProgress(account) \ {a})
  <2>1. InProgress(account) \ {a} \in SUBSET Attempts
    BY DEF InProgress
  <2>2. /\ IsFiniteSet(InProgress(account) \ {a})
        /\ Cardinality(InProgress(account) \ {a}) <= Cardinality(Attempts)
    BY <2>1, FS_Subset, LoginLimitsAssumption
  <2>3. Cardinality(InProgress(account) \ {a}) \in Nat /\ Cardinality(Attempts) \in Nat
    BY <2>2, FS_CardinalityType, Numbers
  <2>4. InProgress(account)' = InProgress(account) \ {a}
    BY <1>2, EndLeaves
  <2> QED
    BY <2>2, <2>3, <2>4
<1>5. /\ count' = [count EXCEPT ![account] = 0, ![address] = @ - 1]
      /\ keys' = (keys \ {account}) \cup {address}
      /\ wrong' = [wrong EXCEPT ![account] = 0]
      /\ carried' = [carried EXCEPT ![account] = Cardinality(InProgress(account) \ {a})]
      /\ lost' = [lost EXCEPT ![account] = FALSE]
  BY <1>1 DEF Clear, Removed
<1>6. /\ \A k \in Counters : count'[k] = IF k = account THEN 0 ELSE IF k = address THEN count[k] - 1 ELSE count[k]
      /\ \A k \in Counters : wrong'[k] = IF k = account THEN 0 ELSE wrong[k]
      /\ \A k \in Counters : carried'[k] = IF k = account THEN Cardinality(InProgress(account) \ {a}) ELSE carried[k]
      /\ \A k \in Counters : lost'[k] = IF k = account THEN FALSE ELSE lost[k]
      /\ keys' \in SUBSET Counters
  BY <1>2, <1>3, <1>5
<1>7. ASSUME NEW k \in Counters
      PROVE  /\ count'[k] \in -Cardinality(Attempts) .. MaxCount
             /\ count'[k] >= wrong'[k] + Cardinality(InProgress(k))' - carried'[k]
             /\ wrong'[k] + Cardinality(Admits(k))' <= Limit(k) + carried'[k]
             /\ ~lost'[k] => count'[k] <= wrong'[k] + Cardinality(InProgress(k))'
             /\ k \in keys' \/ count'[k] = 0
  <2>1. /\ count[k] \in -Cardinality(Attempts) .. MaxCount
        /\ count[k] >= wrong[k] + Cardinality(InProgress(k)) - carried[k]
        /\ wrong[k] + Cardinality(Admits(k)) <= Limit(k) + carried[k]
        /\ ~lost[k] => count[k] <= wrong[k] + Cardinality(InProgress(k))
        /\ k \in keys \/ count[k] = 0
        /\ carried[k] \in 0 .. Cardinality(Attempts)
    BY DEF LimitsInv, LimitsTypeOK, NothingUncounted, RoomForAdmitted, NoPhantomFailures, CountsHaveKeys
  <2>2. /\ Cardinality(InProgress(k)) \in Nat /\ Cardinality(Admits(k)) \in Nat
        /\ Cardinality(Admits(k)) <= Cardinality(InProgress(k))
    BY LimitsBounded
  <2>3. /\ Limit(k) \in Nat /\ count[k] \in Int /\ wrong[k] \in Nat /\ carried[k] \in Nat
        /\ Cardinality(Attempts) \in Nat /\ MaxCount \in Nat
    BY Numbers DEF LimitsInv
  <2>4. /\ Cardinality(InProgress(k))' =
             Cardinality(InProgress(k)) - (IF k \in CountersOf(a) THEN 1 ELSE 0)
        /\ Cardinality(Admits(k))' =
             Cardinality(Admits(k)) - (IF k \in CountersOf(a) /\ attempt[a].pc = "check" THEN 1 ELSE 0)
    BY EndLeaves
  <2>5. Cardinality(InProgress(k))' \in Nat
    <3>1. InProgress(k)' = InProgress(k) \ {a} /\ IsFiniteSet(InProgress(k))
      BY EndLeaves, LimitsBounded
    <3>2. IsFiniteSet(InProgress(k)')
      BY <3>1, FS_RemoveElement
    <3> QED
      BY <3>2, FS_CardinalityType
  <2>6. CASE k = account
    <3>1. /\ count'[k] = 0 /\ wrong'[k] = 0 /\ ~lost'[k] /\ k \in CountersOf(a)
          /\ carried'[k] = Cardinality(InProgress(k))'
      BY <1>2, <1>4, <1>6, <2>6
    <3> QED
      BY <2>2, <2>3, <2>4, <2>5, <3>1
  <2>7. CASE k # account
    <3>1. /\ count'[k] = IF k \in CountersOf(a) THEN count[k] - 1 ELSE count[k]
          /\ wrong'[k] = wrong[k] /\ carried'[k] = carried[k] /\ (~lost'[k] => ~lost[k])
      BY <1>2, <1>6, <2>7
    <3>2. (k \in keys => k \in keys') /\ (k \in CountersOf(a) => k \in keys')
      BY <1>2, <1>5, <2>7
    <3> QED
      BY <2>1, <2>2, <2>3, <2>4, <2>5, <3>1, <3>2
  <2> QED
    BY <2>6, <2>7
<1>8. LimitsTypeOK'
  <2>1. count' \in [Counters -> -Cardinality(Attempts) .. MaxCount]
    BY <1>3, <1>5, <1>7
  <2>2. wrong' \in [Counters -> Nat] /\ carried' \in [Counters -> 0 .. Cardinality(Attempts)]
    BY <1>2, <1>3, <1>4, <1>5
  <2>3. lost' \in [Counters -> BOOLEAN]
    BY <1>2, <1>3, <1>5
  <2> QED
    BY <1>6, <2>1, <2>2, <2>3, EndPlaced DEF LimitsTypeOK
<1>9. AttemptsPlaced'
  BY EndPlaced
<1>10. NothingUncounted' /\ RoomForAdmitted' /\ NoPhantomFailures' /\ CountsHaveKeys'
  BY <1>7 DEF NothingUncounted, RoomForAdmitted, NoPhantomFailures, CountsHaveKeys, Limit
<1> QED
  BY <1>8, <1>9, <1>10 DEF LimitsInv

\* A window ends: what was in progress is carried into the next.
LEMMA ExpireKeeps ==
  ASSUME LimitsInv, NEW x \in Counters, Expire(x)
  PROVE  LimitsInv'
<1>1. /\ count \in [Counters -> Int] /\ keys \in SUBSET Counters
      /\ wrong \in [Counters -> Nat] /\ lost \in [Counters -> BOOLEAN]
      /\ carried \in [Counters -> 0 .. Cardinality(Attempts)]
  BY Numbers DEF LimitsInv, LimitsTypeOK
<1>2. InProgress(x) \ {NoKey} = InProgress(x)
  BY LoginLimitsAssumption DEF InProgress
<1>3. /\ count' = [count EXCEPT ![x] = 0] /\ keys' = keys \ {x} /\ UNCHANGED attempt
      /\ wrong' = [wrong EXCEPT ![x] = 0] /\ lost' = [lost EXCEPT ![x] = FALSE]
      /\ carried' = [carried EXCEPT ![x] = Cardinality(InProgress(x))]
  BY <1>2 DEF Expire, Removed
<1>4. \A k : InProgress(k)' = InProgress(k) /\ Admits(k)' = Admits(k)
  BY <1>3 DEF InProgress, Admits, CountersOf
<1>5. ASSUME NEW k \in Counters
      PROVE  /\ count'[k] \in -Cardinality(Attempts) .. MaxCount
             /\ carried'[k] \in 0 .. Cardinality(Attempts)
             /\ count'[k] >= wrong'[k] + Cardinality(InProgress(k))' - carried'[k]
             /\ wrong'[k] + Cardinality(Admits(k))' <= Limit(k) + carried'[k]
             /\ ~lost'[k] => count'[k] <= wrong'[k] + Cardinality(InProgress(k))'
             /\ k \in keys' \/ count'[k] = 0
  <2>1. /\ count[k] \in -Cardinality(Attempts) .. MaxCount
        /\ count[k] >= wrong[k] + Cardinality(InProgress(k)) - carried[k]
        /\ wrong[k] + Cardinality(Admits(k)) <= Limit(k) + carried[k]
        /\ ~lost[k] => count[k] <= wrong[k] + Cardinality(InProgress(k))
        /\ k \in keys \/ count[k] = 0
        /\ carried[k] \in 0 .. Cardinality(Attempts)
    BY DEF LimitsInv, LimitsTypeOK, NothingUncounted, RoomForAdmitted, NoPhantomFailures, CountsHaveKeys
  <2>2. /\ Cardinality(InProgress(k)) \in 0 .. Cardinality(Attempts) /\ Cardinality(Admits(k)) \in Nat
        /\ Cardinality(Admits(k)) <= Cardinality(InProgress(k))
    BY LimitsBounded
  <2>3. /\ Limit(k) \in Nat /\ count[k] \in Int /\ wrong[k] \in Nat /\ carried[k] \in Nat
        /\ Cardinality(Attempts) \in Nat /\ MaxCount \in Nat
    BY Numbers DEF LimitsInv
  <2>4. /\ Cardinality(InProgress(k))' = Cardinality(InProgress(k))
        /\ Cardinality(Admits(k))' = Cardinality(Admits(k))
    BY <1>4
  <2>5. CASE k = x
    BY <1>1, <1>3, <2>2, <2>3, <2>4, <2>5
  <2>6. CASE k # x
    BY <1>1, <1>3, <2>1, <2>2, <2>3, <2>4, <2>6
  <2> QED
    BY <2>5, <2>6
<1>6. LimitsTypeOK'
  <2>1. count' \in [Counters -> -Cardinality(Attempts) .. MaxCount]
    BY <1>1, <1>3, <1>5
  <2>2. wrong' \in [Counters -> Nat] /\ carried' \in [Counters -> 0 .. Cardinality(Attempts)]
    BY <1>1, <1>3, <1>5
  <2>3. lost' \in [Counters -> BOOLEAN] /\ keys' \in SUBSET Counters
    BY <1>1, <1>3
  <2> QED
    BY <1>3, <2>1, <2>2, <2>3 DEF LimitsTypeOK, LimitsInv
<1>7. AttemptsPlaced'
  BY <1>3 DEF AttemptsPlaced, LimitsInv
<1>8. NothingUncounted' /\ RoomForAdmitted' /\ NoPhantomFailures' /\ CountsHaveKeys'
  BY <1>5 DEF NothingUncounted, RoomForAdmitted, NoPhantomFailures, CountsHaveKeys, Limit
<1> QED
  BY <1>6, <1>7, <1>8 DEF LimitsInv

-----------------------------------------------------------------------------
(* The theorems.                                                           *)

\* Whatever attempts begin, fail, succeed or are stopped, and whatever windows
\* end, the invariant holds.
THEOREM LimitsInvariant == LimitsSpec => []LimitsInv
<1>1. LimitsInit => LimitsInv
  <2> SUFFICES ASSUME LimitsInit PROVE LimitsInv
    OBVIOUS
  <2>1. \A k \in Counters : InProgress(k) = {} /\ Admits(k) = {}
    BY LoginLimitsAssumption DEF LimitsInit, InProgress, Admits, CountersOf, NoAttempt
  <2>2. \A k \in Counters : Cardinality(InProgress(k)) = 0 /\ Cardinality(Admits(k)) = 0
    BY <2>1, FS_EmptySet
  <2>3. LimitsTypeOK
    <3>1. Cardinality(Attempts) \in Nat /\ MaxCount \in Nat
      BY Numbers
    <3> QED
      BY <3>1 DEF LimitsInit, LimitsTypeOK, NoAttempt, Attempt
  <2>4. \A k \in Counters : Limit(k) \in Nat
    BY Numbers
  <2>5. NothingUncounted /\ RoomForAdmitted
    BY <2>2, <2>4 DEF LimitsInit, NothingUncounted, RoomForAdmitted
  <2>6. NoPhantomFailures /\ CountsHaveKeys /\ AttemptsPlaced
    BY <2>2 DEF LimitsInit, NoPhantomFailures, CountsHaveKeys, AttemptsPlaced, NoAttempt
  <2> QED
    BY <2>3, <2>5, <2>6 DEF LimitsInv
<1>2. LimitsInv /\ [LimitsNext]_limits => LimitsInv'
  <2> SUFFICES ASSUME LimitsInv, [LimitsNext]_limits PROVE LimitsInv'
    OBVIOUS
  <2>1. CASE \E a \in Attempts, account \in Accounts, address \in Addresses : Begin(a, account, address)
    BY <2>1, AttemptBegins
  <2>2. CASE \E a \in Attempts : Refuse(a) \/ Unchecked(a)
    BY <2>2, TakeBackKeeps DEF Refuse, Unchecked
  <2>3. CASE \E a \in Attempts : Fail(a) \/ Abandoned(a)
    BY <2>3, StopKeeps
  <2>4. CASE \E a \in Attempts : Succeeded(a)
    BY <2>4, ClearKeeps, StopKeeps DEF Succeeded
  <2>5. CASE \E k \in Counters : Expire(k)
    BY <2>5, ExpireKeeps
  <2>6. CASE UNCHANGED limits
    <3>1. UNCHANGED <<count, keys, attempt, wrong, carried, lost>>
      BY <2>6 DEF limits
    <3>2. \A k : InProgress(k)' = InProgress(k) /\ Admits(k)' = Admits(k)
      BY <3>1 DEF InProgress, Admits, CountersOf
    <3> QED
      BY <3>1, <3>2 DEF LimitsInv, LimitsTypeOK, AttemptsPlaced, NothingUncounted, RoomForAdmitted,
           NoPhantomFailures, CountsHaveKeys, Limit
  <2> QED
    BY <2>1, <2>2, <2>3, <2>4, <2>5, <2>6 DEF LimitsNext
<1> QED
  BY <1>1, <1>2, PTL DEF LimitsSpec

\* The limits on failed logins are exact for any number of accounts, addresses
\* and attempts at once: between two removals of a key no more attempts fail than
\* the limit and those then in progress, nothing but failures and attempts in
\* progress counts unless Redis lost an answer, and every lockout has an end
\* (Begin, takeBack, Succeeded and the windows of limits.go).
THEOREM LimitsAreExact == LimitsSpec => []LimitsExact
<1>1. LimitsInv => LimitsExact
  <2> SUFFICES ASSUME LimitsInv PROVE LimitsExact
    OBVIOUS
  <2>1. LimitHolds
    <3> SUFFICES ASSUME NEW k \in Counters PROVE wrong[k] <= Limit(k) + carried[k]
      BY DEF LimitHolds
    <3>1. wrong[k] + Cardinality(Admits(k)) <= Limit(k) + carried[k] /\ Cardinality(Admits(k)) \in Nat
      BY LimitsBounded DEF LimitsInv, RoomForAdmitted
    <3>2. Limit(k) \in Nat /\ wrong[k] \in Nat /\ carried[k] \in Nat
      BY Numbers DEF LimitsInv
    <3> QED
      BY <3>1, <3>2
  <2>2. LockoutHasEnd
    <3> SUFFICES ASSUME NEW k \in Counters, k \notin keys PROVE count[k] < Limit(k)
      BY DEF LockoutHasEnd
    <3>1. count[k] = 0 /\ Limit(k) \in Nat \ {0}
      BY Numbers DEF LimitsInv, CountsHaveKeys
    <3> QED
      BY <3>1
  <2> QED
    BY <2>1, <2>2 DEF LimitsInv, LimitsExact
<1> QED
  BY <1>1, LimitsInvariant, PTL

-----------------------------------------------------------------------------
(***************************************************************************)
(* NameHasOneOwner and PagingComplete of Inventory, for any applications,  *)
(* names, modes, callers, replicas, revisions of the file and page size.   *)
(*                                                                         *)
(* Both go part by part: the types of the rows; the unique names of the    *)
(* applications, which a new row of the file keeps; what a claim and a     *)
(* revision being applied may rely on until they write (ClaimsFree,        *)
(* ReadingParsed); and how far the client that pages has come              *)
(* (GotUpToCursor).                                                        *)
(***************************************************************************)

-----------------------------------------------------------------------------
(* Which actions write what.                                               *)

Applies(r, f, pick) ==
    /\ reading[r] # None /\ f = Files[reading[r]] /\ pick \in NewRows(f) /\ LockEnvironment
    /\ ~Refused(f, ApplicationsAfter(f, pick))
    /\ env' = EnvironmentAfter /\ app' = ApplicationsAfter(f, pick)
    /\ comp' = ComponentsAfter(f, ApplicationsAfter(f, pick))
    /\ src' = SourcesAfter(f, ApplicationsAfter(f, pick), DisableDropped(f, ApplicationsAfter(f, pick)))
    /\ UNCHANGED <<claim, current, mounted, pager>>

FileWrites == \E r \in Replicas : \E f, pick : Applies(r, f, pick)

\* An apply that is not refused writes all of the file.
LEMMA ApplyWrites ==
    ASSUME NEW r \in Replicas, NEW pick, ApplyFile(r, pick)
    PROVE  \/ FileWrites
           \/ UNCHANGED tables /\ UNCHANGED <<claim, current, mounted, pager>>
<1> DEFINE f == Files[reading[r]]
           rows == ApplicationsAfter(f, pick)
<1>1. CASE Refused(f, rows)
    BY <1>1 DEF ApplyFile
<1>2. CASE ~Refused(f, rows)
    <2>1. Applies(r, f, pick)
        BY <1>2 DEF ApplyFile, Applies
    <2> QED
        BY <2>1 DEF FileWrites
<1> QED
    BY <1>1, <1>2

\* The steps that write applications.
LEMMA AppWrites ==
    ASSUME [Next]_vars
    PROVE  \/ UNCHANGED app \/ FileWrites
           \/ PostApplication \/ PatchApplication \/ RemoveApplication
<1>1. CASE EnvironmentEndpoints
    BY <1>1 DEF EnvironmentEndpoints, PostEnvironment, PatchEnvironment, RemoveEnvironment,
         CreateEnvironment, UpdateEnvironment, DeleteEnvironment
<1>2. CASE ComponentEndpoints
    BY <1>2 DEF ComponentEndpoints, PostComponent, PatchComponent, RemoveComponent,
         CreateComponent, UpdateComponent, DeleteComponent
<1>3. CASE SourceEndpoints
    BY <1>3 DEF SourceEndpoints, PostSource, PatchSource, RemoveSource,
         CreateSource, UpdateSource, DeleteSource, WriteSource, tables
<1>4. CASE FileApplies
    BY <1>4, ApplyWrites DEF FileApplies, FileApplier, Read, ApplyRead, ApplyError, Restart, Mount, Merge, tables
<1>5. CASE Pages \/ UNCHANGED vars
    BY <1>5 DEF Pages, StartPaging, NextPage, vars, tables
<1> QED
    BY <1>1, <1>2, <1>3, <1>4, <1>5 DEF Next, ApplicationEndpoints

\* The steps that write sources.
LEMMA SrcWrites ==
    ASSUME [Next]_vars
    PROVE  \/ UNCHANGED src \/ FileWrites
           \/ (\E p \in Callers : WriteSource(p)) \/ RemoveSource
<1>1. CASE EnvironmentEndpoints
    BY <1>1 DEF EnvironmentEndpoints, PostEnvironment, PatchEnvironment, RemoveEnvironment,
         CreateEnvironment, UpdateEnvironment, DeleteEnvironment
<1>2. CASE ComponentEndpoints
    BY <1>2 DEF ComponentEndpoints, PostComponent, PatchComponent, RemoveComponent,
         CreateComponent, UpdateComponent, DeleteComponent
<1>3. CASE ApplicationEndpoints
    BY <1>3 DEF ApplicationEndpoints, PostApplication, PatchApplication, RemoveApplication,
         CreateApplication, UpdateApplication, DeleteApplication
<1>4. CASE FileApplies
    BY <1>4, ApplyWrites DEF FileApplies, FileApplier, Read, ApplyRead, ApplyError, Restart, Mount, Merge, tables
<1>5. CASE Pages \/ UNCHANGED vars
    BY <1>5 DEF Pages, StartPaging, NextPage, vars, tables
<1>6. CASE PostSource \/ PatchSource
    BY <1>6 DEF PostSource, PatchSource, CreateSource, UpdateSource, tables
<1> QED
    BY <1>1, <1>2, <1>3, <1>4, <1>5, <1>6 DEF Next, SourceEndpoints

\* The steps that claim names.
LEMMA ClaimWrites ==
    ASSUME [Next]_vars
    PROVE  UNCHANGED claim \/ PostSource \/ PatchSource \/ \E p \in Callers : WriteSource(p)
<1>1. CASE EnvironmentEndpoints
    BY <1>1 DEF EnvironmentEndpoints, PostEnvironment, PatchEnvironment, RemoveEnvironment,
         CreateEnvironment, UpdateEnvironment, DeleteEnvironment
<1>2. CASE ComponentEndpoints
    BY <1>2 DEF ComponentEndpoints, PostComponent, PatchComponent, RemoveComponent,
         CreateComponent, UpdateComponent, DeleteComponent
<1>3. CASE ApplicationEndpoints
    BY <1>3 DEF ApplicationEndpoints, PostApplication, PatchApplication, RemoveApplication,
         CreateApplication, UpdateApplication, DeleteApplication
<1>4. CASE FileApplies
    BY <1>4 DEF FileApplies, FileApplier, Read, ApplyRead, ApplyFile, ApplyError, Restart, Mount, Merge
<1>5. CASE Pages \/ UNCHANGED vars
    BY <1>5 DEF Pages, StartPaging, NextPage, vars
<1>6. CASE RemoveSource
    BY <1>6 DEF RemoveSource, DeleteSource
<1> QED
    BY <1>1, <1>2, <1>3, <1>4, <1>5, <1>6 DEF Next, SourceEndpoints

\* The steps that write components and the client that pages.
LEMMA CompWrites ==
    ASSUME [Next]_vars
    PROVE  UNCHANGED <<comp, pager>> \/ FileWrites \/ ComponentEndpoints \/ Pages
<1>1. CASE EnvironmentEndpoints
    BY <1>1 DEF EnvironmentEndpoints, PostEnvironment, PatchEnvironment, RemoveEnvironment,
         CreateEnvironment, UpdateEnvironment, DeleteEnvironment
<1>2. CASE ApplicationEndpoints
    BY <1>2 DEF ApplicationEndpoints, PostApplication, PatchApplication, RemoveApplication,
         CreateApplication, UpdateApplication, DeleteApplication
<1>3. CASE SourceEndpoints
    BY <1>3 DEF SourceEndpoints, PostSource, PatchSource, RemoveSource,
         CreateSource, UpdateSource, DeleteSource, WriteSource, tables
<1>4. CASE FileApplies
    BY <1>4, ApplyWrites DEF FileApplies, FileApplier, Read, ApplyRead, ApplyError, Restart, Mount, Merge, tables
<1>5. CASE UNCHANGED vars
    BY <1>5 DEF vars
<1> QED
    BY <1>1, <1>2, <1>3, <1>4, <1>5 DEF Next

\* The steps that write the environment.
LEMMA EnvWrites ==
    ASSUME [Next]_vars
    PROVE  UNCHANGED env \/ FileWrites \/ EnvironmentEndpoints
<1>1. CASE ApplicationEndpoints
    BY <1>1 DEF ApplicationEndpoints, PostApplication, PatchApplication, RemoveApplication,
         CreateApplication, UpdateApplication, DeleteApplication
<1>2. CASE ComponentEndpoints
    BY <1>2 DEF ComponentEndpoints, PostComponent, PatchComponent, RemoveComponent,
         CreateComponent, UpdateComponent, DeleteComponent
<1>3. CASE SourceEndpoints
    BY <1>3 DEF SourceEndpoints, PostSource, PatchSource, RemoveSource,
         CreateSource, UpdateSource, DeleteSource, WriteSource, tables
<1>4. CASE FileApplies
    BY <1>4, ApplyWrites DEF FileApplies, FileApplier, Read, ApplyRead, ApplyError, Restart, Mount, Merge, tables
<1>5. CASE Pages \/ UNCHANGED vars
    BY <1>5 DEF Pages, StartPaging, NextPage, vars, tables
<1> QED
    BY <1>1, <1>2, <1>3, <1>4, <1>5 DEF Next

\* The steps of the file's way to a replica; whoever stops applying it reads none.
LEMMA ReadWrites ==
    ASSUME [Next]_vars
    PROVE  \/ UNCHANGED <<current, mounted, reading>>
           \/ \E r \in Replicas :
                 \/ Read(r) \/ Mount(r)
                 \/ reading' = [reading EXCEPT ![r] = None] /\ UNCHANGED <<current, mounted>>
           \/ \E v \in DOMAIN Files : Merge(v)
<1>1. CASE EnvironmentEndpoints
    BY <1>1 DEF EnvironmentEndpoints, PostEnvironment, PatchEnvironment, RemoveEnvironment,
         CreateEnvironment, UpdateEnvironment, DeleteEnvironment, appliers
<1>2. CASE ComponentEndpoints
    BY <1>2 DEF ComponentEndpoints, PostComponent, PatchComponent, RemoveComponent,
         CreateComponent, UpdateComponent, DeleteComponent, appliers
<1>3. CASE ApplicationEndpoints
    BY <1>3 DEF ApplicationEndpoints, PostApplication, PatchApplication, RemoveApplication,
         CreateApplication, UpdateApplication, DeleteApplication, appliers
<1>4. CASE SourceEndpoints
    BY <1>4 DEF SourceEndpoints, PostSource, PatchSource, RemoveSource,
         CreateSource, UpdateSource, DeleteSource, WriteSource, appliers
<1>5. CASE FileApplies
    BY <1>5 DEF FileApplies, FileApplier, ApplyRead, ApplyFile, ApplyError, Restart
<1>6. CASE Pages \/ UNCHANGED vars
    BY <1>6 DEF Pages, StartPaging, NextPage, vars, appliers
<1> QED
    BY <1>1, <1>2, <1>3, <1>4, <1>5, <1>6 DEF Next

-----------------------------------------------------------------------------
(* Types.                                                                  *)

Claim == [from : Sources \cup {None}, to : Sources, row : Source]

Pager ==
    [pc : {"idle", "paging", "done"}, cursor : Components \cup {None},
     got : SUBSET Components, twice : SUBSET Components, stable : SUBSET Components]

Types ==
    /\ TypeOK
    /\ comp \in [Components -> [mb : Managers] \cup {None}]
    /\ claim \in [Callers -> Claim \cup {None}]
    /\ current \in DOMAIN Files
    /\ mounted \in [Replicas -> DOMAIN Files]
    /\ reading \in [Replicas -> DOMAIN Files \cup {None}]
    /\ pager \in Pager

\* The file as the file's checker left it.
LEMMA FileTypes ==
    ASSUME Types, NEW r \in Replicas, NEW f, NEW pick, Applies(r, f, pick)
    PROVE  /\ f \in [AppNames -> FileApplication \cup {None}]
           /\ \A n \in Listed(f) : f[n] \in FileApplication
           /\ \A n \in NewNames(f) : pick[n] \in Apps /\ app[pick[n]] = None
<1>1. reading[r] \in DOMAIN Files /\ f = Files[reading[r]]
    BY DEF Applies, Types
<1>2. f \in [AppNames -> FileApplication \cup {None}]
    BY <1>1, InventoryTypes
<1>3. \A n \in Listed(f) : f[n] \in FileApplication
    BY <1>2 DEF Listed
<1>4. pick \in [NewNames(f) -> {a \in Apps : app[a] = None}]
    BY DEF Applies, NewRows
<1> QED
    BY <1>2, <1>3, <1>4

\* Environments keep their type.
LEMMA EnvTypeKept ==
    ASSUME Types, [Next]_vars
    PROVE  env' \in Environment \cup {None}
<1>1. \A mb \in Managers : NewEnvironment(mb) \in Environment
    BY DEF NewEnvironment, Environment
<1>2. CASE UNCHANGED env \/ FileWrites
    BY <1>1, <1>2 DEF Types, TypeOK, FileWrites, Applies, EnvironmentAfter, Managers
<1>3. CASE CreateEnvironment \/ DeleteEnvironment
    BY <1>1, <1>3 DEF CreateEnvironment, DeleteEnvironment, Managers
<1>4. CASE UpdateEnvironment
    <2>1. env \in Environment
        BY <1>4 DEF UpdateEnvironment, ChangedByApi, Types, TypeOK
    <2>2. \A on \in BOOLEAN : SetEnvironment(env, on) \in Environment
        BY <2>1 DEF SetEnvironment, Environment
    <2>3. (~env.on) \in BOOLEAN
        OBVIOUS
    <2> QED
        BY <1>4, <2>2, <2>3, Zenon DEF UpdateEnvironment
<1> QED
    BY <1>2, <1>3, <1>4, EnvWrites DEF EnvironmentEndpoints, PostEnvironment, PatchEnvironment, RemoveEnvironment

\* Applications keep their type.
LEMMA AppTypeKept ==
    ASSUME Types, [Next]_vars
    PROVE  app' \in [Apps -> Application \cup {None}]
<1>1. \A n \in AppNames, on \in BOOLEAN, mb \in Managers : NewApplication(n, on, mb) \in Application
    BY DEF NewApplication, Application
<1>2. \A row \in Application, n \in AppNames, on \in BOOLEAN : SetApplication(row, n, on) \in Application
    BY DEF SetApplication, Application
<1>3. app \in [Apps -> Application \cup {None}]
    BY DEF Types, TypeOK
<1>4. CASE UNCHANGED app
    BY <1>3, <1>4
<1>5. CASE PostApplication
    BY <1>1, <1>3, <1>5 DEF PostApplication, CreateApplication, Managers
<1>6. CASE PatchApplication
    <2>1. PICK a \in Apps, n \in AppNames, on \in BOOLEAN : UpdateApplication(a, n, on)
        BY <1>6 DEF PatchApplication
    <2>2. app[a] \in Application
        BY <1>3, <2>1 DEF UpdateApplication, ChangedByApi
    <2>3. SetApplication(app[a], n, on) \in Application
        BY <1>2, <2>2
    <2>4. app' = [app EXCEPT ![a] = SetApplication(app[a], n, on)]
        BY <1>3, <2>1 DEF UpdateApplication
    <2> QED
        BY <1>3, <2>3, <2>4
<1>7. CASE RemoveApplication
    BY <1>3, <1>7 DEF RemoveApplication, DeleteApplication
<1>8. CASE FileWrites
    <2>1. PICK r \in Replicas : \E f, pick : Applies(r, f, pick)
        BY <1>8 DEF FileWrites
    <2>2. PICK f, pick : Applies(r, f, pick)
        BY <2>1
    <2>3. ASSUME NEW a \in Apps PROVE ApplicationsAfter(f, pick)[a] \in Application \cup {None}
        <3>1. CASE \E n \in NewNames(f) : pick[n] = a
            <4> DEFINE n == CHOOSE n \in NewNames(f) : pick[n] = a
            <4>1. n \in NewNames(f) /\ n \in Listed(f) /\ n \in AppNames
                BY <3>1 DEF NewNames, Listed
            <4>2. f[n].on \in BOOLEAN
                BY <4>1, <2>2, FileTypes DEF FileApplication
            <4>3. NewApplication(n, f[n].on, "config") \in Application
                BY <1>1, <4>1, <4>2 DEF Managers
            <4>4. ApplicationsAfter(f, pick)[a] = NewApplication(n, f[n].on, "config")
                BY <3>1 DEF ApplicationsAfter
            <4> QED
                BY <4>3, <4>4
        <3>2. CASE ~\E n \in NewNames(f) : pick[n] = a
            <4>1. CASE app[a] = None \/ app[a].mb # "config"
                BY <1>3, <3>2, <4>1 DEF ApplicationsAfter
            <4>2. CASE ~(app[a] = None \/ app[a].mb # "config")
                <5>1. app[a] \in Application /\ app[a].name \in AppNames
                    BY <1>3, <4>2 DEF Application
                <5>2. PICK on \in BOOLEAN : on = (ListedName(f, a) /\ f[app[a].name].on)
                    OBVIOUS
                <5>3. ApplicationsAfter(f, pick)[a] = SetApplication(app[a], app[a].name, on)
                    BY <3>2, <4>2, <5>2, Zenon DEF ApplicationsAfter
                <5> QED
                    BY <1>2, <5>1, <5>3
            <4> QED
                BY <4>1, <4>2
        <3> QED
            BY <3>1, <3>2
    <2>4. app' = ApplicationsAfter(f, pick)
        BY <2>2 DEF Applies
    <2>5. ApplicationsAfter(f, pick) = [a \in Apps |-> ApplicationsAfter(f, pick)[a]]
        BY DEF ApplicationsAfter
    <2> QED
        BY <2>3, <2>4, <2>5
<1> QED
    BY <1>4, <1>5, <1>6, <1>7, <1>8, AppWrites

-----------------------------------------------------------------------------
(* The order of a listing.                                                 *)

\* Every set of numbers has a least one.
LEMMA LeastNumber ==
    ASSUME NEW S, S \subseteq Nat, S # {}
    PROVE  \E m \in S : \A n \in S : m <= n
<1>1. IsWellFoundedOn(OpToRel(<, Nat), Nat)
    BY NatLessThanWellFounded
<1>2. PICK m \in S : \A n \in S : <<n, m>> \notin OpToRel(<, Nat)
    BY <1>1, WFMin
<1>3. \A n \in S : ~(n < m)
    BY <1>2 DEF OpToRel
<1> QED
    BY <1>3

\* The items of a listing are finitely many.
LEMMA ComponentsFinite == IsFiniteSet(Components)
<1>1. IsFiniteSet(Apps)
    BY FS_Interval, InventoryAssumptions DEF Apps
<1> QED
    BY <1>1, FS_Product, InventoryAssumptions DEF Components

\* Before is a strict total order of the components.
LEMMA BeforeOrders ==
    /\ \A c \in Components : c = <<c[1], c[2]>> /\ c[1] \in Nat /\ c[2] \in Nat
    /\ \A c \in Components : ~Before(c, c)
    /\ \A c, d \in Components : c = d \/ Before(c, d) \/ Before(d, c)
    /\ \A c, d \in Components : ~(Before(c, d) /\ Before(d, c))
    /\ \A c, d, e \in Components : Before(c, d) /\ Before(d, e) => Before(c, e)
<1>1. \A c \in Components : c = <<c[1], c[2]>> /\ c[1] \in Nat /\ c[2] \in Nat
    <2>1. Apps \subseteq Nat /\ CompNames \subseteq Nat
        BY InventoryAssumptions DEF Apps
    <2> SUFFICES ASSUME NEW c \in Components PROVE c = <<c[1], c[2]>> /\ c[1] \in Nat /\ c[2] \in Nat
        OBVIOUS
    <2>2. PICK a \in Apps, n \in CompNames : c = <<a, n>>
        BY DEF Components
    <2> QED
        BY <2>1, <2>2
<1> QED
    BY <1>1 DEF Before

Preceding(S, c) == {d \in S : Before(d, c)}

\* What comes before an item is among the items, and grows along the order.
LEMMA PrecedingGrows ==
    ASSUME NEW S \in SUBSET Components
    PROVE  /\ \A c \in Components : IsFiniteSet(Preceding(S, c)) /\ Cardinality(Preceding(S, c)) \in Nat
           /\ \A c, e \in Components :
                 c \in S /\ Before(c, e) => Cardinality(Preceding(S, c)) < Cardinality(Preceding(S, e))
<1>1. ASSUME NEW c \in Components
      PROVE  IsFiniteSet(Preceding(S, c)) /\ Cardinality(Preceding(S, c)) \in Nat
    <2>1. Preceding(S, c) \in SUBSET Components
        BY DEF Preceding
    <2>2. IsFiniteSet(Preceding(S, c))
        BY <2>1, ComponentsFinite, FS_Subset
    <2> QED
        BY <2>2, FS_CardinalityType
<1>2. ASSUME NEW c \in S, NEW e \in Components, Before(c, e)
      PROVE  Cardinality(Preceding(S, c)) < Cardinality(Preceding(S, e))
    <2>1. /\ Preceding(S, c) \in SUBSET Preceding(S, e)
          /\ c \in Preceding(S, e) /\ c \notin Preceding(S, c)
        BY <1>2, BeforeOrders DEF Preceding
    <2>2. /\ IsFiniteSet(Preceding(S, e)) /\ Cardinality(Preceding(S, e)) \in Nat
          /\ Cardinality(Preceding(S, c)) \in Nat
        BY <1>1
    <2>3. Cardinality(Preceding(S, c)) <= Cardinality(Preceding(S, e))
        BY <2>1, <2>2, FS_Subset
    <2>4. Cardinality(Preceding(S, c)) # Cardinality(Preceding(S, e))
        BY <2>1, <2>2, FS_Subset
    <2> QED
        BY <2>2, <2>3, <2>4
<1> QED
    BY <1>1, <1>2

\* A set of components that is not empty has a first and a last.
LEMMA FirstAndLast ==
    ASSUME NEW S \in SUBSET Components, S # {}
    PROVE  /\ \E m \in S : \A d \in S : d = m \/ Before(m, d)
           /\ \E m \in S : \A d \in S : d = m \/ Before(d, m)
<1>1. \A c \in S : Cardinality(Preceding(S, c)) \in Nat
    BY PrecedingGrows
<1>2. \E m \in S : \A d \in S : d = m \/ Before(m, d)
    <2> DEFINE N == {Cardinality(Preceding(S, c)) : c \in S}
    <2>1. N \subseteq Nat /\ N # {}
        BY <1>1
    <2>2. PICK x \in N : \A n \in N : x <= n
        BY <2>1, LeastNumber
    <2>3. PICK m \in S : x = Cardinality(Preceding(S, m))
        BY <2>2
    <2>4. ASSUME NEW d \in S, Before(d, m) PROVE FALSE
        <3>1. Cardinality(Preceding(S, d)) < Cardinality(Preceding(S, m))
            BY <2>4, PrecedingGrows
        <3>2. Cardinality(Preceding(S, m)) <= Cardinality(Preceding(S, d))
            BY <2>2, <2>3
        <3> QED
            BY <1>1, <3>1, <3>2
    <2> QED
        BY <2>4, BeforeOrders
<1>3. \E m \in S : \A d \in S : d = m \/ Before(d, m)
    <2>0. IsFiniteSet(S) /\ Cardinality(S) \in Nat
        BY ComponentsFinite, FS_Subset, FS_CardinalityType
    <2>1. \A c \in S : Cardinality(Preceding(S, c)) <= Cardinality(S)
        BY <2>0, FS_Subset DEF Preceding
    <2> DEFINE N == {Cardinality(S) - Cardinality(Preceding(S, c)) : c \in S}
    <2>2. N \subseteq Nat /\ N # {}
        BY <1>1, <2>0, <2>1
    <2>3. PICK x \in N : \A n \in N : x <= n
        BY <2>2, LeastNumber
    <2>4. PICK m \in S : x = Cardinality(S) - Cardinality(Preceding(S, m))
        BY <2>3
    <2>5. ASSUME NEW d \in S, Before(m, d) PROVE FALSE
        <3>1. Cardinality(Preceding(S, m)) < Cardinality(Preceding(S, d))
            BY <2>5, PrecedingGrows
        <3>2. Cardinality(S) - Cardinality(Preceding(S, m)) <= Cardinality(S) - Cardinality(Preceding(S, d))
            BY <2>3, <2>4
        <3> QED
            BY <1>1, <2>0, <3>1, <3>2
    <2> QED
        BY <2>5, BeforeOrders
<1> QED
    BY <1>2, <1>3

-----------------------------------------------------------------------------
(* What a page holds.                                                      *)

Rest == {c \in Components : comp[c] # None /\ After(c)}

\* ListComponents: the first rows after the cursor; with more rows than the page
\* holds the page is not empty and ends with its cursor, else it is all there is.
\* Either way no row between two of the page is missing.
LEMMA PageIsPrefix ==
    /\ Page(ListComponents) \subseteq Rest /\ Rest \subseteq Components
    /\ \A c \in Rest, m \in Page(ListComponents) : Before(c, m) => c \in Page(ListComponents)
    /\ Cardinality(ListComponents) > PageLimit =>
          /\ Cursor(ListComponents) \in Page(ListComponents)
          /\ \A d \in Page(ListComponents) : d = Cursor(ListComponents) \/ Before(d, Cursor(ListComponents))
    /\ ~(Cardinality(ListComponents) > PageLimit) => Page(ListComponents) = Rest
<1> DEFINE rows == ListComponents
<1>1. rows = {c \in Rest : Cardinality(Preceding(Rest, c)) < PageLimit + 1}
    BY DEF ListComponents, Rest, Preceding
<1>2. Page(rows) = {c \in rows : Cardinality(Preceding(rows, c)) < PageLimit}
    BY DEF Page, Preceding
<1>3. Rest \in SUBSET Components /\ rows \in SUBSET Components /\ rows \subseteq Rest
    BY <1>1 DEF Rest
<1> HIDE DEF rows
<1>4. PageLimit \in Nat \ {0}
    BY InventoryAssumptions
<1>5. \A c \in Components : /\ Cardinality(Preceding(Rest, c)) \in Nat
                            /\ Cardinality(Preceding(rows, c)) \in Nat
    BY <1>3, PrecedingGrows
<1>6. ASSUME NEW c \in Rest, NEW m \in Page(rows), Before(c, m) PROVE c \in Page(rows)
    <2>1. m \in rows /\ Cardinality(Preceding(Rest, m)) < PageLimit + 1 /\ Cardinality(Preceding(rows, m)) < PageLimit
        BY <1>1, <1>2
    <2>2. Cardinality(Preceding(Rest, c)) < Cardinality(Preceding(Rest, m))
        BY <1>3, <1>6, <2>1, PrecedingGrows
    <2>3. c \in rows
        BY <1>1, <1>3, <1>4, <1>5, <2>1, <2>2
    <2>4. Cardinality(Preceding(rows, c)) < Cardinality(Preceding(rows, m))
        BY <1>3, <1>6, <2>1, <2>3, PrecedingGrows
    <2> QED
        BY <1>2, <1>3, <1>4, <1>5, <2>1, <2>3, <2>4
<1>7. IsFiniteSet(rows) /\ Cardinality(rows) \in Nat
    BY <1>3, ComponentsFinite, FS_Subset, FS_CardinalityType
<1>8. ASSUME Cardinality(rows) > PageLimit
      PROVE  /\ Cursor(rows) \in Page(rows)
             /\ \A d \in Page(rows) : d = Cursor(rows) \/ Before(d, Cursor(rows))
    <2>1. rows # {}
        BY <1>4, <1>7, <1>8, FS_EmptySet
    <2>2. PICK m \in rows : \A d \in rows : d = m \/ Before(m, d)
        BY <1>3, <2>1, FirstAndLast
    <2>3. Preceding(rows, m) = {}
        BY <1>3, <2>2, BeforeOrders DEF Preceding
    <2>4. m \in Page(rows)
        BY <1>2, <1>4, <2>3, FS_EmptySet
    <2>5. Page(rows) \in SUBSET Components /\ Page(rows) # {}
        BY <1>2, <1>3, <2>4
    <2>6. \E c \in Page(rows) : \A d \in Page(rows) : d = c \/ Before(d, c)
        BY <2>5, FirstAndLast
    <2> QED
        BY <2>6 DEF Cursor
<1>9. ASSUME ~(Cardinality(rows) > PageLimit) PROVE Page(rows) = Rest
    <2>1. Rest \subseteq rows
        <3> SUFFICES ASSUME Rest \ rows # {} PROVE FALSE
            OBVIOUS
        <3>1. PICK m \in Rest \ rows : \A d \in Rest \ rows : d = m \/ Before(m, d)
            BY <1>3, FirstAndLast
        <3>2. Preceding(Rest, m) \subseteq rows
            BY <1>3, <3>1, BeforeOrders DEF Preceding
        <3>3. Cardinality(Preceding(Rest, m)) <= Cardinality(rows)
            BY <1>7, <3>2, FS_Subset
        <3>4. ~(Cardinality(Preceding(Rest, m)) < PageLimit + 1)
            BY <1>1, <3>1
        <3> QED
            BY <1>3, <1>4, <1>5, <1>7, <1>9, <3>1, <3>3, <3>4
    <2>2. ASSUME NEW c \in rows PROVE Cardinality(Preceding(rows, c)) < PageLimit
        <3>1. Preceding(rows, c) \in SUBSET (rows \ {c})
            BY <1>3, BeforeOrders DEF Preceding
        <3>2. IsFiniteSet(rows \ {c}) /\ Cardinality(rows \ {c}) = Cardinality(rows) - 1
            BY <1>7, FS_RemoveElement
        <3>3. Cardinality(Preceding(rows, c)) <= Cardinality(rows \ {c})
            BY <3>1, <3>2, FS_Subset
        <3>4. Cardinality(Preceding(rows, c)) \in Nat
            BY <1>3, <1>5
        <3> QED
            BY <1>4, <1>7, <1>9, <3>2, <3>3, <3>4
    <2> QED
        BY <1>2, <1>3, <2>1, <2>2
<1> QED
    BY <1>2, <1>3, <1>6, <1>8, <1>9 DEF rows

-----------------------------------------------------------------------------
(* Types, continued.                                                       *)

\* What is written into a row of a source.
LEMMA SourceRows ==
    /\ \A on \in BOOLEAN, mb \in Managers : NewSource(on, mb) \in Source /\ NewSource(on, mb).on = on
    /\ \A row \in Source, on \in BOOLEAN : SetSource(row, on) \in Source /\ SetSource(row, on).on = on
BY DEF NewSource, SetSource, Source

\* A step of the file gives every source a status, or leaves it.
LEMMA FileSourceRow ==
    ASSUME Types, NEW r \in Replicas, NEW f, NEW pick, Applies(r, f, pick), NEW s \in Sources,
           NEW rows, rows = ApplicationsAfter(f, pick)
    PROVE  /\ FileSource(f, rows, s) =>
                 src'[s] \in Source /\ (src'[s].on => f[rows[s[1]].name].srcs[<<s[2], s[3]>>])
           /\ ~FileSource(f, rows, s) =>
                 src'[s] = IF src[s] # None /\ src[s].mb = "config" THEN SetSource(src[s], FALSE) ELSE src[s]
<1>1. src' = SourcesAfter(f, rows, DisableDropped(f, rows))
    BY DEF Applies
<1>2. src'[s] = IF FileSource(f, rows, s)
                THEN NewSource(f[rows[s[1]].name].srcs[<<s[2], s[3]>>], "config")
                ELSE DisableDropped(f, rows)[s]
    BY <1>1 DEF SourcesAfter
<1>3. ASSUME FileSource(f, rows, s)
      PROVE  src'[s] \in Source /\ (src'[s].on => f[rows[s[1]].name].srcs[<<s[2], s[3]>>])
    <2>1. PICK fa : fa = f[rows[s[1]].name] /\ fa \in FileApplication /\ <<s[2], s[3]>> \in DOMAIN fa.srcs
        BY <1>3, FileTypes DEF FileSource
    <2>2. PICK K \in SUBSET (Modes \X SourceNames) : fa.srcs \in [K -> BOOLEAN]
        BY <2>1 DEF FileApplication
    <2>3. fa.srcs[<<s[2], s[3]>>] \in BOOLEAN
        BY <2>1, <2>2
    <2>4. src'[s] = NewSource(fa.srcs[<<s[2], s[3]>>], "config")
        BY <1>2, <1>3, <2>1, Zenon
    <2>5. \A on \in BOOLEAN : NewSource(on, "config") \in Source /\ NewSource(on, "config").on = on
        BY SourceRows DEF Managers
    <2>6. src'[s] \in Source /\ src'[s].on = fa.srcs[<<s[2], s[3]>>]
        BY <2>3, <2>4, <2>5, Zenon
    <2> QED
        BY <2>1, <2>6, Zenon
<1>4. ~FileSource(f, rows, s) =>
         DisableDropped(f, rows)[s] = IF src[s] # None /\ src[s].mb = "config" THEN SetSource(src[s], FALSE) ELSE src[s]
    BY DEF DisableDropped
<1> QED
    BY <1>2, <1>3, <1>4

\* Sources keep their type.
LEMMA SrcTypeKept ==
    ASSUME Types, [Next]_vars
    PROVE  src' \in [Sources -> Source \cup {None}]
<1>1. src \in [Sources -> Source \cup {None}]
    BY DEF Types, TypeOK
<1>2. CASE UNCHANGED src
    BY <1>1, <1>2
<1>3. CASE \E p \in Callers : WriteSource(p)
    <2>1. PICK p \in Callers : WriteSource(p)
        BY <1>3
    <2>2. claim[p].row \in Source
        BY <2>1 DEF WriteSource, Types, Claim
    <2> QED
        BY <1>1, <2>1, <2>2 DEF WriteSource
<1>4. CASE RemoveSource
    BY <1>1, <1>4 DEF RemoveSource, DeleteSource
<1>5. CASE FileWrites
    <2>1. PICK r \in Replicas : \E f, pick : Applies(r, f, pick)
        BY <1>5 DEF FileWrites
    <2>2. PICK f, pick : Applies(r, f, pick)
        BY <2>1
    <2>0. PICK rows : rows = ApplicationsAfter(f, pick)
        OBVIOUS
    <2>3. ASSUME NEW s \in Sources PROVE src'[s] \in Source \cup {None}
        <3>1. CASE FileSource(f, rows, s)
            BY <2>0, <2>2, <3>1, FileSourceRow
        <3>2. CASE ~FileSource(f, rows, s)
            <4>1. src'[s] = IF src[s] # None /\ src[s].mb = "config" THEN SetSource(src[s], FALSE) ELSE src[s]
                BY <2>0, <2>2, <3>2, FileSourceRow
            <4>2. src[s] # None => SetSource(src[s], FALSE) \in Source
                BY <1>1, SourceRows
            <4> QED
                BY <1>1, <4>1, <4>2
        <3> QED
            BY <3>1, <3>2
    <2>4. src' = [s \in Sources |-> src'[s]]
        BY <2>2 DEF Applies, SourcesAfter
    <2> QED
        BY <2>3, <2>4
<1> QED
    BY <1>2, <1>3, <1>4, <1>5, SrcWrites

\* Claims keep their type.
LEMMA ClaimTypeKept ==
    ASSUME Types, [Next]_vars
    PROVE  claim' \in [Callers -> Claim \cup {None}]
<1>1. claim \in [Callers -> Claim \cup {None}]
    BY DEF Types
<1>2. CASE UNCHANGED claim \/ \E p \in Callers : WriteSource(p)
    BY <1>1, <1>2 DEF WriteSource
<1>3. CASE PostSource
    <2>1. PICK p \in Callers, s \in Sources, on \in BOOLEAN : CreateSource(p, s, on)
        BY <1>3 DEF PostSource
    <2>2. [from |-> None, to |-> s, row |-> NewSource(on, "api")] \in Claim
        BY SourceRows DEF Claim, Managers
    <2> QED
        BY <1>1, <2>1, <2>2 DEF CreateSource
<1>4. CASE PatchSource
    <2>1. PICK p \in Callers, s \in Sources, m \in Modes, n \in SourceNames, on \in BOOLEAN :
            UpdateSource(p, s, m, n, on)
        BY <1>4 DEF PatchSource
    <2>2. src[s] \in Source
        BY <2>1 DEF UpdateSource, ChangedByApi, Types, TypeOK
    <2>3. SetSource(src[s], on) \in Source
        BY <2>2, SourceRows
    <2>4. <<s[1], m, n>> \in Sources
        BY DEF Sources
    <2>5. [from |-> s, to |-> <<s[1], m, n>>, row |-> SetSource(src[s], on)] \in Claim
        BY <2>3, <2>4 DEF Claim
    <2> QED
        BY <1>1, <2>1, <2>5 DEF UpdateSource
<1> QED
    BY <1>2, <1>3, <1>4, ClaimWrites

\* Components and the client that pages keep their types.
LEMMA CompTypeKept ==
    ASSUME Types, [Next]_vars
    PROVE  comp' \in [Components -> [mb : Managers] \cup {None}] /\ pager' \in Pager
<1>1. comp \in [Components -> [mb : Managers] \cup {None}] /\ pager \in Pager
    BY DEF Types
<1>2. \A mb \in Managers : NewComponent(mb) \in [mb : Managers]
    BY DEF NewComponent
<1>3. CASE UNCHANGED <<comp, pager>>
    BY <1>1, <1>3
<1>4. CASE FileWrites
    BY <1>1, <1>2, <1>4 DEF FileWrites, Applies, ComponentsAfter, Managers
<1>5. CASE ComponentEndpoints
    <2>1. ASSUME NEW c PROVE Leaves(c) => pager' \in Pager
        BY <1>1 DEF Leaves, Pager
    <2>2. ASSUME NEW c \in Components, CreateComponent(c)
          PROVE  comp' \in [Components -> [mb : Managers] \cup {None}] /\ pager' \in Pager
        BY <1>1, <1>2, <2>2 DEF CreateComponent, Managers
    <2>3. ASSUME NEW c \in Components, NEW n \in CompNames, UpdateComponent(c, n)
          PROVE  comp' \in [Components -> [mb : Managers] \cup {None}] /\ pager' \in Pager
        BY <1>1, <2>1, <2>3 DEF UpdateComponent, SetComponent
    <2>4. ASSUME NEW c \in Components, DeleteComponent(c)
          PROVE  comp' \in [Components -> [mb : Managers] \cup {None}] /\ pager' \in Pager
        BY <1>1, <2>1, <2>4 DEF DeleteComponent
    <2> QED
        BY <1>5, <2>2, <2>3, <2>4 DEF ComponentEndpoints, PostComponent, PatchComponent, RemoveComponent
<1>6. CASE StartPaging
    BY <1>1, <1>6 DEF StartPaging, Pager, tables
<1>7. CASE NextPage
    <2> DEFINE rows == ListComponents
               more == Cardinality(rows) > PageLimit
    <2>1. Page(rows) \in SUBSET Components /\ (more => Cursor(rows) \in Components)
        BY PageIsPrefix
    <2>2. pager' = [pager EXCEPT !.pc = IF more THEN "paging" ELSE "done",
                                 !.cursor = IF more THEN Cursor(rows) ELSE None,
                                 !.got = pager.got \cup Page(rows), !.twice = pager.twice \cup (pager.got \cap Page(rows))]
        BY <1>1, <1>7 DEF NextPage, Pager
    <2> HIDE DEF rows, more
    <2>3. pager' \in Pager
        BY <1>1, <2>1, <2>2 DEF Pager
    <2> QED
        BY <1>1, <1>7, <2>3 DEF NextPage, tables
<1> QED
    BY <1>3, <1>4, <1>5, <1>6, <1>7, CompWrites DEF Pages

\* Revisions are those of the file.
LEMMA ReadTypeKept ==
    ASSUME Types, [Next]_vars
    PROVE  /\ current' \in DOMAIN Files /\ mounted' \in [Replicas -> DOMAIN Files]
           /\ reading' \in [Replicas -> DOMAIN Files \cup {None}]
BY ReadWrites DEF Types, Read, Mount, Merge, appliers

\* Every step keeps the types.
LEMMA TypesKept == Types /\ [Next]_vars => Types'
<1> SUFFICES ASSUME Types, [Next]_vars PROVE Types'
    OBVIOUS
<1>1. pager'.got \subseteq Components
    BY CompTypeKept DEF Pager
<1> QED
    BY <1>1, EnvTypeKept, AppTypeKept, SrcTypeKept, ClaimTypeKept, CompTypeKept, ReadTypeKept DEF Types, TypeOK

\* The rows, claims, revisions and the client that pages have their types, for
\* any instance (the statements of inventory's store, ApplyFile and page.go).
THEOREM InventoryTypeCorrect == Spec => []Types
<1>1. Init => Types
    BY DEF Init, Types, TypeOK, Pager
<1> QED
    BY <1>1, TypesKept, PTL DEF Spec

-----------------------------------------------------------------------------
(* One owner per name.                                                     *)

\* The unique key of the applications' names.
NamesUnique ==
    \A a, b \in Apps : app[a] # None /\ app[b] # None /\ app[a].name = app[b].name => a = b

\* What a claim found holds until it is written: no other caller has a claim, and
\* no source but the one it replaces has the name in another application.
ClaimsFree ==
    \A p \in Callers : claim[p] # None =>
        /\ \A q \in Callers : claim[q] # None => q = p
        /\ claim[p].from # None => claim[p].from[1] = claim[p].to[1]
        /\ \A o \in Sources :
              src[o] # None /\ o[3] = claim[p].to[3] /\ o # claim[p].from => o[1] = claim[p].to[1]

\* A revision that is being applied passed the file's checker.
ReadingParsed == \A r \in Replicas : reading[r] # None => ParseFile(Files[reading[r]])

OwnerInv == NamesUnique /\ ClaimsFree /\ ReadingParsed /\ NameHasOneOwner

\* The names of the file's new rows are new, and each has one row.
LEMMA NamesOfRows ==
    ASSUME Types, NamesUnique, NEW r \in Replicas, NEW f, NEW pick, Applies(r, f, pick),
           NEW a \in Apps, NEW b \in Apps, NEW rows, rows = ApplicationsAfter(f, pick),
           rows[a] # None, rows[b] # None, rows[a].name = rows[b].name
    PROVE  a = b
<1>1. \A n \in NewNames(f) : ApplicationNamed(n) = {}
    BY DEF NewNames
<1>2. \A m, n \in NewNames(f) : pick[m] = pick[n] => m = n
    BY DEF Applies, NewRows
<1>3. ASSUME NEW x \in Apps, rows[x] # None
      PROVE  \/ \E n \in NewNames(f) : pick[n] = x /\ rows[x].name = n
             \/ app[x] # None /\ rows[x].name = app[x].name
    <2>1. CASE \E n \in NewNames(f) : pick[n] = x
        <3> DEFINE n == CHOOSE n \in NewNames(f) : pick[n] = x
        <3>1. n \in NewNames(f) /\ pick[n] = x
            BY <2>1
        <3>2. rows[x] = NewApplication(n, f[n].on, "config")
            BY <2>1 DEF ApplicationsAfter
        <3>3. rows[x].name = n
            BY <3>2 DEF NewApplication
        <3> QED
            BY <3>1, <3>3
    <2>2. CASE ~\E n \in NewNames(f) : pick[n] = x
        <3>1. CASE app[x] = None \/ app[x].mb # "config"
            <4>1. rows[x] = app[x]
                BY <2>2, <3>1 DEF ApplicationsAfter
            <4> QED
                BY <1>3, <4>1
        <3>2. CASE ~(app[x] = None \/ app[x].mb # "config")
            <4>1. PICK on : rows[x] = SetApplication(app[x], app[x].name, on)
                BY <2>2, <3>2, Zenon DEF ApplicationsAfter
            <4>2. app[x] \in Application
                BY <3>2 DEF Types, TypeOK
            <4> QED
                BY <3>2, <4>1, <4>2 DEF SetApplication, Application
        <3> QED
            BY <3>1, <3>2
    <2> QED
        BY <2>1, <2>2
<1>4. \A x \in Apps, n \in NewNames(f) : ~(app[x] # None /\ app[x].name = n)
    BY <1>1 DEF ApplicationNamed
<1> QED
    BY <1>2, <1>3, <1>4 DEF NamesUnique

\* Names of applications stay unique.
LEMMA NamesKept ==
    ASSUME Types, NamesUnique, [Next]_vars
    PROVE  NamesUnique'
<1>0. app \in [Apps -> Application \cup {None}]
    BY DEF Types, TypeOK
<1>1. CASE UNCHANGED app
    BY <1>1 DEF NamesUnique
<1>2. CASE PostApplication
    <2>1. PICK a \in Apps, n \in AppNames : CreateApplication(a, n)
        BY <1>2 DEF PostApplication
    <2>2. \A x \in Apps : ~(app[x] # None /\ app[x].name = n)
        BY <2>1 DEF CreateApplication, ApplicationNamed
    <2>3. \A x \in Apps : app'[x] = IF x = a THEN NewApplication(n, TRUE, "api") ELSE app[x]
        BY <1>0, <2>1 DEF CreateApplication
    <2>4. NewApplication(n, TRUE, "api").name = n
        BY DEF NewApplication
    <2> QED
        BY <2>2, <2>3, <2>4 DEF NamesUnique
<1>3. CASE PatchApplication
    <2>1. PICK a \in Apps, n \in AppNames, on \in BOOLEAN : UpdateApplication(a, n, on)
        BY <1>3 DEF PatchApplication
    <2>2. \A x \in Apps : app[x] # None /\ app[x].name = n => x = a
        BY <2>1 DEF UpdateApplication, ApplicationNamed
    <2>3. app[a] \in Application
        BY <1>0, <2>1 DEF UpdateApplication, ChangedByApi
    <2>4. SetApplication(app[a], n, on).name = n
        BY <2>3 DEF SetApplication, Application
    <2>5. \A x \in Apps : app'[x] = IF x = a THEN SetApplication(app[a], n, on) ELSE app[x]
        BY <1>0, <2>1 DEF UpdateApplication
    <2> QED
        BY <2>2, <2>4, <2>5 DEF NamesUnique
<1>4. CASE RemoveApplication
    BY <1>0, <1>4 DEF RemoveApplication, DeleteApplication, NamesUnique
<1>5. CASE FileWrites
    <2>1. PICK r \in Replicas : \E f, pick : Applies(r, f, pick)
        BY <1>5 DEF FileWrites
    <2>2. PICK f, pick : Applies(r, f, pick)
        BY <2>1
    <2>3. PICK rows : rows = ApplicationsAfter(f, pick)
        OBVIOUS
    <2>4. app' = rows
        BY <2>2, <2>3 DEF Applies
    <2> SUFFICES ASSUME NEW a \in Apps, NEW b \in Apps, app'[a] # None, app'[b] # None, app'[a].name = app'[b].name
                 PROVE  a = b
        BY DEF NamesUnique
    <2> QED
        BY <2>2, <2>3, <2>4, NamesOfRows
<1> QED
    BY <1>1, <1>2, <1>3, <1>4, <1>5, AppWrites

\* The file gives no name a second owner: within the file its checker saw to it,
\* and a source beside it refuses the file.
LEMMA FileKeepsOwners ==
    ASSUME Types, OwnerInv, FileWrites
    PROVE  NameHasOneOwner'
<1>1. PICK r \in Replicas : \E f, pick : Applies(r, f, pick)
    BY DEF FileWrites
<1>2. PICK f, pick : Applies(r, f, pick)
    BY <1>1
<1>3. PICK rows : rows = ApplicationsAfter(f, pick)
    OBVIOUS
<1>4. ParseFile(f)
    BY <1>2 DEF Applies, OwnerInv, ReadingParsed
<1>5. ASSUME NEW s \in Sources, NEW o \in Sources, src'[s] # None, src'[o] # None, src'[s].on, src'[o].on,
             s[3] = o[3], FileSource(f, rows, s)
      PROVE  s[1] = o[1]
    <2>1. s[1] \in Apps /\ o[1] \in Apps
        BY DEF Sources
    <2>2. CASE FileSource(f, rows, o)
        <3>1. /\ rows[s[1]] # None /\ rows[s[1]].name \in Listed(f)
              /\ <<s[2], s[3]>> \in DOMAIN f[rows[s[1]].name].srcs
              /\ rows[o[1]] # None /\ rows[o[1]].name \in Listed(f)
              /\ <<o[2], o[3]>> \in DOMAIN f[rows[o[1]].name].srcs
            BY <1>5, <2>2 DEF FileSource
        <3>2. /\ s[3] \in {k[2] : k \in DOMAIN f[rows[s[1]].name].srcs}
              /\ s[3] \in {k[2] : k \in DOMAIN f[rows[o[1]].name].srcs}
            BY <1>5, <3>1
        <3>3. rows[s[1]].name = rows[o[1]].name
            BY <1>4, <3>1, <3>2 DEF ParseFile
        <3> QED
            BY <1>2, <1>3, <2>1, <3>1, <3>3, NamesOfRows DEF OwnerInv
    <2>3. CASE ~FileSource(f, rows, o)
        <3>1. f[rows[s[1]].name].srcs[<<s[2], s[3]>>]
            BY <1>2, <1>3, <1>5, FileSourceRow
        <3>2. ~NameTaken(DisableDropped(f, rows), s)
            BY <1>2, <1>3, <1>5, <3>1 DEF Applies, Refused
        <3>3. src'[o] = DisableDropped(f, rows)[o]
            BY <1>2, <1>3, <2>3 DEF Applies, SourcesAfter
        <3> QED
            BY <1>5, <3>2, <3>3 DEF NameTaken
    <2> QED
        BY <2>2, <2>3
<1>6. ASSUME NEW s \in Sources, src'[s] # None, src'[s].on, ~FileSource(f, rows, s)
      PROVE  src[s] # None /\ src[s].on
    <2>1. src'[s] = IF src[s] # None /\ src[s].mb = "config" THEN SetSource(src[s], FALSE) ELSE src[s]
        BY <1>2, <1>3, <1>6, FileSourceRow
    <2>2. CASE src[s] # None /\ src[s].mb = "config"
        <3>1. src[s] \in Source
            BY <2>2 DEF Types, TypeOK
        <3>2. SetSource(src[s], FALSE).on = FALSE
            BY <3>1, SourceRows
        <3> QED
            BY <1>6, <2>1, <2>2, <3>2
    <2> QED
        BY <1>6, <2>1, <2>2
<1> QED
    BY <1>5, <1>6 DEF NameHasOneOwner, OwnerInv

\* Writing a claim gives no name a second owner.
LEMMA WriteKeepsOwners ==
    ASSUME Types, OwnerInv, NEW p \in Callers, WriteSource(p)
    PROVE  NameHasOneOwner'
<1>1. PICK c \in Claim : c = claim[p] /\ c # None
    BY DEF WriteSource, Types
<1>2. CASE app[c.to[1]] = None
    BY <1>1, <1>2 DEF WriteSource, OwnerInv, NameHasOneOwner
<1>3. CASE app[c.to[1]] # None
    <2>1. \A s \in Sources : src'[s] = IF s = c.to THEN c.row ELSE IF s = c.from THEN None ELSE src[s]
        BY <1>1, <1>3 DEF WriteSource
    <2>2. \A o \in Sources : src[o] # None /\ o[3] = c.to[3] /\ o # c.from => o[1] = c.to[1]
        BY <1>1 DEF OwnerInv, ClaimsFree
    <2> QED
        BY <2>1, <2>2 DEF NameHasOneOwner, OwnerInv
<1> QED
    BY <1>2, <1>3

\* Every step gives every name one owner.
LEMMA OwnersKept ==
    ASSUME Types, OwnerInv, [Next]_vars
    PROVE  NameHasOneOwner'
<1>1. CASE UNCHANGED src
    BY <1>1 DEF NameHasOneOwner, OwnerInv
<1>2. CASE RemoveSource
    BY <1>2 DEF RemoveSource, DeleteSource, NameHasOneOwner, OwnerInv, Types, TypeOK
<1> QED
    BY <1>1, <1>2, FileKeepsOwners, WriteKeepsOwners, SrcWrites

\* A claim that is made holds.
LEMMA ClaimMade ==
    ASSUME Types, NEW p \in Callers, NEW c \in Claim,
           LockSourcesOfEnvironment = {}, claim' = [claim EXCEPT ![p] = c], UNCHANGED src,
           c.from # None => c.from[1] = c.to[1],
           \A o \in SourcesNamed(c.to[3]) \ {c.from} : o[1] = c.to[1]
    PROVE  ClaimsFree'
<1>1. \A q \in Callers : claim[q] = None /\ claim'[q] = IF q = p THEN c ELSE claim[q]
    BY DEF LockSourcesOfEnvironment, Types
<1> QED
    BY <1>1 DEF ClaimsFree, SourcesNamed

\* Until a claim is written nobody takes its name: another caller and the file
\* wait for the environment's row.
LEMMA ClaimsKept ==
    ASSUME Types, ClaimsFree, [Next]_vars
    PROVE  ClaimsFree'
<1>1. CASE PostSource
    <2>1. PICK p \in Callers, s \in Sources, on \in BOOLEAN : CreateSource(p, s, on)
        BY <1>1 DEF PostSource
    <2> DEFINE c == [from |-> None, to |-> s, row |-> NewSource(on, "api")]
    <2>2. c \in Claim /\ c.from = None /\ c.to = s
        BY SourceRows DEF Claim, Managers
    <2>3. /\ claim' = [claim EXCEPT ![p] = c] /\ UNCHANGED src /\ LockSourcesOfEnvironment = {}
          /\ \A o \in SourcesNamed(s[3]) \ {None} : o[1] = s[1]
        BY <2>1 DEF CreateSource, ClaimName, tables
    <2> HIDE DEF c
    <2> QED
        BY <2>2, <2>3, ClaimMade
<1>2. CASE PatchSource
    <2>1. PICK p \in Callers, s \in Sources, m \in Modes, n \in SourceNames, on \in BOOLEAN :
            UpdateSource(p, s, m, n, on)
        BY <1>2 DEF PatchSource
    <2>2. PICK next : next = <<s[1], m, n>>
        OBVIOUS
    <2>3. PICK c : c = [from |-> s, to |-> next, row |-> SetSource(src[s], on)]
        OBVIOUS
    <2>4. src[s] \in Source
        BY <2>1 DEF UpdateSource, ChangedByApi, Types, TypeOK
    <2>5. SetSource(src[s], on) \in Source
        BY <2>4, SourceRows
    <2>6. next \in Sources /\ next[1] = s[1]
        BY <2>2 DEF Sources
    <2>7. c \in Claim /\ c.from = s /\ c.to = next
        BY <2>3, <2>5, <2>6 DEF Claim
    <2>8. /\ claim' = [claim EXCEPT ![p] = c] /\ UNCHANGED src /\ LockSourcesOfEnvironment = {}
          /\ \A o \in SourcesNamed(next[3]) \ {s} : o[1] = next[1]
        BY <2>1, <2>2, <2>3 DEF UpdateSource, ClaimName, tables
    <2> QED
        BY <2>6, <2>7, <2>8, ClaimMade
<1>3. CASE \E p \in Callers : WriteSource(p)
    <2>1. PICK p \in Callers : WriteSource(p)
        BY <1>3
    <2>2. \A q \in Callers : claim'[q] = None
        BY <2>1 DEF WriteSource, ClaimsFree, Types
    <2> QED
        BY <2>2 DEF ClaimsFree
<1>4. CASE UNCHANGED claim /\ UNCHANGED src
    BY <1>4 DEF ClaimsFree
<1>5. CASE UNCHANGED claim /\ RemoveSource
    BY <1>5 DEF RemoveSource, DeleteSource, ClaimsFree, Types, TypeOK
<1>6. CASE FileWrites
    <2>1. UNCHANGED claim /\ \A p \in Callers : claim[p] = None
        BY <1>6 DEF FileWrites, Applies, LockEnvironment, LockSourcesOfEnvironment
    <2> QED
        BY <2>1 DEF ClaimsFree
<1> QED
    BY <1>1, <1>2, <1>3, <1>4, <1>5, <1>6, ClaimWrites, SrcWrites

\* A revision is read only if it parses.
LEMMA ReadingKept ==
    ASSUME Types, ReadingParsed, [Next]_vars
    PROVE  ReadingParsed'
<1>1. CASE UNCHANGED reading
    BY <1>1 DEF ReadingParsed, ParseFile, Listed
<1>2. CASE \E r \in Replicas : Read(r) \/ reading' = [reading EXCEPT ![r] = None]
    <2>1. PICK r \in Replicas : Read(r) \/ reading' = [reading EXCEPT ![r] = None]
        BY <1>2
    <2>2. PICK v : v = mounted[r]
        OBVIOUS
    <2>3. CASE reading' = [reading EXCEPT ![r] = v] /\ ParseFile(Files[v])
        BY <2>3 DEF ReadingParsed, ParseFile, Listed, Types
    <2>4. CASE UNCHANGED reading \/ reading' = [reading EXCEPT ![r] = None]
        BY <2>4 DEF ReadingParsed, ParseFile, Listed, Types
    <2> QED
        BY <2>1, <2>2, <2>3, <2>4 DEF Read
<1> QED
    BY <1>1, <1>2, ReadWrites DEF Mount, Merge, appliers

\* The rows, claims and revisions are what the next write relies on, for any
\* instance (claimName, LockSourcesOfEnvironment, ApplyFile and ParseFile).
THEOREM OwnersInvariant == Spec => []OwnerInv
<1>1. Init => OwnerInv
    BY DEF Init, OwnerInv, NamesUnique, ClaimsFree, ReadingParsed, NameHasOneOwner
<1>2. Types /\ OwnerInv /\ [Next]_vars => OwnerInv'
    BY NamesKept, ClaimsKept, ReadingKept, OwnersKept DEF OwnerInv
<1> QED
    BY <1>1, <1>2, InventoryTypeCorrect, PTL DEF Spec

\* However callers and revisions of the file interleave, no two applications have
\* an active source of the same name (claimName of sources.go, and the file's
\* checks of names in file.go and ApplyFile).
THEOREM NamesHaveOneOwner == Spec => []NameHasOneOwner
<1>1. OwnerInv => NameHasOneOwner
    BY DEF OwnerInv
<1> QED
    BY <1>1, OwnersInvariant, PTL

-----------------------------------------------------------------------------
(* Paging.                                                                 *)

\* The client that pages has, of the components that stay, those up to its
\* cursor and no others.
GotUpToCursor ==
    /\ pager.pc = "idle" => pager.stable = {}
    /\ \A c \in pager.stable : comp[c] # None
    /\ pager.pc = "paging" => \A c \in pager.stable : c \in pager.got <=> ~After(c)
    /\ PagingComplete

\* A page goes on where the page before ended.
LEMMA NextPageKeeps ==
    ASSUME Types, GotUpToCursor, NextPage
    PROVE  GotUpToCursor'
<1> DEFINE rows == ListComponents
           more == Cardinality(rows) > PageLimit
<1>1. /\ pager \in Pager /\ pager.pc = "paging" /\ UNCHANGED comp
      /\ pager'.pc = IF more THEN "paging" ELSE "done"
      /\ pager'.cursor = IF more THEN Cursor(rows) ELSE None
      /\ pager'.got = pager.got \cup Page(rows)
      /\ pager'.twice = pager.twice \cup (pager.got \cap Page(rows))
      /\ pager'.stable = pager.stable
    BY DEF NextPage, Types, Pager, tables
<1>2. /\ Page(rows) \subseteq Rest /\ Rest \subseteq Components
      /\ \A c \in Rest, m \in Page(rows) : Before(c, m) => c \in Page(rows)
      /\ more => /\ Cursor(rows) \in Page(rows)
                 /\ \A d \in Page(rows) : d = Cursor(rows) \/ Before(d, Cursor(rows))
      /\ ~more => Page(rows) = Rest
    BY PageIsPrefix
<1> HIDE DEF rows, more
<1>3. /\ \A c \in pager.stable : c \in Components /\ comp[c] # None
      /\ \A c \in pager.stable : c \in pager.got <=> ~After(c)
      /\ pager.stable \cap pager.twice = {}
    BY <1>1 DEF GotUpToCursor, PagingComplete, Pager
<1>4. /\ \A c \in Rest : After(c)
      /\ \A c \in pager.stable : c \in Rest <=> After(c)
    BY <1>3 DEF Rest
<1>5. pager'.stable \cap pager'.twice = {}
    BY <1>1, <1>2, <1>3, <1>4
<1>6. CASE more
    <2>1. PICK m \in Components : m = Cursor(rows)
        BY <1>2, <1>6
    <2>2. m \in Page(rows) /\ m \in Rest /\ m # None /\ pager'.cursor = m
        BY <1>1, <1>2, <1>6, <2>1, InventoryTypes
    <2>3. ASSUME NEW c \in pager.stable PROVE c \in pager'.got <=> ~Before(m, c)
        <3>1. c \in Components
            BY <1>3
        <3>2. CASE c \in pager.got
            <4>1. pager.cursor \in Components /\ ~Before(pager.cursor, c) /\ Before(pager.cursor, m)
                BY <1>1, <1>3, <1>4, <2>2, <3>2 DEF After, Pager
            <4> QED
                BY <1>1, <3>1, <3>2, <4>1, BeforeOrders
        <3>3. CASE c \in Page(rows)
            <4>1. c = m \/ Before(c, m)
                BY <1>2, <1>6, <2>1, <3>3
            <4> QED
                BY <1>1, <3>1, <3>3, <4>1, BeforeOrders
        <3>4. CASE c \notin pager.got /\ c \notin Page(rows)
            <4>1. c \in Rest
                BY <1>3, <1>4, <3>4
            <4>2. c # m /\ ~Before(c, m)
                BY <1>2, <2>2, <3>4, <4>1
            <4> QED
                BY <1>1, <3>1, <3>4, <4>2, BeforeOrders
        <3> QED
            BY <3>2, <3>3, <3>4
    <2>4. \A c \in pager'.stable : c \in pager'.got <=> ~After(c)'
        BY <1>1, <2>2, <2>3 DEF After
    <2> QED
        BY <1>1, <1>3, <1>5, <1>6, <2>4 DEF GotUpToCursor, PagingComplete
<1>7. CASE ~more
    <2>1. pager.stable \subseteq pager'.got
        BY <1>1, <1>2, <1>3, <1>4, <1>7
    <2> QED
        BY <1>1, <1>3, <1>5, <1>7, <2>1 DEF GotUpToCursor, PagingComplete
<1> QED
    BY <1>6, <1>7

\* A component that is deleted or renamed is not one that stays.
LEMMA LeavesKeeps ==
    ASSUME Types, GotUpToCursor, NEW c, Leaves(c),
           \A d \in Components : comp[d] # None /\ d # c => comp'[d] # None
    PROVE  GotUpToCursor'
<1>1. /\ pager \in Pager /\ pager'.pc = pager.pc /\ pager'.cursor = pager.cursor /\ pager'.got = pager.got
      /\ pager'.twice = pager.twice /\ pager'.stable = pager.stable \ {c}
    BY DEF Types, Pager, Leaves
<1>2. pager.stable \subseteq Components
    BY <1>1 DEF Pager
<1> QED
    BY <1>1, <1>2 DEF GotUpToCursor, PagingComplete, After

\* Every step of the API, the file or the client that pages.
LEMMA PagingKept ==
    ASSUME Types, GotUpToCursor, [Next]_vars
    PROVE  GotUpToCursor'
<1>0. pager \in Pager /\ pager.stable \subseteq Components /\ comp \in [Components -> [mb : Managers] \cup {None}]
    BY DEF Types, Pager
<1>1. ASSUME UNCHANGED pager, \A d \in Components : comp[d] # None => comp'[d] # None
      PROVE  GotUpToCursor'
    BY <1>0, <1>1 DEF GotUpToCursor, PagingComplete, After
<1>2. CASE UNCHANGED <<comp, pager>>
    BY <1>1, <1>2
<1>3. CASE FileWrites
    <2>1. PICK r \in Replicas : \E f, pick : Applies(r, f, pick)
        BY <1>3 DEF FileWrites
    <2>2. PICK f, pick : Applies(r, f, pick)
        BY <2>1
    <2>3. UNCHANGED pager /\ \A d \in Components : comp[d] # None => comp'[d] # None
        BY <2>2 DEF Applies, ComponentsAfter
    <2> QED
        BY <1>1, <2>3
<1>4. ASSUME NEW c \in Components, CreateComponent(c) PROVE GotUpToCursor'
    <2>1. UNCHANGED pager /\ \A d \in Components : comp[d] # None => comp'[d] # None
        BY <1>0, <1>4 DEF CreateComponent
    <2> QED
        BY <1>1, <2>1
<1>5. ASSUME NEW c \in Components, NEW n \in CompNames, UpdateComponent(c, n) PROVE GotUpToCursor'
    <2>1. Leaves(c) /\ \A d \in Components : comp[d] # None /\ d # c => comp'[d] # None
        BY <1>0, <1>5 DEF UpdateComponent, SetComponent
    <2> QED
        BY <2>1, LeavesKeeps
<1>6. ASSUME NEW c \in Components, DeleteComponent(c) PROVE GotUpToCursor'
    <2>1. Leaves(c) /\ \A d \in Components : comp[d] # None /\ d # c => comp'[d] # None
        BY <1>0, <1>6 DEF DeleteComponent
    <2> QED
        BY <2>1, LeavesKeeps
<1>7. CASE StartPaging
    BY <1>7 DEF StartPaging, tables, GotUpToCursor, PagingComplete, After
<1> QED
    BY <1>2, <1>3, <1>4, <1>5, <1>6, <1>7, NextPageKeeps, CompWrites
       DEF ComponentEndpoints, PostComponent, PatchComponent, RemoveComponent, Pages

\* For any components, page size and changes meanwhile, a client that follows the
\* cursors sees every component that stays where it is exactly once
\* (ListComponents and the cursors of page.go).
THEOREM PagingIsComplete == Spec => []PagingComplete
<1>1. Init => GotUpToCursor
    BY DEF Init, GotUpToCursor, PagingComplete
<1>2. Types /\ GotUpToCursor /\ [Next]_vars => GotUpToCursor'
    BY PagingKept
<1>3. GotUpToCursor => PagingComplete
    BY DEF GotUpToCursor
<1> QED
    BY <1>1, <1>2, <1>3, InventoryTypeCorrect, PTL DEF Spec
=============================================================================
