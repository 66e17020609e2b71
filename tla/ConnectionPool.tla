--------------------------- MODULE ConnectionPool ---------------------------
(***************************************************************************)
(* The SQL Server connection pool of the db-collector                      *)
(* (connectors/sqlserver/connector.go): one database handle per target and *)
(* resolved credential, shared by the probes that open it.  A handle is    *)
(* made, checked again and closed without the pool's mutex, so that a slow *)
(* target holds up nobody else; each action below is one critical section  *)
(* of the mutex, or one step of a caller between two of them.              *)
(*                                                                         *)
(* An entry id stands for a *poolEntry.  Time is what it makes true: an    *)
(* entry was last used idleTTL ago, its login check is checkInterval old.  *)
(***************************************************************************)
EXTENDS Naturals, FiniteSets

CONSTANTS
    Callers,      \* goroutines that open a target
    Closer,       \* the one that closes the manager
    Targets,      \* pool keys without the credential hash
    Credentials,  \* what a credential reference resolves to
    Logins,       \* results of the login check
    Ids,          \* bound: entries that anyone still refers to
    None

ASSUME PoolAssumptions ==
    /\ IsFiniteSet(Ids) /\ IsFiniteSet(Callers) /\ Closer \notin Callers
    /\ None \notin Ids \cup Logins /\ None # "open"

VARIABLES
    entries,  \* pool.entries
    latest,   \* pool.latest
    closed,   \* pool.closed
    entry,    \* the entries
    handle,   \* the database handle of each entry: None, "open" or "closed"
    caller,   \* the callers of acquire
    closing   \* the handles each goroutine took out of the pool and has to close

pool == <<entries, latest, closed, entry, handle, caller, closing>>

Keys == Targets \X Credentials
TargetOf(key) == key[1]  \* withoutCredential

\* ready: "no", "db" or "err"; idle and due are lastUsed and checkedAt.
PoolEntry == [ready |-> "no", refs |-> 0, idle |-> FALSE, login |-> None,
              due |-> FALSE, rechecking |-> FALSE]

\* at: "out", "lock" (about to lock), "create", "made" (has a handle that is not
\* in the entry yet), "wait", "recheck" or "hold".
Out == [at |-> "out", key |-> None, id |-> None]

Goroutines == Callers \cup {Closer}
InPool == {entries[k] : k \in Keys} \ {None}
Unused == {i \in Ids : /\ i \notin InPool /\ \A t \in Targets : latest[t] # i
                       /\ \A c \in Callers : caller[c].id # i
                       /\ \A g \in Goroutines : i \notin closing[g]
                       /\ handle[i] # "open"}

-----------------------------------------------------------------------------
(* Under the mutex.                                                        *)

\* removeLocked, for the entries of ids
EntriesWithout(ids) == [k \in Keys |-> IF entries[k] \in ids THEN None ELSE entries[k]]
LatestWithout(ids) == [t \in Targets |-> IF latest[t] \in ids THEN None ELSE latest[t]]

\* Mutant: Evicts by age alone.
SweepLocked_InUse == {i \in InPool : entry[i].ready = "db" /\ entry[i].idle}

\* The entries sweepLocked takes out of the pool.
SweepLocked == {i \in InPool : entry[i].ready = "db" /\ entry[i].refs = 0 /\ entry[i].idle}

ClaimRecheckLocked(e) == e.due /\ ~e.rechecking

UseLocked(e) == [e EXCEPT !.refs = @ + 1, !.idle = FALSE]

-----------------------------------------------------------------------------
(* acquire.                                                                *)

\* Open resolved target's credential, which may have been rotated since.
Open(c, key) ==
    /\ caller[c].at = "out"
    /\ caller' = [caller EXCEPT ![c] = [at |-> "lock", key |-> key, id |-> None]]
    /\ UNCHANGED <<entries, latest, closed, entry, handle, closing>>

\* ErrManagerClosed
Refuse(c) ==
    /\ caller[c].at = "lock" /\ closed
    /\ caller' = [caller EXCEPT ![c] = Out]
    /\ UNCHANGED <<entries, latest, closed, entry, handle, closing>>

\* What each branch of the critical section begins with.
Sweep(c) ==
    /\ caller[c].at = "lock" /\ ~closed
    /\ closing' = [closing EXCEPT ![c] = SweepLocked]
    /\ UNCHANGED <<closed, handle>>

\* There is no entry: the caller adds one and initialises it.
AddEntry(c) ==
    LET key == caller[c].key
    IN /\ Sweep(c) /\ entries[key] \in SweepLocked \cup {None}
       /\ LET id == CHOOSE i \in Unused : TRUE
          IN /\ Unused # {}
             /\ entry' = [entry EXCEPT ![id] = PoolEntry]
             /\ entries' = [EntriesWithout(SweepLocked) EXCEPT ![key] = id]
             /\ caller' = [caller EXCEPT ![c].at = "create", ![c].id = id]
       /\ latest' = LatestWithout(SweepLocked)

UseEntry(c) ==
    LET key == caller[c].key
        id == entries[key]
    IN /\ Sweep(c) /\ id \notin SweepLocked \cup {None} /\ entry[id].ready = "db"
       /\ LET due == ClaimRecheckLocked(entry[id])
          IN /\ entry' = [entry EXCEPT ![id] = [UseLocked(entry[id]) EXCEPT !.rechecking = @ \/ due]]
             /\ caller' = [caller EXCEPT ![c].at = IF due THEN "recheck" ELSE "hold", ![c].id = id]
       /\ entries' = EntriesWithout(SweepLocked)
       /\ latest' = [LatestWithout(SweepLocked) EXCEPT ![TargetOf(key)] = id]

AwaitEntry(c) ==
    LET id == entries[caller[c].key]
    IN /\ Sweep(c) /\ id \notin SweepLocked \cup {None} /\ entry[id].ready = "no"
       /\ caller' = [caller EXCEPT ![c].at = "wait", ![c].id = id]
       /\ entries' = EntriesWithout(SweepLocked) /\ latest' = LatestWithout(SweepLocked)
       /\ UNCHANGED entry

\* The other callers' result: the entry's error, or another turn at the lock.
WaitOver(c) ==
    /\ caller[c].at = "wait" /\ closing[c] = {} /\ entry[caller[c].id].ready # "no"
    /\ caller' = [caller EXCEPT ![c] = IF entry[@.id].ready = "err" THEN Out
                                       ELSE [@ EXCEPT !.at = "lock", !.id = None]]
    /\ UNCHANGED <<entries, latest, closed, entry, handle, closing>>

\* ctx.Done
GiveUp(c) ==
    /\ caller[c].at = "wait" /\ closing[c] = {}
    /\ caller' = [caller EXCEPT ![c] = Out]
    /\ UNCHANGED <<entries, latest, closed, entry, handle, closing>>

-----------------------------------------------------------------------------
(* initialize and recheck.                                                 *)

\* sql.Open
Connect(c) ==
    /\ caller[c].at = "create" /\ closing[c] = {}
    /\ handle' = [handle EXCEPT ![caller[c].id] = "open"]
    /\ caller' = [caller EXCEPT ![c].at = "made"]
    /\ UNCHANGED <<entries, latest, closed, entry, closing>>

\* Mutant: Leaves the failed entry without a result.
Fail_NotReady(c) ==
    /\ entries' = EntriesWithout({caller[c].id}) /\ latest' = LatestWithout({caller[c].id})
    /\ entry' = entry
    /\ caller' = [caller EXCEPT ![c] = Out]

\* err # nil: the entry leaves the pool and those who wait for it are told.
Fail(c) ==
    /\ entries' = EntriesWithout({caller[c].id}) /\ latest' = LatestWithout({caller[c].id})
    /\ entry' = [entry EXCEPT ![caller[c].id].ready = "err"]
    /\ caller' = [caller EXCEPT ![c] = Out]

\* sql.Open or the login check failed; connect closes the handle.
ConnectFails(c) ==
    /\ caller[c].at \in {"create", "made"} /\ closing[c] = {}
    /\ handle' = [handle EXCEPT ![caller[c].id] = IF @ = "open" THEN "closed" ELSE @]
    /\ Fail(c)
    /\ UNCHANGED <<closed, closing>>

MayPublish == ~closed

Publish(c, login) ==
    LET id == caller[c].id
    IN /\ caller[c].at = "made" /\ MayPublish
       /\ entry' = [entry EXCEPT ![id] = [UseLocked(entry[id]) EXCEPT !.ready = "db", !.login = login, !.due = FALSE]]
       /\ latest' = [latest EXCEPT ![TargetOf(caller[c].key)] = id]
       /\ caller' = [caller EXCEPT ![c].at = "hold"]
       /\ UNCHANGED <<entries, closed, handle, closing>>

\* Close ran meanwhile: the initialiser closes the handle it made.
ClosedMeanwhile(c) ==
    /\ caller[c].at = "made" /\ ~MayPublish
    /\ handle' = [handle EXCEPT ![caller[c].id] = "closed"]
    /\ Fail(c)
    /\ UNCHANGED <<closed, closing>>

\* The check fails, or finds login; a closed handle fails it.
Recheck(c, login) ==
    LET id == caller[c].id
    IN /\ caller[c].at = "recheck" /\ closing[c] = {}
       /\ handle[id] = "open" \/ login = entry[id].login
       /\ entry' = [entry EXCEPT ![id].login = login, ![id].due = FALSE, ![id].rechecking = FALSE]
       /\ caller' = [caller EXCEPT ![c].at = "hold"]
       /\ UNCHANGED <<entries, latest, closed, handle, closing>>

Released(e) == [e EXCEPT !.refs = @ - 1, !.idle = FALSE]

\* The cleanup Open returned; its caller calls it once.
Releaser(c) ==
    /\ caller[c].at = "hold" /\ closing[c] = {}
    /\ entry' = [entry EXCEPT ![caller[c].id] = Released(@)]
    /\ caller' = [caller EXCEPT ![c] = Out]
    /\ UNCHANGED <<entries, latest, closed, handle, closing>>

-----------------------------------------------------------------------------
\* closeHandles, and the end of Close: one handle after the other.
CloseHandle(g, id) ==
    /\ id \in closing[g]
    /\ closing' = [closing EXCEPT ![g] = @ \ {id}]
    /\ handle' = [handle EXCEPT ![id] = "closed"]
    /\ UNCHANGED <<entries, latest, closed, entry, caller>>

\* Manager.Close; entries still being made are their initialisers' to close.
Close ==
    /\ ~closed
    /\ closed' = TRUE
    /\ closing' = [closing EXCEPT ![Closer] = {i \in InPool : entry[i].ready = "db"}]
    /\ entries' = [k \in Keys |-> None] /\ latest' = LatestWithout(InPool)
    /\ UNCHANGED <<entry, handle, caller>>

\* idleTTL is longer than checkInterval.
TimePasses(id) ==
    /\ id \in InPool /\ entry[id].ready = "db"
    /\ \/ ~entry[id].due /\ entry' = [entry EXCEPT ![id].due = TRUE]
       \/ ~entry[id].idle /\ entry' = [entry EXCEPT ![id].due = TRUE, ![id].idle = TRUE]
    /\ UNCHANGED <<entries, latest, closed, handle, caller, closing>>

-----------------------------------------------------------------------------
PoolInit ==
    /\ entries = [k \in Keys |-> None] /\ latest = [t \in Targets |-> None] /\ closed = FALSE
    /\ entry = [i \in Ids |-> PoolEntry] /\ handle = [i \in Ids |-> None]
    /\ caller = [c \in Callers |-> Out] /\ closing = [g \in Goroutines |-> {}]

\* What a caller in acquire does next, whatever the others do.
Acquire(c) ==
    \/ Refuse(c) \/ AddEntry(c) \/ UseEntry(c) \/ AwaitEntry(c) \/ WaitOver(c)
    \/ Connect(c) \/ ConnectFails(c) \/ ClosedMeanwhile(c)
    \/ \E l \in Logins : Publish(c, l) \/ Recheck(c, l)
    \/ \E i \in Ids : CloseHandle(c, i)

PoolNext ==
    \/ \E c \in Callers : Acquire(c) \/ GiveUp(c) \/ Releaser(c) \/ \E k \in Keys : Open(c, k)
    \/ Close \/ \E i \in Ids : CloseHandle(Closer, i) \/ TimePasses(i)

PoolSpec == PoolInit /\ [][PoolNext]_pool

\* A goroutine in acquire goes on: the driver bounds every read, so an
\* attempt to connect and a login check end.
PoolFairness == \A c \in Callers : WF_pool(Acquire(c))

-----------------------------------------------------------------------------
\* Manager: every handle is open exactly as long as somebody may use it.  Until
\* the manager is closed, the handle a caller holds (or re-checks) is open: no
\* sweep takes it from under a query.  And an open handle is reachable: it is in
\* the pool, its initialiser still has it, or somebody is about to close it; so
\* none is left once Close and the calls in progress are over.
HandlesTracked ==
    /\ ~closed => \A c \in Callers : caller[c].at \in {"recheck", "hold"} => handle[caller[c].id] = "open"
    /\ \A i \in Ids : handle[i] = "open" =>
        \/ i \in InPool
        \/ \E c \in Callers : caller[c].at = "made" /\ caller[c].id = i
        \/ \E g \in Goroutines : i \in closing[g]

\* acquire: a caller that waits for another one's handle is told how that
\* ended, without the help of its own context's deadline.
WaitsEnd == \A c \in Callers : (caller[c].at = "wait") ~> (caller[c].at # "wait")

=============================================================================
