----------------------------- MODULE Inventory -----------------------------
(***************************************************************************)
(* The inventory records of one environment, changed through the API and   *)
(* by the inventory file that each API replica mounts.                     *)
(*                                                                         *)
(* A record is managed by who created it: the API refuses to change what   *)
(* the file manages, and the file is refused as a whole when it names a    *)
(* record of the API.  A record of the file that the file drops is         *)
(* disabled, never deleted.  Each change runs in one transaction; a change *)
(* of a telemetry source takes two steps here, because it first looks for  *)
(* sources of the same application_name, under the environment's row lock, *)
(* and then writes.                                                        *)
(*                                                                         *)
(* Components and sources are identified by what a unique key or claimName *)
(* keeps unique: <<application, name>> and <<application, mode, name>>.    *)
(***************************************************************************)
EXTENDS Naturals, FiniteSets, Sequences

CONSTANTS
    NumApps,        \* identifiers of applications: 1 .. NumApps
    AppNames,       \* names of applications
    CompNames,      \* names of components, as their order: a set of numbers
    Modes,          \* ingest modes of a source
    SourceNames,    \* application_names of sources
    Callers,        \* requests that change a source
    Replicas,       \* API replicas, each with a FileApplier
    Files,          \* the revisions of the inventory file
    PageLimit,          \* page size of the client that lists components
    MaxChanges,     \* bound: changes through the API and of the file
    None            \* no record, no request

ASSUME InventoryAssumptions ==
    /\ NumApps \in Nat /\ MaxChanges \in Nat /\ PageLimit \in Nat \ {0}
    /\ CompNames \subseteq Nat /\ IsFiniteSet(CompNames)

VARIABLES
    env,        \* environments: the file's
    app,        \* applications
    comp,       \* application_components
    src,        \* telemetry_sources
    claim,      \* a caller's change of a source that found its name free
    current,    \* revision of the file in the ConfigMap
    mounted,    \* revision each replica has mounted
    done,       \* FileApplier.done of each replica
    reading,    \* revision a replica read and is applying
    pager,      \* a client that lists the components page by page
    changes     \* changes so far

vars == <<env, app, comp, src, claim, current, mounted, done, reading, pager, changes>>
tables == <<env, app, comp, src>>
appliers == <<mounted, done, reading>>

-----------------------------------------------------------------------------
Apps == 1 .. NumApps
Components == Apps \X CompNames
Sources == Apps \X Modes \X SourceNames
Managers == {"api", "config"}

Environment == [on : BOOLEAN, mb : Managers]
Application == [name : AppNames, on : BOOLEAN, mb : Managers]
Source == [on : BOOLEAN, mb : Managers]

\* An application of the inventory file: its status, its components and the
\* status of each of its sources.
FileApplication ==
    [on : BOOLEAN, comps : SUBSET CompNames,
     srcs : UNION {[keys -> BOOLEAN] : keys \in SUBSET (Modes \X SourceNames)}]

ASSUME InventoryTypes ==
    /\ None \notin Components
    /\ \A v \in DOMAIN Files : Files[v] \in [AppNames -> FileApplication \cup {None}]

Counted == changes < MaxChanges /\ changes' = changes + 1

\* managedByFile: what the file manages is not changed through the API.
ChangedByApi(row) == row # None /\ row.mb = "api"

\* The statements that write rows, for the API and the file alike.
NewEnvironment(mb) == [on |-> TRUE, mb |-> mb]
SetEnvironment(row, on) == [row EXCEPT !.on = on]
NewApplication(n, on, mb) == [name |-> n, on |-> on, mb |-> mb]
SetApplication(row, n, on) == [row EXCEPT !.name = n, !.on = on]
NewComponent(mb) == [mb |-> mb]
SetComponent(c, n) == [comp EXCEPT ![c] = None, ![<<c[1], n>>] = comp[c]]
NewSource(on, mb) == [on |-> on, mb |-> mb]
SetSource(row, on) == [row EXCEPT !.on = on]

\* The transaction that holds LockSourcesOfEnvironment, if any.
LockSourcesOfEnvironment == {p \in Callers : claim[p] # None}
GetApplication(a) == app[a] # None
ApplicationNamed(n) == {a \in Apps : app[a] # None /\ app[a].name = n}
SourcesNamed(n) == {s \in Sources : src[s] # None /\ s[3] = n}
\* Rows that refer to an application.
InUse(a) == (\E c \in Components : c[1] = a /\ comp[c] # None)
            \/ (\E s \in Sources : s[1] = a /\ src[s] # None)

-----------------------------------------------------------------------------
(* Environments.                                                           *)

CreateEnvironment ==
    /\ Counted /\ env = None
    /\ env' = NewEnvironment("api")
    /\ UNCHANGED <<app, comp, src, claim, current, appliers, pager>>

LockEnvironment == LockSourcesOfEnvironment = {}

UpdateEnvironment ==
    /\ Counted /\ LockEnvironment /\ ChangedByApi(env)
    /\ env' = SetEnvironment(env, ~env.on)
    /\ UNCHANGED <<app, comp, src, claim, current, appliers, pager>>

DeleteEnvironment ==
    /\ Counted /\ LockEnvironment /\ ChangedByApi(env)
    /\ \A a \in Apps : app[a] = None
    /\ env' = None
    /\ UNCHANGED <<app, comp, src, claim, current, appliers, pager>>

(* Applications.                                                           *)

CreateApplication(a, n) ==
    /\ Counted /\ env # None /\ app[a] = None /\ ApplicationNamed(n) = {}
    /\ app' = [app EXCEPT ![a] = NewApplication(n, TRUE, "api")]
    /\ UNCHANGED <<env, comp, src, claim, current, appliers, pager>>

UpdateApplication(a, n, on) ==
    /\ Counted /\ ChangedByApi(app[a])
    /\ <<n, on>> # <<app[a].name, app[a].on>> /\ ApplicationNamed(n) \subseteq {a}
    /\ app' = [app EXCEPT ![a] = SetApplication(@, n, on)]
    /\ UNCHANGED <<env, comp, src, claim, current, appliers, pager>>

DeleteApplication(a) ==
    /\ Counted /\ ChangedByApi(app[a]) /\ ~InUse(a)
    /\ app' = [app EXCEPT ![a] = None]
    /\ UNCHANGED <<env, comp, src, claim, current, appliers, pager>>

(* Components.  A component that leaves its place in the list is no longer *)
(* one the client that pages must see.                                     *)

Leaves(c) == pager' = [pager EXCEPT !.stable = @ \ {c}]

CreateComponent(c) ==
    /\ Counted /\ GetApplication(c[1]) /\ comp[c] = None
    /\ comp' = [comp EXCEPT ![c] = NewComponent("api")]
    /\ UNCHANGED <<env, app, src, claim, current, appliers, pager>>

UpdateComponent(c, n) ==
    /\ Counted /\ ChangedByApi(comp[c]) /\ comp[<<c[1], n>>] = None
    /\ comp' = SetComponent(c, n)
    /\ Leaves(c)
    /\ UNCHANGED <<env, app, src, claim, current, appliers>>

DeleteComponent(c) ==
    /\ Counted /\ ChangedByApi(comp[c])
    /\ comp' = [comp EXCEPT ![c] = None]
    /\ Leaves(c)
    /\ UNCHANGED <<env, app, src, claim, current, appliers>>

-----------------------------------------------------------------------------
(* Telemetry sources.                                                      *)

\* Mutant: Looks for the name without the environment's lock.
ClaimName_NoLock(self, s) == \A o \in SourcesNamed(s[3]) \ {self} : o[1] = s[1] /\ o[2] # s[2]

\* No source of another application has the name, whatever its status, and
\* no other of this application the same mode and name.  The lock is held
\* until the transaction ends, so that a second caller does not find the
\* name free as well.
ClaimName(self, s) ==
    /\ LockSourcesOfEnvironment = {}
    /\ \A o \in SourcesNamed(s[3]) \ {self} : o[1] = s[1] /\ o[2] # s[2]

CreateSource(p, s, on) ==
    /\ Counted /\ claim[p] = None
    /\ GetApplication(s[1]) /\ ClaimName(None, s)
    /\ claim' = [claim EXCEPT ![p] = [from |-> None, to |-> s, row |-> NewSource(on, "api")]]
    /\ UNCHANGED <<tables, current, appliers, pager>>

UpdateSource(p, s, mode, name, on) ==
    LET next == <<s[1], mode, name>>
    IN /\ Counted /\ claim[p] = None
       /\ ChangedByApi(src[s]) /\ <<next, on>> # <<s, src[s].on>>
       /\ ClaimName(s, next)
       /\ claim' = [claim EXCEPT ![p] = [from |-> s, to |-> next, row |-> SetSource(src[s], on)]]
       /\ UNCHANGED <<tables, current, appliers, pager>>

\* The write; the insert fails when the application was deleted meanwhile.
WriteSource(p) ==
    LET c == claim[p]
    IN /\ c # None
       /\ claim' = [claim EXCEPT ![p] = None]
       /\ src' = IF app[c.to[1]] = None THEN src
                 ELSE [s \in Sources |-> IF s = c.to THEN c.row ELSE IF s = c.from THEN None ELSE src[s]]
       /\ UNCHANGED <<env, app, comp, current, appliers, pager, changes>>

\* LockSource: an update in progress holds the row.
LockSource(s) == \A p \in Callers : claim[p] # None => claim[p].from # s

DeleteSource(s) ==
    /\ Counted /\ ChangedByApi(src[s]) /\ LockSource(s)
    /\ src' = [src EXCEPT ![s] = None]
    /\ UNCHANGED <<env, app, comp, claim, current, appliers, pager>>

-----------------------------------------------------------------------------
(* The inventory file: f[n] is None, or the status of the application      *)
(* named n with its components and the status of each of its sources.      *)

Listed(f) == {n \in AppNames : f[n] # None}
ListedName(f, a) == app[a] # None /\ app[a].name \in Listed(f)

\* Applications the file lists and the environment lacks, and a row for each.
NewNames(f) == {n \in Listed(f) : ApplicationNamed(n) = {}}
NewRows(f) == {pick \in [NewNames(f) -> {a \in Apps : app[a] = None}] :
                  \A m, n \in NewNames(f) : m # n => pick[m] # pick[n]}

\* Every revision lists the same environment.
EnvironmentAfter == IF env = None THEN NewEnvironment("config") ELSE env

ApplicationsAfter(f, pick) ==
    [a \in Apps |->
        IF \E n \in NewNames(f) : pick[n] = a
        THEN LET n == CHOOSE n \in NewNames(f) : pick[n] = a
             IN NewApplication(n, f[n].on, "config")
        ELSE IF app[a] = None \/ app[a].mb # "config" THEN app[a]
        ELSE SetApplication(app[a], app[a].name, ListedName(f, a) /\ f[app[a].name].on)]

FileComponent(f, rows, c) == rows[c[1]] # None /\ rows[c[1]].name \in Listed(f) /\ c[2] \in f[rows[c[1]].name].comps

\* A component the file drops stays: it has no status.
ComponentsAfter(f, rows) ==
    [c \in Components |-> IF comp[c] = None /\ FileComponent(f, rows, c) THEN NewComponent("config") ELSE comp[c]]

FileSource(f, rows, s) ==
    /\ rows[s[1]] # None /\ rows[s[1]].name \in Listed(f)
    /\ <<s[2], s[3]>> \in DOMAIN f[rows[s[1]].name].srcs

\* The sources the file manages and drops are disabled first, so that a name
\* they held is free for the file's.
DisableDropped(f, rows) ==
    [s \in Sources |-> IF src[s] # None /\ src[s].mb = "config" /\ ~FileSource(f, rows, s)
                       THEN SetSource(src[s], FALSE) ELSE src[s]]
SourcesAfter(f, rows, left) ==
    [s \in Sources |-> IF FileSource(f, rows, s)
                       THEN NewSource(f[rows[s[1]].name].srcs[<<s[2], s[3]>>], "config")
                       ELSE left[s]]

\* A source of another application claims the name: one of the API whatever
\* its status, one of the file if active.
NameTaken(left, s) ==
    \E o \in Sources : left[o] # None /\ o[3] = s[3] /\ o[1] # s[1] /\ (left[o].mb # "config" \/ left[o].on)

Refused(f, rows) ==
    \/ env # None /\ env.mb = "api"
    \/ \E a \in Apps : ListedName(f, a) /\ app[a].mb = "api"
    \/ \E c \in Components : FileComponent(f, rows, c) /\ comp[c] # None /\ comp[c].mb = "api"
    \/ LET left == DisableDropped(f, rows)
       IN \E s \in Sources :
             /\ FileSource(f, rows, s)
             /\ \/ src[s] # None /\ src[s].mb = "api"
                \/ f[rows[s[1]].name].srcs[<<s[2], s[3]>>] /\ NameTaken(left, s)

\* ParseFile and fileChecker: an application_name belongs to one application.
ParseFile(f) ==
    \A m, n \in Listed(f) :
        m # n => {k[2] : k \in DOMAIN f[m].srcs} \cap {k[2] : k \in DOMAIN f[n].srcs} = {}

-----------------------------------------------------------------------------
(* FileApplier of a replica: it reads the file now and then and applies it *)
(* unless it is the revision it applied last, or found invalid.            *)

Read(r) ==
    /\ reading[r] = None /\ mounted[r] # done[r]
    /\ IF ParseFile(Files[mounted[r]])
       THEN reading' = [reading EXCEPT ![r] = mounted[r]] /\ UNCHANGED done
       ELSE done' = [done EXCEPT ![r] = mounted[r]] /\ UNCHANGED reading
    /\ UNCHANGED <<tables, claim, current, mounted, pager, changes>>


\* A revision the rows refuse is tried again at the next read.
AfterRefusal(r) == UNCHANGED done

\* ApplyFile: all of it or nothing, in a transaction that holds the
\* reconciler's advisory lock and the environment's row.
ApplyFile(r, pick) ==
    LET f == Files[reading[r]]
        rows == ApplicationsAfter(f, pick)
    IN /\ reading[r] # None /\ pick \in NewRows(f) /\ LockEnvironment
       /\ reading' = [reading EXCEPT ![r] = None]
       /\ IF Refused(f, rows)
          THEN AfterRefusal(r) /\ UNCHANGED tables
          ELSE /\ env' = EnvironmentAfter /\ app' = rows
               /\ comp' = ComponentsAfter(f, rows) /\ src' = SourcesAfter(f, rows, DisableDropped(f, rows))
               /\ done' = [done EXCEPT ![r] = reading[r]]
       /\ UNCHANGED <<claim, current, mounted, pager, changes>>

\* PostgreSQL is down or aborts the transaction: tried again.
ApplyError(r) ==
    /\ reading[r] # None
    /\ reading' = [reading EXCEPT ![r] = None]
    /\ UNCHANGED <<tables, claim, current, mounted, done, pager, changes>>

\* The process stops and starts: done is in its memory only.
Restart(r) ==
    /\ Counted
    /\ done' = [done EXCEPT ![r] = None] /\ reading' = [reading EXCEPT ![r] = None]
    /\ UNCHANGED <<tables, claim, current, mounted, pager>>

\* A merged pull request changes the ConfigMap, and the kubelet updates the
\* mounts, each replica's in its own time.
Merge(v) ==
    /\ Counted /\ v # current
    /\ current' = v
    /\ UNCHANGED <<tables, claim, appliers, pager>>

Mount(r) ==
    /\ mounted[r] # current
    /\ mounted' = [mounted EXCEPT ![r] = current]
    /\ UNCHANGED <<tables, claim, current, done, reading, pager, changes>>

-----------------------------------------------------------------------------
(* A client lists the components, page by page: ordered by name, then      *)
(* identifier, each page after the cursor of the page before.              *)

Before(c, d) == c[2] < d[2] \/ (c[2] = d[2] /\ c[1] < d[1])

\* Mutant: Starts at the item the cursor names.
After_Inclusive(c) == pager.cursor = None \/ ~Before(c, pager.cursor)

After(c) == pager.cursor = None \/ Before(pager.cursor, c)

\* ListComponents fetches one row more than the page holds.
ListComponents ==
    LET rows == {c \in Components : comp[c] # None /\ After(c)}
    IN {c \in rows : Cardinality({d \in rows : Before(d, c)}) < PageLimit + 1}

Page(rows) == {c \in rows : Cardinality({d \in rows : Before(d, c)}) < PageLimit}
Cursor(rows) == CHOOSE c \in Page(rows) : \A d \in Page(rows) : d = c \/ Before(d, c)

StartPaging ==
    /\ pager.pc = "idle"
    /\ pager' = [pc |-> "paging", cursor |-> None, got |-> {}, twice |-> {},
                 stable |-> {c \in Components : comp[c] # None}]
    /\ UNCHANGED <<tables, claim, current, appliers, changes>>

NextPage ==
    LET rows == ListComponents
        more == Cardinality(rows) > PageLimit
    IN /\ pager.pc = "paging"
       /\ pager' = [pager EXCEPT !.pc = IF more THEN "paging" ELSE "done",
                                 !.cursor = IF more THEN Cursor(rows) ELSE None,
                                 !.got = @ \cup Page(rows), !.twice = @ \cup (pager.got \cap Page(rows))]
       /\ UNCHANGED <<tables, claim, current, appliers, changes>>

-----------------------------------------------------------------------------
Init ==
    /\ env = None
    /\ app = [a \in Apps |-> None] /\ comp = [c \in Components |-> None] /\ src = [s \in Sources |-> None]
    /\ claim = [p \in Callers |-> None]
    /\ current \in DOMAIN Files
    /\ mounted = [r \in Replicas |-> current]
    /\ done = [r \in Replicas |-> None] /\ reading = [r \in Replicas |-> None]
    /\ pager = [pc |-> "idle", cursor |-> None, got |-> {}, twice |-> {}, stable |-> {}]
    /\ changes = 0

\* The endpoints of the API, as the handlers call the service.
PostEnvironment == CreateEnvironment
PatchEnvironment == UpdateEnvironment
RemoveEnvironment == DeleteEnvironment
PostApplication == \E a \in Apps, n \in AppNames : CreateApplication(a, n)
PatchApplication == \E a \in Apps, n \in AppNames, on \in BOOLEAN : UpdateApplication(a, n, on)
RemoveApplication == \E a \in Apps : DeleteApplication(a)
PostComponent == \E c \in Components : CreateComponent(c)
PatchComponent == \E c \in Components, n \in CompNames : UpdateComponent(c, n)
RemoveComponent == \E c \in Components : DeleteComponent(c)
PostSource == \E p \in Callers, s \in Sources, on \in BOOLEAN : CreateSource(p, s, on)
PatchSource == \E p \in Callers, s \in Sources, m \in Modes, n \in SourceNames, on \in BOOLEAN :
    UpdateSource(p, s, m, n, on)
RemoveSource == \E s \in Sources : DeleteSource(s)

EnvironmentEndpoints == PostEnvironment \/ PatchEnvironment \/ RemoveEnvironment
ApplicationEndpoints == PostApplication \/ PatchApplication \/ RemoveApplication
ComponentEndpoints == PostComponent \/ PatchComponent \/ RemoveComponent
SourceEndpoints == PostSource \/ PatchSource \/ RemoveSource \/ \E p \in Callers : WriteSource(p)
ApplyRead(r) == \E pick \in UNION {NewRows(Files[v]) : v \in {reading[r]} \ {None}} : ApplyFile(r, pick)
FileApplier(r) == Read(r) \/ ApplyRead(r) \/ ApplyError(r) \/ Restart(r) \/ Mount(r)
FileApplies == (\E r \in Replicas : FileApplier(r)) \/ \E v \in DOMAIN Files : Merge(v)
Pages == StartPaging \/ NextPage

Next ==
    \/ EnvironmentEndpoints \/ ApplicationEndpoints \/ ComponentEndpoints \/ SourceEndpoints
    \/ FileApplies \/ Pages

Spec == Init /\ [][Next]_vars

\* A request's transaction ends, the ticker of Run goes on, the kubelet
\* updates a mount, and not every apply fails.
Fairness ==
    /\ \A p \in Callers : WF_vars(WriteSource(p))
    /\ \A r \in Replicas : WF_vars(Mount(r)) /\ WF_vars(Read(r)) /\ SF_vars(ApplyRead(r))

-----------------------------------------------------------------------------
(* Types of the tables. *)
TypeOK ==
    /\ env \in Environment \cup {None}
    /\ app \in [Apps -> Application \cup {None}]
    /\ src \in [Sources -> Source \cup {None}]
    /\ pager.got \subseteq Components

\* sources.go, ADR 0017: within an environment an application_name belongs to
\* one application, so that a log row is attributed to one.  However callers
\* and the file interleave, no two applications have an active source of the
\* same name.
NameHasOneOwner ==
    \A s, o \in Sources : src[s] # None /\ src[o] # None /\ src[s].on /\ src[o].on /\ s[3] = o[3] => s[1] = o[1]

\* page.go: "an item added or removed while a client pages neither repeats nor
\* skips another": a component that stays where it is through the whole
\* listing is listed exactly once.
PagingComplete ==
    /\ pager.stable \cap pager.twice = {}
    /\ pager.pc = "done" => pager.stable \subseteq pager.got

\* What the file lists is there, as it lists it, and what it manages and does
\* not list is disabled.
Matches(f) ==
    /\ env # None
    /\ \A n \in Listed(f) : \E a \in ApplicationNamed(n) : app[a].mb = "config" /\ app[a].on = f[n].on
    /\ \A a \in Apps : app[a] # None /\ app[a].mb = "config" /\ app[a].on => ListedName(f, a)
    /\ \A c \in Components : FileComponent(f, app, c) => comp[c] # None
    /\ \A s \in Sources : FileSource(f, app, s) \/ (src[s] # None /\ src[s].mb = "config" /\ src[s].on)
          => src[s] = SourcesAfter(f, app, DisableDropped(f, app))[s]


=============================================================================
