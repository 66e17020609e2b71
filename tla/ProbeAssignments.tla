-------------------------- MODULE ProbeAssignments --------------------------
(***************************************************************************)
(* Probe definitions, database targets and probe assignments of the API,   *)
(* from the draft to the collector that runs it.                           *)
(*                                                                         *)
(* A caller drafts an assignment of a probe definition to a target and     *)
(* another approves it; the render of the approved ones is deployed to the *)
(* collector; each API replica asks the collector now and then, through a  *)
(* client that keeps answers for a while, and marks applied what it finds  *)
(* running.  The inventory file writes targets and assignments too.        *)
(*                                                                         *)
(* A change runs in one transaction that holds its target's row lock.  The *)
(* changes that read a definition, which that lock does not cover, take    *)
(* two steps: the checks under the lock, then the write and the commit.    *)
(* Row identifiers are the key <<target, definition>>, which the checks    *)
(* keep unique.  updated_at is only ever compared with the value a check   *)
(* listed, so it is kept as the set of rows written since (touched).       *)
(***************************************************************************)
EXTENDS Naturals, FiniteSets

CONSTANTS
    NumTargets,     \* targets are 1 .. NumTargets, in the inventory file's order
    Builtins,       \* built-in definitions
    Overrides,      \* custom definition -> the built-in it overrides
    Hosts,          \* server, port and database of a target
    Credentials,    \* credential references
    Intervals,      \* intervals an assignment may have
    DefTimeout,     \* version of a custom definition -> its timeout
    Callers,        \* requests in flight
    Replicas,       \* API replicas, each with an applied check
    Files,          \* contents of the inventory file
    Stocks,         \* targets and definitions the database may start with
    MaxChanges,     \* bound: changes of rows, toggles of a definition apart
    None            \* no row, no lock, no answer

ASSUME ProbeAssumptions ==
    /\ NumTargets \in Nat \ {0}
    /\ MaxChanges \in Nat
    /\ Intervals \subseteq Nat
    /\ \A d \in DOMAIN Overrides : Overrides[d] \in Builtins /\ d \notin Builtins

VARIABLES
    target,   \* database_targets
    def,      \* probe_definitions: the custom ones
    asg,      \* probe_assignments
    lock,     \* the row lock of each target
    tx,       \* transactions that passed their checks and did not commit
    okFor,    \* history: the connection each approval was given for
    running,  \* what the collector runs
    ran,      \* history: everything the collector ever ran
    cache,    \* the collectors.Client of each replica: its last answer
    check,    \* MarkAppliedProbeAssignments in progress, per replica
    changes   \* changes made so far

vars == <<target, def, asg, lock, tx, okFor, running, ran, cache, check, changes>>
api == <<lock, tx>>
collector == <<running, ran>>
checker == <<cache, check>>

-----------------------------------------------------------------------------
Targets == 1 .. NumTargets
Customs == DOMAIN Overrides
Definitions == Builtins \cup Customs
Keys == Targets \X Definitions
Versions == DOMAIN DefTimeout
ApprovedStates == {"approved", "applied"}

Conn == [host : Hosts, cred : Credentials]
Target == [conn : Conn, active : BOOLEAN, mb : {"api", "config"}]
Definition == [latest : Versions, enabled : BOOLEAN]
ProbeAssignment == [ver : Versions, ivl : Intervals, on : BOOLEAN, mb : {"api", "config"},
                    st : {"draft", "rejected"} \cup ApprovedStates]

\* A probe as the collector's admin config shows it: no credential.
Probe == [t : Targets, ivl : Intervals, host : Hosts, name : Builtins,
          query : {None} \cup Customs \X Versions]

\* What a client keeps of the collector: its probes, or that it was down.
Answer == [down : BOOLEAN, probes : SUBSET Probe]

Idle == [pc |-> "idle", rows |-> {}, touched |-> {}, answer |-> {}]

\* The database holds rows of these types, the file lists built-in probes
\* alone (file.go), a definition's first version is 1 and None is no value
\* of any of these.
ASSUME RowAssumptions ==
    /\ 1 \in Versions
    /\ \A stock \in Stocks : /\ stock.target \in [Targets -> Target \cup {None}]
                            /\ stock.def \in [Customs -> Definition \cup {None}]
    /\ \A f \in Files, t \in Targets : f[t] # None =>
          /\ f[t].conn \in Conn /\ f[t].active \in BOOLEAN
          /\ DOMAIN f[t].probes \subseteq Builtins
          /\ \A d \in DOMAIN f[t].probes : f[t].probes[d] \in Intervals
    /\ None \notin Target \cup Definition \cup ProbeAssignment \cup Callers \cup Answer
    /\ None \notin [key : Keys, row : ProbeAssignment]

Exists(k) == asg[k] # None
\* The probe a definition runs: its own, or the one it overrides.
RunsProbe(d) == IF d \in Customs THEN Overrides[d] ELSE d
LatestVersion(d) == IF d \in Customs THEN def[d].latest ELSE 1
DefinitionEnabled(d) == IF d \in Customs THEN def[d] # None /\ def[d].enabled ELSE TRUE
AssignableDefinition(d, v) == DefinitionEnabled(d) /\ v <= LatestVersion(d)
CheckPolicy(d, row) == d \in Customs => DefTimeout[row.ver] <= row.ivl
ListTargetAssignmentProbes(k) == {o \in Keys \ {k} : o[1] = k[1] /\ Exists(o)}
CheckProbeTaken(k) ==
    ~Exists(k) /\ \A o \in ListTargetAssignmentProbes(k) : RunsProbe(o[2]) # RunsProbe(k[2])

OneInterval(k, row) ==
    row.on => \A o \in ListTargetAssignmentProbes(k) :
                 asg[o].on /\ asg[o].st \in ApprovedStates => asg[o].ivl = row.ivl

ListRenderedProbeAssignments(a, g) ==
    {k \in Keys : /\ a[k] # None /\ a[k].on /\ a[k].st \in ApprovedStates
                  /\ g[k[1]].active /\ DefinitionEnabled(k[2])}
RenderedProbe(k, row, host) ==
    [t |-> k[1], ivl |-> row.ivl, host |-> host, name |-> RunsProbe(k[2]),
     query |-> IF k[2] \in Customs THEN <<k[2], row.ver>> ELSE None]
Render(a, g) ==
    {RenderedProbe(k, a[k], g[k[1]].conn.host) : k \in ListRenderedProbeAssignments(a, g)}
\* render's own check and the collector's loader: one collector, so one
\* interval, per target, and each probe of a target once.
CheckRender(a, g) ==
    \A k, o \in ListRenderedProbeAssignments(a, g) :
        k[1] = o[1] /\ k # o => a[k].ivl = a[o].ivl /\ RunsProbe(k[2]) # RunsProbe(o[2])

\* The statements that write rows.
InsertProbeDefinition(v) == [latest |-> v, enabled |-> TRUE]
NewTargetRow(conn) == [conn |-> conn, active |-> TRUE, mb |-> "api"]
NewAssignmentRow(v, ivl) == [ver |-> v, ivl |-> ivl, on |-> TRUE, mb |-> "api", st |-> "draft"]
ResetProbeAssignment(row) == [row EXCEPT !.st = "draft"]
MarkProbeAssignmentApplied(a, k) == [a EXCEPT ![k].st = "applied"]

Touch(ks) == check' = [r \in Replicas |-> [check[r] EXCEPT !.touched = IF check[r].pc = "idle" THEN {} ELSE @ \cup ks]]
Counted == changes < MaxChanges /\ changes' = changes + 1

-----------------------------------------------------------------------------
(* Probe definitions.  LockProbeDefinition makes changes of one take turns. *)

Create(d) ==
    /\ Counted /\ def[d] = None
    /\ def' = [def EXCEPT ![d] = InsertProbeDefinition(1)]
    /\ UNCHANGED <<target, asg, api, okFor, collector, checker>>

AddVersion(d, from) ==
    /\ Counted /\ def[d] # None
    /\ from = def[d].latest /\ def[d].enabled /\ from + 1 \in Versions
    /\ def' = [def EXCEPT ![d] = InsertProbeDefinition(from + 1)]
    /\ UNCHANGED <<target, asg, api, okFor, collector, checker>>

SetEnabled(d, enabled) ==
    /\ def[d] # None /\ def[d].enabled # enabled
    /\ def' = [def EXCEPT ![d].enabled = enabled]
    /\ UNCHANGED <<target, asg, api, okFor, collector, checker, changes>>

-----------------------------------------------------------------------------
(* Database targets. *)

\* database_targets_identity_uq, which disabled targets count in too.
TargetTaken(g, t, host) == \E u \in Targets \ {t} : g[u] # None /\ g[u].conn.host = host

CreateDatabaseTarget(t, conn) ==
    /\ Counted /\ target[t] = None /\ ~TargetTaken(target, t, conn.host)
    /\ target' = [target EXCEPT ![t] = NewTargetRow(conn)]
    /\ UNCHANGED <<def, asg, api, okFor, collector, checker>>

\* Mutant: Resets what is applied and forgets what is only approved.
ResetApprovals_AppliedOnly(t) ==
    [k \in Keys |-> IF k[1] = t /\ Exists(k) /\ asg[k].st = "applied"
                    THEN ResetProbeAssignment(asg[k]) ELSE asg[k]]

\* A change of the connection sends the target's approved assignments back
\* to draft, in the same transaction.
ResetApprovals(t) ==
    [k \in Keys |-> IF k[1] = t /\ Exists(k) /\ asg[k].st \in ApprovedStates
                    THEN ResetProbeAssignment(asg[k]) ELSE asg[k]]

UpdateDatabaseTarget(t, conn, active) ==
    /\ Counted /\ lock[t] = None
    /\ target[t] # None /\ target[t].mb = "api"
    /\ <<conn, active>> # <<target[t].conn, target[t].active>>
    /\ ~TargetTaken(target, t, conn.host)
    /\ target' = [target EXCEPT ![t].conn = conn, ![t].active = active]
    /\ LET next == IF conn = target[t].conn THEN asg ELSE ResetApprovals(t)
       IN asg' = next /\ Touch({k \in Keys : next[k] # asg[k]})
    /\ UNCHANGED <<def, api, okFor, collector, cache>>

DeleteDatabaseTarget(t) ==
    /\ Counted /\ lock[t] = None
    /\ target[t] # None /\ target[t].mb = "api"
    /\ \A d \in Definitions : ~Exists(<<t, d>>)
    /\ target' = [target EXCEPT ![t] = None]
    /\ UNCHANGED <<def, asg, api, okFor, collector, checker>>

-----------------------------------------------------------------------------
(* Probe assignments through the API: checks under the target's lock, then *)
(* the write.                                                              *)

Begin(p, k, row) ==
    /\ tx[p] = None /\ lock[k[1]] = None
    /\ lock' = [lock EXCEPT ![k[1]] = p]
    /\ tx' = [tx EXCEPT ![p] = [key |-> k, row |-> row]]
    /\ UNCHANGED <<target, def, asg, okFor, collector, checker>>

CreateProbeAssignment(p, k, v, ivl) ==
    LET row == NewAssignmentRow(v, ivl)
    IN /\ Counted
       /\ target[k[1]] # None /\ target[k[1]].mb = "api"
       /\ AssignableDefinition(k[2], v) /\ CheckPolicy(k[2], row) /\ CheckProbeTaken(k)
       /\ Begin(p, k, row)

\* changeAssignment: the assignment exists and the file does not manage it.
ChangeAssignment(k) == Exists(k) /\ asg[k].mb = "api"

UpdateProbeAssignment(p, k, v, ivl, on) ==
    LET row == [asg[k] EXCEPT !.ver = v, !.ivl = ivl, !.on = on, !.st = "draft"]
    IN /\ Counted /\ ChangeAssignment(k)
       /\ <<v, ivl, on>> # <<asg[k].ver, asg[k].ivl, asg[k].on>>
       /\ AssignableDefinition(k[2], v) /\ CheckPolicy(k[2], row)
       /\ Begin(p, k, row)

ApproveProbeAssignment(p, k) ==
    /\ Counted /\ ChangeAssignment(k)
    /\ asg[k].st \in {"draft", "rejected"}
    /\ AssignableDefinition(k[2], asg[k].ver) /\ OneInterval(k, asg[k])
    /\ Begin(p, k, [asg[k] EXCEPT !.st = "approved"])

\* The write of the three above; an approval is undone when the render that
\* holds it is refused.
Commit(p) ==
    LET k == tx[p].key
        row == tx[p].row
        next == [asg EXCEPT ![k] = row]
        ok == row.st = "approved" => CheckRender(next, target)
    IN /\ tx[p] # None
       /\ tx' = [tx EXCEPT ![p] = None]
       /\ lock' = [lock EXCEPT ![k[1]] = None]
       /\ asg' = IF ok THEN next ELSE asg
       /\ okFor' = IF ok /\ row.st = "approved" THEN [okFor EXCEPT ![k] = target[k[1]].conn] ELSE okFor
       /\ Touch(IF ok THEN {k} ELSE {})
       /\ UNCHANGED <<target, def, collector, cache, changes>>

RejectProbeAssignment(k) ==
    /\ Counted /\ lock[k[1]] = None /\ ChangeAssignment(k)
    /\ asg[k].st = "draft"
    /\ asg' = [asg EXCEPT ![k].st = "rejected"]
    /\ Touch({k})
    /\ UNCHANGED <<target, def, api, okFor, collector, cache>>

DeleteProbeAssignment(k) ==
    /\ Counted /\ lock[k[1]] = None /\ ChangeAssignment(k)
    /\ asg' = [asg EXCEPT ![k] = None]
    /\ Touch({k})
    /\ UNCHANGED <<target, def, api, okFor, collector, cache>>

-----------------------------------------------------------------------------
(* The targets and probes of the inventory file: one transaction that      *)
(* locks every target of the environment, or nothing when it is refused.   *)
(* f[t] is None, or the connection, the status and the interval of each    *)
(* probe of a target the file lists.                                       *)

Listed(f, k) == f[k[1]] # None /\ k[2] \in DOMAIN f[k[1]].probes

\* Row of a target after the file: created, changed, disabled or as it was.
FileTarget(f, t) ==
    IF f[t] # None THEN [conn |-> f[t].conn, active |-> f[t].active, mb |-> "config"]
    ELSE IF target[t] # None /\ target[t].mb = "config" THEN [target[t] EXCEPT !.active = FALSE]
    ELSE target[t]

\* The file is written target by target, each against the identity index.
FileTargetTaken(f, t) ==
    TargetTaken([u \in Targets |-> IF u < t THEN FileTarget(f, u) ELSE target[u]], t, f[t].conn.host)

\* A changed connection sends the target's applied assignments back to
\* approved; the approved ones are left as they are.
Reapprove(f, k) ==
    LET moved == f[k[1]] # None /\ target[k[1]] # None /\ target[k[1]].conn # f[k[1]].conn
    IN IF moved /\ Exists(k) /\ asg[k].st = "applied" THEN [asg[k] EXCEPT !.st = "approved"] ELSE asg[k]

\* Row of an assignment after the file: created approved, its policy changed
\* and approved, disabled, or left alone.
UpdateAssignment(row, ivl, on) ==
    IF <<ivl, on>> = <<row.ivl, row.on>> /\ row.st \in ApprovedStates THEN row
    ELSE [row EXCEPT !.ivl = ivl, !.on = on, !.st = "approved"]
FileAssignment(f, k) ==
    LET row == Reapprove(f, k)
    IN IF Listed(f, k)
       THEN IF Exists(k) THEN UpdateAssignment(row, f[k[1]].probes[k[2]], TRUE)
            ELSE [ver |-> 1, ivl |-> f[k[1]].probes[k[2]], on |-> TRUE, mb |-> "config", st |-> "approved"]
       ELSE IF Exists(k) /\ row.mb = "config" /\ row.on THEN UpdateAssignment(row, row.ivl, FALSE) ELSE row

FileRefused(f) ==
    \/ \E t \in Targets : f[t] # None /\ target[t] # None /\ target[t].mb = "api"
    \/ \E t \in Targets : f[t] # None /\ FileTargetTaken(f, t)
    \/ \E k \in Keys : Listed(f, k) /\ Exists(k) /\ asg[k].mb = "api"

ApplyFile(f) ==
    LET g == [t \in Targets |-> FileTarget(f, t)]
        a == [k \in Keys |-> FileAssignment(f, k)]
        reapproved == {k \in Keys : a[k] # asg[k]}
    IN /\ Counted
       /\ \A t \in Targets : target[t] # None => lock[t] = None
       /\ ~FileRefused(f) /\ <<g, a>> # <<target, asg>> /\ CheckRender(a, g)
       /\ target' = g /\ asg' = a
       /\ okFor' = [k \in Keys |-> IF f[k[1]] # None /\ a[k] # None THEN f[k[1]].conn ELSE okFor[k]]
       /\ Touch(reapproved)
       /\ UNCHANGED <<def, api, collector, cache>>

-----------------------------------------------------------------------------
(* The render is reviewed, deployed and loaded by the collector.           *)

Deploy ==
    LET now == Render(asg, target)
    IN /\ CheckRender(asg, target) /\ running # now
       /\ running' = now /\ ran' = ran \cup now
       /\ UNCHANGED <<target, def, asg, api, okFor, checker, changes>>

-----------------------------------------------------------------------------
(* The client of the collector keeps an answer, or a failure, for a while. *)

\* Mutant: Keeps a failure for good.
Expire_AnswersOnly(r) ==
    /\ cache[r] # None /\ ~cache[r].down
    /\ cache' = [cache EXCEPT ![r] = None]
    /\ UNCHANGED <<target, def, asg, api, okFor, collector, check, changes>>

Expire(r) ==
    /\ cache[r] # None
    /\ cache' = [cache EXCEPT ![r] = None]
    /\ UNCHANGED <<target, def, asg, api, okFor, collector, check, changes>>

(* MarkAppliedProbeAssignments of a replica: list, ask, mark each.         *)

ListApproved(r) ==
    LET approved == {k \in ListRenderedProbeAssignments(asg, target) : asg[k].st = "approved"}
    IN /\ check[r].pc = "idle" /\ approved # {}
       /\ check' = [check EXCEPT ![r] =
              [pc |-> "listed", touched |-> {}, answer |-> {},
               rows |-> {<<k, RenderedProbe(k, asg[k], target[k[1]].conn.host)>> : k \in approved}]]
       /\ UNCHANGED <<target, def, asg, api, okFor, collector, cache, changes>>

\* Client.config: the kept answer, or a new one.
Ask(r, answer) ==
    /\ check[r].pc = "listed"
    /\ answer = IF cache[r] # None THEN cache[r] ELSE [down |-> FALSE, probes |-> running]
    /\ cache' = [cache EXCEPT ![r] = answer]
    /\ check' = [check EXCEPT ![r] = IF answer.down THEN Idle ELSE [@ EXCEPT !.pc = "asked", !.answer = answer.probes]]
    /\ UNCHANGED <<target, def, asg, api, okFor, collector, changes>>

AskFails(r) ==
    /\ check[r].pc = "listed" /\ cache[r] = None
    /\ cache' = [cache EXCEPT ![r] = [down |-> TRUE, probes |-> {}]]
    /\ check' = [check EXCEPT ![r] = Idle]
    /\ UNCHANGED <<target, def, asg, api, okFor, collector, changes>>

\* Mutant: Trusts the state alone, not updated_at.
MayMark_StateOnly(r, k, probe) == probe \in check[r].answer /\ Exists(k) /\ asg[k].st = "approved"

\* The assignment as listed runs, and the row was not written since.
MayMark(r, k, probe) ==
    /\ probe \in check[r].answer
    /\ Exists(k) /\ asg[k].st = "approved" /\ k \notin check[r].touched

Mark(r) == \E row \in check[r].rows :
    LET k == row[1]
        left == check[r].rows \ {row}
        marked == MayMark(r, k, row[2])
    IN /\ check[r].pc = "asked"
       /\ asg' = IF marked THEN MarkProbeAssignmentApplied(asg, k) ELSE asg
       /\ check' = [q \in Replicas |->
              IF q = r THEN (IF left = {} THEN Idle ELSE [check[r] EXCEPT !.rows = left])
              ELSE IF marked /\ check[q].pc # "idle" THEN [check[q] EXCEPT !.touched = @ \cup {k}]
              ELSE check[q]]
       /\ UNCHANGED <<target, def, api, okFor, collector, cache, changes>>

-----------------------------------------------------------------------------
\* A new database, or one that holds some targets and custom definitions.
Init ==
    /\ \E stock \in Stocks : target = stock.target /\ def = stock.def
    /\ asg = [k \in Keys |-> None]
    /\ lock = [t \in Targets |-> None] /\ tx = [p \in Callers |-> None]
    /\ okFor = [k \in Keys |-> None]
    /\ running = {} /\ ran = {}
    /\ cache = [r \in Replicas |-> None] /\ check = [r \in Replicas |-> Idle]
    /\ changes = 0

\* One disjunct per endpoint, as the handlers of httpapi call the services.
PostProbeDefinition == \E d \in Customs : Create(d)
PatchProbeDefinition == \E d \in Customs, e \in BOOLEAN : SetEnabled(d, e)
PostProbeDefinitionVersion == \E d \in Customs, from \in Versions : AddVersion(d, from)
PostDatabaseTarget == \E t \in Targets, conn \in Conn : CreateDatabaseTarget(t, conn)
PatchDatabaseTarget == \E t \in Targets, conn \in Conn, active \in BOOLEAN : UpdateDatabaseTarget(t, conn, active)
RemoveDatabaseTarget == \E t \in Targets : DeleteDatabaseTarget(t)
PostProbeAssignment == \E p \in Callers, k \in Keys, v \in Versions, ivl \in Intervals :
    CreateProbeAssignment(p, k, v, ivl)
PatchProbeAssignment == \E p \in Callers, k \in Keys, v \in Versions, ivl \in Intervals, on \in BOOLEAN :
    UpdateProbeAssignment(p, k, v, ivl, on)
PostApproval == \E p \in Callers, k \in Keys : ApproveProbeAssignment(p, k)
PostRejection == \E k \in Keys : RejectProbeAssignment(k)
RemoveProbeAssignment == \E k \in Keys : DeleteProbeAssignment(k)

ReadInventoryFile == \E f \in Files : ApplyFile(f)
AppliedCheck(r) ==
    ListApproved(r) \/ (\E answer \in {cache[r], [down |-> FALSE, probes |-> running]} : Ask(r, answer)) \/ Mark(r)

Next ==
    \/ PostProbeDefinition \/ PatchProbeDefinition \/ PostProbeDefinitionVersion
    \/ PostDatabaseTarget \/ PatchDatabaseTarget \/ RemoveDatabaseTarget
    \/ PostProbeAssignment \/ PatchProbeAssignment \/ PostApproval \/ PostRejection \/ RemoveProbeAssignment
    \/ \E p \in Callers : Commit(p)
    \/ ReadInventoryFile
    \/ Deploy
    \/ \E r \in Replicas : Expire(r) \/ AppliedCheck(r) \/ AskFails(r)

Spec == Init /\ [][Next]_vars

\* The reviewed render is deployed, a transaction ends, the ticker of the
\* applied check goes on, an answer grows old, and the collector answers
\* again and again.
Fairness ==
    /\ WF_vars(Deploy)
    /\ \A p \in Callers : WF_vars(Commit(p))
    /\ \A r \in Replicas :
          /\ WF_vars(Expire(r)) /\ WF_vars(ListApproved(r)) /\ WF_vars(Mark(r))
          /\ SF_vars(\E answer \in {cache[r], [down |-> FALSE, probes |-> running]} : Ask(r, answer) /\ ~answer.down)

FairSpec == Spec /\ Fairness

-----------------------------------------------------------------------------
(* Types of the tables and of the processes in flight. *)
TypeOK ==
    /\ target \in [Targets -> Target \cup {None}]
    /\ def \in [Customs -> Definition \cup {None}]
    /\ asg \in [Keys -> ProbeAssignment \cup {None}]
    /\ lock \in [Targets -> Callers \cup {None}]
    /\ tx \in [Callers -> [key : Keys, row : ProbeAssignment] \cup {None}]
    /\ okFor \in [Keys -> Conn \cup {None}]
    /\ running \subseteq Probe /\ ran \subseteq Probe
    /\ cache \in [Replicas -> Answer \cup {None}]
    /\ check \in [Replicas -> [pc : {"idle", "listed", "asked"}, rows : SUBSET (Keys \X Probe),
                               touched : SUBSET Keys, answer : SUBSET Probe]]

\* What the API renders is fit for the collector, whatever is disabled, enabled,
\* approved, moved and applied from the file in whatever order.  A render the
\* collector refuses "should not happen: every change is checked before it is
\* stored" (render.go): the render of the committed rows passes its check.  And
\* the collector never connects to a server, or with a credential, that nobody
\* approved (targets.go, ADR 0014): an assignment in the render was approved for
\* the connection its target has now.
RenderIsApproved ==
    /\ CheckRender(asg, target)
    /\ \A k \in ListRenderedProbeAssignments(asg, target) : okFor[k] = target[k[1]].conn

RunAsItStands(k) == RenderedProbe(k, asg[k], target[k[1]].conn.host) \in ran

\* applied.go: an assignment the API manages and shows as applied was run by
\* the collector as it stands, at the server its target has, whatever changed
\* between the list, the (kept) answer of the collector and the mark.
ApiAppliedWasRun ==
    \A k \in Keys : Exists(k) /\ asg[k].mb = "api" /\ asg[k].st = "applied" => RunAsItStands(k)

\* The same of the inventory file's assignments, whose moved targets go back
\* to approved "so that the applied check confirms the collector runs them
\* against the new connection" (apply.go).
AppliedWasRun ==
    \A k \in Keys : Exists(k) /\ asg[k].st = "applied" => RunAsItStands(k)

\* An assignment does not stay approved, in the render, for ever: the applied
\* check finds it running and marks it, or it changes.
ApprovedIsApplied ==
    \A k \in Keys : ~<>[](k \in ListRenderedProbeAssignments(asg, target) /\ asg[k].st = "approved")

=============================================================================
