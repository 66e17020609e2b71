----------------------- MODULE ProbeAssignmentsProofs -----------------------
(***************************************************************************)
(* RenderIsApproved and ApiAppliedWasRun of ProbeAssignments, for any      *)
(* targets, definitions, inventory files, callers and replicas.            *)
(*                                                                         *)
(* A render is what the rows are, so it is the rows that have to be right, *)
(* rendered or not: a definition that is disabled or a target that is      *)
(* inactive today comes back tomorrow without a check of its own.  Who     *)
(* manages a target decides which check its rows went through (RowsPlaced, *)
(* IntervalsAgree); the lock of its row keeps what a transaction checked   *)
(* until it commits (TransactionsSound).  A replica marks what it listed a *)
(* while ago: updated_at tells it that the row is still that one           *)
(* (ListIsCurrent), and whatever answer it has is of probes that ran       *)
(* (AnswersRan).                                                           *)
(***************************************************************************)
EXTENDS ProbeAssignments, TLAPS

-----------------------------------------------------------------------------
(* The inductive invariant.                                                *)

Approved(k) == asg[k].st \in ApprovedStates

\* An assignment has a target and is managed as its target is; the file's
\* are of built-in probes and approved; an approved one was approved for the
\* connection its target has.
RowsPlaced ==
    \A k \in Keys : Exists(k) =>
        /\ target[k[1]] # None /\ asg[k].mb = target[k[1]].mb
        /\ asg[k].mb = "config" => k[2] \in Builtins /\ Approved(k)
        /\ Approved(k) => okFor[k] = target[k[1]].conn

\* Two assignments of a target run different probes.
ProbesOnce ==
    \A k, o \in Keys :
        Exists(k) /\ Exists(o) /\ k[1] = o[1] /\ k # o => RunsProbe(k[2]) # RunsProbe(o[2])

\* The approved assignments of a target share an interval, whatever their
\* definitions; those of the file only while it lists the target as active.
IntervalsAgree ==
    \A k, o \in Keys :
        /\ Exists(k) /\ Exists(o) /\ k[1] = o[1]
        /\ asg[k].on /\ Approved(k) /\ asg[o].on /\ Approved(o)
        /\ target[k[1]].mb = "api" \/ target[k[1]].active
        => asg[k].ivl = asg[o].ivl

\* What the checks of a transaction found still holds when it commits.
TxSound(p) ==
    LET k == tx[p].key  row == tx[p].row IN
    /\ lock[k[1]] = p
    /\ target[k[1]] # None /\ target[k[1]].mb = "api"
    /\ row.mb = "api" /\ row.st \in {"draft", "approved"}
    /\ Exists(k) \/ CheckProbeTaken(k)
    /\ row.st = "approved" => OneInterval(k, row)

TransactionsSound == \A p \in Callers : tx[p] # None => TxSound(p)

\* What a replica listed and nobody wrote since is approved, and, if the API
\* manages it, is what was listed.
ListIsCurrent ==
    \A r \in Replicas :
        /\ check[r].pc = "idle" => check[r].rows = {}
        /\ \A row \in check[r].rows : row[1] \notin check[r].touched =>
              /\ Exists(row[1]) /\ Approved(row[1])
              /\ asg[row[1]].mb = "api" =>
                    row[2] = RenderedProbe(row[1], asg[row[1]], target[row[1][1]].conn.host)

\* Every answer a replica has is of what the collector once ran.
AnswersRan ==
    /\ running \subseteq ran
    /\ \A r \in Replicas : /\ cache[r] # None => cache[r].probes \subseteq ran
                           /\ check[r].answer \subseteq ran

IInv ==
    /\ TypeOK /\ RowsPlaced /\ ProbesOnce /\ IntervalsAgree /\ TransactionsSound
    /\ ListIsCurrent /\ AnswersRan /\ ApiAppliedWasRun

-----------------------------------------------------------------------------
(* Lemmas about the helpers and about what a step leaves alone.            *)

CheckType ==
    [pc : {"idle", "listed", "asked"}, rows : SUBSET (Keys \X Probe), touched : SUBSET Keys, answer : SUBSET Probe]
TxType == [key : Keys, row : ProbeAssignment]

LEMMA KeyParts == \A k \in Keys : k[1] \in Targets /\ k[2] \in Definitions
BY DEF Keys

LEMMA KeysDiffer == \A k, o \in Keys : k[1] = o[1] /\ k # o => k[2] # o[2]
BY DEF Keys

LEMMA ProbeNames == /\ \A d \in Definitions : RunsProbe(d) \in Builtins
                    /\ \A d \in Builtins : RunsProbe(d) = d
BY ProbeAssumptions DEF RunsProbe, Definitions, Customs

LEMMA RenderedType ==
    ASSUME NEW k \in Keys, NEW row \in ProbeAssignment, NEW host \in Hosts
    PROVE  RenderedProbe(k, row, host) \in Probe
<1>1. k[1] \in Targets /\ RunsProbe(k[2]) \in Builtins
  BY KeyParts, ProbeNames
<1>2. row.ivl \in Intervals /\ row.ver \in Versions
  BY DEF ProbeAssignment
<1>3. (IF k[2] \in Customs THEN <<k[2], row.ver>> ELSE None) \in {None} \cup Customs \X Versions
  BY <1>2
<1> QED
  BY <1>1, <1>2, <1>3 DEF RenderedProbe, Probe

\* Touch changes nothing but the rows a check in progress knows as written.
LEMMA TouchKeeps ==
    ASSUME TypeOK, ListIsCurrent, NEW ks \in SUBSET Keys, Touch(ks)
    PROVE  /\ check' \in [Replicas -> CheckType]
           /\ \A r \in Replicas : /\ check'[r].pc = check[r].pc /\ check'[r].rows = check[r].rows
                                  /\ check'[r].answer = check[r].answer
           /\ \A r \in Replicas : \A row \in check[r].rows :
                 row[1] \notin check'[r].touched => row[1] \notin check[r].touched /\ row[1] \notin ks
<1>1. check \in [Replicas -> CheckType]
  BY DEF TypeOK, CheckType
<1>2. ASSUME NEW r \in Replicas
      PROVE  /\ check'[r] \in CheckType
             /\ check'[r].pc = check[r].pc /\ check'[r].rows = check[r].rows
             /\ check'[r].answer = check[r].answer
             /\ check'[r].touched = IF check[r].pc = "idle" THEN {} ELSE check[r].touched \cup ks
  <2>1. check'[r] = [check[r] EXCEPT !.touched = IF check[r].pc = "idle" THEN {} ELSE check[r].touched \cup ks]
    BY DEF Touch
  <2>2. check[r] \in CheckType
    BY <1>1
  <2> QED
    BY <2>1, <2>2 DEF CheckType
<1>3. check' = [r \in Replicas |-> check'[r]]
  BY DEF Touch
<1>4. ASSUME NEW r \in Replicas, NEW row \in check[r].rows, row[1] \notin check'[r].touched
      PROVE  row[1] \notin check[r].touched /\ row[1] \notin ks
  <2>1. check[r].pc # "idle"
    BY <1>4 DEF ListIsCurrent
  <2> QED
    BY <1>2, <1>4, <2>1
<1> QED
  BY <1>2, <1>3, <1>4

\* A list stays current when whatever approved row changes, with its target's
\* host, is touched.
LEMMA ListKept ==
    ASSUME TypeOK, ListIsCurrent, NEW ks \in SUBSET Keys, Touch(ks),
           \A k \in Keys : k \notin ks /\ Exists(k) /\ Approved(k) =>
               /\ asg'[k] = asg[k]
               /\ asg[k].mb = "api" => target'[k[1]].conn.host = target[k[1]].conn.host
    PROVE  ListIsCurrent'
<1>1. /\ check' \in [Replicas -> CheckType]
      /\ \A r \in Replicas : check'[r].pc = check[r].pc /\ check'[r].rows = check[r].rows
      /\ \A r \in Replicas : \A row \in check[r].rows :
                 row[1] \notin check'[r].touched => row[1] \notin check[r].touched /\ row[1] \notin ks
  BY TouchKeeps
<1>2. \A r \in Replicas : \A row \in check[r].rows : row[1] \in Keys
  BY DEF TypeOK
<1>3. ASSUME NEW r \in Replicas, NEW row \in check[r].rows, row[1] \notin check'[r].touched
      PROVE  /\ Exists(row[1])' /\ Approved(row[1])'
             /\ (asg[row[1]].mb = "api" =>
                    row[2] = RenderedProbe(row[1], asg[row[1]], target[row[1][1]].conn.host))'
  <2>1. row[1] \in Keys /\ row[1] \notin ks /\ Exists(row[1]) /\ Approved(row[1])
    BY <1>1, <1>2, <1>3 DEF ListIsCurrent
  <2>2. asg'[row[1]] = asg[row[1]]
    BY <2>1
  <2>3. Exists(row[1])' /\ Approved(row[1])'
    BY <2>1, <2>2 DEF Exists, Approved
  <2>4. ASSUME asg[row[1]].mb = "api"
        PROVE  row[2] = RenderedProbe(row[1], asg'[row[1]], target'[row[1][1]].conn.host)
    <3>1. row[2] = RenderedProbe(row[1], asg[row[1]], target[row[1][1]].conn.host)
      BY <1>1, <1>3, <2>4 DEF ListIsCurrent
    <3> QED
      BY <2>1, <2>2, <2>4, <3>1
  <2> QED
    BY <2>2, <2>3, <2>4 DEF RenderedProbe
<1>4. \A r \in Replicas : check'[r].pc = "idle" => check'[r].rows = {}
  BY <1>1 DEF ListIsCurrent
<1> QED
  BY <1>1, <1>3, <1>4 DEF ListIsCurrent

\* The same when no check is touched.
LEMMA ListUntouched ==
    ASSUME TypeOK, ListIsCurrent, UNCHANGED check,
           \A k \in Keys : Exists(k) /\ Approved(k) =>
               /\ asg'[k] = asg[k]
               /\ asg[k].mb = "api" => target'[k[1]].conn.host = target[k[1]].conn.host
    PROVE  ListIsCurrent'
<1>2. \A r \in Replicas : \A row \in check[r].rows : row[1] \in Keys
  BY DEF TypeOK
<1>3. ASSUME NEW r \in Replicas, NEW row \in check[r].rows, row[1] \notin check[r].touched
      PROVE  /\ Exists(row[1])' /\ Approved(row[1])'
             /\ (asg[row[1]].mb = "api" =>
                    row[2] = RenderedProbe(row[1], asg[row[1]], target[row[1][1]].conn.host))'
  <2>1. row[1] \in Keys /\ Exists(row[1]) /\ Approved(row[1])
    BY <1>2, <1>3 DEF ListIsCurrent
  <2>2. asg'[row[1]] = asg[row[1]]
    BY <2>1
  <2>3. Exists(row[1])' /\ Approved(row[1])'
    BY <2>1, <2>2 DEF Exists, Approved
  <2>4. ASSUME asg[row[1]].mb = "api"
        PROVE  row[2] = RenderedProbe(row[1], asg'[row[1]], target'[row[1][1]].conn.host)
    <3>1. row[2] = RenderedProbe(row[1], asg[row[1]], target[row[1][1]].conn.host)
      BY <1>3, <2>4 DEF ListIsCurrent
    <3> QED
      BY <2>1, <2>2, <2>4, <3>1
  <2> QED
    BY <2>2, <2>3, <2>4 DEF RenderedProbe
<1> QED
  BY <1>3 DEF ListIsCurrent

\* A target whose row is locked is changed by the transaction that holds it
\* alone.
LEMMA TransactionsKept ==
    ASSUME TypeOK, TransactionsSound, UNCHANGED <<lock, tx>>,
           \A t \in Targets : lock[t] # None => target'[t] = target[t],
           \A k \in Keys : lock[k[1]] # None => asg'[k] = asg[k]
    PROVE  TransactionsSound'
<1> SUFFICES ASSUME NEW p \in Callers, tx[p] # None
             PROVE  TxSound(p)'
  BY DEF TransactionsSound
<1> DEFINE k == tx[p].key  row == tx[p].row
<1>1. k \in Keys /\ k[1] \in Targets
  BY KeyParts DEF TypeOK
<1>2. TxSound(p)
  BY DEF TransactionsSound
<1>3. lock[k[1]] = p /\ lock[k[1]] # None
  BY <1>2, RowAssumptions DEF TxSound
<1>4. target'[k[1]] = target[k[1]] /\ asg'[k] = asg[k]
  BY <1>1, <1>3
<1>5. \A o \in Keys : o[1] = k[1] => asg'[o] = asg[o]
  BY <1>3
<1>6. CheckProbeTaken(k) => CheckProbeTaken(k)'
  BY <1>4, <1>5 DEF CheckProbeTaken, ListTargetAssignmentProbes, Exists
<1>7. OneInterval(k, row) => OneInterval(k, row)'
  BY <1>5 DEF OneInterval, ListTargetAssignmentProbes, Exists
<1> QED
  BY <1>2, <1>4, <1>6, <1>7 DEF TxSound, Exists

\* Steps that write no row, target or approval leave the rows as they are.
Rows == RowsPlaced /\ ProbesOnce /\ IntervalsAgree

LEMMA RowsKept ==
    ASSUME Rows, UNCHANGED <<target, asg, okFor>>
    PROVE  Rows'
BY DEF Rows, RowsPlaced, ProbesOnce, IntervalsAgree, Exists, Approved

LEMMA AppliedKept ==
    ASSUME TypeOK, ApiAppliedWasRun, ran \subseteq ran',
           \A k \in Keys : Exists(k)' /\ asg'[k].mb = "api" /\ asg'[k].st = "applied" =>
               asg'[k] = asg[k] /\ target'[k[1]].conn.host = target[k[1]].conn.host
    PROVE  ApiAppliedWasRun'
<1> SUFFICES ASSUME NEW k \in Keys, Exists(k)', asg'[k].mb = "api", asg'[k].st = "applied"
             PROVE  RunAsItStands(k)'
  BY DEF ApiAppliedWasRun
<1>1. asg'[k] = asg[k] /\ target'[k[1]].conn.host = target[k[1]].conn.host
  OBVIOUS
<1>2. RenderedProbe(k, asg[k], target[k[1]].conn.host) \in ran
  BY <1>1 DEF ApiAppliedWasRun, RunAsItStands, Exists
<1>3. RenderedProbe(k, asg'[k], target'[k[1]].conn.host) \in ran'
  BY <1>1, <1>2
<1> QED
  BY <1>3 DEF RunAsItStands, RenderedProbe, RunsProbe

-----------------------------------------------------------------------------
(* The first states.                                                       *)

LEMMA InitHolds == Init => IInv
<1> SUFFICES ASSUME Init PROVE IInv
  OBVIOUS
<1>1. PICK stock \in Stocks : target = stock.target /\ def = stock.def
  BY DEF Init
<1>2. target \in [Targets -> Target \cup {None}] /\ def \in [Customs -> Definition \cup {None}]
  BY <1>1, RowAssumptions
<1>3. \A r \in Replicas : check[r].pc = "idle" /\ check[r].rows = {} /\ check[r].touched = {} /\ check[r].answer = {}
  BY DEF Init, Idle
<1>4. Idle \in CheckType
  BY DEF Idle, CheckType
<1>5. TypeOK
  <2>1. check \in [Replicas -> CheckType]
    BY <1>4 DEF Init
  <2> QED
    BY <1>2, <2>1 DEF Init, TypeOK, CheckType
<1>6. RowsPlaced /\ ProbesOnce /\ IntervalsAgree /\ ApiAppliedWasRun
  BY DEF Init, RowsPlaced, ProbesOnce, IntervalsAgree, ApiAppliedWasRun, Exists
<1>7. TransactionsSound
  BY DEF Init, TransactionsSound
<1>8. ListIsCurrent /\ AnswersRan
  BY <1>3 DEF Init, ListIsCurrent, AnswersRan
<1> QED
  BY <1>5, <1>6, <1>7, <1>8 DEF IInv

-----------------------------------------------------------------------------
(* Steps that leave the targets and the assignments alone.                 *)

LEMMA StutterKeeps == IInv /\ UNCHANGED vars => IInv'
<1> SUFFICES ASSUME IInv, UNCHANGED vars PROVE IInv'
  OBVIOUS
<1>1. Rows' /\ TypeOK'
  BY RowsKept DEF IInv, Rows, vars, TypeOK
<1>2. TransactionsSound'
  BY TransactionsKept DEF IInv, vars
<1>3. ListIsCurrent'
  BY ListUntouched DEF IInv, vars
<1>4. ApiAppliedWasRun'
  BY AppliedKept DEF IInv, vars
<1>5. AnswersRan'
  BY DEF IInv, vars, AnswersRan
<1> QED
  BY <1>1, <1>2, <1>3, <1>4, <1>5 DEF IInv, Rows

\* What the rest of the invariant does not read: definitions.
LEMMA DefinitionsKeep ==
    ASSUME IInv, def' \in [Customs -> Definition \cup {None}],
           UNCHANGED <<target, asg, api, okFor, collector, checker>>
    PROVE  IInv'
<1> USE DEF api, collector, checker
<1>1. Rows' /\ TypeOK'
  BY RowsKept DEF IInv, Rows, TypeOK
<1>2. TransactionsSound'
  BY TransactionsKept DEF IInv
<1>3. ListIsCurrent'
  BY ListUntouched DEF IInv
<1>4. ApiAppliedWasRun'
  BY AppliedKept DEF IInv
<1>5. AnswersRan'
  BY DEF IInv, AnswersRan
<1> QED
  BY <1>1, <1>2, <1>3, <1>4, <1>5 DEF IInv, Rows

LEMMA PostDefinitionKeeps ==
    ASSUME IInv, NEW d \in Customs, Create(d)
    PROVE  IInv'
<1>1. InsertProbeDefinition(1) \in Definition
  BY RowAssumptions DEF InsertProbeDefinition, Definition
<1>2. def' \in [Customs -> Definition \cup {None}]
  BY <1>1 DEF IInv, TypeOK, Create
<1> QED
  BY <1>2, DefinitionsKeep DEF Create

LEMMA AddVersionKeeps ==
    ASSUME IInv, NEW d \in Customs, NEW from \in Versions, AddVersion(d, from)
    PROVE  IInv'
<1>1. InsertProbeDefinition(from + 1) \in Definition
  BY DEF InsertProbeDefinition, Definition, AddVersion
<1>2. def' \in [Customs -> Definition \cup {None}]
  BY <1>1 DEF IInv, TypeOK, AddVersion
<1> QED
  BY <1>2, DefinitionsKeep DEF AddVersion

LEMMA SetEnabledKeeps ==
    ASSUME IInv, NEW d \in Customs, NEW e \in BOOLEAN, SetEnabled(d, e)
    PROVE  IInv'
<1>1. def[d] \in Definition
  BY DEF IInv, TypeOK, SetEnabled
<1>2. [def[d] EXCEPT !.enabled = e] \in Definition
  BY <1>1 DEF Definition
<1>3. def' \in [Customs -> Definition \cup {None}]
  BY <1>2 DEF IInv, TypeOK, SetEnabled
<1> QED
  BY <1>3, DefinitionsKeep DEF SetEnabled

LEMMA DeployKeeps ==
    ASSUME IInv, Deploy
    PROVE  IInv'
<1> DEFINE now == Render(asg, target)
<1>1. now \subseteq Probe
  <2> SUFFICES ASSUME NEW k \in ListRenderedProbeAssignments(asg, target)
               PROVE  RenderedProbe(k, asg[k], target[k[1]].conn.host) \in Probe
    BY DEF Render
  <2>1. k \in Keys /\ asg[k] \in ProbeAssignment /\ target[k[1]] # None
    BY DEF ListRenderedProbeAssignments, IInv, TypeOK, RowsPlaced, Exists
  <2>2. target[k[1]].conn.host \in Hosts
    BY <2>1, KeyParts DEF IInv, TypeOK, Target, Conn
  <2> QED
    BY <2>1, <2>2, RenderedType
<1>2. running' = now /\ ran' = ran \cup now
  BY DEF Deploy
<1> HIDE DEF now
<1>3. UNCHANGED <<target, def, asg, api, okFor, checker>>
  BY DEF Deploy
<1> USE DEF api, checker
<1>4. Rows' /\ TypeOK'
  BY <1>1, <1>2, <1>3, RowsKept DEF IInv, Rows, TypeOK
<1>5. TransactionsSound'
  BY <1>3, TransactionsKept DEF IInv
<1>6. ListIsCurrent'
  BY <1>3, ListUntouched DEF IInv
<1>7. ApiAppliedWasRun'
  BY <1>2, <1>3, AppliedKept DEF IInv
<1>8. AnswersRan'
  BY <1>2, <1>3 DEF IInv, AnswersRan
<1> QED
  BY <1>4, <1>5, <1>6, <1>7, <1>8 DEF IInv, Rows

-----------------------------------------------------------------------------
(* The checks of a transaction.                                            *)

LEMMA BeginKeeps ==
    ASSUME IInv, NEW p \in Callers, NEW k \in Keys, NEW row \in ProbeAssignment, Begin(p, k, row),
           target[k[1]] # None, target[k[1]].mb = "api", row.mb = "api", row.st \in {"draft", "approved"},
           Exists(k) \/ CheckProbeTaken(k),
           row.st = "approved" => OneInterval(k, row)
    PROVE  IInv'
<1>1. UNCHANGED <<target, def, asg, okFor, collector, checker>>
  BY DEF Begin
<1>2. /\ tx[p] = None /\ lock[k[1]] = None
      /\ lock' = [lock EXCEPT ![k[1]] = p] /\ tx' = [tx EXCEPT ![p] = [key |-> k, row |-> row]]
  BY DEF Begin
<1> USE DEF collector, checker
<1>3. Rows'
  BY <1>1, RowsKept DEF IInv, Rows
<1>4. TypeOK'
  <2>1. lock' \in [Targets -> Callers \cup {None}]
    BY <1>2, KeyParts DEF IInv, TypeOK
  <2>2. tx' \in [Callers -> TxType \cup {None}]
    BY <1>2 DEF IInv, TypeOK, TxType
  <2> QED
    BY <1>1, <2>1, <2>2 DEF IInv, TypeOK, TxType
<1>5. TransactionsSound'
  <2> SUFFICES ASSUME NEW q \in Callers, tx'[q] # None
               PROVE  TxSound(q)'
    BY DEF TransactionsSound
  <2>1. CASE q = p
    <3>1. tx'[q].key = k /\ tx'[q].row = row
      BY <1>2, <2>1 DEF IInv, TypeOK
    <3>2. lock'[k[1]] = q
      BY <1>2, <2>1, KeyParts DEF IInv, TypeOK
    <3>3. /\ CheckProbeTaken(k) => CheckProbeTaken(k)'
          /\ OneInterval(k, row) => OneInterval(k, row)'
      BY <1>1 DEF CheckProbeTaken, OneInterval, ListTargetAssignmentProbes, Exists
    <3> QED
      BY <1>1, <3>1, <3>2, <3>3 DEF TxSound, Exists
  <2>2. CASE q # p
    <3>1. tx'[q] = tx[q]
      BY <1>2, <2>2 DEF IInv, TypeOK
    <3>2. TxSound(q)
      BY <3>1 DEF IInv, TransactionsSound
    <3>3. tx[q].key \in Keys /\ tx[q].key[1] \in Targets
      BY <3>1, KeyParts DEF IInv, TypeOK
    <3>4. lock[tx[q].key[1]] = q /\ q # None
      BY <3>2, RowAssumptions DEF TxSound
    <3>5. tx[q].key[1] # k[1]
      BY <1>2, <3>4
    <3>6. lock'[tx[q].key[1]] = q
      BY <1>2, <3>3, <3>4, <3>5 DEF IInv, TypeOK
    <3>7. /\ CheckProbeTaken(tx[q].key) => CheckProbeTaken(tx[q].key)'
          /\ OneInterval(tx[q].key, tx[q].row) => OneInterval(tx[q].key, tx[q].row)'
      BY <1>1, <3>1 DEF CheckProbeTaken, OneInterval, ListTargetAssignmentProbes, Exists
    <3> QED
      BY <1>1, <3>1, <3>2, <3>6, <3>7 DEF TxSound, Exists
  <2> QED
    BY <2>1, <2>2
<1>6. ListIsCurrent'
  BY <1>1, ListUntouched DEF IInv
<1>7. ApiAppliedWasRun'
  BY <1>1, AppliedKept DEF IInv
<1>8. AnswersRan'
  BY <1>1 DEF IInv, AnswersRan
<1> QED
  BY <1>3, <1>4, <1>5, <1>6, <1>7, <1>8 DEF IInv, Rows

LEMMA CreateAssignmentKeeps ==
    ASSUME IInv, NEW p \in Callers, NEW k \in Keys, NEW v \in Versions, NEW ivl \in Intervals,
           CreateProbeAssignment(p, k, v, ivl)
    PROVE  IInv'
<1> DEFINE row == NewAssignmentRow(v, ivl)
<1>1. row \in ProbeAssignment /\ row.mb = "api" /\ row.st = "draft"
  BY DEF NewAssignmentRow, ProbeAssignment
<1>2. target[k[1]] # None /\ target[k[1]].mb = "api" /\ CheckProbeTaken(k) /\ Begin(p, k, row)
  BY DEF CreateProbeAssignment
<1> QED
  BY <1>1, <1>2, BeginKeeps

\* An assignment the API may change is of a target the API may change.
LEMMA ChangeableRow ==
    ASSUME IInv, NEW k \in Keys, ChangeAssignment(k)
    PROVE  /\ Exists(k) /\ asg[k] \in ProbeAssignment /\ asg[k].mb = "api"
           /\ target[k[1]] \in Target /\ target[k[1]] # None /\ target[k[1]].mb = "api"
<1>1. Exists(k) /\ asg[k].mb = "api" /\ asg[k] \in ProbeAssignment
  BY DEF ChangeAssignment, IInv, TypeOK, Exists
<1>2. target[k[1]] # None /\ target[k[1]].mb = "api"
  BY <1>1 DEF IInv, RowsPlaced
<1>3. target[k[1]] \in Target
  BY <1>2, KeyParts DEF IInv, TypeOK
<1> QED
  BY <1>1, <1>2, <1>3

LEMMA UpdateAssignmentKeeps ==
    ASSUME IInv, NEW p \in Callers, NEW k \in Keys, NEW v \in Versions, NEW ivl \in Intervals,
           NEW on \in BOOLEAN, UpdateProbeAssignment(p, k, v, ivl, on)
    PROVE  IInv'
<1> DEFINE row == [asg[k] EXCEPT !.ver = v, !.ivl = ivl, !.on = on, !.st = "draft"]
<1>1. ChangeAssignment(k) /\ Begin(p, k, row)
  BY DEF UpdateProbeAssignment
<1>2. /\ Exists(k) /\ asg[k] \in ProbeAssignment /\ asg[k].mb = "api"
      /\ target[k[1]] # None /\ target[k[1]].mb = "api"
  BY <1>1, ChangeableRow
<1>3. row \in ProbeAssignment /\ row.mb = "api" /\ row.st = "draft"
  BY <1>2 DEF ProbeAssignment
<1> QED
  BY <1>1, <1>2, <1>3, BeginKeeps

LEMMA ApproveKeeps ==
    ASSUME IInv, NEW p \in Callers, NEW k \in Keys, ApproveProbeAssignment(p, k)
    PROVE  IInv'
<1> DEFINE row == [asg[k] EXCEPT !.st = "approved"]
<1>1. ChangeAssignment(k) /\ Begin(p, k, row) /\ OneInterval(k, asg[k])
  BY DEF ApproveProbeAssignment
<1>2. /\ Exists(k) /\ asg[k] \in ProbeAssignment /\ asg[k].mb = "api"
      /\ target[k[1]] # None /\ target[k[1]].mb = "api"
  BY <1>1, ChangeableRow
<1>3. row \in ProbeAssignment /\ row.mb = "api" /\ row.st = "approved" /\ row.on = asg[k].on /\ row.ivl = asg[k].ivl
  BY <1>2 DEF ProbeAssignment, ApprovedStates
<1>4. OneInterval(k, row)
  BY <1>1, <1>3 DEF OneInterval
<1> QED
  BY <1>1, <1>2, <1>3, <1>4, BeginKeeps

-----------------------------------------------------------------------------
(* The targets.                                                            *)

LEMMA CreateTargetKeeps ==
    ASSUME IInv, NEW t \in Targets, NEW conn \in Conn, CreateDatabaseTarget(t, conn)
    PROVE  IInv'
<1>1. target[t] = None /\ target' = [target EXCEPT ![t] = NewTargetRow(conn)]
  BY DEF CreateDatabaseTarget
<1>2. UNCHANGED <<def, asg, api, okFor, collector, checker>>
  BY DEF CreateDatabaseTarget
<1> USE DEF api, collector, checker
<1>3. NewTargetRow(conn) \in Target
  BY DEF NewTargetRow, Target
<1>4. TypeOK'
  <2>1. target' \in [Targets -> Target \cup {None}]
    BY <1>1, <1>3 DEF IInv, TypeOK
  <2> QED
    BY <1>2, <2>1 DEF IInv, TypeOK
<1>5. \A k \in Keys : Exists(k) => target'[k[1]] = target[k[1]]
  BY <1>1, KeyParts DEF IInv, TypeOK, RowsPlaced
<1>6. Rows'
  BY <1>2, <1>5 DEF IInv, Rows, RowsPlaced, ProbesOnce, IntervalsAgree, Exists, Approved
<1>7. TransactionsSound'
  <2> SUFFICES ASSUME NEW p \in Callers, tx[p] # None
               PROVE  TxSound(p)'
    BY <1>2 DEF TransactionsSound
  <2>2. TxSound(p)
    BY DEF IInv, TransactionsSound
  <2>3. tx[p].key \in Keys /\ tx[p].key[1] \in Targets
    BY KeyParts DEF IInv, TypeOK
  <2>4. target'[tx[p].key[1]] = target[tx[p].key[1]]
    BY <1>1, <2>2, <2>3 DEF TxSound, IInv, TypeOK
  <2>5. /\ CheckProbeTaken(tx[p].key) => CheckProbeTaken(tx[p].key)'
        /\ OneInterval(tx[p].key, tx[p].row) => OneInterval(tx[p].key, tx[p].row)'
    BY <1>2 DEF CheckProbeTaken, OneInterval, ListTargetAssignmentProbes, Exists
  <2> QED
    BY <1>2, <2>2, <2>4, <2>5 DEF TxSound, Exists
<1>8. ListIsCurrent'
  BY <1>2, <1>5, ListUntouched DEF IInv
<1>9. ApiAppliedWasRun'
  BY <1>2, <1>5, AppliedKept DEF IInv, Exists
<1>10. AnswersRan'
  BY <1>2 DEF IInv, AnswersRan
<1> QED
  BY <1>4, <1>6, <1>7, <1>8, <1>9, <1>10 DEF IInv, Rows

LEMMA DeleteTargetKeeps ==
    ASSUME IInv, NEW t \in Targets, DeleteDatabaseTarget(t)
    PROVE  IInv'
<1>1. /\ lock[t] = None /\ target' = [target EXCEPT ![t] = None]
      /\ \A d \in Definitions : ~Exists(<<t, d>>)
  BY DEF DeleteDatabaseTarget
<1>2. UNCHANGED <<def, asg, api, okFor, collector, checker>>
  BY DEF DeleteDatabaseTarget
<1> USE DEF api, collector, checker
<1>3. TypeOK'
  <2>1. target' \in [Targets -> Target \cup {None}]
    BY <1>1 DEF IInv, TypeOK
  <2> QED
    BY <1>2, <2>1 DEF IInv, TypeOK
<1>4. \A k \in Keys : Exists(k) => k[1] # t
  BY <1>1 DEF Keys
<1>5. \A k \in Keys : Exists(k) => target'[k[1]] = target[k[1]]
  BY <1>1, <1>4, KeyParts DEF IInv, TypeOK
<1>6. Rows'
  BY <1>2, <1>5 DEF IInv, Rows, RowsPlaced, ProbesOnce, IntervalsAgree, Exists, Approved
<1>7. TransactionsSound'
  <2>1. \A u \in Targets : lock[u] # None => target'[u] = target[u]
    BY <1>1 DEF IInv, TypeOK
  <2> QED
    BY <1>2, <2>1, TransactionsKept DEF IInv
<1>8. ListIsCurrent'
  BY <1>2, <1>5, ListUntouched DEF IInv
<1>9. ApiAppliedWasRun'
  BY <1>2, <1>5, AppliedKept DEF IInv, Exists
<1>10. AnswersRan'
  BY <1>2 DEF IInv, AnswersRan
<1> QED
  BY <1>3, <1>6, <1>7, <1>8, <1>9, <1>10 DEF IInv, Rows

LEMMA UpdateTargetKeeps ==
    ASSUME IInv, NEW t \in Targets, NEW conn \in Conn, NEW active \in BOOLEAN,
           UpdateDatabaseTarget(t, conn, active)
    PROVE  IInv'
<1> DEFINE next == IF conn = target[t].conn THEN asg ELSE ResetApprovals(t)
           written == {k \in Keys : next[k] # asg[k]}
<1>1. /\ lock[t] = None /\ target[t] # None /\ target[t].mb = "api"
      /\ target' = [target EXCEPT ![t].conn = conn, ![t].active = active]
      /\ asg' = next /\ Touch(written)
  BY DEF UpdateDatabaseTarget
<1>2. UNCHANGED <<def, api, okFor, collector, cache>>
  BY DEF UpdateDatabaseTarget
<1> USE DEF api, collector
<1>3. target[t] \in Target
  BY <1>1 DEF IInv, TypeOK
<1>4. /\ target'[t] \in Target /\ target'[t].conn = conn
      /\ target'[t].active = active /\ target'[t].mb = "api"
  BY <1>1, <1>3 DEF IInv, TypeOK, Target
<1>5. \A u \in Targets : u # t => target'[u] = target[u]
  BY <1>1 DEF IInv, TypeOK
<1>6. target' \in [Targets -> Target \cup {None}]
  <2>1. target' = [u \in Targets |-> target'[u]]
    BY <1>1 DEF IInv, TypeOK
  <2> QED
    BY <2>1, <1>4, <1>5 DEF IInv, TypeOK
<1>7. ASSUME NEW k \in Keys
      PROVE  /\ next[k] \in ProbeAssignment \cup {None}
             /\ next[k] # None <=> Exists(k)
             /\ k[1] # t \/ conn = target[t].conn => next[k] = asg[k]
             /\ Exists(k) => /\ next[k].mb = asg[k].mb /\ next[k].ivl = asg[k].ivl /\ next[k].on = asg[k].on
                             /\ next[k].st = asg[k].st \/ next[k].st = "draft"
                             /\ next[k].st \in ApprovedStates => next[k] = asg[k]
             /\ k[1] = t /\ conn # target[t].conn /\ Exists(k) => next[k].st \notin ApprovedStates
  <2>1. asg[k] \in ProbeAssignment \cup {None} /\ None \notin ProbeAssignment
    BY RowAssumptions DEF IInv, TypeOK
  <2>2. CASE conn # target[t].conn /\ k[1] = t /\ Exists(k) /\ asg[k].st \in ApprovedStates
    <3>1. next[k] = [asg[k] EXCEPT !.st = "draft"]
      BY <2>2 DEF ResetApprovals, ResetProbeAssignment
    <3>2. asg[k] \in ProbeAssignment
      BY <2>1, <2>2 DEF Exists
    <3>3. /\ next[k] \in ProbeAssignment /\ next[k].mb = asg[k].mb /\ next[k].ivl = asg[k].ivl
          /\ next[k].on = asg[k].on /\ next[k].st = "draft"
      BY <3>1, <3>2 DEF ProbeAssignment
    <3> HIDE DEF next
    <3> QED
      BY <2>1, <2>2, <3>3 DEF ApprovedStates, Exists
  <2>3. CASE ~(conn # target[t].conn /\ k[1] = t /\ Exists(k) /\ asg[k].st \in ApprovedStates)
    <3>1. next[k] = asg[k]
      BY <2>3 DEF ResetApprovals
    <3> HIDE DEF next
    <3> QED
      BY <2>1, <2>3, <3>1 DEF Exists
  <2> QED
    BY <2>2, <2>3
<1>8. next = [k \in Keys |-> next[k]]
  BY DEF ResetApprovals, IInv, TypeOK
<1>9. next \in [Keys -> ProbeAssignment \cup {None}]
  BY <1>7, <1>8
<1>10. /\ check' \in [Replicas -> CheckType]
       /\ \A r \in Replicas : check'[r].answer = check[r].answer
  BY <1>1, TouchKeeps DEF IInv
<1> HIDE DEF next
<1>11. TypeOK'
  BY <1>1, <1>2, <1>6, <1>9, <1>10 DEF IInv, TypeOK, CheckType
<1>12. Rows'
  <2>1. ASSUME NEW k \in Keys, Exists(k)'
        PROVE  /\ Exists(k) /\ target[k[1]] # None /\ target'[k[1]] # None
               /\ target'[k[1]].mb = target[k[1]].mb /\ asg'[k].mb = target'[k[1]].mb
               /\ asg'[k].on = asg[k].on /\ asg'[k].ivl = asg[k].ivl
               /\ Approved(k)' => Approved(k) /\ asg'[k] = asg[k] /\ target'[k[1]].conn = target[k[1]].conn
               /\ asg[k].mb = "config" => target'[k[1]] = target[k[1]] /\ asg'[k] = asg[k]
    <3>1. Exists(k) /\ target[k[1]] # None /\ asg[k].mb = target[k[1]].mb
      BY <1>1, <1>7, <2>1 DEF Exists, IInv, RowsPlaced
    <3>2. target'[k[1]] # None /\ target'[k[1]].mb = target[k[1]].mb
      BY <1>1, <1>4, <1>5, <3>1, KeyParts, RowAssumptions
    <3>3. Approved(k)' => asg'[k] = asg[k] /\ Approved(k)
      BY <1>1, <1>7, <3>1 DEF Approved
    <3>4. Approved(k)' => target'[k[1]].conn = target[k[1]].conn
      BY <1>1, <1>4, <1>5, <1>7, <3>1, KeyParts DEF Approved
    <3>5. asg[k].mb = "config" => target'[k[1]] = target[k[1]] /\ asg'[k] = asg[k]
      BY <1>1, <1>5, <1>7, <3>1, KeyParts
    <3> QED
      BY <1>1, <1>7, <3>1, <3>2, <3>3, <3>4, <3>5
  <2>2. RowsPlaced'
    <3> SUFFICES ASSUME NEW k \in Keys, Exists(k)'
                 PROVE  /\ target'[k[1]] # None /\ asg'[k].mb = target'[k[1]].mb
                        /\ asg'[k].mb = "config" => k[2] \in Builtins /\ Approved(k)'
                        /\ Approved(k)' => okFor'[k] = target'[k[1]].conn
      BY DEF RowsPlaced
    <3>1. asg'[k].mb = "config" => asg[k].mb = "config"
      BY <1>1, <1>7, <2>1
    <3> QED
      BY <1>2, <2>1, <3>1 DEF IInv, RowsPlaced, Approved
  <2>3. ProbesOnce'
    BY <2>1 DEF ProbesOnce, IInv
  <2>4. IntervalsAgree'
    <3> SUFFICES ASSUME NEW k \in Keys, NEW o \in Keys, Exists(k)', Exists(o)', k[1] = o[1],
                        asg'[k].on, Approved(k)', asg'[o].on, Approved(o)',
                        target'[k[1]].mb = "api" \/ target'[k[1]].active
                 PROVE  asg'[k].ivl = asg'[o].ivl
      BY DEF IntervalsAgree
    <3>1. /\ Exists(k) /\ Exists(o) /\ asg[k].on /\ Approved(k) /\ asg[o].on /\ Approved(o)
          /\ asg'[k].ivl = asg[k].ivl /\ asg'[o].ivl = asg[o].ivl
      BY <2>1
    <3>2. target[k[1]].mb = "api" \/ target[k[1]].active
      BY <1>1, <1>5, KeyParts
    <3> QED
      BY <3>1, <3>2 DEF IInv, IntervalsAgree
  <2> QED
    BY <2>2, <2>3, <2>4 DEF Rows
<1>13. TransactionsSound'
  <2>1. \A u \in Targets : lock[u] # None => target'[u] = target[u]
    BY <1>1, <1>5
  <2>2. \A k \in Keys : lock[k[1]] # None => asg'[k] = asg[k]
    BY <1>1, <1>7
  <2> QED
    BY <1>2, <2>1, <2>2, TransactionsKept DEF IInv
<1>14. ListIsCurrent'
  <2>1. ASSUME NEW k \in Keys, k \notin written, Exists(k), Approved(k)
        PROVE  /\ asg'[k] = asg[k]
               /\ target'[k[1]].conn.host = target[k[1]].conn.host
    <3>1. asg'[k] = asg[k]
      BY <1>1, <2>1
    <3>2. k[1] # t \/ conn = target[t].conn
      BY <1>1, <1>7, <2>1, <3>1 DEF Approved
    <3> QED
      BY <1>4, <1>5, <3>1, <3>2, KeyParts
  <2>2. written \in SUBSET Keys
    OBVIOUS
  <2> QED
    BY <1>1, <2>1, <2>2, ListKept DEF IInv
<1>15. ApiAppliedWasRun'
  <2>1. ASSUME NEW k \in Keys, Exists(k)', asg'[k].st = "applied"
        PROVE  asg'[k] = asg[k] /\ target'[k[1]].conn.host = target[k[1]].conn.host
    <3>1. Exists(k) /\ next[k].st \in ApprovedStates
      BY <1>1, <1>7, <2>1 DEF Exists, ApprovedStates
    <3>2. k[1] # t \/ conn = target[t].conn
      BY <1>7, <3>1
    <3> QED
      BY <1>1, <1>4, <1>5, <1>7, <3>1, <3>2, KeyParts
  <2> QED
    BY <1>2, <2>1, AppliedKept DEF IInv
<1>16. AnswersRan'
  BY <1>2, <1>10 DEF IInv, AnswersRan
<1> QED
  BY <1>11, <1>12, <1>13, <1>14, <1>15, <1>16 DEF IInv, Rows

-----------------------------------------------------------------------------
(* The assignments.                                                        *)

LEMMA RejectKeeps ==
    ASSUME IInv, NEW k \in Keys, RejectProbeAssignment(k)
    PROVE  IInv'
<1>1. /\ lock[k[1]] = None /\ ChangeAssignment(k) /\ asg[k].st = "draft"
      /\ asg' = [asg EXCEPT ![k].st = "rejected"] /\ Touch({k})
  BY DEF RejectProbeAssignment
<1>2. UNCHANGED <<target, def, api, okFor, collector, cache>>
  BY DEF RejectProbeAssignment
<1> USE DEF api, collector
<1>3. Exists(k) /\ asg[k] \in ProbeAssignment /\ asg[k].mb = "api"
  BY <1>1, ChangeableRow
<1>4. asg'[k] \in ProbeAssignment /\ asg'[k].st = "rejected" /\ asg'[k].mb = "api"
  BY <1>1, <1>3 DEF IInv, TypeOK, ProbeAssignment
<1>5. \A o \in Keys : o # k => asg'[o] = asg[o]
  BY <1>1 DEF IInv, TypeOK
<1>6. /\ check' \in [Replicas -> CheckType]
      /\ \A r \in Replicas : check'[r].answer = check[r].answer
  BY <1>1, TouchKeeps DEF IInv
<1>7. TypeOK'
  <2>1. asg' = [o \in Keys |-> asg'[o]]
    BY <1>1 DEF IInv, TypeOK
  <2>2. asg' \in [Keys -> ProbeAssignment \cup {None}]
    BY <2>1, <1>4, <1>5 DEF IInv, TypeOK
  <2> QED
    BY <1>2, <1>6, <2>2 DEF IInv, TypeOK, CheckType
<1>8. ~Approved(k)'
  BY <1>4 DEF Approved, ApprovedStates
<1>9. \A o \in Keys : Exists(o)' => Exists(o)
  BY <1>3, <1>5 DEF Exists
<1>10. RowsPlaced'
  BY <1>2, <1>3, <1>4, <1>5, <1>8, <1>9 DEF IInv, RowsPlaced, Exists, Approved
<1>11. ProbesOnce'
  BY <1>9 DEF IInv, ProbesOnce
<1>12. IntervalsAgree'
  BY <1>2, <1>5, <1>8, <1>9 DEF IInv, IntervalsAgree, Approved
<1>13. TransactionsSound'
  <2>1. \A o \in Keys : lock[o[1]] # None => asg'[o] = asg[o]
    BY <1>1, <1>5
  <2> QED
    BY <1>2, <2>1, TransactionsKept DEF IInv
<1>14. ListIsCurrent'
  BY <1>1, <1>2, <1>5, ListKept DEF IInv
<1>15. ApiAppliedWasRun'
  BY <1>2, <1>4, <1>5, AppliedKept DEF IInv
<1>16. AnswersRan'
  BY <1>2, <1>6 DEF IInv, AnswersRan
<1> QED
  BY <1>7, <1>10, <1>11, <1>12, <1>13, <1>14, <1>15, <1>16 DEF IInv

LEMMA DeleteAssignmentKeeps ==
    ASSUME IInv, NEW k \in Keys, DeleteProbeAssignment(k)
    PROVE  IInv'
<1>1. /\ lock[k[1]] = None /\ asg' = [asg EXCEPT ![k] = None] /\ Touch({k})
  BY DEF DeleteProbeAssignment
<1>2. UNCHANGED <<target, def, api, okFor, collector, cache>>
  BY DEF DeleteProbeAssignment
<1> USE DEF api, collector
<1>3. ~Exists(k)' /\ \A o \in Keys : o # k => asg'[o] = asg[o]
  BY <1>1 DEF IInv, TypeOK, Exists
<1>4. /\ check' \in [Replicas -> CheckType]
      /\ \A r \in Replicas : check'[r].answer = check[r].answer
  BY <1>1, TouchKeeps DEF IInv
<1>5. TypeOK'
  <2>1. asg' \in [Keys -> ProbeAssignment \cup {None}]
    BY <1>1 DEF IInv, TypeOK
  <2> QED
    BY <1>2, <1>4, <2>1 DEF IInv, TypeOK, CheckType
<1>6. RowsPlaced'
  BY <1>2, <1>3 DEF IInv, RowsPlaced, Exists, Approved
<1>7. ProbesOnce'
  BY <1>3 DEF IInv, ProbesOnce, Exists
<1>8. IntervalsAgree'
  BY <1>2, <1>3 DEF IInv, IntervalsAgree, Exists, Approved
<1>9. TransactionsSound'
  <2>1. \A o \in Keys : lock[o[1]] # None => asg'[o] = asg[o]
    BY <1>1, <1>3
  <2> QED
    BY <1>2, <2>1, TransactionsKept DEF IInv
<1>10. ListIsCurrent'
  BY <1>1, <1>2, <1>3, ListKept DEF IInv
<1>11. ApiAppliedWasRun'
  BY <1>2, <1>3, AppliedKept DEF IInv
<1>12. AnswersRan'
  BY <1>2, <1>4 DEF IInv, AnswersRan
<1> QED
  BY <1>5, <1>6, <1>7, <1>8, <1>9, <1>10, <1>11, <1>12 DEF IInv

LEMMA CommitKeeps ==
    ASSUME IInv, NEW p \in Callers, Commit(p)
    PROVE  IInv'
<1>0. tx[p] # None
  BY DEF Commit
<1>1. PICK k \in Keys, row \in ProbeAssignment : k = tx[p].key /\ row = tx[p].row
  BY <1>0 DEF IInv, TypeOK
<1> DEFINE next == [asg EXCEPT ![k] = row]
           ok == row.st = "approved" => CheckRender(next, target)
           ks == IF ok THEN {k} ELSE {}
<1>2. /\ tx' = [tx EXCEPT ![p] = None] /\ lock' = [lock EXCEPT ![k[1]] = None]
      /\ asg' = IF ok THEN next ELSE asg
      /\ okFor' = IF ok /\ row.st = "approved" THEN [okFor EXCEPT ![k] = target[k[1]].conn] ELSE okFor
      /\ Touch(ks)
  BY <1>1 DEF Commit
<1>3. UNCHANGED <<target, def, collector, cache>>
  BY DEF Commit
<1> USE DEF collector
<1>4. TxSound(p) /\ k[1] \in Targets
  BY <1>0, KeyParts DEF IInv, TransactionsSound
<1>5. /\ lock[k[1]] = p /\ target[k[1]] # None /\ target[k[1]].mb = "api"
      /\ row.mb = "api" /\ row.st \in {"draft", "approved"}
      /\ Exists(k) \/ CheckProbeTaken(k)
      /\ row.st = "approved" => OneInterval(k, row)
  BY <1>1, <1>4 DEF TxSound
<1>6. target[k[1]] \in Target /\ target[k[1]].conn \in Conn
  BY <1>4, <1>5 DEF IInv, TypeOK, Target
<1>7. next[k] = row /\ \A o \in Keys : o # k => next[o] = asg[o]
  BY DEF IInv, TypeOK
<1>8. row # None
  BY RowAssumptions
<1>9. next \in [Keys -> ProbeAssignment \cup {None}]
  BY DEF IInv, TypeOK
<1> HIDE DEF next
<1>10. \A o \in Keys : o # k => asg'[o] = asg[o] /\ okFor'[o] = okFor[o]
  BY <1>2, <1>7 DEF IInv, TypeOK
<1>11. /\ ok => asg'[k] = row /\ (row.st = "approved" => okFor'[k] = target[k[1]].conn)
       /\ ~ok => asg' = asg /\ okFor' = okFor
  BY <1>2, <1>7 DEF IInv, TypeOK
<1>12. ks \in SUBSET Keys
  OBVIOUS
<1> HIDE DEF ok
<1>13. /\ check' \in [Replicas -> CheckType]
       /\ \A r \in Replicas : check'[r].answer = check[r].answer
  BY <1>2, <1>12, TouchKeeps DEF IInv
<1>14. TypeOK'
  <2>1. lock' \in [Targets -> Callers \cup {None}] /\ tx' \in [Callers -> TxType \cup {None}]
    BY <1>2 DEF IInv, TypeOK, TxType
  <2>2. asg' \in [Keys -> ProbeAssignment \cup {None}]
    BY <1>2, <1>9 DEF IInv, TypeOK
  <2>3. okFor' \in [Keys -> Conn \cup {None}]
    BY <1>2, <1>6 DEF IInv, TypeOK
  <2> QED
    BY <1>3, <1>13, <2>1, <2>2, <2>3 DEF IInv, TypeOK, CheckType, TxType
<1>15. Rows'
  <2>1. CASE ~ok
    BY <1>3, <1>11, <2>1, RowsKept DEF IInv, Rows
  <2>2. CASE ok
    <3>1. asg'[k] = row /\ (row.st = "approved" => okFor'[k] = target[k[1]].conn)
      BY <1>11, <2>2
    <3>2. RowsPlaced'
      <4> SUFFICES ASSUME NEW o \in Keys, Exists(o)'
                   PROVE  /\ target[o[1]] # None /\ asg'[o].mb = target[o[1]].mb
                          /\ asg'[o].mb = "config" => o[2] \in Builtins /\ Approved(o)'
                          /\ Approved(o)' => okFor'[o] = target[o[1]].conn
        BY <1>3 DEF RowsPlaced
      <4>1. CASE o = k
        BY <1>5, <3>1, <4>1 DEF Approved, ApprovedStates
      <4>2. CASE o # k
        BY <1>10, <4>2 DEF IInv, RowsPlaced, Exists, Approved
      <4> QED
        BY <4>1, <4>2
    <3>3. ProbesOnce'
      <4>1. ASSUME NEW o \in Keys, o # k, Exists(o), o[1] = k[1]
            PROVE  RunsProbe(o[2]) # RunsProbe(k[2])
        BY <1>5, <4>1 DEF IInv, ProbesOnce, CheckProbeTaken, ListTargetAssignmentProbes
      <4>2. \A o \in Keys : o # k /\ Exists(o)' => Exists(o)
        BY <1>10 DEF Exists
      <4> QED
        BY <4>1, <4>2 DEF IInv, ProbesOnce
    <3>4. IntervalsAgree'
      <4>1. ASSUME NEW o \in Keys, o # k, Exists(o), o[1] = k[1], asg[o].on, Approved(o), row.on, Approved(k)'
            PROVE  asg[o].ivl = row.ivl
        <5>1. row.st = "approved"
          BY <1>5, <3>1, <4>1 DEF Approved, ApprovedStates
        <5> QED
          BY <1>5, <4>1, <5>1 DEF OneInterval, ListTargetAssignmentProbes, Approved
      <4>2. \A o \in Keys : o # k /\ Exists(o)' => /\ Exists(o) /\ asg'[o] = asg[o]
                                                   /\ Approved(o)' => Approved(o)
        BY <1>10 DEF Exists, Approved
      <4> SUFFICES ASSUME NEW m \in Keys, NEW o \in Keys, Exists(m)', Exists(o)', m[1] = o[1],
                          asg'[m].on, Approved(m)', asg'[o].on, Approved(o)',
                          target[m[1]].mb = "api" \/ target[m[1]].active
                   PROVE  asg'[m].ivl = asg'[o].ivl
        BY <1>3 DEF IntervalsAgree
      <4>3. CASE m # k /\ o # k
        BY <4>2, <4>3 DEF IInv, IntervalsAgree
      <4>4. CASE m = k /\ o # k
        BY <3>1, <4>1, <4>2, <4>4
      <4>5. CASE m # k /\ o = k
        BY <3>1, <4>1, <4>2, <4>5
      <4> QED
        BY <4>3, <4>4, <4>5
    <3> QED
      BY <3>2, <3>3, <3>4 DEF Rows
  <2> QED
    BY <2>1, <2>2
<1>16. TransactionsSound'
  <2> SUFFICES ASSUME NEW q \in Callers, tx'[q] # None
               PROVE  TxSound(q)'
    BY DEF TransactionsSound
  <2>1. q # p /\ tx'[q] = tx[q]
    BY <1>2 DEF IInv, TypeOK
  <2>2. PICK m \in Keys, srow \in ProbeAssignment : m = tx[q].key /\ srow = tx[q].row
    BY <2>1 DEF IInv, TypeOK
  <2>3. TxSound(q)
    BY <2>1 DEF IInv, TransactionsSound
  <2>4. m[1] # k[1] /\ m[1] \in Targets
    BY <1>5, <2>1, <2>2, <2>3, KeyParts DEF TxSound
  <2>5. lock'[m[1]] = lock[m[1]]
    BY <1>2, <2>4 DEF IInv, TypeOK
  <2>6. \A o \in Keys : o[1] = m[1] => asg'[o] = asg[o]
    BY <1>10, <2>4
  <2>7. CheckProbeTaken(m) => CheckProbeTaken(m)'
    BY <2>6 DEF CheckProbeTaken, ListTargetAssignmentProbes, Exists
  <2>8. OneInterval(m, srow) => OneInterval(m, srow)'
    BY <2>6 DEF OneInterval, ListTargetAssignmentProbes, Exists
  <2> QED
    BY <1>3, <2>1, <2>2, <2>3, <2>5, <2>6, <2>7, <2>8 DEF TxSound, Exists
<1>17. ListIsCurrent'
  <2>1. \A o \in Keys : o \notin ks => asg'[o] = asg[o]
    BY <1>10, <1>11
  <2> QED
    BY <1>2, <1>3, <1>12, <2>1, ListKept DEF IInv
<1>18. ApiAppliedWasRun'
  <2>1. \A o \in Keys : asg'[o].st = "applied" => asg'[o] = asg[o]
    BY <1>5, <1>10, <1>11
  <2> QED
    BY <1>3, <2>1, AppliedKept DEF IInv
<1>19. AnswersRan'
  BY <1>3, <1>13 DEF IInv, AnswersRan
<1> QED
  BY <1>14, <1>15, <1>16, <1>17, <1>18, <1>19 DEF IInv, Rows

-----------------------------------------------------------------------------
(* The inventory file.                                                     *)

\* A target of the API is not the file's to write, and keeps its assignments.
LEMMA FileLeavesApi ==
    ASSUME IInv, NEW f \in Files, ~FileRefused(f), NEW k \in Keys, target[k[1]] # None, target[k[1]].mb = "api"
    PROVE  /\ f[k[1]] = None /\ FileTarget(f, k[1]) = target[k[1]] /\ FileAssignment(f, k) = asg[k]
<1>1. k[1] \in Targets
  BY KeyParts
<1>2. f[k[1]] = None
  BY <1>1 DEF FileRefused
<1>3. FileTarget(f, k[1]) = target[k[1]]
  BY <1>2 DEF FileTarget
<1>4. Exists(k) => asg[k].mb = "api"
  BY DEF IInv, RowsPlaced
<1>5. ~Listed(f, k) /\ Reapprove(f, k) = asg[k]
  BY <1>2 DEF Listed, Reapprove
<1>6. FileAssignment(f, k) = asg[k]
  BY <1>4, <1>5 DEF FileAssignment
<1> QED
  BY <1>2, <1>3, <1>6

\* What the file's transaction makes of a row is a row, of a built-in probe
\* and approved where the file manages it.
LEMMA FileRows ==
    ASSUME IInv, NEW f \in Files, ~FileRefused(f), NEW k \in Keys,
           ~(target[k[1]] # None /\ target[k[1]].mb = "api")
    PROVE  /\ FileTarget(f, k[1]) \in Target \cup {None}
           /\ f[k[1]] = None /\ target[k[1]] # None => FileTarget(f, k[1]).conn = target[k[1]].conn
           /\ f[k[1]] # None => FileTarget(f, k[1]) # None /\ FileTarget(f, k[1]).conn = f[k[1]].conn
           /\ FileTarget(f, k[1]) # None => FileTarget(f, k[1]).mb = "config"
           /\ FileAssignment(f, k) \in ProbeAssignment \cup {None}
           /\ FileAssignment(f, k) # None =>
                 /\ FileTarget(f, k[1]) # None /\ k[2] \in Builtins
                 /\ FileAssignment(f, k).mb = "config" /\ FileAssignment(f, k).st \in ApprovedStates
                 /\ f[k[1]] = None => Exists(k) /\ target[k[1]] # None
<1> DEFINE t == k[1]
           g == FileTarget(f, t)
           a == FileAssignment(f, k)
<1>1. t \in Targets /\ target[t] \in Target \cup {None} /\ (target[t] # None => target[t].mb = "config")
  BY KeyParts DEF IInv, TypeOK, Target
<1>2. Exists(k) => /\ asg[k] \in ProbeAssignment /\ target[t] # None /\ asg[k].mb = "config"
                   /\ k[2] \in Builtins /\ asg[k].st \in ApprovedStates
  BY <1>1 DEF IInv, TypeOK, RowsPlaced, Exists, Approved
<1>3. None \notin Target /\ None \notin ProbeAssignment
  BY RowAssumptions
<1>4. /\ g \in Target \cup {None}
      /\ f[t] = None /\ target[t] # None => g # None /\ g.conn = target[t].conn
      /\ f[t] # None => g # None /\ g.conn = f[t].conn
      /\ g # None => g.mb = "config"
  <2>1. CASE f[t] # None
    <3>1. g = [conn |-> f[t].conn, active |-> f[t].active, mb |-> "config"]
      BY <2>1 DEF FileTarget
    <3>2. f[t].conn \in Conn /\ f[t].active \in BOOLEAN
      BY <1>1, <2>1, RowAssumptions
    <3>3. g \in Target /\ g.conn = f[t].conn /\ g.mb = "config"
      BY <3>1, <3>2 DEF Target
    <3> HIDE DEF g
    <3> QED
      BY <1>3, <2>1, <3>3
  <2>2. CASE f[t] = None /\ target[t] # None
    <3>1. g = [target[t] EXCEPT !.active = FALSE]
      BY <1>1, <2>2 DEF FileTarget
    <3>2. target[t] \in Target
      BY <1>1, <2>2
    <3>3. g \in Target /\ g.conn = target[t].conn /\ g.mb = "config"
      BY <1>1, <2>2, <3>1, <3>2 DEF Target
    <3> HIDE DEF g
    <3> QED
      BY <1>3, <2>2, <3>3
  <2>3. CASE f[t] = None /\ target[t] = None
    BY <2>3 DEF FileTarget
  <2> QED
    BY <2>1, <2>2, <2>3
<1> DEFINE row == Reapprove(f, k)
<1>5. Exists(k) => /\ row \in ProbeAssignment /\ row.mb = "config" /\ row.st \in ApprovedStates
  <2> SUFFICES ASSUME Exists(k)
               PROVE  row \in ProbeAssignment /\ row.mb = "config" /\ row.st \in ApprovedStates
    OBVIOUS
  <2>1. row = asg[k] \/ row = [asg[k] EXCEPT !.st = "approved"]
    BY DEF Reapprove
  <2>2. [asg[k] EXCEPT !.st = "approved"] \in ProbeAssignment /\ [asg[k] EXCEPT !.st = "approved"].mb = "config"
        /\ [asg[k] EXCEPT !.st = "approved"].st = "approved"
    BY <1>2 DEF ProbeAssignment, ApprovedStates
  <2> QED
    BY <1>2, <2>1, <2>2 DEF ApprovedStates
<1>6. ASSUME NEW ivl \in Intervals, NEW on \in BOOLEAN, Exists(k)
      PROVE  /\ UpdateAssignment(row, ivl, on) \in ProbeAssignment
             /\ UpdateAssignment(row, ivl, on).mb = "config"
             /\ UpdateAssignment(row, ivl, on).st \in ApprovedStates
  <2>1. row \in ProbeAssignment /\ row.mb = "config" /\ row.st \in ApprovedStates
    BY <1>5, <1>6
  <2>2. UpdateAssignment(row, ivl, on) \in {row, [row EXCEPT !.ivl = ivl, !.on = on, !.st = "approved"]}
    BY DEF UpdateAssignment
  <2> HIDE DEF row
  <2>3. /\ [row EXCEPT !.ivl = ivl, !.on = on, !.st = "approved"] \in ProbeAssignment
        /\ [row EXCEPT !.ivl = ivl, !.on = on, !.st = "approved"].mb = "config"
        /\ [row EXCEPT !.ivl = ivl, !.on = on, !.st = "approved"].st = "approved"
    BY <2>1 DEF ProbeAssignment, ApprovedStates
  <2> QED
    BY <2>1, <2>2, <2>3 DEF ApprovedStates
<1>7. CASE Listed(f, k) /\ Exists(k)
  <2>1. a = UpdateAssignment(row, f[t].probes[k[2]], TRUE)
    BY <1>7 DEF FileAssignment
  <2>2. f[t].probes[k[2]] \in Intervals /\ f[t] # None
    BY <1>1, <1>7, RowAssumptions DEF Listed
  <2>3. a \in ProbeAssignment /\ a.mb = "config" /\ a.st \in ApprovedStates
    BY <1>6, <1>7, <2>1, <2>2
  <2> HIDE DEF a, g
  <2> QED
    BY <1>2, <1>4, <1>7, <2>2, <2>3
    DEF a, g
<1>8. CASE Listed(f, k) /\ ~Exists(k)
  <2>1. a = [ver |-> 1, ivl |-> f[t].probes[k[2]], on |-> TRUE, mb |-> "config", st |-> "approved"]
    BY <1>8 DEF FileAssignment
  <2>2. f[t].probes[k[2]] \in Intervals /\ f[t] # None /\ k[2] \in Builtins
    BY <1>1, <1>8, RowAssumptions DEF Listed
  <2>3. a \in ProbeAssignment /\ a.mb = "config" /\ a.st \in ApprovedStates
    BY <2>1, <2>2, RowAssumptions DEF ProbeAssignment, ApprovedStates
  <2> HIDE DEF a, g
  <2> QED
    BY <1>2, <1>4, <1>8, <2>2, <2>3
    DEF a, g
<1>9. CASE ~Listed(f, k) /\ Exists(k)
  <2>1. a = row \/ a = UpdateAssignment(row, row.ivl, FALSE)
    BY <1>9 DEF FileAssignment
  <2>2. row.ivl \in Intervals
    BY <1>5, <1>9 DEF ProbeAssignment
  <2>3. a \in ProbeAssignment /\ a.mb = "config" /\ a.st \in ApprovedStates
    BY <1>5, <1>6, <1>9, <2>1, <2>2
  <2> HIDE DEF a, g
  <2> QED
    BY <1>2, <1>4, <1>9, <2>3
    DEF a, g
<1>10. CASE ~Listed(f, k) /\ ~Exists(k)
  <2>1. a = None
    BY <1>10 DEF FileAssignment, Reapprove, Exists
  <2> QED
    BY <1>4, <2>1
<1> QED
  BY <1>7, <1>8, <1>9, <1>10

LEMMA ApplyFileKeeps ==
    ASSUME IInv, NEW f \in Files, ApplyFile(f)
    PROVE  IInv'
<1> DEFINE g == [t \in Targets |-> FileTarget(f, t)]
           a == [k \in Keys |-> FileAssignment(f, k)]
           reapproved == {k \in Keys : a[k] # asg[k]}
<1>1. /\ \A t \in Targets : target[t] # None => lock[t] = None
      /\ ~FileRefused(f) /\ CheckRender(a, g)
      /\ target' = g /\ asg' = a /\ Touch(reapproved)
      /\ okFor' = [k \in Keys |-> IF f[k[1]] # None /\ a[k] # None THEN f[k[1]].conn ELSE okFor[k]]
  BY DEF ApplyFile
<1>2. UNCHANGED <<def, api, collector, cache>>
  BY DEF ApplyFile
<1> USE DEF api, collector
<1>3. ASSUME NEW k \in Keys, target[k[1]] # None, target[k[1]].mb = "api"
      PROVE  a[k] = asg[k] /\ g[k[1]] = target[k[1]] /\ okFor'[k] = okFor[k]
  BY <1>1, <1>3, FileLeavesApi, KeyParts
<1>4. ASSUME NEW k \in Keys, ~(target[k[1]] # None /\ target[k[1]].mb = "api")
      PROVE  /\ a[k] \in ProbeAssignment \cup {None}
             /\ g[k[1]] # None => g[k[1]].mb = "config"
             /\ a[k] # None =>
                   /\ g[k[1]] # None /\ k[2] \in Builtins
                   /\ a[k].mb = "config" /\ a[k].st \in ApprovedStates
                   /\ okFor'[k] = g[k[1]].conn
  <2>1. k[1] \in Targets /\ a[k] = FileAssignment(f, k) /\ g[k[1]] = FileTarget(f, k[1])
    BY KeyParts
  <2> HIDE DEF a, g
  <2>2. CASE f[k[1]] # None
    BY <1>1, <1>4, <2>1, <2>2, FileRows
  <2>3. CASE f[k[1]] = None
    <3>1. a[k] # None => Exists(k) /\ target[k[1]] # None /\ g[k[1]].conn = target[k[1]].conn
      BY <1>1, <1>4, <2>1, <2>3, FileRows
    <3>2. Exists(k) => okFor[k] = target[k[1]].conn
      <4>1. Exists(k) => target[k[1]] # None /\ target[k[1]] \in Target /\ asg[k].mb = target[k[1]].mb
        BY KeyParts DEF IInv, RowsPlaced, TypeOK
      <4>2. Exists(k) => asg[k].mb = "config"
        BY <1>4, <4>1 DEF Target
      <4> QED
        BY <4>2 DEF IInv, RowsPlaced
    <3>3. okFor'[k] = okFor[k]
      BY <1>1, <2>3
    <3> QED
      BY <1>1, <1>4, <2>1, <3>1, <3>2, <3>3, FileRows
  <2> QED
    BY <2>2, <2>3
<1>5. g \in [Targets -> Target \cup {None}]
  <2> SUFFICES ASSUME NEW t \in Targets PROVE FileTarget(f, t) \in Target \cup {None}
    OBVIOUS
  <2>1. target[t] \in Target \cup {None}
    BY DEF IInv, TypeOK
  <2>2. CASE f[t] # None
    BY <2>2, RowAssumptions DEF FileTarget, Target
  <2>3. CASE f[t] = None
    BY <2>1, <2>3, RowAssumptions DEF FileTarget, Target
  <2> QED
    BY <2>2, <2>3
<1>6. a \in [Keys -> ProbeAssignment \cup {None}]
  BY <1>3, <1>4 DEF IInv, TypeOK
<1>7. okFor' \in [Keys -> Conn \cup {None}]
  BY <1>1, KeyParts, RowAssumptions DEF IInv, TypeOK
<1>8. reapproved \in SUBSET Keys
  OBVIOUS
<1> HIDE DEF a, g
<1>9. /\ check' \in [Replicas -> CheckType]
      /\ \A r \in Replicas : check'[r].answer = check[r].answer
  BY <1>1, <1>8, TouchKeeps DEF IInv
<1>10. TypeOK'
  BY <1>1, <1>2, <1>5, <1>6, <1>7, <1>9 DEF IInv, TypeOK, CheckType
<1>11. RowsPlaced'
  <2> SUFFICES ASSUME NEW k \in Keys, a[k] # None
               PROVE  /\ g[k[1]] # None /\ a[k].mb = g[k[1]].mb
                      /\ a[k].mb = "config" => k[2] \in Builtins /\ a[k].st \in ApprovedStates
                      /\ a[k].st \in ApprovedStates => okFor'[k] = g[k[1]].conn
    BY <1>1 DEF RowsPlaced, Exists, Approved
  <2>1. CASE target[k[1]] # None /\ target[k[1]].mb = "api"
    BY <1>3, <2>1 DEF IInv, RowsPlaced, Exists, Approved
  <2>2. CASE ~(target[k[1]] # None /\ target[k[1]].mb = "api")
    BY <1>4, <2>2
  <2> QED
    BY <2>1, <2>2
<1>12. ProbesOnce'
  <2> SUFFICES ASSUME NEW k \in Keys, NEW o \in Keys, a[k] # None, a[o] # None, k[1] = o[1], k # o
               PROVE  RunsProbe(k[2]) # RunsProbe(o[2])
    BY <1>1 DEF ProbesOnce, Exists
  <2>1. CASE target[k[1]] # None /\ target[k[1]].mb = "api"
    BY <1>3, <2>1 DEF IInv, ProbesOnce, Exists
  <2>2. CASE ~(target[k[1]] # None /\ target[k[1]].mb = "api")
    <3>1. k[2] \in Builtins /\ o[2] \in Builtins
      BY <1>4, <2>2
    <3> QED
      BY <3>1, ProbeNames, KeysDiffer
  <2> QED
    BY <2>1, <2>2
<1>13. IntervalsAgree'
  <2> SUFFICES ASSUME NEW k \in Keys, NEW o \in Keys, a[k] # None, a[o] # None, k[1] = o[1],
                      a[k].on, a[k].st \in ApprovedStates, a[o].on, a[o].st \in ApprovedStates,
                      g[k[1]].mb = "api" \/ g[k[1]].active
               PROVE  a[k].ivl = a[o].ivl
    BY <1>1 DEF IntervalsAgree, Exists, Approved
  <2>1. CASE target[k[1]] # None /\ target[k[1]].mb = "api"
    BY <1>3, <2>1 DEF IInv, IntervalsAgree, Exists, Approved
  <2>2. CASE ~(target[k[1]] # None /\ target[k[1]].mb = "api")
    <3>1. k[2] \in Builtins /\ o[2] \in Builtins /\ g[k[1]].active
      BY <1>4, <2>2
    <3>2. DefinitionEnabled(k[2]) /\ DefinitionEnabled(o[2])
      BY <3>1, ProbeAssumptions DEF DefinitionEnabled, Customs
    <3>3. k \in ListRenderedProbeAssignments(a, g) /\ o \in ListRenderedProbeAssignments(a, g)
      BY <3>1, <3>2 DEF ListRenderedProbeAssignments
    <3> QED
      BY <1>1, <3>3 DEF CheckRender
  <2> QED
    BY <2>1, <2>2
<1>14. TransactionsSound'
  <2> SUFFICES ASSUME NEW p \in Callers, tx[p] # None PROVE FALSE
    BY <1>2 DEF TransactionsSound
  <2>1. TxSound(p) /\ tx[p].key[1] \in Targets
    BY KeyParts DEF IInv, TransactionsSound, TypeOK
  <2> QED
    BY <1>1, <2>1, RowAssumptions DEF TxSound
<1>15. \A k \in Keys : Exists(k) /\ asg[k].mb = "api" => target[k[1]] # None /\ target[k[1]].mb = "api"
  BY DEF IInv, RowsPlaced
<1>16. ListIsCurrent'
  <2>1. \A k \in Keys : k \notin reapproved /\ Exists(k) /\ Approved(k) =>
               /\ asg'[k] = asg[k]
               /\ asg[k].mb = "api" => target'[k[1]].conn.host = target[k[1]].conn.host
    BY <1>1, <1>3, <1>15
  <2> QED
    BY <1>1, <1>8, <2>1, ListKept DEF IInv
<1>17. ApiAppliedWasRun'
  <2>1. ASSUME NEW k \in Keys, a[k] # None, a[k].mb = "api"
        PROVE  a[k] = asg[k] /\ g[k[1]] = target[k[1]]
    BY <1>3, <1>4, <2>1
  <2> QED
    BY <1>1, <1>2, <2>1, AppliedKept DEF IInv, Exists
<1>18. AnswersRan'
  BY <1>2, <1>9 DEF IInv, AnswersRan
<1> QED
  BY <1>10, <1>11, <1>12, <1>13, <1>14, <1>16, <1>17, <1>18 DEF IInv

-----------------------------------------------------------------------------
(* The client of the collector and the applied check.                      *)

\* Steps of a check that write no row.
LEMMA CheckerKeeps ==
    ASSUME IInv, UNCHANGED <<target, def, asg, api, okFor, collector>>,
           cache' \in [Replicas -> Answer \cup {None}], check' \in [Replicas -> CheckType],
           ListIsCurrent', AnswersRan'
    PROVE  IInv'
<1> USE DEF api, collector
<1>1. Rows' /\ TypeOK'
  BY RowsKept DEF IInv, Rows, TypeOK, CheckType
<1>2. TransactionsSound'
  BY TransactionsKept DEF IInv
<1>3. ApiAppliedWasRun'
  BY AppliedKept DEF IInv
<1> QED
  BY <1>1, <1>2, <1>3 DEF IInv, Rows

LEMMA ExpireKeeps ==
    ASSUME IInv, NEW r \in Replicas, Expire(r)
    PROVE  IInv'
<1>1. cache' = [cache EXCEPT ![r] = None] /\ UNCHANGED <<target, def, asg, api, okFor, collector, check>>
  BY DEF Expire
<1>2. cache' \in [Replicas -> Answer \cup {None}] /\ check' \in [Replicas -> CheckType]
  BY <1>1 DEF IInv, TypeOK, CheckType
<1>3. ListIsCurrent'
  BY <1>1, ListUntouched DEF IInv
<1>4. AnswersRan'
  BY <1>1 DEF IInv, AnswersRan, collector, TypeOK
<1> QED
  BY <1>1, <1>2, <1>3, <1>4, CheckerKeeps

LEMMA IdleType == /\ Idle \in CheckType /\ Idle.pc = "idle" /\ Idle.rows = {} /\ Idle.answer = {}
BY DEF Idle, CheckType

LEMMA AskFailsKeeps ==
    ASSUME IInv, NEW r \in Replicas, AskFails(r)
    PROVE  IInv'
<1> DEFINE answer == [down |-> TRUE, probes |-> {}]
<1>1. /\ cache' = [cache EXCEPT ![r] = answer] /\ check' = [check EXCEPT ![r] = Idle]
      /\ UNCHANGED <<target, def, asg, api, okFor, collector>>
  BY DEF AskFails
<1>2. answer \in Answer /\ answer.probes = {}
  BY DEF Answer
<1> HIDE DEF answer
<1>3. cache' \in [Replicas -> Answer \cup {None}] /\ check' \in [Replicas -> CheckType]
  BY <1>1, <1>2, IdleType DEF IInv, TypeOK, CheckType
<1>4. /\ check'[r] = Idle /\ cache'[r] = answer
      /\ \A q \in Replicas : q # r => check'[q] = check[q] /\ cache'[q] = cache[q]
  BY <1>1 DEF IInv, TypeOK
<1>5. ListIsCurrent'
  BY <1>1, <1>4, IdleType DEF IInv, ListIsCurrent, Exists, Approved, RenderedProbe
<1>6. AnswersRan'
  BY <1>1, <1>2, <1>4, IdleType DEF IInv, AnswersRan, collector
<1> QED
  BY <1>1, <1>3, <1>5, <1>6, CheckerKeeps

LEMMA AskKeeps ==
    ASSUME IInv, NEW r \in Replicas, NEW answer, Ask(r, answer)
    PROVE  IInv'
<1>1. /\ check[r].pc = "listed"
      /\ answer = IF cache[r] # None THEN cache[r] ELSE [down |-> FALSE, probes |-> running]
      /\ cache' = [cache EXCEPT ![r] = answer]
      /\ check' = [check EXCEPT ![r] =
            IF answer.down THEN Idle ELSE [check[r] EXCEPT !.pc = "asked", !.answer = answer.probes]]
      /\ UNCHANGED <<target, def, asg, api, okFor, collector>>
  BY DEF Ask, IInv, TypeOK
<1>2. answer \in Answer /\ answer.probes \subseteq ran
  <2>1. CASE cache[r] # None
    BY <1>1, <2>1 DEF IInv, TypeOK, AnswersRan
  <2>2. CASE cache[r] = None
    BY <1>1, <2>2 DEF IInv, TypeOK, AnswersRan, Answer
  <2> QED
    BY <2>1, <2>2
<1> DEFINE asked == [check[r] EXCEPT !.pc = "asked", !.answer = answer.probes]
<1>3. check[r] \in CheckType
  BY DEF IInv, TypeOK, CheckType
<1>4. /\ asked \in CheckType /\ asked.pc = "asked" /\ asked.rows = check[r].rows
      /\ asked.touched = check[r].touched /\ asked.answer = answer.probes
  BY <1>2, <1>3 DEF CheckType, Answer
<1>5. /\ check'[r] = Idle \/ check'[r] = asked
      /\ cache'[r] = answer
      /\ \A q \in Replicas : q # r => check'[q] = check[q] /\ cache'[q] = cache[q]
  BY <1>1 DEF IInv, TypeOK
<1>6. cache' = [q \in Replicas |-> cache'[q]] /\ check' = [q \in Replicas |-> check'[q]]
  BY <1>1 DEF IInv, TypeOK
<1> HIDE DEF asked
<1>7. cache' \in [Replicas -> Answer \cup {None}] /\ check' \in [Replicas -> CheckType]
  BY <1>2, <1>4, <1>5, <1>6, IdleType DEF IInv, TypeOK, CheckType
<1>8. ListIsCurrent'
  BY <1>1, <1>4, <1>5, IdleType DEF IInv, ListIsCurrent, Exists, Approved, RenderedProbe
<1>9. AnswersRan'
  BY <1>1, <1>2, <1>4, <1>5, IdleType DEF IInv, AnswersRan, collector
<1> QED
  BY <1>1, <1>7, <1>8, <1>9, CheckerKeeps

LEMMA ListApprovedKeeps ==
    ASSUME IInv, NEW r \in Replicas, ListApproved(r)
    PROVE  IInv'
<1> DEFINE approved == {k \in ListRenderedProbeAssignments(asg, target) : asg[k].st = "approved"}
           rows == {<<k, RenderedProbe(k, asg[k], target[k[1]].conn.host)>> : k \in approved}
           listed == [pc |-> "listed", touched |-> {}, answer |-> {}, rows |-> rows]
<1>1. check' = [check EXCEPT ![r] = listed] /\ UNCHANGED <<target, def, asg, api, okFor, collector, cache>>
  BY DEF ListApproved
<1>2. ASSUME NEW k \in approved
      PROVE  /\ k \in Keys /\ Exists(k) /\ Approved(k)
             /\ RenderedProbe(k, asg[k], target[k[1]].conn.host) \in Probe
  <2>1. k \in Keys /\ Exists(k) /\ Approved(k) /\ asg[k] \in ProbeAssignment
    BY DEF ListRenderedProbeAssignments, IInv, TypeOK, Exists, Approved
  <2>2. target[k[1]].conn.host \in Hosts
    BY <2>1, KeyParts DEF IInv, TypeOK, RowsPlaced, Target, Conn
  <2> QED
    BY <2>1, <2>2, RenderedType
<1>3. rows \subseteq Keys \X Probe
  BY <1>2
<1>4. \A row \in rows : /\ Exists(row[1]) /\ Approved(row[1])
                        /\ row[2] = RenderedProbe(row[1], asg[row[1]], target[row[1][1]].conn.host)
  BY <1>2
<1> HIDE DEF rows
<1>5. /\ listed \in CheckType /\ listed.pc = "listed" /\ listed.rows = rows
      /\ listed.answer = {}
  BY <1>3 DEF CheckType
<1> HIDE DEF listed
<1>6. check'[r] = listed /\ \A q \in Replicas : q # r => check'[q] = check[q]
  BY <1>1 DEF IInv, TypeOK
<1>7. cache' \in [Replicas -> Answer \cup {None}] /\ check' \in [Replicas -> CheckType]
  BY <1>1, <1>5 DEF IInv, TypeOK, CheckType
<1>8. ListIsCurrent'
  BY <1>1, <1>4, <1>5, <1>6 DEF IInv, ListIsCurrent, Exists, Approved, RenderedProbe
<1>9. AnswersRan'
  BY <1>1, <1>5, <1>6 DEF IInv, AnswersRan, collector
<1> QED
  BY <1>1, <1>7, <1>8, <1>9, CheckerKeeps

LEMMA MarkKeeps ==
    ASSUME IInv, NEW r \in Replicas, Mark(r)
    PROVE  IInv'
<1>1. PICK row \in check[r].rows :
         LET k == row[1]
             left == check[r].rows \ {row}
             marked == MayMark(r, k, row[2])
         IN /\ check[r].pc = "asked"
            /\ asg' = IF marked THEN MarkProbeAssignmentApplied(asg, k) ELSE asg
            /\ check' = [q \in Replicas |->
                   IF q = r THEN (IF left = {} THEN Idle ELSE [check[r] EXCEPT !.rows = left])
                   ELSE IF marked /\ check[q].pc # "idle" THEN [check[q] EXCEPT !.touched = @ \cup {k}]
                   ELSE check[q]]
            /\ UNCHANGED <<target, def, api, okFor, collector, cache, changes>>
  BY DEF Mark
<1>2. PICK k \in Keys : k = row[1]
  BY DEF IInv, TypeOK
<1> DEFINE left == check[r].rows \ {row}
           marked == MayMark(r, k, row[2])
<1>3. /\ check[r].pc = "asked"
      /\ asg' = IF marked THEN [asg EXCEPT ![k].st = "applied"] ELSE asg
      /\ UNCHANGED <<target, def, api, okFor, collector, cache>>
  BY <1>1, <1>2 DEF MarkProbeAssignmentApplied
<1> USE DEF api, collector
\* The checks: the replica's own loses the row, the others may learn of k.
<1>4. ASSUME NEW q \in Replicas
      PROVE  /\ check'[q] \in CheckType
             /\ check'[q].rows \subseteq check[q].rows /\ check'[q].answer \subseteq check[q].answer
             /\ check'[q].pc = "idle" => check'[q].rows = {}
             /\ \A x \in check'[q].rows : x[1] \notin check'[q].touched => x[1] \notin check[q].touched
  <2>0. check[q] \in CheckType /\ check[r] \in CheckType
    BY DEF IInv, TypeOK, CheckType
  <2>1. check'[q] = IF q = r THEN (IF left = {} THEN Idle ELSE [check[r] EXCEPT !.rows = left])
                    ELSE IF marked /\ check[q].pc # "idle" THEN [check[q] EXCEPT !.touched = check[q].touched \cup {k}]
                    ELSE check[q]
    BY <1>1, <1>2
  <2>2. CASE check'[q] = Idle
    BY <2>2, IdleType
  <2>3. CASE q = r /\ check'[q] = [check[r] EXCEPT !.rows = left]
    BY <1>3, <2>0, <2>3 DEF CheckType
  <2>4. CASE q # r /\ check'[q] = [check[q] EXCEPT !.touched = check[q].touched \cup {k}] /\ check[q].pc # "idle"
    BY <2>0, <2>4 DEF CheckType
  <2>5. CASE check'[q] = check[q]
    BY <2>0, <2>5 DEF IInv, ListIsCurrent
  <2> QED
    BY <2>1, <2>2, <2>3, <2>4, <2>5
<1>5. check' \in [Replicas -> CheckType]
  <2>1. check' = [q \in Replicas |-> check'[q]]
    BY <1>1
  <2> QED
    BY <1>4, <2>1
\* The rows: an approved one becomes applied.
<1>6. marked => Exists(k) /\ asg[k].st = "approved" /\ asg[k] \in ProbeAssignment
  BY DEF MayMark, IInv, TypeOK, Exists
<1>7. ASSUME NEW o \in Keys
      PROVE  /\ asg'[o] \in ProbeAssignment \cup {None}
             /\ Exists(o)' <=> Exists(o)
             /\ o # k \/ ~marked => asg'[o] = asg[o]
             /\ Exists(o) => /\ asg'[o].mb = asg[o].mb /\ asg'[o].ivl = asg[o].ivl
                             /\ asg'[o].on = asg[o].on /\ asg'[o].ver = asg[o].ver
                             /\ Approved(o)' <=> Approved(o)
  <2>1. CASE o = k /\ marked
    <3>1. asg'[o] = [asg[k] EXCEPT !.st = "applied"]
      BY <1>3, <2>1 DEF IInv, TypeOK
    <3>2. /\ asg'[o] \in ProbeAssignment /\ asg'[o].mb = asg[o].mb /\ asg'[o].ivl = asg[o].ivl
          /\ asg'[o].on = asg[o].on /\ asg'[o].ver = asg[o].ver /\ asg'[o].st = "applied"
      BY <1>6, <2>1, <3>1 DEF ProbeAssignment, ApprovedStates
    <3> QED
      BY <1>6, <2>1, <3>2, RowAssumptions DEF Exists, Approved, ApprovedStates
  <2>2. CASE o # k \/ ~marked
    <3>1. asg'[o] = asg[o]
      BY <1>3, <2>2 DEF IInv, TypeOK
    <3> QED
      BY <2>2, <3>1 DEF IInv, TypeOK, Exists, Approved
  <2> QED
    BY <2>1, <2>2
<1>8. asg' \in [Keys -> ProbeAssignment \cup {None}]
  <2>1. asg' = [o \in Keys |-> asg'[o]]
    BY <1>3 DEF IInv, TypeOK
  <2> QED
    BY <1>7, <2>1
<1>9. k \notin check[r].touched /\ Exists(k) /\ asg[k].mb = "api" =>
         row[2] = RenderedProbe(k, asg[k], target[k[1]].conn.host)
  BY <1>2 DEF IInv, ListIsCurrent
<1>10. marked => row[2] \in ran /\ k \notin check[r].touched
  BY DEF MayMark, IInv, AnswersRan
<1> HIDE DEF marked
<1>11. \A o \in Keys : Exists(o) =>
          RenderedProbe(o, asg'[o], target[o[1]].conn.host) = RenderedProbe(o, asg[o], target[o[1]].conn.host)
  BY <1>7 DEF RenderedProbe
<1>12. TypeOK'
  BY <1>3, <1>5, <1>8 DEF IInv, TypeOK, CheckType
<1>13. RowsPlaced'
  BY <1>3, <1>7 DEF IInv, RowsPlaced
<1>14. ProbesOnce'
  BY <1>7 DEF IInv, ProbesOnce
<1>15. IntervalsAgree'
  BY <1>3, <1>7 DEF IInv, IntervalsAgree
<1>16. TransactionsSound'
  <2> SUFFICES ASSUME NEW p \in Callers, tx[p] # None
               PROVE  TxSound(p)'
    BY <1>3 DEF TransactionsSound
  <2>1. PICK m \in Keys, srow \in ProbeAssignment : m = tx[p].key /\ srow = tx[p].row
    BY DEF IInv, TypeOK
  <2>2. TxSound(p)
    BY DEF IInv, TransactionsSound
  <2>3. CheckProbeTaken(m) => CheckProbeTaken(m)'
    BY <1>7 DEF CheckProbeTaken, ListTargetAssignmentProbes
  <2>4. OneInterval(m, srow) => OneInterval(m, srow)'
    BY <1>7 DEF OneInterval, ListTargetAssignmentProbes, Approved
  <2> QED
    BY <1>3, <1>7, <2>1, <2>2, <2>3, <2>4 DEF TxSound
<1>17. ListIsCurrent'
  <2>1. ASSUME NEW q \in Replicas, NEW x \in check'[q].rows, x[1] \notin check'[q].touched
        PROVE  /\ Exists(x[1])' /\ Approved(x[1])'
               /\ asg'[x[1]].mb = "api" =>
                     x[2] = RenderedProbe(x[1], asg'[x[1]], target[x[1][1]].conn.host)
    <3>1. x \in check[q].rows /\ x[1] \notin check[q].touched /\ x[1] \in Keys
      BY <1>4, <2>1 DEF IInv, TypeOK
    <3>2. /\ Exists(x[1]) /\ Approved(x[1])
          /\ asg[x[1]].mb = "api" => x[2] = RenderedProbe(x[1], asg[x[1]], target[x[1][1]].conn.host)
      BY <3>1 DEF IInv, ListIsCurrent
    <3> QED
      BY <1>7, <1>11, <3>1, <3>2
  <2> QED
    BY <1>3, <1>4, <2>1 DEF ListIsCurrent, RenderedProbe
<1>18. ApiAppliedWasRun'
  <2> SUFFICES ASSUME NEW o \in Keys, Exists(o)', asg'[o].mb = "api", asg'[o].st = "applied"
               PROVE  RenderedProbe(o, asg'[o], target[o[1]].conn.host) \in ran
    BY <1>3 DEF ApiAppliedWasRun, RunAsItStands, RenderedProbe
  <2>1. Exists(o) /\ asg[o].mb = "api"
    BY <1>7
  <2>2. CASE o = k /\ marked
    BY <1>9, <1>10, <1>11, <2>1, <2>2
  <2>3. CASE o # k \/ ~marked
    BY <1>7, <2>1, <2>3 DEF IInv, ApiAppliedWasRun, RunAsItStands
  <2> QED
    BY <2>2, <2>3
<1>19. AnswersRan'
  BY <1>3, <1>4 DEF IInv, AnswersRan
<1> QED
  BY <1>12, <1>13, <1>14, <1>15, <1>16, <1>17, <1>18, <1>19 DEF IInv

-----------------------------------------------------------------------------
(* The theorems.                                                           *)

LEMMA NextKeeps == IInv /\ [Next]_vars => IInv'
<1> SUFFICES ASSUME IInv, [Next]_vars PROVE IInv'
  OBVIOUS
<1>1. CASE UNCHANGED vars
  BY <1>1, StutterKeeps
<1>2. CASE PostProbeDefinition
  BY <1>2, PostDefinitionKeeps DEF PostProbeDefinition
<1>3. CASE PatchProbeDefinition
  BY <1>3, SetEnabledKeeps DEF PatchProbeDefinition
<1>4. CASE PostProbeDefinitionVersion
  BY <1>4, AddVersionKeeps DEF PostProbeDefinitionVersion
<1>5. CASE PostDatabaseTarget
  BY <1>5, CreateTargetKeeps DEF PostDatabaseTarget
<1>6. CASE PatchDatabaseTarget
  BY <1>6, UpdateTargetKeeps DEF PatchDatabaseTarget
<1>7. CASE RemoveDatabaseTarget
  BY <1>7, DeleteTargetKeeps DEF RemoveDatabaseTarget
<1>8. CASE PostProbeAssignment
  BY <1>8, CreateAssignmentKeeps DEF PostProbeAssignment
<1>9. CASE PatchProbeAssignment
  BY <1>9, UpdateAssignmentKeeps DEF PatchProbeAssignment
<1>10. CASE PostApproval
  BY <1>10, ApproveKeeps DEF PostApproval
<1>11. CASE PostRejection
  BY <1>11, RejectKeeps DEF PostRejection
<1>12. CASE RemoveProbeAssignment
  BY <1>12, DeleteAssignmentKeeps DEF RemoveProbeAssignment
<1>13. CASE \E p \in Callers : Commit(p)
  BY <1>13, CommitKeeps
<1>14. CASE ReadInventoryFile
  BY <1>14, ApplyFileKeeps DEF ReadInventoryFile
<1>15. CASE Deploy
  BY <1>15, DeployKeeps
<1>16. CASE \E r \in Replicas : Expire(r) \/ AppliedCheck(r) \/ AskFails(r)
  BY <1>16, ExpireKeeps, ListApprovedKeeps, AskKeeps, MarkKeeps, AskFailsKeeps DEF AppliedCheck
<1> QED
  BY <1>1, <1>2, <1>3, <1>4, <1>5, <1>6, <1>7, <1>8, <1>9, <1>10, <1>11, <1>12, <1>13, <1>14,
     <1>15, <1>16 DEF Next

\* The render of the rows is fit for the collector and approved: that its
\* rows are approved and share an interval and no probe is in the invariant.
LEMMA RenderFollows == IInv => RenderIsApproved
<1> SUFFICES ASSUME IInv PROVE RenderIsApproved
  OBVIOUS
<1>1. ASSUME NEW k \in ListRenderedProbeAssignments(asg, target)
      PROVE  k \in Keys /\ Exists(k) /\ asg[k].on /\ Approved(k) /\ target[k[1]].active
  BY DEF ListRenderedProbeAssignments, Exists, Approved
<1>2. CheckRender(asg, target)
  BY <1>1 DEF CheckRender, IInv, ProbesOnce, IntervalsAgree
<1>3. \A k \in ListRenderedProbeAssignments(asg, target) : okFor[k] = target[k[1]].conn
  BY <1>1 DEF IInv, RowsPlaced
<1> QED
  BY <1>2, <1>3 DEF RenderIsApproved

\* In every reachable state the tables and processes in flight have their types, a
\* transaction that holds its target's lock (store.LockDatabaseTarget) finds what
\* its checks found, and what a replica listed and nobody wrote is still so.
THEOREM AssignmentsInvariant == Spec => []IInv
<1>1. Init => IInv
  BY InitHolds
<1>2. IInv /\ [Next]_vars => IInv'
  BY NextKeeps
<1> QED
  BY <1>1, <1>2, PTL DEF Spec

\* The render of the committed rows passes its own check (render.go), and what is
\* in it was approved for the connection its target has now (targets.go), for any
\* targets, definitions, inventory files and callers.
THEOREM RenderStaysApproved == Spec => []RenderIsApproved
<1>1. IInv => RenderIsApproved
  BY RenderFollows
<1> QED
  BY <1>1, AssignmentsInvariant, PTL

\* An assignment the API manages and shows as applied was run by the collector as
\* it stands (applied.go), for any number of replicas, each with its kept answer.
THEOREM ApiAppliedWasReallyRun == Spec => []ApiAppliedWasRun
<1>1. IInv => ApiAppliedWasRun
  BY DEF IInv
<1> QED
  BY <1>1, AssignmentsInvariant, PTL
=============================================================================
