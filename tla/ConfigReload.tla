---------------------------- MODULE ConfigReload ----------------------------
(***************************************************************************)
(* Startup, reload and readiness of the db-collector: the active snapshot  *)
(* (config.Manager), the plan of a reload (app.planReload), its three      *)
(* phases and their rollback (config.ReconcileWithRollback) on top of the  *)
(* supervisor of PollerLifecycle, and the readiness request that ends the  *)
(* warm-up.                                                                *)
(*                                                                         *)
(* Reloads are serialised by the reload lock, so there is one reload at a  *)
(* time; one that finds the lock taken until its deadline, or an invalid   *)
(* candidate, changes nothing but a diagnostic text and is left out.       *)
(***************************************************************************)
EXTENDS PollerLifecycle

CONSTANTS
  Candidates,   \* the configs the file can hold: functions from Ids to versions
  ReadyProbes   \* whether readiness requests are made

ASSUME CandidatesAssumption ==
  /\ Candidates \subseteq [Ids -> Versions \cup {NoVersion}]
  /\ ReadyProbes \in BOOLEAN

VARIABLES
  snapshot,     \* Manager.active: the config and RuntimeDiverged
  reload,       \* the reload (or initial reconcile) in progress
  initialized,  \* service.initialized
  warm,         \* service.warm
  probe,        \* a readiness request: what it has seen
  tainted       \* history: some rollback has failed

reloadVars == <<snapshot, reload, initialized, warm, probe, tainted>>
vars == <<lifecycleVars, reloadVars>>

-----------------------------------------------------------------------------

\* What a config enables: the IDs it does not leave out.
Enabled(config) == {id \in Ids : config[id] # NoVersion}

\* pc of a reload: "plan" (needsRestart is asked for the IDs in ask), "do" and
\* "undo" (phase 1 adds, 2 updates, 3 removes).  ctx is the context of the
\* waits: that of the reload, then that of the rollback.
Reload ==
  [pc : {"idle", "plan", "do", "undo"}, phase : 1 .. 3,
   previous : [Ids -> Versions \cup {NoVersion}], next : [Ids -> Versions \cup {NoVersion}],
   ask : SUBSET Ids, restart : SUBSET Ids, ctx : {"live", "expired"}, failed : BOOLEAN]

TypeOK ==
  /\ LifecycleTypeOK
  /\ snapshot \in [config : [Ids -> Versions \cup {NoVersion}], diverged : BOOLEAN]
  /\ reload \in Reload
  /\ initialized \in BOOLEAN
  /\ warm \in BOOLEAN
  /\ probe \in {"none", "cycled", "waiting"}
  /\ tainted \in BOOLEAN

Nothing == [id \in Ids |-> NoVersion]

IdleReload ==
  [pc |-> "idle", phase |-> 1, previous |-> Nothing, next |-> Nothing,
   ask |-> {}, restart |-> {}, ctx |-> "live", failed |-> FALSE]

Init ==
  /\ LifecycleInit
  /\ snapshot \in [config : Candidates, diverged : {FALSE}]
  /\ reload = IdleReload
  /\ initialized = FALSE
  /\ warm = FALSE
  /\ probe = "none"
  /\ tainted = FALSE

-----------------------------------------------------------------------------
(* The plan                                                                *)

\* lifecycle.configs: the config of every registered entry, whatever its phase.
configs == [id \in Ids |-> IF Exists(id) THEN Current(id).cfg ELSE NoVersion]

\* DiffCollectors; the unchanged collectors that need a restart are updated.
Added(r) == Enabled(r.next) \ Enabled(r.previous)
Updated(r) ==
  {id \in Enabled(r.next) \cap Enabled(r.previous) : r.next[id] # r.previous[id]} \cup r.restart
Removed(r) == Enabled(r.previous) \ Enabled(r.next)

\* The collectors of a phase.
PhaseIds(r) == CASE r.phase = 1 -> Added(r) [] r.phase = 2 -> Updated(r) [] r.phase = 3 -> Removed(r)

\* The calls a phase makes, forward (do) or to undo it.
StepOf(r, id) ==
  CASE r.pc = "do" /\ r.phase = 1 -> [IdleCall EXCEPT !.pc = "todo", !.what = "start", !.cfg = r.next[id]]
    [] r.pc = "do" /\ r.phase = 2 -> [IdleCall EXCEPT !.pc = "todo", !.what = "update", !.cfg = r.next[id]]
    [] r.pc = "do" /\ r.phase = 3 -> [IdleCall EXCEPT !.pc = "drain"]
    [] r.pc = "undo" /\ r.phase = 3 -> [IdleCall EXCEPT !.pc = "todo", !.what = "start", !.cfg = r.previous[id]]
    [] r.pc = "undo" /\ r.phase = 2 -> [IdleCall EXCEPT !.pc = "todo", !.what = "update", !.cfg = r.previous[id]]
    [] r.pc = "undo" /\ r.phase = 1 -> [IdleCall EXCEPT !.pc = "todo"]

\* runSteps: the steps of the phase that r is about to run.
EnterPhase(r) ==
  /\ reload' = r
  /\ call' = [id \in Ids |-> IF id \in PhaseIds(r) THEN StepOf(r, id) ELSE IdleCall]

\* initialReconcile: the snapshot against an empty runtime.
InitialReconcile ==
  /\ ~initialized
  /\ reload.pc = "idle"
  /\ EnterPhase([IdleReload EXCEPT !.pc = "do", !.next = snapshot.config])
  /\ UNCHANGED <<items, ent, closed, snapshot, initialized, warm, probe, tainted>>

\* reload takes the lock and loads the candidate; planReload reads what runs.
PlanReload(next) ==
  /\ initialized
  /\ reload.pc = "idle"
  /\ reload' = [IdleReload EXCEPT !.pc = "plan", !.previous = configs, !.next = next,
       !.ask = {id \in Enabled(configs) : next[id] = configs[id]}]
  /\ UNCHANGED <<lifecycleVars, snapshot, initialized, warm, probe, tainted>>

\* planReload asks needsRestart for an unchanged collector, under the lock again.
NeedsRestart(id) ==
  /\ reload.pc = "plan"
  /\ id \in reload.ask
  /\ reload' = [reload EXCEPT !.ask = @ \ {id},
       !.restart = IF Exists(id) /\ Current(id).phase # "running" THEN @ \cup {id} ELSE @]
  /\ UNCHANGED <<lifecycleVars, snapshot, initialized, warm, probe, tainted>>

PlanDone ==
  /\ reload.pc = "plan"
  /\ reload.ask = {}
  /\ EnterPhase([reload EXCEPT !.pc = "do"])
  /\ UNCHANGED <<items, ent, closed, snapshot, initialized, warm, probe, tainted>>

-----------------------------------------------------------------------------
(* ReconcileWithRollback                                                   *)

\* Collectors are added, and taken back, one after the other; the steps of the
\* other phases run concurrently.
Turn(id) ==
  reload.phase = 1 =>
    \A other \in PhaseIds(reload) \ {id} : call[other].pc \in {"todo", "returned"}

\* A step of a collector's call.
StepRuns(id) ==
  /\ reload.pc \in {"do", "undo"}
  /\ Turn(id)
  /\ CallStep(id)
  /\ UNCHANGED reloadVars

\* The reload's deadline, or that of its rollback.
Deadline ==
  /\ reload.pc \in {"do", "undo"}
  /\ reload.ctx = "live"
  /\ reload' = [reload EXCEPT !.ctx = "expired"]
  /\ UNCHANGED <<lifecycleVars, snapshot, initialized, warm, probe, tainted>>

\* Mutant: the waits of a rollback ignore its deadline.
StepExpires_ForwardOnly(id) ==
  /\ reload.pc = "do"
  /\ reload.ctx = "expired"
  /\ WaitExpires(id)
  /\ UNCHANGED reloadVars

\* A wait of the reload, or of its rollback, gives up at the deadline.
StepExpires(id) ==
  /\ reload.ctx = "expired"
  /\ WaitExpires(id)
  /\ UNCHANGED reloadVars

\* Mutant: runSteps does not wait for its steps.
PhaseDone_NoWait == reload.pc \in {"do", "undo"}

\* runSteps has waited for every step of the phase.
PhaseDone ==
  /\ reload.pc \in {"do", "undo"}
  /\ \A id \in PhaseIds(reload) : call[id].pc = "returned"

\* Some step of the phase failed.
PhaseFailed == \E id \in PhaseIds(reload) : call[id].err

Finish ==
  /\ reload' = IdleReload
  /\ call' = [id \in Ids |-> IdleCall]

\* The next forward phase.
NextPhase ==
  /\ PhaseDone
  /\ reload.pc = "do"
  /\ ~PhaseFailed
  /\ reload.phase < 3
  /\ EnterPhase([reload EXCEPT !.phase = @ + 1])
  /\ UNCHANGED <<items, ent, closed, snapshot, initialized, warm, probe, tainted>>

\* Every phase succeeded: the manager publishes the candidate.
Publish ==
  /\ PhaseDone
  /\ reload.pc = "do"
  /\ ~PhaseFailed
  /\ reload.phase = 3
  /\ Finish
  /\ snapshot' = [config |-> reload.next, diverged |-> FALSE]
  /\ initialized' = TRUE
  /\ UNCHANGED <<items, ent, closed, warm, probe, tainted>>

\* Mutant: the phase that failed is not undone.
StartRollback_SkipsFailed ==
  /\ PhaseDone
  /\ reload.pc = "do"
  /\ PhaseFailed
  /\ reload.phase > 1
  /\ EnterPhase([reload EXCEPT !.pc = "undo", !.phase = @ - 1, !.ctx = "live"])
  /\ UNCHANGED <<items, ent, closed, snapshot, initialized, warm, probe, tainted>>

\* A phase failed: undo it and the ones before it under a fresh context.
StartRollback ==
  /\ PhaseDone
  /\ reload.pc = "do"
  /\ PhaseFailed
  /\ EnterPhase([reload EXCEPT !.pc = "undo", !.ctx = "live"])
  /\ UNCHANGED <<items, ent, closed, snapshot, initialized, warm, probe, tainted>>

UndoPhase ==
  /\ PhaseDone
  /\ reload.pc = "undo"
  /\ reload.phase > 1
  /\ EnterPhase([reload EXCEPT !.phase = @ - 1, !.failed = @ \/ PhaseFailed])
  /\ UNCHANGED <<items, ent, closed, snapshot, initialized, warm, probe, tainted>>

\* The reload has failed: the snapshot stays, and is marked diverged when an undo
\* step failed too.
RollbackDone ==
  /\ PhaseDone
  /\ reload.pc = "undo"
  /\ reload.phase = 1
  /\ Finish
  /\ snapshot' = [snapshot EXCEPT !.diverged = @ \/ reload.failed \/ PhaseFailed]
  /\ tainted' = (tainted \/ reload.failed \/ PhaseFailed)
  /\ UNCHANGED <<items, ent, closed, initialized, warm, probe>>

-----------------------------------------------------------------------------
(* Readiness                                                               *)

judged(phase) == phase \notin {"draining", "stopping", "restarting"}

\* evaluateReadiness: every judged collector has completed a cycle.
AllCycled ==
  \A id \in Ids : Exists(id) /\ judged(Current(id).phase) => Current(id).hasCycle

\* evaluateReadiness, without its staleness limit: the pod is ready.
Ready ==
  /\ initialized
  /\ ~snapshot.diverged
  /\ \A id \in Ids : Exists(id) => Current(id).phase \notin {"backing_off", "failed"}
  /\ warm \/ AllCycled

\* readiness takes its picture of the collectors.
ReadinessLooks ==
  /\ ReadyProbes
  /\ probe = "none"
  /\ probe' = IF AllCycled THEN "cycled" ELSE "waiting"
  /\ UNCHANGED <<lifecycleVars, snapshot, reload, initialized, warm, tainted>>

\* readiness ends the warm-up; it reads initialized again.
ReadinessLatches ==
  /\ probe # "none"
  /\ probe' = "none"
  /\ warm' = (warm \/ (initialized /\ probe = "cycled"))
  /\ UNCHANGED <<lifecycleVars, snapshot, reload, initialized, tainted>>

-----------------------------------------------------------------------------

ReloadStep ==
  \/ PlanDone \/ NextPhase \/ Publish \/ StartRollback \/ UndoPhase \/ RollbackDone
  \/ \E id \in Ids : NeedsRestart(id) \/ StepRuns(id) \/ StepExpires(id)

PollerRuns(id) == PollerStep(id) /\ UNCHANGED reloadVars

Shutdown == initialized /\ shutdown /\ UNCHANGED reloadVars

Next ==
  \/ InitialReconcile
  \/ \E next \in Candidates : PlanReload(next)
  \/ ReloadStep
  \/ Deadline
  \/ \E id \in Ids : PollerRuns(id)
  \/ Shutdown
  \/ ReadinessLooks
  \/ ReadinessLatches

Spec == Init /\ [][Next]_vars

\* As in PollerLifecycle; the deadlines of a reload and of a rollback fire.
Fairness ==
  /\ WF_vars(InitialReconcile)
  /\ WF_vars(ReloadStep)
  /\ WF_vars(Deadline)

FairSpec == Spec /\ Fairness

-----------------------------------------------------------------------------
(* Properties                                                              *)

\* A reload in progress calls the lifecycle the way PollerLifecycle allows: at
\* most one call for a collector, and phases that do not overlap.
ImplementsLifecycle == LifecycleSpec

AtRest == initialized /\ reload.pc = "idle" /\ ~closed

\* Collector id runs version v: its entry is registered, was not canceled and
\* has not given up.
RunsVersion(id, v) == Exists(id) /\ Current(id).cfg = v /\ ~Current(id).canceled

\* Until a rollback fails, the runtime is exactly what the snapshot says between
\* reloads: every enabled collector runs with its config and nothing else is
\* registered, whichever reloads failed, timed out and were rolled back.
RuntimeIsSnapshot ==
  AtRest /\ ~tainted =>
    \A id \in Ids :
      IF id \in Enabled(snapshot.config) THEN RunsVersion(id, snapshot.config[id])
                                         ELSE ~Exists(id)

\* A ready pod polls: between reloads, and until a rollback fails, every enabled
\* collector of a ready pod has a poller that runs its config or one that has
\* failed this very moment; none is parked, waits for a restart or has exited.
ReadyMeansPolling ==
  AtRest /\ ~tainted /\ Ready =>
    \A id \in Enabled(snapshot.config) :
      Exists(id) /\ Current(id).pc \in {"run", "crashed", "rejected"}

\* Every reload ends, successfully or not, although pollers may never return.
ReloadsEnd == reload.pc # "idle" ~> reload.pc = "idle"
=============================================================================
