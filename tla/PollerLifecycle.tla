-------------------------- MODULE PollerLifecycle --------------------------
(***************************************************************************)
(* The supervisor of the db-collector's pollers (app/lifecycle.go): one    *)
(* entry per collector in items, one supervisor goroutine per entry, and   *)
(* the calls Start, Update, Drain, Stop and shutdown that replace and end  *)
(* them.  Every step is one critical section of pollerLifecycle.mu, or one *)
(* step outside it: the wait for a poller to exit is a step of its own,    *)
(* and it may give up.                                                     *)
(*                                                                         *)
(* An entry is a slot of its collector, so that an old and a new poller of *)
(* the same collector can be told apart: a call keeps the slot it found    *)
(* and compares it with items later, as the code compares pointers.        *)
(*                                                                         *)
(* Here the calls come from anywhere, at most one at a time for a          *)
(* collector; ConfigReload makes them the way a reload does.               *)
(***************************************************************************)
EXTENDS Integers, FiniteSets

CONSTANTS
  Ids,                 \* collector IDs
  Versions,            \* the configs a collector can have
  Slots,               \* bound: entries of a collector the model can hold
  FailedAfterCrashes,  \* failedAfterCrashes
  Faults               \* how pollers fail: a subset of {"crash", "reject"}

ASSUME LifecycleAssumption ==
  /\ FailedAfterCrashes \in Nat \ {0}
  /\ Faults \subseteq {"crash", "reject"}

NoEntry == "none"
NoVersion == "absent"

ASSUME NoneAssumption == NoEntry \notin Slots /\ NoVersion \notin Versions

VARIABLES
  items,   \* pollerLifecycle.items: the entry of each collector
  ent,     \* the entries and their supervisor goroutines
  closed,  \* pollerLifecycle.closed
  call     \* the call in progress for each collector

lifecycleVars == <<items, ent, closed, call>>

-----------------------------------------------------------------------------

\* pc of a supervisor goroutine: "run" (inside runPoller), "crashed" (about to
\* record it), "backoff" (waiting for its restart timer), "restart" (about to
\* record it), "rejected" (about to record it), "parked" (waiting for its
\* context), "exiting" (about to call exited), "closing" (about to close the done
\* channel), "done" (it is closed); "off" is no goroutine.
SupervisorPC ==
  {"off", "run", "crashed", "backoff", "restart", "rejected", "parked", "exiting", "closing",
   "done"}

Phases == {"running", "restarting", "backing_off", "failed", "draining", "stopping"}

Entry ==
  [pc : SupervisorPC, cfg : Versions \cup {NoVersion}, canceled : BOOLEAN,
   phase : Phases, crashes : 0 .. FailedAfterCrashes, hasCycle : BOOLEAN]

\* pc of a call: "todo" (not yet begun), "drain" and "update" (about to enter
\* Drain, Update), "select" and "wait" (the two selects of waitStopped),
\* "ready" (the wait succeeded), "returned".
Call ==
  [pc : {"idle", "todo", "drain", "update", "select", "wait", "ready", "returned"},
   what : {"start", "update", "stop"}, cfg : Versions \cup {NoVersion},
   old : Slots \cup {NoEntry}, err : BOOLEAN]

LifecycleTypeOK ==
  /\ items \in [Ids -> Slots \cup {NoEntry}]
  /\ ent \in [Ids -> [Slots -> Entry]]
  /\ closed \in BOOLEAN
  /\ call \in [Ids -> Call]

Off ==
  [pc |-> "off", cfg |-> NoVersion, canceled |-> TRUE, phase |-> "stopping",
   crashes |-> 0, hasCycle |-> FALSE]

\* A new pollerEntry.
Fresh(version) ==
  [pc |-> "run", cfg |-> version, canceled |-> FALSE, phase |-> "running",
   crashes |-> 0, hasCycle |-> FALSE]

IdleCall ==
  [pc |-> "idle", what |-> "stop", cfg |-> NoVersion, old |-> NoEntry, err |-> FALSE]

LifecycleInit ==
  /\ items = [id \in Ids |-> NoEntry]
  /\ ent = [id \in Ids |-> [s \in Slots |-> Off]]
  /\ closed = FALSE
  /\ call = [id \in Ids |-> IdleCall]

\* The goroutine of an entry has ended.
Ended(id, s) == ent[id][s].pc \in {"off", "done"}

\* The goroutine of an entry has not got past exited: its poller may still run.
Alive(id, s) == ~Ended(id, s) /\ ent[id][s].pc # "closing"

Exists(id) == items[id] # NoEntry

\* The entry items holds for id.
Current(id) == ent[id][items[id]]

-----------------------------------------------------------------------------
(* supervise                                                               *)

SetEntry(id, s, entry) == ent' = [ent EXCEPT ![id][s] = entry]

\* runPoller returns while the context is live: the poller panicked or returned
\* early (a crash), or it rejected its config.
PollerFails(id, s) ==
  /\ ent[id][s].pc = "run"
  /\ ~ent[id][s].canceled
  /\ \E fault \in Faults :
       SetEntry(id, s, [ent[id][s] EXCEPT !.pc = IF fault = "crash" THEN "crashed" ELSE "rejected"])
  /\ UNCHANGED <<items, closed, call>>

\* recordCycle: the report of a poller that was canceled is discarded.
RecordCycle(id, s) ==
  /\ ent[id][s].pc = "run"
  /\ ~ent[id][s].canceled
  /\ SetEntry(id, s, [ent[id][s] EXCEPT !.hasCycle = TRUE, !.crashes = 0])
  /\ UNCHANGED <<items, closed, call>>

\* recordCrash: only a phase no call has claimed meanwhile is overwritten.
RecordCrash(id, s) ==
  LET old == ent[id][s]
      crashes == IF old.crashes < FailedAfterCrashes THEN old.crashes + 1 ELSE old.crashes
      phase == IF old.phase \in {"running", "backing_off", "failed"}
                 THEN IF crashes >= FailedAfterCrashes THEN "failed" ELSE "backing_off"
                 ELSE old.phase
  IN
  /\ old.pc = "crashed"
  /\ SetEntry(id, s, [old EXCEPT !.pc = "backoff", !.crashes = crashes, !.phase = phase])
  /\ UNCHANGED <<items, closed, call>>

\* The restart timer fires.
BackoffOver(id, s) ==
  /\ ent[id][s].pc = "backoff"
  /\ SetEntry(id, s, [ent[id][s] EXCEPT !.pc = "restart"])
  /\ UNCHANGED <<items, closed, call>>

\* Mutant: the restart overwrites the phase a call has set meanwhile.
RecordRestart_Overwrites(id, s) ==
  /\ ent[id][s].pc = "restart"
  /\ SetEntry(id, s, [ent[id][s] EXCEPT !.pc = "run", !.phase = "running"])
  /\ UNCHANGED <<items, closed, call>>

\* recordRestart, and the next run of the poller.
RecordRestart(id, s) ==
  LET old == ent[id][s]
  IN
  /\ old.pc = "restart"
  /\ SetEntry(id, s, [old EXCEPT !.pc = "run",
       !.phase = IF @ \in {"backing_off", "failed"} THEN "running" ELSE @])
  /\ UNCHANGED <<items, closed, call>>

\* Mutant: the phase stays running.
RecordFailure_KeepsPhase(id, s) ==
  /\ ent[id][s].pc = "rejected"
  /\ SetEntry(id, s, [ent[id][s] EXCEPT !.pc = "parked"])
  /\ UNCHANGED <<items, closed, call>>

\* recordFailure: no restart until a reload; the goroutine waits for its context.
RecordFailure(id, s) ==
  LET old == ent[id][s]
  IN
  /\ old.pc = "rejected"
  /\ SetEntry(id, s, [old EXCEPT !.pc = "parked",
       !.phase = IF @ = "running" THEN "failed" ELSE @])
  /\ UNCHANGED <<items, closed, call>>

\* Mutant: a poller that rejected its config does not watch its context.
LeaveLoop_ParkedStays(id, s) ==
  /\ ent[id][s].pc \in {"run", "backoff"}
  /\ ent[id][s].canceled
  /\ SetEntry(id, s, [ent[id][s] EXCEPT !.pc = "exiting"])
  /\ UNCHANGED <<items, closed, call>>

\* The loop ends on cancellation: a canceled poller returns, a wait is cut short.
LeaveLoop(id, s) ==
  /\ ent[id][s].pc \in {"run", "backoff", "parked"}
  /\ ent[id][s].canceled
  /\ SetEntry(id, s, [ent[id][s] EXCEPT !.pc = "exiting"])
  /\ UNCHANGED <<items, closed, call>>

\* exited under the lock: a stopping entry is removed; one that a given-up Update
\* left behind is marked failed.  Only the current entry is touched.  The done
\* channel is closed after the lock is released; for an entry that is no longer
\* registered only a Stop that waits for it can tell, so it is done at once.
Exited(id, s) ==
  LET old == ent[id][s]
      isCurrent == items[id] = s
      removed == isCurrent /\ old.phase = "stopping"
  IN
  /\ old.pc = "exiting"
  /\ SetEntry(id, s, [old EXCEPT !.pc = IF isCurrent /\ ~removed THEN "closing" ELSE "done",
       !.phase = IF isCurrent /\ @ = "restarting" THEN "failed" ELSE @])
  /\ items' = IF removed THEN [items EXCEPT ![id] = NoEntry] ELSE items
  /\ UNCHANGED <<closed, call>>

\* exited after it has released the lock: the done channel is closed.
CloseDone(id, s) ==
  /\ ent[id][s].pc = "closing"
  /\ SetEntry(id, s, [ent[id][s] EXCEPT !.pc = "done"])
  /\ UNCHANGED <<items, closed, call>>

SupervisorStep(id, s) ==
  \/ RecordCrash(id, s) \/ BackoffOver(id, s) \/ RecordRestart(id, s)
  \/ RecordFailure(id, s) \/ LeaveLoop(id, s) \/ Exited(id, s) \/ CloseDone(id, s)

-----------------------------------------------------------------------------
(* Start, Update, Drain and Stop                                           *)

Return(id, err) == call' = [call EXCEPT ![id].pc = "returned", ![id].err = err]

\* The entry phase and context a call sets under the lock before it waits.
Cancel(id, phase) ==
  ent' = [ent EXCEPT ![id][items[id]].phase = phase, ![id][items[id]].canceled = TRUE]

\* startLocked: refused after shutdown; otherwise a new entry replaces the old.
startLocked(id) ==
  IF closed
    THEN Return(id, TRUE) /\ UNCHANGED <<items, ent>>
    ELSE \E s \in Slots :
           /\ Ended(id, s)
           /\ s # items[id]
           /\ ent' = [ent EXCEPT ![id] = [k \in Slots |->
                        IF k = s THEN Fresh(call[id].cfg)
                        ELSE IF Ended(id, k) THEN Off ELSE ent[id][k]]]
           /\ items' = [items EXCEPT ![id] = s]
           /\ Return(id, FALSE)

\* Start: a collector that exists is updated instead.
Start(id) ==
  /\ call[id].pc = "todo"
  /\ call[id].what = "start"
  /\ IF Exists(id)
       THEN /\ call' = [call EXCEPT ![id].pc = "update", ![id].what = "update"]
            /\ UNCHANGED <<items, ent>>
       ELSE startLocked(id)
  /\ UNCHANGED closed

\* Mutant: the replacement is started without waiting for the old poller.
UpdateBegin_NoWait(id) ==
  /\ call[id].pc \in {"todo", "update"}
  /\ call[id].what = "update"
  /\ IF ~closed /\ Exists(id)
       THEN Cancel(id, "restarting")
       ELSE UNCHANGED ent
  /\ call' = IF closed
               THEN [call EXCEPT ![id].pc = "returned", ![id].err = TRUE]
               ELSE [call EXCEPT ![id].pc = "ready", ![id].old = items[id]]
  /\ UNCHANGED <<items, closed>>

\* Update up to its wait.
UpdateBegin(id) ==
  /\ call[id].pc \in {"todo", "update"}
  /\ call[id].what = "update"
  /\ IF ~closed /\ Exists(id)
       THEN Cancel(id, "restarting")
       ELSE UNCHANGED ent
  /\ call' = IF closed
               THEN [call EXCEPT ![id].pc = "returned", ![id].err = TRUE]
               ELSE [call EXCEPT ![id].pc = IF Exists(id) THEN "select" ELSE "ready",
                                 ![id].old = items[id]]
  /\ UNCHANGED <<items, closed>>

\* Drain, the first half of a removal.
Drain(id) ==
  /\ call[id].pc = "drain"
  /\ ent' = IF Exists(id) THEN [ent EXCEPT ![id][items[id]].phase = "draining"] ELSE ent
  /\ call' = [call EXCEPT ![id].pc = "todo"]
  /\ UNCHANGED <<items, closed>>

\* Stop up to its wait.
StopBegin(id) ==
  /\ call[id].pc = "todo"
  /\ call[id].what = "stop"
  /\ IF Exists(id)
       THEN /\ Cancel(id, "stopping")
            /\ call' = [call EXCEPT ![id].pc = "select", ![id].old = items[id]]
       ELSE UNCHANGED ent /\ Return(id, FALSE)
  /\ UNCHANGED <<items, closed>>

OldDone(id) == Ended(id, call[id].old)

\* waitStopped: an entry that is done is noticed even if the context has ended
\* (the first select); then the wait succeeds as soon as the entry is done.
WaitDone(id) ==
  /\ call[id].pc \in {"select", "wait"}
  /\ OldDone(id) \/ call[id].pc = "select"
  /\ IF ~OldDone(id)
       THEN call' = [call EXCEPT ![id].pc = "wait"]
       ELSE IF call[id].what = "stop"
              THEN Return(id, FALSE)
              ELSE call' = [call EXCEPT ![id].pc = "ready"]
  /\ UNCHANGED <<items, ent, closed>>

\* waitStopped gives up: the context ended first.  Nothing is undone.
WaitExpires(id) ==
  /\ call[id].pc = "wait"
  /\ Return(id, TRUE)
  /\ UNCHANGED <<items, ent, closed>>

\* Update after its wait: start the replacement unless the collector got another
\* entry meanwhile.
UpdateReplace(id) ==
  /\ call[id].pc = "ready"
  /\ IF Exists(id) /\ items[id] # call[id].old
       THEN Return(id, TRUE) /\ UNCHANGED <<items, ent>>
       ELSE startLocked(id)
  /\ UNCHANGED closed

CallStep(id) ==
  \/ Start(id) \/ UpdateBegin(id) \/ Drain(id) \/ StopBegin(id)
  \/ WaitDone(id) \/ UpdateReplace(id)

\* shutdown: refuse further starts and cancel every registered poller at once.
shutdown ==
  /\ ~closed
  /\ closed' = TRUE
  /\ ent' = [id \in Ids |-> [s \in Slots |->
       IF s = items[id] THEN [ent[id][s] EXCEPT !.phase = "stopping", !.canceled = TRUE]
                        ELSE ent[id][s]]]
  /\ UNCHANGED <<items, call>>

-----------------------------------------------------------------------------
(* Callers                                                                 *)

\* What a caller can begin: Start, Update, Stop with or without Drain, or nothing.
Invocations ==
  {IdleCall} \cup [pc : {"todo"}, what : {"start", "update"}, cfg : Versions, old : {NoEntry}, err : {FALSE}]
             \cup {[IdleCall EXCEPT !.pc = pc] : pc \in {"todo", "drain"}}

\* Callers begin calls for some collectors at once, none of which has a call in
\* progress.
Invoke ==
  /\ \E who \in SUBSET Ids, new \in [Ids -> Invocations] :
       /\ \A id \in who : call[id].pc \in {"idle", "returned"}
       /\ call' = [id \in Ids |-> IF id \in who THEN new[id] ELSE call[id]]
  /\ UNCHANGED <<items, ent, closed>>

PollerStep(id) ==
  \E s \in Slots : PollerFails(id, s) \/ RecordCycle(id, s) \/ SupervisorStep(id, s)

LifecycleNext ==
  \/ Invoke
  \/ \E id \in Ids : CallStep(id) \/ WaitExpires(id) \/ PollerStep(id)
  \/ shutdown

LifecycleSpec == LifecycleInit /\ [][LifecycleNext]_lifecycleVars

\* Goroutines keep running, timers fire and a canceled poller returns
\* (CollectorCycle!CyclesGoOn).  Waits need not expire.
LifecycleFairness ==
  \A id \in Ids :
    /\ WF_lifecycleVars(CallStep(id))
    /\ \A s \in Slots : WF_lifecycleVars(SupervisorStep(id, s))

FairLifecycleSpec == LifecycleSpec /\ LifecycleFairness

-----------------------------------------------------------------------------
(* Properties                                                              *)

\* Two pollers of a collector never run at once, however updates, stops,
\* crashes, waits that give up and the shutdown interleave: the old one deletes
\* the collector's series when it exits.
OnePollerPerCollector ==
  \A id \in Ids : \A s, k \in Slots : Alive(id, s) /\ Alive(id, k) => s = k

\* No poller is lost: as long as its goroutine runs, items holds its entry, so
\* that a later reload or the shutdown finds it.
EveryPollerRegistered ==
  \A id \in Ids : \A s \in Slots : Alive(id, s) => items[id] = s

\* An entry in phase running has a poller that runs, or one whose failure is
\* about to be recorded: never one that was canceled, is parked or has exited.
RunningIsTrue ==
  \A id \in Ids : Exists(id) /\ Current(id).phase = "running" =>
    /\ ~Current(id).canceled
    /\ Current(id).pc \in {"run", "crashed", "rejected", "restart"}

\* A poller runs on only in an entry that no call has claimed: a canceled entry
\* never goes back to a phase that hides the cancellation.
CanceledShowsIt ==
  \A id \in Ids : \A s \in Slots :
    ent[id][s].canceled /\ items[id] = s =>
      ent[id][s].phase \in {"restarting", "draining", "stopping", "failed"}

\* After shutdown has begun every poller that still runs was told to stop, and
\* none is started by a call that was waiting meanwhile.
ShutdownCancelsAll ==
  closed => \A id \in Ids : \A s \in Slots : Alive(id, s) => ent[id][s].canceled

\* What the map of entries says is true, for a reload that plans from it, for the
\* states the admin endpoint shows and for the shutdown that cancels what it
\* finds there: no poller is lost, phase running means a poller that runs, and a
\* poller started by a call that was waiting when the shutdown began is canceled
\* as well.
RegistryTruthful == EveryPollerRegistered /\ RunningIsTrue /\ ShutdownCancelsAll

\* Nothing of the lifecycle gets stuck.  Every poller exits after the shutdown
\* began, also one that is parked or backs off at that moment; a crashed poller
\* runs again, however often it crashed, unless it is replaced, stopped or shut
\* down (failed is a report and not an end); every call returns, even one whose
\* context never ends.
LifecycleProgress ==
  /\ closed ~> \A id \in Ids : \A s \in Slots : Ended(id, s)
  /\ \A id \in Ids : \A s \in Slots :
       ent[id][s].pc = "backoff" ~> ent[id][s].pc = "run" \/ ent[id][s].canceled
  /\ \A id \in Ids : call[id].pc # "idle" ~> call[id].pc \in {"returned", "idle"}
=============================================================================
