---------------------------- MODULE ConfigReloadProofs ---------------------------
(***************************************************************************)
(* The pollers of the db-collector, for any collectors, configs and        *)
(* entries: PollerLifecycle, and the ConfigReload that drives it.          *)
(***************************************************************************)
EXTENDS ConfigReload, TLAPS

-----------------------------------------------------------------------------
(***************************************************************************)
(* Proofs about PollerLifecycle, for any number of collectors, configs and *)
(* slots: types, one registered poller per collector, phases that tell the *)
(* truth, and the shutdown that reaches every poller.                      *)
(*                                                                         *)
(* EveryPollerRegistered is not inductive by itself: the replacement that  *)
(* UpdateReplace starts is safe because the call has seen the old entry    *)
(* end (WaitsForEntry).  The phases are truthful because a canceled entry  *)
(* keeps a phase that a call gave it until its goroutine is past exited    *)
(* (PhasesShow), so that neither recordCrash nor recordRestart finds a     *)
(* phase it may overwrite.                                                 *)
(***************************************************************************)

-----------------------------------------------------------------------------
(* The inductive invariant                                                 *)

\* A call that waits, waits for an entry; one that may start a replacement has
\* seen that entry end.
WaitsForEntry ==
  \A id \in Ids :
    /\ call[id].pc \in {"select", "wait"} => call[id].old \in Slots
    /\ call[id].pc = "ready" /\ call[id].old \in Slots => Ended(id, call[id].old)

\* What the phase of an entry says about its cancellation and its goroutine.
Shows(e) ==
  /\ e.canceled => \/ e.phase \in {"restarting", "draining", "stopping"}
                   \/ e.phase = "failed" /\ e.pc \in {"closing", "done"}
  /\ e.phase = "running" => e.pc \in {"run", "crashed", "rejected"}
  /\ e.pc \in {"off", "exiting", "closing", "done"} => e.canceled

PhasesShow == \A id \in Ids : \A s \in Slots : Shows(ent[id][s])

IInv ==
  /\ LifecycleTypeOK
  /\ EveryPollerRegistered
  /\ ShutdownCancelsAll
  /\ WaitsForEntry
  /\ PhasesShow

-----------------------------------------------------------------------------
(* Steps of a supervisor goroutine                                         *)

\* A step that changes one entry whose goroutine has not ended, neither revives
\* its poller nor touches its cancellation, and leaves it a truthful phase; the
\* entry may be removed from items with it.
LEMMA EntryStep ==
  ASSUME IInv, NEW id \in Ids, NEW s \in Slots, NEW new \in Entry,
         ~Ended(id, s),
         Alive(id, s) \/ new.pc \in {"closing", "done"},
         new.canceled = ent[id][s].canceled,
         Shows(new),
         SetEntry(id, s, new),
         \/ items' = items
         \/ /\ items' = [items EXCEPT ![id] = NoEntry]
            /\ items[id] = s
            /\ new.pc \in {"closing", "done"},
         UNCHANGED <<closed, call>>
  PROVE  IInv'
<1>1. ent' = [ent EXCEPT ![id] = [ent[id] EXCEPT ![s] = new]]
  BY DEF SetEntry, IInv, LifecycleTypeOK
<1>2. /\ ent' \in [Ids -> [Slots -> Entry]]
      /\ \A i \in Ids, k \in Slots :
           ent'[i][k] = IF i = id /\ k = s THEN new ELSE ent[i][k]
  BY <1>1 DEF IInv, LifecycleTypeOK
<1>3. /\ items' \in [Ids -> Slots \cup {NoEntry}]
      /\ \A i \in Ids : \/ items'[i] = items[i]
                        \/ i = id /\ items[i] = s /\ new.pc \in {"closing", "done"}
  <2>1. CASE items' = items
    BY <2>1 DEF IInv, LifecycleTypeOK
  <2>2. CASE /\ items' = [items EXCEPT ![id] = NoEntry]
             /\ items[id] = s
             /\ new.pc \in {"closing", "done"}
    BY <2>2 DEF IInv, LifecycleTypeOK
  <2> QED
    BY <2>1, <2>2
<1>4. LifecycleTypeOK'
  BY <1>2, <1>3 DEF IInv, LifecycleTypeOK
<1>5. EveryPollerRegistered'
  BY <1>2, <1>3 DEF IInv, EveryPollerRegistered, Alive, Ended
<1>6. ShutdownCancelsAll'
  BY <1>2 DEF IInv, ShutdownCancelsAll, Alive, Ended
<1>7. WaitsForEntry'
  BY <1>2 DEF IInv, WaitsForEntry, Ended
<1>8. PhasesShow'
  BY <1>2 DEF IInv, PhasesShow, Shows
<1> QED
  BY <1>4, <1>5, <1>6, <1>7, <1>8 DEF IInv

\* No step of a poller or of its supervisor breaks the invariant.
LEMMA PollerStepKeeps ==
  ASSUME IInv, NEW id \in Ids, PollerStep(id)
  PROVE  IInv'
<1>1. PICK s \in Slots : PollerFails(id, s) \/ RecordCycle(id, s) \/ SupervisorStep(id, s)
  BY DEF PollerStep
<1> DEFINE old == ent[id][s]
<1>2. old \in Entry /\ Shows(old)
  BY DEF IInv, LifecycleTypeOK, PhasesShow
<1>3. CASE PollerFails(id, s)
  <2>0. PICK fault \in Faults :
          SetEntry(id, s, [old EXCEPT !.pc = IF fault = "crash" THEN "crashed" ELSE "rejected"])
    BY <1>3 DEF PollerFails
  <2> DEFINE new == [old EXCEPT !.pc = IF fault = "crash" THEN "crashed" ELSE "rejected"]
  <2>1. SetEntry(id, s, new) /\ UNCHANGED <<items, closed, call>>
    BY <1>3, <2>0 DEF PollerFails
  <2>2. new \in Entry /\ Shows(new) /\ new.canceled = old.canceled
    BY <1>2, <1>3 DEF PollerFails, Entry, SupervisorPC, Shows
  <2>3. ~Ended(id, s) /\ (Alive(id, s) \/ new.pc \in {"closing", "done"})
    BY <1>2, <1>3 DEF PollerFails, Entry, Alive, Ended
  <2> HIDE DEF new
  <2> QED
    BY <2>1, <2>2, <2>3, EntryStep
<1>4. CASE RecordCycle(id, s)
  <2> DEFINE new == [old EXCEPT !.hasCycle = TRUE, !.crashes = 0]
  <2>1. SetEntry(id, s, new) /\ UNCHANGED <<items, closed, call>>
    BY <1>4 DEF RecordCycle
  <2>2. new \in Entry /\ Shows(new) /\ new.canceled = old.canceled
    <3>1. 0 \in 0 .. FailedAfterCrashes
      BY <1>2, LifecycleAssumption DEF Entry
    <3>2. new \in Entry
      BY <1>2, <3>1 DEF Entry, SupervisorPC
    <3>3. Shows(new) /\ new.canceled = old.canceled
      BY <1>2, <1>4 DEF RecordCycle, Entry, Shows
    <3> QED
      BY <3>2, <3>3
  <2>3. ~Ended(id, s) /\ (Alive(id, s) \/ new.pc \in {"closing", "done"})
    BY <1>2, <1>4 DEF RecordCycle, Entry, Alive, Ended
  <2> HIDE DEF new
  <2> QED
    BY <2>1, <2>2, <2>3, EntryStep
<1>5. CASE RecordCrash(id, s)
  <2> DEFINE crashes == IF old.crashes < FailedAfterCrashes THEN old.crashes + 1 ELSE old.crashes
             phase == IF old.phase \in {"running", "backing_off", "failed"}
                        THEN IF crashes >= FailedAfterCrashes THEN "failed" ELSE "backing_off"
                        ELSE old.phase
  <2> DEFINE new == [old EXCEPT !.pc = "backoff", !.crashes = crashes, !.phase = phase]
  <2>1. SetEntry(id, s, new) /\ UNCHANGED <<items, closed, call>>
    BY <1>5 DEF RecordCrash
  <2>2. new \in Entry /\ Shows(new) /\ new.canceled = old.canceled
    <3>1. crashes \in 0 .. FailedAfterCrashes
      BY <1>2, LifecycleAssumption DEF Entry
    <3>2. new \in Entry
      BY <1>2, <3>1 DEF Entry, SupervisorPC, Phases
    <3>3. Shows(new) /\ new.canceled = old.canceled
      BY <1>2, <1>5 DEF RecordCrash, Entry, Shows
    <3> QED
      BY <3>2, <3>3
  <2>3. ~Ended(id, s) /\ (Alive(id, s) \/ new.pc \in {"closing", "done"})
    BY <1>2, <1>5 DEF RecordCrash, Entry, Alive, Ended
  <2> HIDE DEF new
  <2> QED
    BY <2>1, <2>2, <2>3, EntryStep
<1>6. CASE BackoffOver(id, s)
  <2> DEFINE new == [old EXCEPT !.pc = "restart"]
  <2>1. SetEntry(id, s, new) /\ UNCHANGED <<items, closed, call>>
    BY <1>6 DEF BackoffOver
  <2>2. new \in Entry /\ Shows(new) /\ new.canceled = old.canceled
    BY <1>2, <1>6 DEF BackoffOver, Entry, SupervisorPC, Shows
  <2>3. ~Ended(id, s) /\ (Alive(id, s) \/ new.pc \in {"closing", "done"})
    BY <1>2, <1>6 DEF BackoffOver, Entry, Alive, Ended
  <2> HIDE DEF new
  <2> QED
    BY <2>1, <2>2, <2>3, EntryStep
<1>7. CASE RecordRestart(id, s)
  <2> DEFINE new == [old EXCEPT !.pc = "run",
                  !.phase = IF @ \in {"backing_off", "failed"} THEN "running" ELSE @]
  <2>1. SetEntry(id, s, new) /\ UNCHANGED <<items, closed, call>>
    BY <1>7 DEF RecordRestart
  <2>2. new \in Entry /\ Shows(new) /\ new.canceled = old.canceled
    BY <1>2, <1>7 DEF RecordRestart, Entry, SupervisorPC, Phases, Shows
  <2>3. ~Ended(id, s) /\ (Alive(id, s) \/ new.pc \in {"closing", "done"})
    BY <1>2, <1>7 DEF RecordRestart, Entry, Alive, Ended
  <2> HIDE DEF new
  <2> QED
    BY <2>1, <2>2, <2>3, EntryStep
<1>8. CASE RecordFailure(id, s)
  <2> DEFINE new == [old EXCEPT !.pc = "parked",
                  !.phase = IF @ = "running" THEN "failed" ELSE @]
  <2>1. SetEntry(id, s, new) /\ UNCHANGED <<items, closed, call>>
    BY <1>8 DEF RecordFailure
  <2>2. new \in Entry /\ Shows(new) /\ new.canceled = old.canceled
    BY <1>2, <1>8 DEF RecordFailure, Entry, SupervisorPC, Phases, Shows
  <2>3. ~Ended(id, s) /\ (Alive(id, s) \/ new.pc \in {"closing", "done"})
    BY <1>2, <1>8 DEF RecordFailure, Entry, Alive, Ended
  <2> HIDE DEF new
  <2> QED
    BY <2>1, <2>2, <2>3, EntryStep
<1>9. CASE LeaveLoop(id, s)
  <2> DEFINE new == [old EXCEPT !.pc = "exiting"]
  <2>1. SetEntry(id, s, new) /\ UNCHANGED <<items, closed, call>>
    BY <1>9 DEF LeaveLoop
  <2>2. new \in Entry /\ Shows(new) /\ new.canceled = old.canceled
    BY <1>2, <1>9 DEF LeaveLoop, Entry, SupervisorPC, Shows
  <2>3. ~Ended(id, s) /\ (Alive(id, s) \/ new.pc \in {"closing", "done"})
    BY <1>2, <1>9 DEF LeaveLoop, Entry, Alive, Ended
  <2> HIDE DEF new
  <2> QED
    BY <2>1, <2>2, <2>3, EntryStep
<1>10. CASE CloseDone(id, s)
  <2> DEFINE new == [old EXCEPT !.pc = "done"]
  <2>1. SetEntry(id, s, new) /\ UNCHANGED <<items, closed, call>>
    BY <1>10 DEF CloseDone
  <2>2. new \in Entry /\ Shows(new) /\ new.canceled = old.canceled
    BY <1>2, <1>10 DEF CloseDone, Entry, SupervisorPC, Shows
  <2>3. ~Ended(id, s) /\ (Alive(id, s) \/ new.pc \in {"closing", "done"})
    BY <1>2, <1>10 DEF CloseDone, Entry, Alive, Ended
  <2> HIDE DEF new
  <2> QED
    BY <2>1, <2>2, <2>3, EntryStep
<1>11. CASE Exited(id, s)
  <2> DEFINE removed == items[id] = s /\ old.phase = "stopping"
             new == [old EXCEPT !.pc = IF items[id] = s /\ ~removed THEN "closing" ELSE "done",
                       !.phase = IF items[id] = s /\ @ = "restarting" THEN "failed" ELSE @]
  <2>1. /\ SetEntry(id, s, new)
        /\ items' = IF removed THEN [items EXCEPT ![id] = NoEntry] ELSE items
        /\ UNCHANGED <<closed, call>>
    BY <1>11 DEF Exited
  <2>2. new \in Entry /\ Shows(new) /\ new.canceled = old.canceled
    BY <1>2, <1>11 DEF Exited, Entry, SupervisorPC, Phases, Shows
  <2>3. ~Ended(id, s) /\ new.pc \in {"closing", "done"}
    BY <1>2, <1>11 DEF Exited, Entry, Ended
  <2> HIDE DEF new
  <2> QED
    BY <2>1, <2>2, <2>3, EntryStep
<1> QED
  BY <1>1, <1>3, <1>4, <1>5, <1>6, <1>7, <1>8, <1>9, <1>10, <1>11 DEF SupervisorStep

-----------------------------------------------------------------------------
(* Steps of a call                                                         *)

\* A step that moves only the call of one collector.
LEMMA CallMoves ==
  ASSUME IInv, NEW id \in Ids, NEW c \in Call,
         c.pc \in {"select", "wait"} => c.old \in Slots,
         c.pc = "ready" /\ c.old \in Slots => Ended(id, c.old),
         call' = [call EXCEPT ![id] = c],
         UNCHANGED <<items, ent, closed>>
  PROVE  IInv'
<1>1. call' \in [Ids -> Call] /\ \A i \in Ids : call'[i] = IF i = id THEN c ELSE call[i]
  BY DEF IInv, LifecycleTypeOK
<1>2. LifecycleTypeOK' /\ EveryPollerRegistered' /\ ShutdownCancelsAll' /\ PhasesShow'
  BY <1>1 DEF IInv, LifecycleTypeOK, EveryPollerRegistered, ShutdownCancelsAll, PhasesShow,
       Alive, Ended
<1>3. WaitsForEntry'
  BY <1>1 DEF IInv, WaitsForEntry, Ended
<1> QED
  BY <1>2, <1>3 DEF IInv

\* A step that gives the registered entry of a collector a phase of a call, may
\* cancel it, and moves the call.
LEMMA CallClaims ==
  ASSUME IInv, NEW id \in Ids, NEW c \in Call, NEW new \in Entry, Exists(id),
         new.pc = Current(id).pc,
         Current(id).canceled => new.canceled,
         new.phase \in {"restarting", "draining", "stopping"},
         c.pc \in {"select", "wait"} => c.old \in Slots,
         c.pc # "ready",
         call' = [call EXCEPT ![id] = c],
         SetEntry(id, items[id], new),
         UNCHANGED <<items, closed>>
  PROVE  IInv'
<1>1. call' \in [Ids -> Call] /\ \A i \in Ids : call'[i] = IF i = id THEN c ELSE call[i]
  BY DEF IInv, LifecycleTypeOK
<1>2. items[id] \in Slots
  BY DEF IInv, LifecycleTypeOK, Exists
<1>3. ent' = [ent EXCEPT ![id] = [ent[id] EXCEPT ![items[id]] = new]]
  BY DEF SetEntry, IInv, LifecycleTypeOK
<1>4. /\ ent' \in [Ids -> [Slots -> Entry]]
      /\ \A i \in Ids, k \in Slots :
           ent'[i][k] = IF i = id /\ k = items[id] THEN new ELSE ent[i][k]
  BY <1>2, <1>3 DEF IInv, LifecycleTypeOK
<1>5. \A i \in Ids, k \in Slots : ent'[i][k].pc = ent[i][k].pc
  BY <1>4 DEF Current
<1>6. LifecycleTypeOK'
  BY <1>1, <1>4 DEF IInv, LifecycleTypeOK
<1>7. EveryPollerRegistered'
  BY <1>5 DEF IInv, EveryPollerRegistered, Alive, Ended
<1>8. ShutdownCancelsAll'
  BY <1>4, <1>5 DEF IInv, ShutdownCancelsAll, Alive, Ended, Current
<1>9. WaitsForEntry'
  BY <1>1, <1>5 DEF IInv, WaitsForEntry, Ended
<1>10. PhasesShow'
  <2>1. Shows(new)
    BY <1>2 DEF IInv, PhasesShow, Shows, Current
  <2> QED
    BY <1>4, <2>1 DEF IInv, PhasesShow, Shows
<1> QED
  BY <1>6, <1>7, <1>8, <1>9, <1>10 DEF IInv

\* startLocked is safe when no poller of the collector is left.
LEMMA StartKeeps ==
  ASSUME IInv, NEW id \in Ids, call[id].cfg \in Versions \cup {NoVersion},
         \A k \in Slots : ~Alive(id, k),
         startLocked(id), UNCHANGED closed
  PROVE  IInv'
<1>1. call' = [call EXCEPT ![id] = [call[id] EXCEPT !.pc = "returned", !.err = closed]]
  BY DEF startLocked, Return, IInv, LifecycleTypeOK
<1>2. CASE closed
  <2>1. [call[id] EXCEPT !.pc = "returned", !.err = closed] \in Call
    BY DEF IInv, LifecycleTypeOK, Call
  <2> QED
    BY <1>1, <1>2, <2>1, CallMoves DEF startLocked, Call
<1>3. CASE ~closed
  <2>1. PICK s \in Slots :
          /\ Ended(id, s)
          /\ ent' = [ent EXCEPT ![id] = [k \in Slots |->
                       IF k = s THEN Fresh(call[id].cfg)
                       ELSE IF Ended(id, k) THEN Off ELSE ent[id][k]]]
          /\ items' = [items EXCEPT ![id] = s]
    BY <1>3 DEF startLocked
  <2>2. Fresh(call[id].cfg) \in Entry /\ Off \in Entry
    BY LifecycleAssumption DEF Fresh, Off, Entry, SupervisorPC, Phases
  <2>3. /\ ent' \in [Ids -> [Slots -> Entry]]
        /\ \A k \in Slots : ent'[id][k] = IF k = s THEN Fresh(call[id].cfg)
                                          ELSE IF Ended(id, k) THEN Off ELSE ent[id][k]
        /\ \A i \in Ids \ {id} : ent'[i] = ent[i]
    BY <2>1, <2>2 DEF IInv, LifecycleTypeOK
  <2>4. /\ items' \in [Ids -> Slots \cup {NoEntry}]
        /\ items'[id] = s
        /\ \A i \in Ids \ {id} : items'[i] = items[i]
    BY <2>1 DEF IInv, LifecycleTypeOK
  <2>5. /\ call' \in [Ids -> Call]
        /\ call'[id].pc = "returned"
        /\ \A i \in Ids \ {id} : call'[i] = call[i]
    <3>1. [call[id] EXCEPT !.pc = "returned", !.err = closed] \in Call
      BY DEF IInv, LifecycleTypeOK, Call
    <3>2. [call[id] EXCEPT !.pc = "returned", !.err = closed].pc = "returned"
      BY DEF IInv, LifecycleTypeOK, Call
    <3> QED
      BY <1>1, <3>1, <3>2 DEF IInv, LifecycleTypeOK
  <2>6. LifecycleTypeOK'
    BY <2>3, <2>4, <2>5 DEF IInv, LifecycleTypeOK
  <2>7. \A k \in Slots : k # s => ent'[id][k].pc \in {"off", "closing"}
    BY <2>3 DEF Alive, Ended, Off
  <2>8. EveryPollerRegistered'
    <3>1. \A k \in Slots : Alive(id, k)' => k = s
      BY <2>7 DEF Alive, Ended
    <3> QED
      BY <2>3, <2>4, <3>1 DEF IInv, EveryPollerRegistered, Alive, Ended
  <2>9. ShutdownCancelsAll'
    BY <1>3 DEF ShutdownCancelsAll
  <2>10. WaitsForEntry'
    BY <2>3, <2>5 DEF IInv, WaitsForEntry, Ended
  <2>11. PhasesShow'
    BY <2>3 DEF IInv, PhasesShow, Shows, Fresh, Off
  <2> QED
    BY <2>6, <2>8, <2>9, <2>10, <2>11 DEF IInv
<1> QED
  BY <1>2, <1>3

\* A collector without an entry has no poller, and neither has one whose entry
\* has ended.
LEMMA NoPollerLeft ==
  ASSUME IInv, NEW id \in Ids,
         Exists(id) => items[id] \in Slots /\ Ended(id, items[id])
  PROVE  \A k \in Slots : ~Alive(id, k)
  BY NoneAssumption DEF IInv, EveryPollerRegistered, Exists, Alive

\* What Cancel does to the registered entry.
LEMMA CancelClaims ==
  ASSUME IInv, NEW id \in Ids, NEW phase \in {"restarting", "stopping"}, Exists(id),
         Cancel(id, phase)
  PROVE  \E new \in Entry : /\ new.pc = Current(id).pc
                            /\ new.canceled
                            /\ new.phase = phase
                            /\ SetEntry(id, items[id], new)
<1>1. items[id] \in Slots /\ Current(id) \in Entry
  BY DEF IInv, LifecycleTypeOK, Exists, Current
<1> DEFINE new == [Current(id) EXCEPT !.phase = phase, !.canceled = TRUE]
<1>2. new \in Entry /\ new.pc = Current(id).pc /\ new.canceled /\ new.phase = phase
  BY <1>1 DEF Entry, Phases
<1>3. SetEntry(id, items[id], new)
  BY <1>1 DEF Cancel, SetEntry, Current, IInv, LifecycleTypeOK
<1> QED
  BY <1>2, <1>3

\* No step of a call breaks the invariant.
LEMMA CallStepKeeps ==
  ASSUME IInv, NEW id \in Ids, CallStep(id) \/ WaitExpires(id)
  PROVE  IInv'
<1> DEFINE old == call[id]
<1>1. old \in Call /\ items[id] \in Slots \cup {NoEntry}
  BY DEF IInv, LifecycleTypeOK
<1>2. ASSUME NEW err \in BOOLEAN, Return(id, err), UNCHANGED <<items, ent, closed>>
      PROVE  IInv'
  <2> DEFINE c == [old EXCEPT !.pc = "returned", !.err = err]
  <2>1. c \in Call /\ c.pc = "returned"
    BY <1>1 DEF Call
  <2>2. call' = [call EXCEPT ![id] = c]
    BY <1>2 DEF Return, IInv, LifecycleTypeOK
  <2> HIDE DEF c
  <2> QED
    BY <1>2, <2>1, <2>2, CallMoves
<1>3. CASE Start(id)
  <2>1. CASE Exists(id)
    <3> DEFINE c == [old EXCEPT !.pc = "update", !.what = "update"]
    <3>1. c \in Call /\ c.pc = "update"
      BY <1>1 DEF Call
    <3>2. call' = [call EXCEPT ![id] = c] /\ UNCHANGED <<items, ent, closed>>
      BY <1>3, <2>1 DEF Start, IInv, LifecycleTypeOK
    <3> HIDE DEF c
    <3> QED
      BY <3>1, <3>2, CallMoves
  <2>2. CASE ~Exists(id)
    <3>1. \A k \in Slots : ~Alive(id, k)
      BY <2>2, NoPollerLeft
    <3>2. startLocked(id) /\ UNCHANGED closed /\ call[id].cfg \in Versions \cup {NoVersion}
      BY <1>1, <1>3, <2>2 DEF Start, Call
    <3> QED
      BY <3>1, <3>2, StartKeeps
  <2> QED
    BY <2>1, <2>2
<1>4. CASE UpdateBegin(id)
  <2>1. CASE closed
    BY <1>2, <1>4, <2>1 DEF UpdateBegin, Return
  <2> DEFINE c == [old EXCEPT !.pc = IF Exists(id) THEN "select" ELSE "ready", !.old = items[id]]
  <2>2. /\ c \in Call
        /\ c.pc = IF Exists(id) THEN "select" ELSE "ready"
        /\ c.old = items[id]
    BY <1>1 DEF Call
  <2>3. ~closed => call' = [call EXCEPT ![id] = c] /\ UNCHANGED <<items, closed>>
    BY <1>4 DEF UpdateBegin, IInv, LifecycleTypeOK
  <2> HIDE DEF c
  <2>4. CASE ~closed /\ Exists(id)
    <3>1. PICK new \in Entry : /\ new.pc = Current(id).pc
                               /\ new.canceled
                               /\ new.phase = "restarting"
                               /\ SetEntry(id, items[id], new)
      BY <1>4, <2>4, CancelClaims DEF UpdateBegin
    <3> QED
      BY <1>1, <2>2, <2>3, <2>4, <3>1, CallClaims DEF Exists
  <2>5. CASE ~closed /\ ~Exists(id)
    <3>1. c.pc = "ready" /\ c.old \notin Slots
      BY <2>2, <2>5, NoneAssumption DEF Exists
    <3>2. ent' = ent
      BY <1>4, <2>5 DEF UpdateBegin
    <3> QED
      BY <2>2, <2>3, <2>5, <3>1, <3>2, CallMoves
  <2> QED
    BY <2>1, <2>4, <2>5
<1>5. CASE Drain(id)
  <2> DEFINE c == [old EXCEPT !.pc = "todo"]
  <2>1. c \in Call /\ c.pc = "todo"
    BY <1>1 DEF Call
  <2>2. call' = [call EXCEPT ![id] = c] /\ UNCHANGED <<items, closed>>
    BY <1>5 DEF Drain, IInv, LifecycleTypeOK
  <2> HIDE DEF c
  <2>3. CASE Exists(id)
    <3> DEFINE new == [Current(id) EXCEPT !.phase = "draining"]
    <3>1. items[id] \in Slots /\ Current(id) \in Entry
      BY <2>3 DEF IInv, LifecycleTypeOK, Exists, Current
    <3>2. /\ new \in Entry
          /\ new.pc = Current(id).pc
          /\ new.canceled = Current(id).canceled
          /\ new.phase = "draining"
      BY <3>1 DEF Entry, Phases
    <3>3. SetEntry(id, items[id], new)
      BY <1>5, <2>3, <3>1 DEF Drain, SetEntry, Current, IInv, LifecycleTypeOK
    <3> HIDE DEF new
    <3> QED
      BY <2>1, <2>2, <2>3, <3>2, <3>3, CallClaims
  <2>4. CASE ~Exists(id)
    BY <1>5, <2>1, <2>2, <2>4, CallMoves DEF Drain
  <2> QED
    BY <2>3, <2>4
<1>6. CASE StopBegin(id)
  <2>1. CASE Exists(id)
    <3> DEFINE c == [old EXCEPT !.pc = "select", !.old = items[id]]
    <3>1. c \in Call /\ c.pc = "select" /\ c.old \in Slots
      BY <1>1, <2>1 DEF Call, Exists
    <3>2. call' = [call EXCEPT ![id] = c] /\ UNCHANGED <<items, closed>>
      BY <1>6, <2>1 DEF StopBegin, IInv, LifecycleTypeOK
    <3> HIDE DEF c
    <3>3. PICK new \in Entry : /\ new.pc = Current(id).pc
                               /\ new.canceled
                               /\ new.phase = "stopping"
                               /\ SetEntry(id, items[id], new)
      BY <1>6, <2>1, CancelClaims DEF StopBegin
    <3> QED
      BY <2>1, <3>1, <3>2, <3>3, CallClaims
  <2>2. CASE ~Exists(id)
    BY <1>2, <1>6, <2>2 DEF StopBegin
  <2> QED
    BY <2>1, <2>2
<1>7. CASE WaitDone(id)
  <2>1. old.old \in Slots
    BY <1>7 DEF WaitDone, IInv, WaitsForEntry
  <2>2. CASE ~OldDone(id)
    <3> DEFINE c == [old EXCEPT !.pc = "wait"]
    <3>1. c \in Call /\ c.pc = "wait" /\ c.old = old.old
      BY <1>1 DEF Call
    <3>2. call' = [call EXCEPT ![id] = c] /\ UNCHANGED <<items, ent, closed>>
      BY <1>7, <2>2 DEF WaitDone, IInv, LifecycleTypeOK
    <3> HIDE DEF c
    <3> QED
      BY <2>1, <3>1, <3>2, CallMoves
  <2>3. CASE OldDone(id) /\ old.what # "stop"
    <3> DEFINE c == [old EXCEPT !.pc = "ready"]
    <3>1. c \in Call /\ c.pc = "ready" /\ c.old = old.old
      BY <1>1 DEF Call
    <3>2. call' = [call EXCEPT ![id] = c] /\ UNCHANGED <<items, ent, closed>>
      BY <1>7, <2>3 DEF WaitDone, IInv, LifecycleTypeOK
    <3>3. Ended(id, old.old)
      BY <2>3 DEF OldDone
    <3> HIDE DEF c
    <3> QED
      BY <3>1, <3>2, <3>3, CallMoves
  <2>4. CASE OldDone(id) /\ old.what = "stop"
    BY <1>2, <1>7, <2>4 DEF WaitDone
  <2> QED
    BY <2>2, <2>3, <2>4
<1>8. CASE UpdateReplace(id)
  <2>1. CASE Exists(id) /\ items[id] # old.old
    BY <1>2, <1>8, <2>1 DEF UpdateReplace
  <2>2. CASE ~(Exists(id) /\ items[id] # old.old)
    <3>1. Exists(id) => items[id] \in Slots /\ Ended(id, items[id])
      BY <1>1, <1>8, <2>2 DEF UpdateReplace, IInv, WaitsForEntry, Exists
    <3>2. startLocked(id) /\ UNCHANGED closed /\ call[id].cfg \in Versions \cup {NoVersion}
      BY <1>1, <1>8, <2>2 DEF UpdateReplace, Call
    <3> QED
      BY <3>1, <3>2, NoPollerLeft, StartKeeps
  <2> QED
    BY <2>1, <2>2
<1>9. CASE WaitExpires(id)
  BY <1>2, <1>9 DEF WaitExpires
<1> QED
  BY <1>3, <1>4, <1>5, <1>6, <1>7, <1>8, <1>9 DEF CallStep

\* Beginning calls breaks nothing: a call that has not begun waits for nothing.
LEMMA InvokeKeeps ==
  ASSUME IInv, Invoke
  PROVE  IInv'
<1>1. PICK who \in SUBSET Ids, new \in [Ids -> Invocations] :
        call' = [id \in Ids |-> IF id \in who THEN new[id] ELSE call[id]]
  BY DEF Invoke
<1>2. \A c \in Invocations : c \in Call /\ c.pc \in {"idle", "todo", "drain"}
  <2>1. IdleCall \in Call /\ IdleCall.pc = "idle"
    BY DEF IdleCall, Call
  <2>2. \A pc \in {"todo", "drain"} :
          [IdleCall EXCEPT !.pc = pc] \in Call /\ [IdleCall EXCEPT !.pc = pc].pc = pc
    BY DEF IdleCall, Call
  <2>3. \A c \in [pc : {"todo"}, what : {"start", "update"}, cfg : Versions,
                  old : {NoEntry}, err : {FALSE}] : c \in Call /\ c.pc = "todo"
    BY DEF Call
  <2> QED
    BY <2>1, <2>2, <2>3 DEF Invocations
<1>3. /\ call' \in [Ids -> Call]
      /\ \A id \in Ids : call'[id] = call[id] \/ call'[id].pc \in {"idle", "todo", "drain"}
  BY <1>1, <1>2 DEF IInv, LifecycleTypeOK
<1>4. LifecycleTypeOK' /\ EveryPollerRegistered' /\ ShutdownCancelsAll' /\ PhasesShow'
  BY <1>3 DEF Invoke, IInv, LifecycleTypeOK, EveryPollerRegistered, ShutdownCancelsAll,
       PhasesShow, Alive, Ended
<1>5. WaitsForEntry'
  BY <1>3 DEF Invoke, IInv, WaitsForEntry, Ended
<1> QED
  BY <1>4, <1>5 DEF IInv

\* The shutdown cancels every registered entry, which EveryPollerRegistered makes
\* every poller.
LEMMA ShutdownKeeps ==
  ASSUME IInv, shutdown
  PROVE  IInv'
<1> DEFINE Told(e) == [e EXCEPT !.phase = "stopping", !.canceled = TRUE]
<1>1. \A e \in Entry : /\ Told(e) \in Entry
                       /\ Told(e).pc = e.pc
                       /\ Told(e).phase = "stopping"
                       /\ Told(e).canceled
  BY DEF Entry, Phases
<1>2. /\ closed' = TRUE
      /\ ent' = [id \in Ids |-> [s \in Slots |->
                   IF s = items[id] THEN Told(ent[id][s]) ELSE ent[id][s]]]
      /\ UNCHANGED <<items, call>>
  BY DEF shutdown
<1> HIDE DEF Told
<1>3. /\ ent' \in [Ids -> [Slots -> Entry]]
      /\ \A id \in Ids, s \in Slots :
           /\ ent'[id][s] = IF s = items[id] THEN Told(ent[id][s]) ELSE ent[id][s]
           /\ ent[id][s] \in Entry
  BY <1>1, <1>2 DEF IInv, LifecycleTypeOK
<1>4. \A id \in Ids, s \in Slots : ent'[id][s].pc = ent[id][s].pc
  BY <1>1, <1>3
<1>5. LifecycleTypeOK'
  BY <1>2, <1>3 DEF IInv, LifecycleTypeOK
<1>6. EveryPollerRegistered'
  BY <1>2, <1>4 DEF IInv, EveryPollerRegistered, Alive, Ended
<1>7. ShutdownCancelsAll'
  BY <1>1, <1>2, <1>3, <1>4 DEF IInv, ShutdownCancelsAll, EveryPollerRegistered, Alive, Ended
<1>8. WaitsForEntry'
  BY <1>2, <1>4 DEF IInv, WaitsForEntry, Ended
<1>9. PhasesShow'
  BY <1>1, <1>3 DEF IInv, PhasesShow, Shows
<1> QED
  BY <1>5, <1>6, <1>7, <1>8, <1>9 DEF IInv

-----------------------------------------------------------------------------
(* The theorems                                                            *)

\* It holds before anything is started.
LEMMA InitHolds == LifecycleInit => IInv
<1> SUFFICES ASSUME LifecycleInit PROVE IInv
  OBVIOUS
<1>1. Off \in Entry /\ Shows(Off) /\ IdleCall \in Call
  BY LifecycleAssumption DEF Off, Entry, SupervisorPC, Phases, Shows, IdleCall, Call
<1>2. LifecycleTypeOK /\ PhasesShow
  BY <1>1 DEF LifecycleInit, LifecycleTypeOK, PhasesShow
<1>3. EveryPollerRegistered /\ ShutdownCancelsAll
  BY DEF LifecycleInit, EveryPollerRegistered, ShutdownCancelsAll, Alive, Ended, Off
<1>4. WaitsForEntry
  BY DEF LifecycleInit, WaitsForEntry, IdleCall
<1> QED
  BY <1>2, <1>3, <1>4 DEF IInv

\* Every step of a caller, a call, a supervisor or the shutdown keeps it.
LEMMA NextKeeps == IInv /\ [LifecycleNext]_lifecycleVars => IInv'
<1> SUFFICES ASSUME IInv, [LifecycleNext]_lifecycleVars PROVE IInv'
  OBVIOUS
<1>1. CASE Invoke
  BY <1>1, InvokeKeeps
<1>2. CASE \E id \in Ids : CallStep(id) \/ WaitExpires(id)
  BY <1>2, CallStepKeeps
<1>3. CASE \E id \in Ids : PollerStep(id)
  BY <1>3, PollerStepKeeps
<1>4. CASE shutdown
  BY <1>4, ShutdownKeeps
<1>5. CASE UNCHANGED lifecycleVars
  BY <1>5 DEF lifecycleVars, IInv, LifecycleTypeOK, EveryPollerRegistered,
       ShutdownCancelsAll, WaitsForEntry, PhasesShow, Shows, Alive, Ended
<1> QED
  BY <1>1, <1>2, <1>3, <1>4, <1>5 DEF LifecycleNext

\* The invariant holds in every reachable state, whatever calls are made.
THEOREM InvariantHolds == LifecycleSpec => []IInv
BY InitHolds, NextKeeps, PTL DEF LifecycleSpec

\* The variables of the lifecycle keep their types: in particular no step invents
\* a phase, and crashes stays within its cap.
THEOREM TypesHold == LifecycleSpec => []LifecycleTypeOK
<1>1. IInv => LifecycleTypeOK
  BY DEF IInv
<1> QED
  BY <1>1, InvariantHolds, PTL

\* No poller is lost by Update, Stop or exited: items holds the entry of every
\* poller that still runs.
THEOREM PollersRegistered == LifecycleSpec => []EveryPollerRegistered
<1>1. IInv => EveryPollerRegistered
  BY DEF IInv
<1> QED
  BY <1>1, InvariantHolds, PTL

\* The pollers of a collector never overlap, for any number of collectors,
\* configs, entries and crashes.
THEOREM PollersExclusive == LifecycleSpec => []OnePollerPerCollector
<1>1. IInv => OnePollerPerCollector
  BY DEF IInv, EveryPollerRegistered, OnePollerPerCollector
<1> QED
  BY <1>1, InvariantHolds, PTL

\* After shutdown has begun, every poller that still runs has been canceled.
THEOREM ShutdownReachesAll == LifecycleSpec => []ShutdownCancelsAll
<1>1. IInv => ShutdownCancelsAll
  BY DEF IInv
<1> QED
  BY <1>1, InvariantHolds, PTL

\* An entry in phase running has a poller that runs and was not canceled.
THEOREM RunningTruthful == LifecycleSpec => []RunningIsTrue
<1>1. IInv => RunningIsTrue
  <2> SUFFICES ASSUME IInv, NEW id \in Ids, Exists(id), Current(id).phase = "running"
               PROVE  /\ ~Current(id).canceled
                      /\ Current(id).pc \in {"run", "crashed", "rejected", "restart"}
    BY DEF RunningIsTrue
  <2>1. Current(id) \in Entry /\ Shows(Current(id))
    BY DEF IInv, LifecycleTypeOK, PhasesShow, Exists, Current
  <2> QED
    BY <2>1 DEF Shows
<1> QED
  BY <1>1, InvariantHolds, PTL

\* The map of entries tells reloads, the admin endpoint and the shutdown the truth
\* about the pollers that run.
THEOREM RegistryIsTruthful == LifecycleSpec => []RegistryTruthful
<1>1. EveryPollerRegistered /\ RunningIsTrue /\ ShutdownCancelsAll => RegistryTruthful
  BY DEF RegistryTruthful
<1> QED
  BY <1>1, PollersRegistered, RunningTruthful, ShutdownReachesAll, PTL

\* The phase of a registered entry never hides that it was canceled.
THEOREM CancellationShows == LifecycleSpec => []CanceledShowsIt
<1>1. IInv => CanceledShowsIt
  BY DEF IInv, PhasesShow, Shows, CanceledShowsIt
<1> QED
  BY <1>1, InvariantHolds, PTL

-----------------------------------------------------------------------------
(***************************************************************************)
(* ConfigReload for any collectors, configs and entries: a reload drives   *)
(* the lifecycle as PollerLifecycle allows (so what is proved there holds  *)
(* of it too), and between reloads the runtime is the snapshot.            *)
(*                                                                         *)
(* The first needs only that calls are made phase by phase (CallsPhased).  *)
(* The second follows every collector through the three phases and their   *)
(* rollback (Settled): what it runs before its phase, what it runs after,  *)
(* and that a stop finds an entry that exited will remove (StopRemoves).   *)
(***************************************************************************)

-----------------------------------------------------------------------------
(* The implementation of PollerLifecycle                                   *)

\* The collectors whose config a reload keeps and asks about are in both configs.
PlanKept ==
  reload.ask \cup reload.restart \subseteq Enabled(reload.next) \cap Enabled(reload.previous)

\* Outside the phase that runs there is no call.
CallsPhased ==
  \A id \in Ids :
    reload.pc \in {"idle", "plan"} \/ id \notin PhaseIds(reload) => call[id].pc = "idle"

ReloadTypes ==
  /\ snapshot \in [config : [Ids -> Versions \cup {NoVersion}], diverged : BOOLEAN]
  /\ reload \in Reload

CallInv == ReloadTypes /\ PlanKept /\ CallsPhased

\* The collectors of a phase have a config to go to: none to be stopped.
PhaseSound(r) ==
  \A id \in PhaseIds(r) :
    /\ (r.pc = "do" /\ r.phase \in {1, 2}) => r.next[id] \in Versions
    /\ (r.pc = "undo" /\ r.phase \in {2, 3}) => r.previous[id] \in Versions

\* The phases concern different collectors, with the configs they need.
LEMMA PhasesSound ==
  ASSUME NEW r \in Reload, r.ask \cup r.restart \subseteq Enabled(r.next) \cap Enabled(r.previous)
  PROVE  /\ Added(r) \cap Updated(r) = {} /\ Added(r) \cap Removed(r) = {} /\ Updated(r) \cap Removed(r) = {}
         /\ \A id \in Added(r) : id \in Ids /\ r.next[id] \in Versions /\ r.previous[id] = NoVersion
         /\ \A id \in Updated(r) : id \in Ids /\ r.next[id] \in Versions /\ r.previous[id] \in Versions
         /\ \A id \in Removed(r) : id \in Ids /\ r.next[id] = NoVersion /\ r.previous[id] \in Versions
         /\ \A id \in Ids : id \notin Added(r) \cup Updated(r) \cup Removed(r) => r.next[id] = r.previous[id]
         /\ PhaseIds(r) = IF r.phase = 1 THEN Added(r) ELSE IF r.phase = 2 THEN Updated(r) ELSE Removed(r)
         /\ PhaseSound(r)
<1>1. r.next \in [Ids -> Versions \cup {NoVersion}] /\ r.previous \in [Ids -> Versions \cup {NoVersion}]
  BY DEF Reload
<1>2. /\ \A id \in Added(r) : id \in Ids /\ r.next[id] \in Versions /\ r.previous[id] = NoVersion
      /\ \A id \in Updated(r) : id \in Ids /\ r.next[id] \in Versions /\ r.previous[id] \in Versions
      /\ \A id \in Removed(r) : id \in Ids /\ r.next[id] = NoVersion /\ r.previous[id] \in Versions
  BY <1>1 DEF Added, Updated, Removed, Enabled
<1>3. /\ Added(r) \cap Updated(r) = {} /\ Added(r) \cap Removed(r) = {} /\ Updated(r) \cap Removed(r) = {}
      /\ \A id \in Ids : id \notin Added(r) \cup Updated(r) \cup Removed(r) => r.next[id] = r.previous[id]
  BY <1>2, NoneAssumption DEF Added, Updated, Removed, Enabled
<1>4. r.phase \in 1 .. 3
  BY DEF Reload
<1>5. PhaseIds(r) = IF r.phase = 1 THEN Added(r) ELSE IF r.phase = 2 THEN Updated(r) ELSE Removed(r)
  BY <1>4 DEF PhaseIds
<1>6. PhaseSound(r)
  BY <1>2, <1>5 DEF PhaseSound
<1> QED
  BY <1>2, <1>3, <1>5, <1>6

\* The calls of a phase are calls PollerLifecycle knows.
LEMMA StepsAreCalls ==
  ASSUME NEW r \in Reload, r.pc \in {"do", "undo"},
         r.ask \cup r.restart \subseteq Enabled(r.next) \cap Enabled(r.previous),
         NEW id \in PhaseIds(r)
  PROVE  StepOf(r, id) \in Invocations
<1>1. PhaseSound(r) /\ r.phase \in {1, 2, 3}
  BY PhasesSound DEF Reload
<1>2. ASSUME NEW what \in {"start", "update"}, NEW v \in Versions
      PROVE  [IdleCall EXCEPT !.pc = "todo", !.what = what, !.cfg = v] \in Invocations
  BY DEF IdleCall, Invocations
<1>3. ASSUME NEW pc \in {"todo", "drain"} PROVE [IdleCall EXCEPT !.pc = pc] \in Invocations
  BY DEF Invocations
<1>4. CASE r.pc = "do" /\ r.phase = 1
  <2>1. StepOf(r, id) = [IdleCall EXCEPT !.pc = "todo", !.what = "start", !.cfg = r.next[id]]
    BY <1>4 DEF StepOf
  <2>2. r.next[id] \in Versions
    BY <1>1, <1>4 DEF PhaseSound
  <2> QED
    BY <1>2, <2>1, <2>2
<1>5. CASE r.pc = "do" /\ r.phase = 2
  <2>1. StepOf(r, id) = [IdleCall EXCEPT !.pc = "todo", !.what = "update", !.cfg = r.next[id]]
    BY <1>5 DEF StepOf
  <2>2. r.next[id] \in Versions
    BY <1>1, <1>5 DEF PhaseSound
  <2> QED
    BY <1>2, <2>1, <2>2
<1>6. CASE r.pc = "do" /\ r.phase = 3
  BY <1>3, <1>6 DEF StepOf
<1>7. CASE r.pc = "undo" /\ r.phase = 3
  <2>1. StepOf(r, id) = [IdleCall EXCEPT !.pc = "todo", !.what = "start", !.cfg = r.previous[id]]
    BY <1>7 DEF StepOf
  <2>2. r.previous[id] \in Versions
    BY <1>1, <1>7 DEF PhaseSound
  <2> QED
    BY <1>2, <2>1, <2>2
<1>8. CASE r.pc = "undo" /\ r.phase = 2
  <2>1. StepOf(r, id) = [IdleCall EXCEPT !.pc = "todo", !.what = "update", !.cfg = r.previous[id]]
    BY <1>8 DEF StepOf
  <2>2. r.previous[id] \in Versions
    BY <1>1, <1>8 DEF PhaseSound
  <2> QED
    BY <1>2, <2>1, <2>2
<1>9. CASE r.pc = "undo" /\ r.phase = 1
  BY <1>3, <1>9 DEF StepOf
<1> QED
  BY <1>1, <1>4, <1>5, <1>6, <1>7, <1>8, <1>9

\* No reload.
LEMMA IdleTyped ==
  /\ IdleReload \in Reload /\ IdleReload.pc = "idle" /\ IdleReload.phase = 1
  /\ IdleReload.ask = {} /\ IdleReload.restart = {} /\ IdleReload.previous = Nothing
  /\ Nothing \in [Ids -> Versions \cup {NoVersion}]
BY DEF IdleReload, Reload, Nothing

\* A phase that is entered when no call is in progress is an Invoke.
LEMMA EnterIsInvoke ==
  ASSUME NEW r \in Reload, r.pc \in {"do", "undo"},
         r.ask \cup r.restart \subseteq Enabled(r.next) \cap Enabled(r.previous),
         \A id \in Ids : call[id].pc \in {"idle", "returned"},
         EnterPhase(r), UNCHANGED <<items, ent, closed, snapshot>>, ReloadTypes
  PROVE  CallInv' /\ Invoke
<1>1. IdleCall \in Invocations /\ \A id \in PhaseIds(r) : StepOf(r, id) \in Invocations
  BY StepsAreCalls DEF Invocations
<1>2. call' \in [Ids -> Invocations]
  BY <1>1 DEF EnterPhase
<1>3. call' = [id \in Ids |-> IF id \in Ids THEN call'[id] ELSE call[id]]
  BY DEF EnterPhase
<1>4. Invoke
  BY <1>2, <1>3 DEF Invoke
<1>5. CallInv'
  BY DEF CallInv, ReloadTypes, PlanKept, CallsPhased, EnterPhase, IdleCall
<1> QED
  BY <1>4, <1>5

\* Every step of a reload, of readiness or of a poller is one of the lifecycle's,
\* or none of them.
LEMMA StepRefines ==
  ASSUME IInv, CallInv, [Next]_vars
  PROVE  CallInv' /\ [LifecycleNext]_lifecycleVars
<1>0. /\ reload \in Reload /\ ReloadTypes
      /\ reload.ask \cup reload.restart \subseteq Enabled(reload.next) \cap Enabled(reload.previous)
  BY DEF CallInv, ReloadTypes, PlanKept
<1>1. CASE InitialReconcile
  <2>1. PICK r : r = [IdleReload EXCEPT !.pc = "do", !.next = snapshot.config]
    OBVIOUS
  <2>2. /\ r \in Reload /\ r.pc \in {"do", "undo"} /\ r.ask = {} /\ r.restart = {}
    BY <1>0, <2>1, IdleTyped DEF ReloadTypes, Reload
  <2> QED
    BY <1>0, <1>1, <2>1, <2>2, EnterIsInvoke DEF InitialReconcile, CallInv, CallsPhased, LifecycleNext
<1>2. CASE \E next \in Candidates : PlanReload(next)
  <2>1. PICK next \in Candidates : PlanReload(next)
    BY <1>2
  <2>2. next \in [Ids -> Versions \cup {NoVersion}]
    BY CandidatesAssumption
  <2>3. configs \in [Ids -> Versions \cup {NoVersion}]
    BY DEF configs, Exists, Current, IInv, LifecycleTypeOK, Entry
  <2>4. PICK prev \in [Ids -> Versions \cup {NoVersion}] : prev = configs
    BY <2>3
  <2>5. PICK r : r = [IdleReload EXCEPT !.pc = "plan", !.previous = prev, !.next = next,
                      !.ask = {id \in Enabled(prev) : next[id] = prev[id]}]
    OBVIOUS
  <2>6. /\ r \in Reload /\ r.pc = "plan" /\ r.restart = {} /\ r.next = next /\ r.previous = prev
        /\ r.ask = {id \in Enabled(prev) : next[id] = prev[id]}
    BY <2>2, <2>5, IdleTyped DEF Reload, Enabled
  <2>7. reload' = r /\ UNCHANGED <<lifecycleVars, snapshot>> /\ reload.pc = "idle"
    BY <2>1, <2>4, <2>5 DEF PlanReload
  <2>8. PlanKept'
    BY <2>6, <2>7 DEF PlanKept, Enabled
  <2> QED
    BY <1>0, <2>6, <2>7, <2>8 DEF CallInv, ReloadTypes, CallsPhased, lifecycleVars
<1>3. CASE \E id \in Ids : NeedsRestart(id)
  <2>1. PICK id \in Ids : NeedsRestart(id)
    BY <1>3
  <2>2. PICK restart : restart = IF Exists(id) /\ Current(id).phase # "running"
                                 THEN reload.restart \cup {id} ELSE reload.restart
    OBVIOUS
  <2>3. reload' = [reload EXCEPT !.ask = reload.ask \ {id}, !.restart = restart]
    BY <1>0, <2>1, <2>2 DEF NeedsRestart, Reload
  <2>4. id \in reload.ask /\ reload.pc = "plan" /\ UNCHANGED <<lifecycleVars, snapshot>>
    BY <2>1 DEF NeedsRestart
  <2>5. restart \in SUBSET Ids /\ restart \subseteq reload.restart \cup {id}
    BY <1>0, <2>2 DEF Reload
  <2>6. /\ reload' \in Reload /\ reload'.pc = "plan" /\ reload'.next = reload.next
        /\ reload'.previous = reload.previous /\ reload'.ask = reload.ask \ {id} /\ reload'.restart = restart
    BY <1>0, <2>3, <2>4, <2>5 DEF Reload
  <2>7. PlanKept'
    BY <1>0, <2>4, <2>5, <2>6 DEF PlanKept, Enabled
  <2> QED
    BY <1>0, <2>4, <2>6, <2>7 DEF CallInv, ReloadTypes, CallsPhased, lifecycleVars
<1>4. CASE PlanDone
  <2>1. PICK r : r = [reload EXCEPT !.pc = "do"]
    OBVIOUS
  <2>2. /\ r \in Reload /\ r.pc \in {"do", "undo"} /\ r.ask = reload.ask /\ r.restart = reload.restart
        /\ r.next = reload.next /\ r.previous = reload.previous
    BY <1>0, <2>1 DEF Reload
  <2> QED
    BY <1>0, <1>4, <2>1, <2>2, EnterIsInvoke DEF PlanDone, CallInv, CallsPhased, LifecycleNext
<1>5. ASSUME PhaseDone PROVE \A id \in Ids : call[id].pc \in {"idle", "returned"}
  BY <1>5 DEF PhaseDone, CallInv, CallsPhased
<1>6. CASE NextPhase \/ StartRollback \/ UndoPhase
  <2>1. PICK r \in Reload : /\ EnterPhase(r) /\ r.pc \in {"do", "undo"}
                            /\ r.ask = reload.ask /\ r.restart = reload.restart
                            /\ r.next = reload.next /\ r.previous = reload.previous
    <3>1. CASE NextPhase
      BY <1>0, <3>1 DEF NextPhase, Reload
    <3>2. CASE StartRollback
      <4>1. PICK r : r = [reload EXCEPT !.pc = "undo", !.ctx = "live"]
        OBVIOUS
      <4>2. /\ r \in Reload /\ r.pc = "undo" /\ r.ask = reload.ask /\ r.restart = reload.restart
            /\ r.next = reload.next /\ r.previous = reload.previous
        BY <1>0, <4>1 DEF Reload
      <4> QED
        BY <3>2, <4>1, <4>2 DEF StartRollback
    <3>3. CASE UndoPhase
      <4>1. PICK failed \in BOOLEAN : failed = (reload.failed \/ PhaseFailed)
        OBVIOUS
      <4>2. PICK k \in 1 .. 3 : k = reload.phase - 1
        BY <1>0, <3>3 DEF UndoPhase, Reload
      <4>3. PICK r : r = [reload EXCEPT !.phase = k, !.failed = failed]
        OBVIOUS
      <4>4. reload.phase \in 1 .. 3 /\ [reload EXCEPT !.phase = @ - 1, !.failed = @ \/ PhaseFailed] = r
        BY <1>0, <4>1, <4>2, <4>3, Zenon DEF Reload
      <4>5. /\ r \in Reload /\ r.pc = reload.pc /\ r.ask = reload.ask /\ r.restart = reload.restart
            /\ r.next = reload.next /\ r.previous = reload.previous
        BY <1>0, <4>3 DEF Reload
      <4> QED
        BY <3>3, <4>4, <4>5 DEF UndoPhase
    <3> QED
      BY <1>6, <3>1, <3>2, <3>3
  <2>2. PhaseDone /\ UNCHANGED <<items, ent, closed, snapshot>>
    BY <1>6 DEF NextPhase, StartRollback, UndoPhase
  <2> QED
    BY <1>0, <1>5, <2>1, <2>2, EnterIsInvoke DEF LifecycleNext
<1>7. CASE Publish \/ RollbackDone
  <2>1. /\ PhaseDone /\ reload' = IdleReload /\ call' = [id \in Ids |-> IdleCall]
        /\ UNCHANGED <<items, ent, closed>>
    BY <1>7 DEF Publish, RollbackDone, Finish
  <2>2. IdleReload \in Reload /\ IdleReload.pc = "idle" /\ IdleReload.ask = {} /\ IdleReload.restart = {}
    BY IdleTyped
  <2>3. snapshot' \in [config : [Ids -> Versions \cup {NoVersion}], diverged : BOOLEAN]
    <3>1. CASE Publish
      BY <1>0, <3>1 DEF Publish, Reload
    <3>2. CASE RollbackDone
      <4>1. PICK d \in BOOLEAN : d = (snapshot.diverged \/ reload.failed \/ PhaseFailed)
        OBVIOUS
      <4>2. [snapshot EXCEPT !.diverged = d] \in [config : [Ids -> Versions \cup {NoVersion}], diverged : BOOLEAN]
        BY <1>0 DEF ReloadTypes
      <4>3. snapshot' = [snapshot EXCEPT !.diverged = d]
        BY <3>2, <4>1, Zenon DEF RollbackDone
      <4> QED
        BY <4>2, <4>3
    <3> QED
      BY <1>7, <3>1, <3>2
  <2>4. CallInv'
    BY <2>1, <2>2, <2>3 DEF CallInv, ReloadTypes, PlanKept, CallsPhased, IdleCall
  <2>5. call' \in [Ids -> Invocations] /\ call' = [id \in Ids |-> IF id \in Ids THEN call'[id] ELSE call[id]]
    BY <2>1 DEF Invocations
  <2>6. Invoke
    BY <1>5, <2>1, <2>5 DEF Invoke
  <2> QED
    BY <2>4, <2>6 DEF LifecycleNext
<1>8. CASE \E id \in Ids : StepRuns(id) \/ StepExpires(id)
  <2>1. PICK id \in Ids : CallStep(id) \/ WaitExpires(id)
    BY <1>8 DEF StepRuns, StepExpires
  <2>2. UNCHANGED reloadVars
    BY <1>8 DEF StepRuns, StepExpires
  <2>3. call[id].pc # "idle" /\ \A i \in Ids : i # id => call'[i] = call[i]
    BY <2>1 DEF CallStep, Start, UpdateBegin, Drain, StopBegin, WaitDone, UpdateReplace, WaitExpires,
         startLocked, Return, IInv, LifecycleTypeOK
  <2>4. CallsPhased'
    BY <2>2, <2>3 DEF CallInv, CallsPhased, reloadVars
  <2> QED
    BY <1>0, <2>1, <2>2, <2>4 DEF CallInv, ReloadTypes, PlanKept, reloadVars, LifecycleNext
<1>9. CASE Deadline
  <2>1. /\ reload' = [reload EXCEPT !.ctx = "expired"] /\ reload.pc \in {"do", "undo"}
        /\ UNCHANGED <<lifecycleVars, snapshot>>
    BY <1>9 DEF Deadline
  <2>2. /\ reload' \in Reload /\ reload'.pc = reload.pc /\ reload'.phase = reload.phase
        /\ reload'.ask = reload.ask /\ reload'.restart = reload.restart
        /\ reload'.next = reload.next /\ reload'.previous = reload.previous
    BY <1>0, <2>1 DEF Reload
  <2>3. PhaseIds(reload') = PhaseIds(reload)
    BY <2>2 DEF PhaseIds, Added, Updated, Removed, Enabled
  <2> QED
    BY <1>0, <2>1, <2>2, <2>3 DEF CallInv, ReloadTypes, PlanKept, CallsPhased, lifecycleVars
<1>10. CASE \/ \E id \in Ids : PollerRuns(id)
            \/ Shutdown
  <2>1. UNCHANGED call /\ UNCHANGED reloadVars /\ ((\E id \in Ids : PollerStep(id)) \/ shutdown)
    <3>1. ASSUME NEW id \in Ids, PollerStep(id) PROVE UNCHANGED call
      BY <3>1 DEF PollerStep, PollerFails, RecordCycle, SupervisorStep, RecordCrash,
           BackoffOver, RecordRestart, RecordFailure, LeaveLoop, Exited, CloseDone
    <3>2. shutdown => UNCHANGED call
      BY DEF shutdown
    <3> QED
      BY <1>10, <3>1, <3>2 DEF PollerRuns, Shutdown
  <2> QED
    BY <1>0, <2>1 DEF CallInv, ReloadTypes, PlanKept, CallsPhased, reloadVars, LifecycleNext
<1>11. CASE ReadinessLooks \/ ReadinessLatches \/ UNCHANGED vars
  <2>1. UNCHANGED <<lifecycleVars, snapshot, reload>>
    BY <1>11 DEF ReadinessLooks, ReadinessLatches, vars, reloadVars
  <2> QED
    BY <1>0, <2>1 DEF CallInv, ReloadTypes, PlanKept, CallsPhased, lifecycleVars
<1> QED
  BY <1>1, <1>2, <1>3, <1>4, <1>6, <1>7, <1>8, <1>9, <1>10, <1>11 DEF Next, ReloadStep

\* A reload's calls and what is proved of the lifecycle, in every state.
THEOREM ReloadInvariant == Spec => [](IInv /\ CallInv)
<1>1. Init => IInv /\ CallInv
  <2> SUFFICES ASSUME Init PROVE IInv /\ CallInv
    OBVIOUS
  <2>1. IInv
    BY InitHolds DEF Init
  <2>2. ReloadTypes
    BY CandidatesAssumption, IdleTyped DEF Init, ReloadTypes
  <2>3. PlanKept /\ CallsPhased
    BY DEF Init, PlanKept, CallsPhased, IdleReload, LifecycleInit, IdleCall
  <2> QED
    BY <2>1, <2>2, <2>3 DEF CallInv
<1>2. IInv /\ CallInv /\ [Next]_vars => IInv' /\ CallInv'
  BY StepRefines, NextKeeps
<1> QED
  BY <1>1, <1>2, PTL DEF Spec

\* A reload, its rollback and the initial reconcile call the lifecycle the way
\* PollerLifecycle allows: at most one call for a collector, and phases that do
\* not overlap (ReconcileWithRollback and runSteps of internal/config).
THEOREM ReloadImplementsLifecycle == Spec => ImplementsLifecycle
<1>1. Init => LifecycleInit
  BY DEF Init
<1>2. IInv /\ CallInv /\ [Next]_vars => [LifecycleNext]_lifecycleVars
  BY StepRefines
<1> QED
  BY <1>1, <1>2, ReloadInvariant, PTL DEF Spec, ImplementsLifecycle, LifecycleSpec

\* So no reload, failed or rolled back, lets two pollers of a collector overlap.
THEOREM ReloadPollersExclusive == Spec => []OnePollerPerCollector
BY ReloadImplementsLifecycle, PollersExclusive, PTL DEF ImplementsLifecycle

-----------------------------------------------------------------------------
(* The runtime is the snapshot                                             *)

\* What runs before a reload.
Base == IF initialized THEN snapshot.config ELSE Nothing

\* Collector id runs version v, and no call has claimed it; or has no entry.
RunsAs(id, v) ==
  IF v = NoVersion THEN ~Exists(id)
  ELSE RunsVersion(id, v) /\ Current(id).phase \in {"running", "backing_off", "failed"}

Unclaimed(id) == Exists(id) => ~Current(id).canceled

\* A stop finds an entry whose goroutine runs, so that exited removes it.
StopRemoves(id) ==
  /\ call[id].pc \in {"drain", "todo", "select", "wait", "returned"}
  /\ call[id].pc \in {"drain", "todo"} => Unclaimed(id)
  /\ call[id].pc \in {"select", "wait"} /\ Exists(id) =>
       /\ items[id] = call[id].old
       /\ Current(id).phase = "stopping" /\ Current(id).pc \notin {"off", "closing", "done"}

\* The call takes id to version v, or has failed.
Stepping(id, v) ==
  /\ IF v = NoVersion THEN call[id].what = "stop" /\ StopRemoves(id)
                      ELSE call[id].what # "stop" /\ call[id].cfg = v
  /\ call[id].pc = "returned" /\ ~call[id].err => RunsAs(id, v)

\* An added collector, to run v, has no entry before its start.
Adding(id, v) ==
  \/ call[id].pc = "todo" /\ call[id].what = "start" /\ ~Exists(id)
  \/ call[id].pc = "returned" /\ RunsAs(id, v)

\* Its phase is before the one that runs.
Past(r, id) == (id \in Added(r) /\ r.phase > 1) \/ (id \in Updated(r) /\ r.phase > 2)

SettledDo(r, id) ==
  IF id \in PhaseIds(r)
    THEN Stepping(id, r.next[id]) /\ (r.phase = 1 => Adding(id, r.next[id]))
    ELSE RunsAs(id, IF Past(r, id) THEN r.next[id] ELSE r.previous[id])

SettledUndo(r, id) ==
  IF id \in PhaseIds(r) THEN Stepping(id, r.previous[id])
  ELSE IF Past(r, id) THEN id \in Added(r) => Unclaimed(id)
  ELSE r.failed \/ RunsAs(id, r.previous[id])

\* Where reload r has taken collector id.
SettledFor(r, id) ==
  /\ r.pc \in {"idle", "plan"} => RunsAs(id, Base[id])
  /\ r.pc = "do" => SettledDo(r, id)
  /\ r.pc = "undo" => SettledUndo(r, id)

\* Until the shutdown, or a rollback that fails, every collector is where the
\* phases of a reload have taken it.
Settled ==
  ~closed /\ ~tainted =>
    /\ reload.pc # "idle" => reload.previous = Base
    /\ reload.pc = "plan" => reload.phase = 1
    /\ \A id \in Ids : SettledFor(reload, id)

\* What a collector runs depends on its entry alone.
LEMMA EntryDecides ==
  ASSUME NEW id \in Ids, items'[id] = items[id], ent'[id] = ent[id]
  PROVE  /\ \A v : RunsAs(id, v)' <=> RunsAs(id, v)
         /\ Unclaimed(id)' <=> Unclaimed(id)
         /\ Exists(id)' <=> Exists(id)
         /\ call'[id] = call[id] => \A v : Stepping(id, v) => Stepping(id, v)'
<1>1. /\ \A v : RunsAs(id, v)' <=> RunsAs(id, v)
      /\ Unclaimed(id)' <=> Unclaimed(id)
      /\ Exists(id)' <=> Exists(id)
  BY DEF RunsAs, RunsVersion, Unclaimed, Exists, Current
<1>2. ASSUME call'[id] = call[id], StopRemoves(id) PROVE StopRemoves(id)'
  BY <1>1, <1>2 DEF StopRemoves, Exists, Current
<1> QED
  BY <1>1, <1>2 DEF Stepping

\* What a step of a supervisor does to the entry of a collector.
EntryMoves(id) ==
  \/ items'[id] = items[id] /\ items[id] = NoEntry
  \/ /\ items'[id] = NoEntry /\ items[id] \in Slots
     /\ ent[id][items[id]].canceled
  \/ /\ items'[id] = items[id] /\ items[id] \in Slots
     /\ ent'[id][items[id]].cfg = ent[id][items[id]].cfg
     /\ ent'[id][items[id]].canceled = ent[id][items[id]].canceled
     /\ ent[id][items[id]].phase \in {"running", "backing_off", "failed"} =>
          ent'[id][items[id]].phase \in {"running", "backing_off", "failed"}
     /\ ent[id][items[id]].phase = "stopping" =>
          /\ ent'[id][items[id]].phase = "stopping"
          /\ ent[id][items[id]].pc \notin {"off", "closing", "done"} =>
               ent'[id][items[id]].pc \notin {"off", "closing", "done"}

\* A supervisor changes neither config nor cancellation of an entry, keeps the
\* phase that a stop has set, and removes only canceled entries.
LEMMA PollerMoves ==
  ASSUME IInv, NEW j \in Ids, PollerStep(j), NEW id \in Ids
  PROVE  EntryMoves(id) /\ UNCHANGED call
<1>1. PICK s \in Slots : PollerFails(j, s) \/ RecordCycle(j, s) \/ SupervisorStep(j, s)
  BY DEF PollerStep
<1>2. PICK old \in Entry : old = ent[j][s]
  BY DEF IInv, LifecycleTypeOK
<1>3. items \in [Ids -> Slots \cup {NoEntry}] /\ ent \in [Ids -> [Slots -> Entry]] /\ Shows(old)
  BY <1>2 DEF IInv, LifecycleTypeOK, PhasesShow
<1>4. ASSUME NEW new, SetEntry(j, s, new), UNCHANGED <<items, call>>,
             new.cfg = old.cfg, new.canceled = old.canceled,
             old.phase \in {"running", "backing_off", "failed"} => new.phase \in {"running", "backing_off", "failed"},
             old.phase = "stopping" => new.phase = "stopping",
             old.pc \notin {"off", "closing", "done"} => new.pc \notin {"off", "closing", "done"}
      PROVE  EntryMoves(id) /\ UNCHANGED call
  <2>1. \A i \in Ids, k \in Slots : ent'[i][k] = IF i = j /\ k = s THEN new ELSE ent[i][k]
    BY <1>3, <1>4 DEF SetEntry
  <2>2. CASE items[id] = NoEntry
    BY <1>4, <2>2 DEF EntryMoves
  <2>3. CASE items[id] \in Slots
    <3>1. CASE id = j /\ items[id] = s
      BY <1>2, <1>4, <2>1, <2>3, <3>1 DEF EntryMoves
    <3>2. CASE ~(id = j /\ items[id] = s)
      <4>1. ent'[id][items[id]] = ent[id][items[id]]
        BY <2>1, <2>3, <3>2
      <4> QED
        BY <1>4, <2>3, <4>1 DEF EntryMoves
    <3> QED
      BY <3>1, <3>2
  <2> QED
    BY <1>3, <2>2, <2>3
<1>5. CASE PollerFails(j, s)
  <2>1. PICK fault \in Faults :
          SetEntry(j, s, [old EXCEPT !.pc = IF fault = "crash" THEN "crashed" ELSE "rejected"])
    BY <1>2, <1>5 DEF PollerFails
  <2>2. PICK new : new = [old EXCEPT !.pc = IF fault = "crash" THEN "crashed" ELSE "rejected"]
    OBVIOUS
  <2>3. /\ new.cfg = old.cfg /\ new.canceled = old.canceled /\ new.phase = old.phase
        /\ new.pc \in {"crashed", "rejected"}
    BY <2>2 DEF Entry
  <2> QED
    BY <1>4, <1>5, <2>1, <2>2, <2>3 DEF PollerFails
<1>6. CASE RecordCycle(j, s)
  <2>1. PICK new : new = [old EXCEPT !.hasCycle = TRUE, !.crashes = 0]
    OBVIOUS
  <2>2. new.cfg = old.cfg /\ new.canceled = old.canceled /\ new.phase = old.phase /\ new.pc = old.pc
    BY <2>1 DEF Entry
  <2> QED
    BY <1>2, <1>4, <1>6, <2>1, <2>2 DEF RecordCycle
<1>7. CASE RecordCrash(j, s)
  <2>1. PICK crashes, phase :
          /\ phase = old.phase \/ (old.phase # "stopping" /\ phase \in {"failed", "backing_off"})
          /\ SetEntry(j, s, [old EXCEPT !.pc = "backoff", !.crashes = crashes, !.phase = phase])
    BY <1>2, <1>7 DEF RecordCrash
  <2>2. PICK new : new = [old EXCEPT !.pc = "backoff", !.crashes = crashes, !.phase = phase]
    OBVIOUS
  <2>3. new.cfg = old.cfg /\ new.canceled = old.canceled /\ new.phase = phase /\ new.pc = "backoff"
    BY <2>2 DEF Entry
  <2> QED
    BY <1>4, <1>7, <2>1, <2>2, <2>3 DEF RecordCrash
<1>8. CASE BackoffOver(j, s)
  <2>1. PICK new : new = [old EXCEPT !.pc = "restart"]
    OBVIOUS
  <2>2. new.cfg = old.cfg /\ new.canceled = old.canceled /\ new.phase = old.phase /\ new.pc = "restart"
    BY <2>1 DEF Entry
  <2> QED
    BY <1>2, <1>4, <1>8, <2>1, <2>2 DEF BackoffOver
<1>9. CASE RecordRestart(j, s)
  <2>1. PICK phase : phase = IF old.phase \in {"backing_off", "failed"} THEN "running" ELSE old.phase
    OBVIOUS
  <2>2. PICK new : new = [old EXCEPT !.pc = "run", !.phase = phase]
    OBVIOUS
  <2>3. new.cfg = old.cfg /\ new.canceled = old.canceled /\ new.phase = phase /\ new.pc = "run"
    BY <2>2 DEF Entry
  <2>4. SetEntry(j, s, new)
    BY <1>2, <1>9, <2>1, <2>2 DEF RecordRestart, Entry
  <2> QED
    BY <1>4, <1>9, <2>1, <2>3, <2>4 DEF RecordRestart
<1>10. CASE RecordFailure(j, s)
  <2>1. PICK phase : phase = IF old.phase = "running" THEN "failed" ELSE old.phase
    OBVIOUS
  <2>2. PICK new : new = [old EXCEPT !.pc = "parked", !.phase = phase]
    OBVIOUS
  <2>3. new.cfg = old.cfg /\ new.canceled = old.canceled /\ new.phase = phase /\ new.pc = "parked"
    BY <2>2 DEF Entry
  <2>4. SetEntry(j, s, new)
    BY <1>2, <1>10, <2>1, <2>2 DEF RecordFailure, Entry
  <2> QED
    BY <1>4, <1>10, <2>1, <2>3, <2>4 DEF RecordFailure
<1>11. CASE LeaveLoop(j, s)
  <2>1. PICK new : new = [old EXCEPT !.pc = "exiting"]
    OBVIOUS
  <2>2. new.cfg = old.cfg /\ new.canceled = old.canceled /\ new.phase = old.phase /\ new.pc = "exiting"
    BY <2>1 DEF Entry
  <2> QED
    BY <1>2, <1>4, <1>11, <2>1, <2>2 DEF LeaveLoop
<1>12. CASE Exited(j, s)
  <2>1. PICK pc, phase :
          /\ phase = IF items[j] = s /\ old.phase = "restarting" THEN "failed" ELSE old.phase
          /\ SetEntry(j, s, [old EXCEPT !.pc = pc, !.phase = phase])
    BY <1>2, <1>12 DEF Exited, Entry
  <2>2. PICK new : new = [old EXCEPT !.pc = pc, !.phase = phase]
    OBVIOUS
  <2>3. new.cfg = old.cfg /\ new.canceled = old.canceled /\ new.phase = phase
    BY <2>2 DEF Entry
  <2>4. \A i \in Ids, k \in Slots : ent'[i][k] = IF i = j /\ k = s THEN new ELSE ent[i][k]
    BY <1>3, <2>1, <2>2 DEF SetEntry
  <2>5. old.pc = "exiting" /\ old.canceled /\ UNCHANGED call
    BY <1>2, <1>3, <1>12 DEF Exited, Shows
  <2>6. items' = IF items[j] = s /\ old.phase = "stopping" THEN [items EXCEPT ![j] = NoEntry] ELSE items
    BY <1>2, <1>12 DEF Exited
  <2>7. CASE items[id] = NoEntry
    BY <1>3, <2>5, <2>6, <2>7, NoneAssumption DEF EntryMoves
  <2>8. CASE items[id] \in Slots /\ id = j /\ items[id] = s /\ old.phase = "stopping"
    BY <1>2, <1>3, <2>5, <2>6, <2>8 DEF EntryMoves
  <2>9. CASE items[id] \in Slots /\ id = j /\ items[id] = s /\ old.phase # "stopping"
    BY <1>2, <2>1, <2>3, <2>4, <2>5, <2>6, <2>9 DEF EntryMoves
  <2>10. CASE items[id] \in Slots /\ ~(id = j /\ items[id] = s)
    <3>1. ent'[id][items[id]] = ent[id][items[id]] /\ items'[id] = items[id]
      BY <1>3, <2>4, <2>6, <2>10
    <3> QED
      BY <2>5, <2>10, <3>1 DEF EntryMoves
  <2> QED
    BY <1>3, <2>7, <2>8, <2>9, <2>10
<1>13. CASE CloseDone(j, s)
  <2>1. PICK new : new = [old EXCEPT !.pc = "done"]
    OBVIOUS
  <2>2. new.cfg = old.cfg /\ new.canceled = old.canceled /\ new.phase = old.phase /\ old.pc = "closing"
    BY <1>2, <1>13, <2>1 DEF Entry, CloseDone
  <2> QED
    BY <1>2, <1>4, <1>13, <2>1, <2>2 DEF CloseDone
<1> QED
  BY <1>1, <1>5, <1>6, <1>7, <1>8, <1>9, <1>10, <1>11, <1>12, <1>13 DEF SupervisorStep

\* So it takes no collector from where it is.
LEMMA PollerKeepsPlace ==
  ASSUME IInv, NEW j \in Ids, PollerStep(j), NEW id \in Ids
  PROVE  /\ \A v : RunsAs(id, v) => RunsAs(id, v)'
         /\ Unclaimed(id) => Unclaimed(id)'
         /\ \A v : Stepping(id, v) => Stepping(id, v)'
         /\ \A v : Adding(id, v) => Adding(id, v)'
<1>1. EntryMoves(id) /\ UNCHANGED call
  BY PollerMoves
<1>2. ASSUME NEW v, RunsAs(id, v) PROVE RunsAs(id, v)'
  BY <1>1, <1>2, NoneAssumption DEF EntryMoves, RunsAs, RunsVersion, Exists, Current
<1>3. Unclaimed(id) => Unclaimed(id)'
  BY <1>1, NoneAssumption DEF EntryMoves, Unclaimed, Exists, Current
<1>4. ASSUME StopRemoves(id) PROVE StopRemoves(id)'
  <2>1. call[id].pc \in {"select", "wait"} /\ Exists(id)' =>
          /\ items'[id] = call[id].old
          /\ Current(id)'.phase = "stopping" /\ Current(id)'.pc \notin {"off", "closing", "done"}
    BY <1>1, <1>4, NoneAssumption DEF EntryMoves, StopRemoves, Exists, Current
  <2> QED
    BY <1>1, <1>3, <1>4, <2>1 DEF StopRemoves
<1>5. \A v : Stepping(id, v) => Stepping(id, v)'
  BY <1>1, <1>2, <1>4 DEF Stepping
<1>6. ~Exists(id) => ~Exists(id)'
  BY <1>1, NoneAssumption DEF EntryMoves, Exists
<1> QED
  BY <1>1, <1>2, <1>3, <1>5, <1>6 DEF Adding

\* A call touches its own collector only.
LEMMA CallLocal ==
  ASSUME IInv, NEW id \in Ids, CallStep(id) \/ WaitExpires(id)
  PROVE  /\ UNCHANGED closed
         /\ \A j \in Ids \ {id} : items'[j] = items[j] /\ ent'[j] = ent[j] /\ call'[j] = call[j]
<1>1. /\ items \in [Ids -> Slots \cup {NoEntry}] /\ ent \in [Ids -> [Slots -> Entry]] /\ call \in [Ids -> Call]
  BY DEF IInv, LifecycleTypeOK
<1>2. CASE Start(id) \/ UpdateReplace(id)
  BY <1>1, <1>2 DEF Start, UpdateReplace, startLocked, Return
<1>3. CASE UpdateBegin(id)
  BY <1>1, <1>3 DEF UpdateBegin, Cancel
<1>4. CASE Drain(id)
  BY <1>1, <1>4 DEF Drain
<1>5. CASE StopBegin(id)
  BY <1>1, <1>5 DEF StopBegin, Cancel, Return
<1>6. CASE WaitDone(id) \/ WaitExpires(id)
  BY <1>1, <1>6 DEF WaitDone, WaitExpires, Return
<1> QED
  BY <1>2, <1>3, <1>4, <1>5, <1>6 DEF CallStep

\* startLocked before the shutdown: the collector runs the call's config.
LEMMA StartedRuns ==
  ASSUME IInv, NEW id \in Ids, ~closed, startLocked(id), NEW v, v = call[id].cfg, v # NoVersion
  PROVE  /\ call'[id].pc = "returned" /\ call'[id].what = call[id].what /\ call'[id].cfg = call[id].cfg
         /\ RunsAs(id, v)'
<1>1. call \in [Ids -> Call] /\ items \in [Ids -> Slots \cup {NoEntry}] /\ ent \in [Ids -> [Slots -> Entry]]
  BY DEF IInv, LifecycleTypeOK
<1>2. PICK s \in Slots :
        /\ ent' = [ent EXCEPT ![id] = [k \in Slots |->
                     IF k = s THEN Fresh(call[id].cfg) ELSE IF Ended(id, k) THEN Off ELSE ent[id][k]]]
        /\ items' = [items EXCEPT ![id] = s]
        /\ Return(id, FALSE)
  BY DEF startLocked
<1>3. call'[id].pc = "returned" /\ call'[id].what = call[id].what /\ call'[id].cfg = call[id].cfg
  BY <1>1, <1>2 DEF Return, Call
<1>4. items'[id] = s /\ s # NoEntry /\ ent'[id][s] = Fresh(v)
  BY <1>1, <1>2, NoneAssumption
<1>5. Fresh(v).cfg = v /\ ~Fresh(v).canceled /\ Fresh(v).phase = "running"
  BY DEF Fresh
<1>6. RunsAs(id, v)'
  BY <1>4, <1>5 DEF RunsAs, RunsVersion, Exists, Current
<1> QED
  BY <1>3, <1>6

\* A call that stops a collector.
LEMMA StopStep ==
  ASSUME IInv, NEW id \in Ids, Stepping(id, NoVersion), CallStep(id) \/ WaitExpires(id)
  PROVE  Stepping(id, NoVersion)'
<1>1. /\ call \in [Ids -> Call] /\ items \in [Ids -> Slots \cup {NoEntry}] /\ ent \in [Ids -> [Slots -> Entry]]
      /\ \A s \in Slots : Shows(ent[id][s])
  BY DEF IInv, LifecycleTypeOK, PhasesShow
<1>2. call[id].what = "stop" /\ StopRemoves(id) /\ call[id] \in Call
  BY <1>1 DEF Stepping
<1>3. CASE Drain(id)
  <2>1. call'[id].pc = "todo" /\ call'[id].what = "stop" /\ call[id].pc = "drain"
    BY <1>1, <1>2, <1>3 DEF Drain, Call
  <2>2. Exists(id) => ~Current(id).canceled
    BY <1>2, <2>1 DEF StopRemoves, Unclaimed
  <2>3. items' = items /\ (Exists(id) => ent'[id][items[id]].canceled = ent[id][items[id]].canceled)
    BY <1>1, <1>3 DEF Drain, Entry, Exists
  <2>4. Unclaimed(id)'
    BY <2>2, <2>3 DEF Unclaimed, Exists, Current
  <2> QED
    BY <2>1, <2>4 DEF Stepping, StopRemoves
<1>4. CASE StopBegin(id) /\ Exists(id)
  <2>1. /\ call'[id].pc = "select" /\ call'[id].what = "stop" /\ call'[id].old = items[id]
        /\ call[id].pc = "todo" /\ items' = items
    BY <1>1, <1>2, <1>4 DEF StopBegin, Call
  <2>2. ~Current(id).canceled /\ items[id] \in Slots
    BY <1>1, <1>2, <1>4, <2>1 DEF StopRemoves, Unclaimed, Exists
  <2>3. Current(id).pc \notin {"off", "closing", "done"}
    BY <1>1, <2>2 DEF Shows, Current
  <2>4. /\ ent'[id][items[id]].phase = "stopping"
        /\ ent'[id][items[id]].pc = ent[id][items[id]].pc
    BY <1>1, <1>4, <2>2 DEF StopBegin, Cancel, Entry
  <2>5. Current(id)'.phase = "stopping" /\ Current(id)'.pc \notin {"off", "closing", "done"}
    BY <2>1, <2>3, <2>4 DEF Current
  <2> QED
    BY <2>1, <2>5 DEF Stepping, StopRemoves
<1>5. CASE StopBegin(id) /\ ~Exists(id)
  <2>1. call'[id].pc = "returned" /\ call'[id].what = "stop" /\ items' = items
    BY <1>1, <1>2, <1>5 DEF StopBegin, Return, Call
  <2> QED
    BY <1>5, <2>1 DEF Stepping, StopRemoves, RunsAs, Exists
<1>6. CASE WaitDone(id) /\ OldDone(id)
  <2>1. /\ call'[id].pc = "returned" /\ call'[id].what = "stop" /\ UNCHANGED items
        /\ call[id].pc \in {"select", "wait"}
    BY <1>1, <1>2, <1>6 DEF WaitDone, Return, Call
  <2>2. ~Exists(id)
    BY <1>2, <1>6, <2>1 DEF StopRemoves, OldDone, Ended, Current
  <2> QED
    BY <2>1, <2>2 DEF Stepping, StopRemoves, RunsAs, Exists
<1>7. CASE WaitDone(id) /\ ~OldDone(id)
  <2>1. /\ call'[id].pc = "wait" /\ call'[id].what = "stop" /\ call'[id].old = call[id].old
        /\ call[id].pc \in {"select", "wait"} /\ UNCHANGED <<items, ent>>
    BY <1>1, <1>2, <1>7 DEF WaitDone, Call
  <2> QED
    BY <1>2, <2>1 DEF Stepping, StopRemoves, Exists, Current
<1>8. CASE WaitExpires(id)
  <2>1. call'[id].pc = "returned" /\ call'[id].what = "stop" /\ call'[id].err
    BY <1>1, <1>2, <1>8 DEF WaitExpires, Return, Call
  <2> QED
    BY <2>1 DEF Stepping, StopRemoves
<1> QED
  BY <1>2, <1>3, <1>4, <1>5, <1>6, <1>7, <1>8
     DEF CallStep, Start, UpdateBegin, UpdateReplace, StopRemoves

\* A call that starts or updates a collector.
LEMMA RunStep ==
  ASSUME IInv, ~closed, NEW id \in Ids, NEW v, v # NoVersion, Stepping(id, v), CallStep(id) \/ WaitExpires(id)
  PROVE  Stepping(id, v)' /\ (Adding(id, v) => Adding(id, v)')
<1>1. /\ call \in [Ids -> Call] /\ items \in [Ids -> Slots \cup {NoEntry}] /\ ent \in [Ids -> [Slots -> Entry]]
  BY DEF IInv, LifecycleTypeOK
<1>2. call[id].what # "stop" /\ call[id].cfg = v /\ call[id] \in Call
  BY <1>1 DEF Stepping
<1>3. ASSUME call'[id].what # "stop", call'[id].cfg = v, call'[id].pc # "returned" \/ call'[id].err
      PROVE  Stepping(id, v)'
  BY <1>3 DEF Stepping
<1>4. ASSUME startLocked(id)
      PROVE  Stepping(id, v)' /\ call'[id].pc = "returned" /\ RunsAs(id, v)'
  <2>1. /\ call'[id].pc = "returned" /\ call'[id].what = call[id].what /\ call'[id].cfg = call[id].cfg
        /\ RunsAs(id, v)'
    BY <1>2, <1>4, StartedRuns
  <2> QED
    BY <1>2, <2>1 DEF Stepping
<1>5. CASE Start(id)
  <2>1. CASE Exists(id)
    <3>1. call'[id].pc = "update" /\ call'[id].what = "update" /\ call'[id].cfg = v /\ call[id].pc = "todo"
      BY <1>1, <1>2, <1>5, <2>1 DEF Start, Call
    <3> QED
      BY <1>3, <2>1, <3>1 DEF Adding
  <2>2. CASE ~Exists(id)
    <3>1. startLocked(id)
      BY <1>5, <2>2 DEF Start
    <3>2. Adding(id, v)'
      BY <1>4, <3>1 DEF Adding
    <3> QED
      BY <1>4, <3>1, <3>2
  <2> QED
    BY <2>1, <2>2
<1>6. CASE UpdateReplace(id)
  <2>1. call[id].pc = "ready"
    BY <1>6 DEF UpdateReplace
  <2>2. CASE startLocked(id)
    BY <1>4, <2>1, <2>2 DEF Adding
  <2>3. CASE Return(id, TRUE)
    <3>1. call'[id].what = call[id].what /\ call'[id].cfg = call[id].cfg /\ call'[id].err
      BY <1>1, <2>3 DEF Return, Call
    <3> QED
      BY <1>2, <1>3, <2>1, <3>1 DEF Adding
  <2> QED
    BY <1>6, <2>2, <2>3 DEF UpdateReplace
<1>7. CASE UpdateBegin(id)
  <2>1. /\ call'[id].what = call[id].what /\ call'[id].cfg = call[id].cfg /\ call'[id].pc \in {"select", "ready"}
        /\ call[id].pc \in {"todo", "update"} /\ call[id].what = "update"
    BY <1>1, <1>7 DEF UpdateBegin, Call
  <2> QED
    BY <1>2, <1>3, <2>1 DEF Adding
<1>8. CASE Drain(id)
  <2>1. /\ call'[id].what = call[id].what /\ call'[id].cfg = call[id].cfg /\ call'[id].pc = "todo"
        /\ call[id].pc = "drain"
    BY <1>1, <1>8 DEF Drain, Call
  <2> QED
    BY <1>2, <1>3, <2>1 DEF Adding
<1>9. CASE WaitDone(id)
  <2>1. /\ call'[id].what = call[id].what /\ call'[id].cfg = call[id].cfg /\ call'[id].pc \in {"wait", "ready"}
        /\ call[id].pc \in {"select", "wait"}
    BY <1>1, <1>2, <1>9 DEF WaitDone, Call
  <2> QED
    BY <1>2, <1>3, <2>1 DEF Adding
<1>10. CASE WaitExpires(id)
  <2>1. /\ call'[id].what = call[id].what /\ call'[id].cfg = call[id].cfg /\ call'[id].err /\ call[id].pc = "wait"
    BY <1>1, <1>10 DEF WaitExpires, Return, Call
  <2> QED
    BY <1>2, <1>3, <2>1 DEF Adding
<1> QED
  BY <1>2, <1>5, <1>6, <1>7, <1>8, <1>9, <1>10 DEF CallStep, StopBegin

\* A phase that is entered finds every collector where it expects it.
LEMMA PhaseEntered ==
  ASSUME NEW r \in Reload, r.pc \in {"do", "undo"},
         r.ask \cup r.restart \subseteq Enabled(r.next) \cap Enabled(r.previous),
         EnterPhase(r), UNCHANGED <<items, ent>>, NEW id \in Ids,
         id \in PhaseIds(r) =>
           /\ r.phase = 1 => IF r.pc = "do" THEN ~Exists(id) ELSE Unclaimed(id)
           /\ r.phase = 3 /\ r.pc = "do" => Unclaimed(id),
         id \notin PhaseIds(r) =>
           IF r.pc = "do" THEN RunsAs(id, IF Past(r, id) THEN r.next[id] ELSE r.previous[id])
           ELSE IF Past(r, id) THEN id \in Added(r) => Unclaimed(id)
           ELSE r.failed \/ RunsAs(id, r.previous[id])
  PROVE  SettledFor(r, id)'
<1>1. /\ \A v : RunsAs(id, v)' <=> RunsAs(id, v)
      /\ Unclaimed(id)' <=> Unclaimed(id)
      /\ Exists(id)' <=> Exists(id)
  BY EntryDecides
<1>2. CASE id \notin PhaseIds(r)
  BY <1>1, <1>2 DEF SettledFor, SettledDo, SettledUndo
<1>3. CASE id \in PhaseIds(r)
  <2>1. call'[id] = StepOf(r, id)
    BY <1>3 DEF EnterPhase
  <2>2. /\ r.phase = 1 => r.next[id] \in Versions /\ r.previous[id] = NoVersion
        /\ r.phase = 2 => r.next[id] \in Versions /\ r.previous[id] \in Versions
        /\ r.phase = 3 => r.next[id] = NoVersion /\ r.previous[id] \in Versions
        /\ r.phase \in {1, 2, 3}
    BY <1>3, PhasesSound DEF Reload
  <2>3. ASSUME NEW v \in Versions, NEW what \in {"start", "update"},
               call'[id] = [IdleCall EXCEPT !.pc = "todo", !.what = what, !.cfg = v]
        PROVE  /\ Stepping(id, v)' /\ call'[id].pc = "todo" /\ call'[id].what = what
    BY <2>3, NoneAssumption DEF Stepping, IdleCall
  <2>4. ASSUME NEW pc \in {"todo", "drain"}, call'[id] = [IdleCall EXCEPT !.pc = pc], Unclaimed(id)
        PROVE  Stepping(id, NoVersion)'
    BY <1>1, <2>4 DEF Stepping, StopRemoves, IdleCall
  <2>5. CASE r.pc = "do" /\ r.phase = 1
    <3>1. StepOf(r, id) = [IdleCall EXCEPT !.pc = "todo", !.what = "start", !.cfg = r.next[id]]
      BY <2>5 DEF StepOf
    <3>2. Stepping(id, r.next[id])' /\ call'[id].pc = "todo" /\ call'[id].what = "start"
      BY <2>1, <2>2, <2>3, <2>5, <3>1
    <3> QED
      BY <1>1, <1>3, <2>5, <3>2 DEF SettledFor, SettledDo, Adding
  <2>6. CASE r.pc = "do" /\ r.phase = 2
    <3>1. StepOf(r, id) = [IdleCall EXCEPT !.pc = "todo", !.what = "update", !.cfg = r.next[id]]
      BY <2>6 DEF StepOf
    <3>2. Stepping(id, r.next[id])'
      BY <2>1, <2>2, <2>3, <2>6, <3>1
    <3> QED
      BY <1>3, <2>6, <3>2 DEF SettledFor, SettledDo
  <2>7. CASE r.pc = "do" /\ r.phase = 3
    <3>1. StepOf(r, id) = [IdleCall EXCEPT !.pc = "drain"]
      BY <2>7 DEF StepOf
    <3>2. Stepping(id, r.next[id])'
      BY <1>3, <2>1, <2>2, <2>4, <2>7, <3>1
    <3> QED
      BY <1>3, <2>7, <3>2 DEF SettledFor, SettledDo
  <2>8. CASE r.pc = "undo" /\ r.phase \in {2, 3}
    <3>1. PICK what \in {"start", "update"} :
            StepOf(r, id) = [IdleCall EXCEPT !.pc = "todo", !.what = what, !.cfg = r.previous[id]]
      BY <2>8 DEF StepOf
    <3>2. Stepping(id, r.previous[id])'
      BY <2>1, <2>2, <2>3, <2>8, <3>1
    <3> QED
      BY <1>3, <2>8, <3>2 DEF SettledFor, SettledUndo
  <2>9. CASE r.pc = "undo" /\ r.phase = 1
    <3>1. StepOf(r, id) = [IdleCall EXCEPT !.pc = "todo"]
      BY <2>9 DEF StepOf
    <3>2. Stepping(id, r.previous[id])'
      BY <1>3, <2>1, <2>2, <2>4, <2>9, <3>1
    <3> QED
      BY <1>3, <2>9, <3>2 DEF SettledFor, SettledUndo
  <2> QED
    BY <2>2, <2>5, <2>6, <2>7, <2>8, <2>9
<1> QED
  BY <1>2, <1>3

\* When a phase is over, what each collector runs.
LEMMA PhaseOver ==
  ASSUME CallInv, Settled, ~closed, ~tainted, PhaseDone, NEW id \in Ids, NEW q, q = reload
  PROVE  /\ q \in Reload /\ q.previous = Base
         /\ q.ask \cup q.restart \subseteq Enabled(q.next) \cap Enabled(q.previous)
         /\ (q.pc = "do" /\ id \in PhaseIds(q) /\ ~PhaseFailed) => RunsAs(id, q.next[id])
         /\ (q.pc = "do" /\ id \in PhaseIds(q) /\ q.phase = 1) => RunsAs(id, q.next[id])
         /\ (q.pc = "do" /\ id \notin PhaseIds(q)) =>
              RunsAs(id, IF Past(q, id) THEN q.next[id] ELSE q.previous[id])
         /\ (q.pc = "undo" /\ id \in PhaseIds(q) /\ ~PhaseFailed) => RunsAs(id, q.previous[id])
         /\ (q.pc = "undo" /\ id \notin PhaseIds(q)) =>
              IF Past(q, id) THEN id \in Added(q) => Unclaimed(id)
              ELSE q.failed \/ RunsAs(id, q.previous[id])
<1>1. /\ q \in Reload /\ q.previous = Base
      /\ q.ask \cup q.restart \subseteq Enabled(q.next) \cap Enabled(q.previous)
  BY DEF CallInv, ReloadTypes, PlanKept, Settled, PhaseDone
<1>2. SettledFor(q, id)
  BY DEF Settled
<1>3. id \in PhaseIds(q) => call[id].pc = "returned" /\ (~PhaseFailed => ~call[id].err)
  BY DEF PhaseDone, PhaseFailed
<1> QED
  BY <1>1, <1>2, <1>3 DEF SettledFor, SettledDo, SettledUndo, Stepping, Adding

\* A collector that runs is unclaimed.
LEMMA RunsUnclaimed ==
  ASSUME NEW id \in Ids, NEW v, RunsAs(id, v)
  PROVE  Unclaimed(id) /\ (v = NoVersion => ~Exists(id))
BY DEF RunsAs, RunsVersion, Unclaimed

\* The phases of a reload, and of its rollback, follow each other.
LEMMA PhasesFollow ==
  ASSUME IInv, CallInv, Settled, ~closed, ~tainted, NextPhase \/ StartRollback \/ UndoPhase
  PROVE  Settled'
<1>1. PICK q : q = reload
  OBVIOUS
<1>2. PhaseDone /\ UNCHANGED <<items, ent, closed, snapshot, initialized, tainted>>
  BY DEF NextPhase, StartRollback, UndoPhase
<1>3. /\ q \in Reload /\ q.previous = Base
      /\ q.ask \cup q.restart \subseteq Enabled(q.next) \cap Enabled(q.previous)
      /\ \A id \in Ids :
           /\ (q.pc = "do" /\ id \in PhaseIds(q) /\ ~PhaseFailed) => RunsAs(id, q.next[id])
           /\ (q.pc = "do" /\ id \in PhaseIds(q) /\ q.phase = 1) => RunsAs(id, q.next[id])
           /\ (q.pc = "do" /\ id \notin PhaseIds(q)) =>
                RunsAs(id, IF Past(q, id) THEN q.next[id] ELSE q.previous[id])
           /\ (q.pc = "undo" /\ id \in PhaseIds(q) /\ ~PhaseFailed) => RunsAs(id, q.previous[id])
           /\ (q.pc = "undo" /\ id \notin PhaseIds(q)) =>
                IF Past(q, id) THEN id \in Added(q) => Unclaimed(id)
                ELSE q.failed \/ RunsAs(id, q.previous[id])
  <2>1. /\ q \in Reload /\ q.previous = Base
        /\ q.ask \cup q.restart \subseteq Enabled(q.next) \cap Enabled(q.previous)
    BY <1>1, <1>2 DEF CallInv, ReloadTypes, PlanKept, Settled, PhaseDone
  <2> QED
    BY <1>1, <1>2, <2>1, PhaseOver
<1>4. PICK r : r = reload'
  OBVIOUS
<1>5. /\ r \in Reload /\ EnterPhase(r) /\ r.next = q.next /\ r.previous = q.previous
      /\ r.ask = q.ask /\ r.restart = q.restart
      /\ \/ q.pc = "do" /\ r.pc = "do" /\ q.phase < 3 /\ r.phase = q.phase + 1 /\ ~PhaseFailed
         \/ q.pc = "do" /\ r.pc = "undo" /\ r.phase = q.phase
         \/ /\ q.pc = "undo" /\ r.pc = "undo" /\ q.phase > 1 /\ r.phase = q.phase - 1
            /\ q.failed => r.failed
            /\ PhaseFailed => r.failed
  <2>1. CASE NextPhase
    <3>1. r = [q EXCEPT !.phase = q.phase + 1] /\ EnterPhase(r) /\ q.pc = "do" /\ q.phase < 3 /\ ~PhaseFailed
      BY <1>1, <1>4, <2>1 DEF NextPhase, EnterPhase
    <3> QED
      BY <1>3, <3>1 DEF Reload
  <2>2. CASE StartRollback
    <3>1. r = [q EXCEPT !.pc = "undo", !.ctx = "live"] /\ EnterPhase(r) /\ q.pc = "do"
      BY <1>1, <1>4, <2>2 DEF StartRollback, EnterPhase
    <3> QED
      BY <1>3, <3>1 DEF Reload
  <2>3. CASE UndoPhase
    <3>1. PICK failed \in BOOLEAN : failed = (q.failed \/ PhaseFailed)
      OBVIOUS
    <3>2. PICK k \in 1 .. 3 : k = q.phase - 1
      BY <1>1, <1>3, <2>3 DEF UndoPhase, Reload
    <3>3. r = [q EXCEPT !.phase = k, !.failed = failed] /\ EnterPhase(r)
      <4>1. [reload EXCEPT !.phase = @ - 1, !.failed = @ \/ PhaseFailed] = [q EXCEPT !.phase = k, !.failed = failed]
        BY <1>1, <1>3, <3>1, <3>2, Zenon DEF Reload
      <4> QED
        BY <1>4, <2>3, <4>1 DEF UndoPhase, EnterPhase
    <3>4. /\ r \in Reload /\ r.next = q.next /\ r.previous = q.previous /\ r.ask = q.ask /\ r.restart = q.restart
          /\ r.pc = q.pc /\ r.phase = k /\ r.failed = failed
      BY <1>3, <3>3 DEF Reload
    <3>5. q.pc = "undo" /\ q.phase > 1
      BY <1>1, <2>3 DEF UndoPhase
    <3> QED
      BY <3>1, <3>2, <3>3, <3>4, <3>5
  <2> QED
    BY <2>1, <2>2, <2>3
<1>6. Added(r) = Added(q) /\ Updated(r) = Updated(q) /\ Removed(r) = Removed(q)
  BY <1>5 DEF Added, Updated, Removed, Enabled
<1>7. r.ask \cup r.restart \subseteq Enabled(r.next) \cap Enabled(r.previous)
  BY <1>3, <1>5
<1>8. /\ Added(q) \cap Updated(q) = {} /\ Added(q) \cap Removed(q) = {} /\ Updated(q) \cap Removed(q) = {}
      /\ \A id \in Removed(q) : q.previous[id] \in Versions
      /\ q.phase \in {1, 2, 3}
      /\ PhaseIds(q) = IF q.phase = 1 THEN Added(q) ELSE IF q.phase = 2 THEN Updated(q) ELSE Removed(q)
      /\ PhaseIds(r) = IF r.phase = 1 THEN Added(q) ELSE IF r.phase = 2 THEN Updated(q) ELSE Removed(q)
  <2>1. PhaseIds(r) = IF r.phase = 1 THEN Added(r) ELSE IF r.phase = 2 THEN Updated(r) ELSE Removed(r)
    BY <1>5, <1>7, PhasesSound
  <2>2. q.phase \in {1, 2, 3}
    BY <1>3 DEF Reload
  <2> QED
    BY <1>3, <1>6, <2>1, <2>2, PhasesSound
<1>9. ASSUME NEW id \in Ids PROVE SettledFor(r, id)'
  <2>1. \A v : RunsAs(id, v) => Unclaimed(id)
    BY RunsUnclaimed
  <2>2. id \in PhaseIds(r) =>
           /\ r.phase = 1 => IF r.pc = "do" THEN ~Exists(id) ELSE Unclaimed(id)
           /\ r.phase = 3 /\ r.pc = "do" => Unclaimed(id)
    BY <1>3, <1>5, <1>6, <1>8, <2>1 DEF Past
  <2>3. id \notin PhaseIds(r) =>
           IF r.pc = "do" THEN RunsAs(id, IF Past(r, id) THEN r.next[id] ELSE r.previous[id])
           ELSE IF Past(r, id) THEN id \in Added(r) => Unclaimed(id)
           ELSE r.failed \/ RunsAs(id, r.previous[id])
    BY <1>3, <1>5, <1>6, <1>8, <2>1 DEF Past
  <2> QED
    BY <1>2, <1>5, <1>7, <2>2, <2>3, PhaseEntered
<1>10. Base' = Base
  BY <1>2 DEF Base, Nothing
<1> QED
  BY <1>3, <1>4, <1>5, <1>9, <1>10 DEF Settled

\* A step that leaves the reload, the snapshot and the pollers alone.
LEMMA SettledStays ==
  ASSUME Settled, UNCHANGED <<closed, snapshot, initialized, tainted>>,
         reload'.pc = reload.pc, reload'.phase = reload.phase, reload'.next = reload.next,
         reload'.previous = reload.previous, reload'.restart = reload.restart, reload'.failed = reload.failed,
         \A id \in Ids :
           /\ \A v : RunsAs(id, v) => RunsAs(id, v)'
           /\ Unclaimed(id) => Unclaimed(id)'
           /\ \A v : Stepping(id, v) => Stepping(id, v)'
           /\ \A v : Adding(id, v) => Adding(id, v)'
  PROVE  Settled'
<1>1. Base' = Base
  BY DEF Base, Nothing
<1>2. PICK q, r : q = reload /\ r = reload'
  OBVIOUS
<1>3. Added(r) = Added(q) /\ Updated(r) = Updated(q) /\ Removed(r) = Removed(q) /\ PhaseIds(r) = PhaseIds(q)
  BY <1>2 DEF PhaseIds, Added, Updated, Removed, Enabled
<1>4. ASSUME NEW id \in Ids, SettledFor(q, id) PROVE SettledFor(r, id)'
  <2>1. r.pc \in {"idle", "plan"} => RunsAs(id, Base[id])'
    <3>1. PICK v : v = Base[id]
      OBVIOUS
    <3>2. r.pc \in {"idle", "plan"} => RunsAs(id, v)'
      BY <1>2, <1>4, <3>1 DEF SettledFor
    <3> QED
      BY <1>1, <3>1, <3>2 DEF RunsAs, RunsVersion
  <2>2. r.pc = "do" => SettledDo(r, id)'
    <3>1. CASE id \in PhaseIds(q)
      BY <1>2, <1>3, <1>4, <3>1 DEF SettledFor, SettledDo
    <3>2. CASE id \notin PhaseIds(q)
      BY <1>2, <1>3, <1>4, <3>2 DEF SettledFor, SettledDo, Past
    <3> QED
      BY <3>1, <3>2
  <2>3. r.pc = "undo" => SettledUndo(r, id)'
    BY <1>2, <1>3, <1>4 DEF SettledFor, SettledUndo, Past
  <2> QED
    BY <2>1, <2>2, <2>3 DEF SettledFor
<1> QED
  BY <1>1, <1>2, <1>4 DEF Settled

\* A step of a call takes its collector where the phase wants it.
LEMMA CallSettles ==
  ASSUME IInv, CallInv, Settled, ~closed, ~tainted, NEW id \in Ids, CallStep(id) \/ WaitExpires(id),
         UNCHANGED reloadVars
  PROVE  Settled'
<1>1. /\ UNCHANGED closed
      /\ \A j \in Ids \ {id} : items'[j] = items[j] /\ ent'[j] = ent[j] /\ call'[j] = call[j]
  BY CallLocal
<1>2. PICK q : q = reload /\ q = reload'
  BY DEF reloadVars
<1>3. call[id].pc # "idle"
  BY DEF CallStep, Start, UpdateBegin, Drain, StopBegin, WaitDone, UpdateReplace, WaitExpires
<1>4. q.pc \notin {"idle", "plan"} /\ id \in PhaseIds(q) /\ q \in Reload
  BY <1>2, <1>3 DEF CallInv, CallsPhased, ReloadTypes
<1>5. q.ask \cup q.restart \subseteq Enabled(q.next) \cap Enabled(q.previous)
  BY <1>2 DEF CallInv, PlanKept
<1>6. q.pc \in {"do", "undo"} /\ (q.phase = 1 => q.next[id] \in Versions)
  BY <1>4, <1>5, PhasesSound DEF Reload
<1>7. SettledFor(q, id)'
  <2>1. SettledFor(q, id)
    BY <1>2 DEF Settled
  <2>2. PICK v : v = IF q.pc = "do" THEN q.next[id] ELSE q.previous[id]
    OBVIOUS
  <2>3. Stepping(id, v) /\ (q.pc = "do" /\ q.phase = 1 => Adding(id, v) /\ v # NoVersion)
    BY <1>4, <1>6, <2>1, <2>2, NoneAssumption DEF SettledFor, SettledDo, SettledUndo
  <2>4. Stepping(id, v)' /\ (q.pc = "do" /\ q.phase = 1 => Adding(id, v)')
    <3>1. CASE v = NoVersion
      BY <2>3, <3>1, StopStep
    <3>2. CASE v # NoVersion
      BY <2>3, <3>2, RunStep
    <3> QED
      BY <3>1, <3>2
  <2> QED
    BY <1>4, <1>6, <2>2, <2>4 DEF SettledFor, SettledDo, SettledUndo
<1>8. ASSUME NEW j \in Ids \ {id} PROVE SettledFor(q, j)'
  <2>1. SettledFor(q, j)
    BY <1>2 DEF Settled
  <2>2. /\ \A v : RunsAs(j, v)' <=> RunsAs(j, v)
        /\ Unclaimed(j)' <=> Unclaimed(j)
        /\ Exists(j)' <=> Exists(j)
        /\ \A v : Stepping(j, v) => Stepping(j, v)'
    BY <1>1, EntryDecides
  <2>3. \A v : Adding(j, v) => Adding(j, v)'
    BY <1>1, <2>2 DEF Adding
  <2> QED
    BY <1>6, <2>1, <2>2, <2>3 DEF SettledFor, SettledDo, SettledUndo
<1>9. Base' = Base
  BY DEF reloadVars, Base, Nothing
<1> QED
  BY <1>1, <1>2, <1>7, <1>8, <1>9 DEF Settled, reloadVars

\* A reload begins, or its plan is done, when the runtime is the snapshot.
LEMMA PlanSettles ==
  ASSUME IInv, CallInv, Settled, ~closed, ~tainted,
         InitialReconcile \/ PlanDone \/ (\E next \in Candidates : PlanReload(next))
  PROVE  Settled'
<1>1. /\ UNCHANGED <<items, ent, closed, snapshot, initialized, tainted>> /\ reload.pc \in {"idle", "plan"}
  BY DEF InitialReconcile, PlanDone, PlanReload, lifecycleVars
<1>2. Base' = Base /\ Base \in [Ids -> Versions \cup {NoVersion}]
  BY <1>1, IdleTyped DEF Base, Nothing, CallInv, ReloadTypes
<1>3. \A id \in Ids : RunsAs(id, Base[id])
  BY <1>1 DEF Settled, SettledFor
<1>4. \A id \in Ids : \A v : RunsAs(id, v)' <=> RunsAs(id, v)
  BY <1>1, EntryDecides
<1>5. ASSUME NEW r \in Reload, r.pc = "do", r.phase = 1, r.previous = Base, EnterPhase(r),
             r.ask \cup r.restart \subseteq Enabled(r.next) \cap Enabled(r.previous)
      PROVE  Settled'
  <2>1. PhaseIds(r) = Added(r) /\ \A id \in Added(r) : r.previous[id] = NoVersion
    BY <1>5, PhasesSound
  <2>2. ASSUME NEW id \in Ids PROVE SettledFor(r, id)'
    <3>1. RunsAs(id, r.previous[id]) /\ ~Past(r, id)
      BY <1>3, <1>5 DEF Past
    <3>2. id \in PhaseIds(r) => ~Exists(id)
      BY <2>1, <3>1, RunsUnclaimed
    <3> QED
      BY <1>1, <1>5, <3>1, <3>2, PhaseEntered
  <2>3. reload' = r
    BY <1>5 DEF EnterPhase
  <2> QED
    BY <1>2, <1>5, <2>2, <2>3 DEF Settled
<1>6. CASE InitialReconcile
  <2>1. PICK r : r = [IdleReload EXCEPT !.pc = "do", !.next = snapshot.config]
    OBVIOUS
  <2>2. /\ r \in Reload /\ r.pc = "do" /\ r.phase = 1 /\ r.ask = {} /\ r.restart = {} /\ r.previous = Nothing
    BY <2>1, IdleTyped DEF CallInv, ReloadTypes, Reload
  <2>3. EnterPhase(r) /\ Base = Nothing
    BY <1>6, <2>1 DEF InitialReconcile, Base
  <2> QED
    BY <1>5, <2>2, <2>3
<1>7. CASE PlanDone
  <2>1. PICK r : r = [reload EXCEPT !.pc = "do"]
    OBVIOUS
  <2>2. reload.phase = 1 /\ reload.previous = Base /\ reload \in Reload
    BY <1>7 DEF PlanDone, Settled, CallInv, ReloadTypes
  <2>3. /\ r \in Reload /\ r.pc = "do" /\ r.phase = 1 /\ r.previous = Base
        /\ r.ask = reload.ask /\ r.restart = reload.restart /\ r.next = reload.next
    BY <2>1, <2>2 DEF Reload
  <2>4. r.ask \cup r.restart \subseteq Enabled(r.next) \cap Enabled(r.previous)
    BY <2>2, <2>3 DEF CallInv, PlanKept
  <2>5. EnterPhase(r)
    BY <1>7, <2>1 DEF PlanDone
  <2> QED
    BY <1>5, <2>3, <2>4, <2>5
<1>8. CASE \E next \in Candidates : PlanReload(next)
  <2>1. configs = Base
    <3>1. \A id \in Ids : configs[id] = Base[id]
      BY <1>3 DEF configs, RunsAs, RunsVersion
    <3>2. configs = [id \in Ids |-> configs[id]] /\ Base = [id \in Ids |-> Base[id]]
      BY <1>2 DEF configs
    <3> QED
      BY <3>1, <3>2
  <2>2. PICK next \in Candidates : PlanReload(next)
    BY <1>8
  <2>3. reload'.pc = "plan" /\ reload'.phase = 1 /\ reload'.previous = Base
    BY <2>1, <2>2, IdleTyped DEF PlanReload, IdleReload
  <2>4. ASSUME NEW id \in Ids PROVE RunsAs(id, Base[id])'
    <3>1. PICK v : v = Base[id]
      OBVIOUS
    <3>2. RunsAs(id, v)'
      BY <1>3, <1>4, <3>1
    <3> QED
      BY <1>2, <3>1, <3>2 DEF RunsAs, RunsVersion
  <2> QED
    BY <1>2, <2>3, <2>4 DEF Settled, SettledFor
<1> QED
  BY <1>6, <1>7, <1>8

\* A reload ends with the runtime it publishes, or with the one it found.
LEMMA EndSettles ==
  ASSUME IInv, CallInv, Settled, ~closed, ~tainted', Publish \/ RollbackDone
  PROVE  Settled'
<1>1. PICK q : q = reload
  OBVIOUS
<1>2. /\ PhaseDone /\ UNCHANGED <<items, ent, closed>> /\ reload' = IdleReload /\ ~tainted
  <2>1. PhaseDone /\ UNCHANGED <<items, ent, closed>> /\ reload' = IdleReload
    BY DEF Publish, RollbackDone, Finish
  <2>2. ~tainted
    BY Zenon DEF Publish, RollbackDone
  <2> QED
    BY <2>1, <2>2
<1>3. \A id \in Ids : \A v : RunsAs(id, v)' <=> RunsAs(id, v)
  BY <1>2, EntryDecides
<1>4. /\ q \in Reload /\ q.previous = Base
      /\ q.ask \cup q.restart \subseteq Enabled(q.next) \cap Enabled(q.previous)
  BY <1>1, <1>2 DEF CallInv, ReloadTypes, PlanKept, Settled, PhaseDone
<1>5. \A id \in Ids : id \notin Added(q) \cup Updated(q) \cup Removed(q) => q.next[id] = q.previous[id]
  BY <1>4, PhasesSound
<1>6. CASE Publish
  <2>1. q.pc = "do" /\ q.phase = 3 /\ ~PhaseFailed
    BY <1>1, <1>6 DEF Publish
  <2>2. PhaseIds(q) = Removed(q)
    BY <2>1 DEF PhaseIds
  <2>3. Base' = q.next
    BY <1>1, <1>6 DEF Publish, Base
  <2>4. ASSUME NEW id \in Ids PROVE RunsAs(id, q.next[id])
    <3>1. CASE id \in PhaseIds(q)
      BY <1>1, <1>2, <2>1, <3>1, PhaseOver
    <3>2. CASE id \notin PhaseIds(q)
      <4>1. RunsAs(id, IF Past(q, id) THEN q.next[id] ELSE q.previous[id])
        BY <1>1, <1>2, <2>1, <3>2, PhaseOver
      <4>2. ~Past(q, id) => q.next[id] = q.previous[id]
        BY <1>5, <2>1, <2>2, <3>2 DEF Past
      <4> QED
        BY <4>1, <4>2
    <3> QED
      BY <3>1, <3>2
  <2>5. \A id \in Ids : RunsAs(id, q.next[id])'
    BY <1>3, <2>4
  <2>6. \A id \in Ids : RunsAs(id, Base[id])'
    BY <2>3, <2>5 DEF RunsAs, RunsVersion
  <2> QED
    BY <1>2, <2>6, IdleTyped DEF Settled, SettledFor
<1>7. CASE RollbackDone
  <2>1. q.pc = "undo" /\ q.phase = 1 /\ ~PhaseFailed /\ ~q.failed
    BY <1>1, <1>7 DEF RollbackDone
  <2>2. Base' = q.previous
    <3>1. snapshot'.config = snapshot.config
      BY <1>7 DEF RollbackDone, CallInv, ReloadTypes
    <3> QED
      BY <1>4, <1>7, <3>1 DEF RollbackDone, Base, Nothing
  <2>3. ASSUME NEW id \in Ids PROVE RunsAs(id, q.previous[id])
    <3>1. CASE id \in PhaseIds(q)
      BY <1>1, <1>2, <2>1, <3>1, PhaseOver
    <3>2. CASE id \notin PhaseIds(q)
      <4>1. ~Past(q, id)
        BY <2>1 DEF Past
      <4> QED
        BY <1>1, <1>2, <2>1, <3>2, <4>1, PhaseOver
    <3> QED
      BY <3>1, <3>2
  <2>4. \A id \in Ids : RunsAs(id, q.previous[id])'
    BY <1>3, <2>3
  <2>5. \A id \in Ids : RunsAs(id, Base[id])'
    BY <2>2, <2>4 DEF RunsAs, RunsVersion
  <2> QED
    BY <1>2, <2>5, IdleTyped DEF Settled, SettledFor
<1> QED
  BY <1>6, <1>7

\* Every step keeps the collectors where the phases have taken them.
LEMMA SettledKept ==
  ASSUME IInv, CallInv, Settled, [Next]_vars
  PROVE  Settled'
<1> SUFFICES ASSUME ~closed', ~tainted' PROVE Settled'
  BY DEF Settled
<1>1. ~closed /\ ~tainted
  <2>1. CASE \E id \in Ids : StepRuns(id) \/ StepExpires(id)
    BY <2>1, CallLocal DEF StepRuns, StepExpires, reloadVars
  <2>2. CASE \E id \in Ids : PollerRuns(id)
    BY <2>2 DEF PollerRuns, PollerStep, PollerFails, RecordCycle, SupervisorStep, RecordCrash,
         BackoffOver, RecordRestart, RecordFailure, LeaveLoop, Exited, CloseDone, reloadVars
  <2>3. CASE Shutdown
    BY <2>3 DEF Shutdown, shutdown
  <2>4. CASE ReadinessLooks \/ ReadinessLatches \/ Deadline \/ UNCHANGED vars
    BY <2>4 DEF ReadinessLooks, ReadinessLatches, Deadline, vars, reloadVars, lifecycleVars
  <2>5. CASE \/ InitialReconcile \/ PlanDone \/ (\E next \in Candidates : PlanReload(next))
             \/ (\E id \in Ids : NeedsRestart(id))
    <3>1. UNCHANGED <<closed, tainted>>
      BY <2>5 DEF InitialReconcile, PlanDone, PlanReload, NeedsRestart, lifecycleVars
    <3> QED
      BY <3>1
  <2>6. CASE NextPhase \/ StartRollback \/ UndoPhase \/ Publish \/ RollbackDone
    <3>1. UNCHANGED closed /\ (UNCHANGED tainted \/ tainted' = (tainted \/ reload.failed \/ PhaseFailed))
      BY <2>6 DEF NextPhase, StartRollback, UndoPhase, Publish, RollbackDone
    <3>2. CASE UNCHANGED tainted
      BY <3>1, <3>2
    <3>3. CASE tainted' = (tainted \/ reload.failed \/ PhaseFailed)
      <4>1. ~tainted
        BY <3>3, Zenon
      <4> QED
        BY <3>1, <4>1
    <3> QED
      BY <3>1, <3>2, <3>3
  <2> QED
    BY <2>1, <2>2, <2>3, <2>4, <2>5, <2>6 DEF Next, ReloadStep
<1>2. CASE InitialReconcile \/ PlanDone \/ (\E next \in Candidates : PlanReload(next))
  BY <1>1, <1>2, PlanSettles
<1>3. CASE \E id \in Ids : NeedsRestart(id)
  <2>1. PICK id \in Ids : NeedsRestart(id)
    BY <1>3
  <2>2. reload \in Reload /\ UNCHANGED <<lifecycleVars, snapshot, initialized, tainted>>
    BY <2>1 DEF CallInv, ReloadTypes, NeedsRestart
  <2>3. /\ reload.pc = "plan" /\ reload'.pc = "plan" /\ reload'.phase = reload.phase
        /\ reload'.previous = reload.previous
    BY <2>1, <2>2 DEF NeedsRestart, Reload
  <2>4. Base' = Base
    BY <2>2 DEF Base, Nothing
  <2>5. ASSUME NEW j \in Ids PROVE RunsAs(j, Base[j])'
    <3>1. PICK v : v = Base[j]
      OBVIOUS
    <3>2. RunsAs(j, v)
      BY <1>1, <2>3, <3>1 DEF Settled, SettledFor
    <3>3. RunsAs(j, v)'
      BY <2>2, <3>2, EntryDecides DEF lifecycleVars
    <3> QED
      BY <2>4, <3>1, <3>3 DEF RunsAs, RunsVersion
  <2> QED
    BY <1>1, <2>3, <2>4, <2>5 DEF Settled, SettledFor
<1>4. CASE NextPhase \/ StartRollback \/ UndoPhase
  BY <1>1, <1>4, PhasesFollow
<1>5. CASE Publish \/ RollbackDone
  BY <1>1, <1>5, EndSettles
<1>6. CASE \E id \in Ids : StepRuns(id) \/ StepExpires(id)
  BY <1>1, <1>6, CallSettles DEF StepRuns, StepExpires
<1>7. CASE \E id \in Ids : PollerRuns(id)
  <2>1. PICK j \in Ids : PollerStep(j) /\ UNCHANGED reloadVars
    BY <1>7 DEF PollerRuns
  <2>2. UNCHANGED closed
    BY <2>1 DEF PollerStep, PollerFails, RecordCycle, SupervisorStep, RecordCrash,
         BackoffOver, RecordRestart, RecordFailure, LeaveLoop, Exited, CloseDone
  <2>3. \A id \in Ids :
           /\ \A v : RunsAs(id, v) => RunsAs(id, v)'
           /\ Unclaimed(id) => Unclaimed(id)'
           /\ \A v : Stepping(id, v) => Stepping(id, v)'
           /\ \A v : Adding(id, v) => Adding(id, v)'
    BY <2>1, PollerKeepsPlace
  <2> QED
    BY <2>1, <2>2, <2>3, SettledStays DEF reloadVars
<1>8. CASE Deadline \/ ReadinessLooks \/ ReadinessLatches \/ UNCHANGED vars
  <2>1. UNCHANGED <<items, ent, call, closed, snapshot, initialized, tainted>>
    BY <1>8 DEF Deadline, ReadinessLooks, ReadinessLatches, vars, reloadVars, lifecycleVars
  <2>2. \A id \in Ids :
           /\ \A v : RunsAs(id, v) => RunsAs(id, v)'
           /\ Unclaimed(id) => Unclaimed(id)'
           /\ Exists(id) <=> Exists(id)'
           /\ \A v : Stepping(id, v) => Stepping(id, v)'
    BY <2>1, EntryDecides
  <2>3. \A id \in Ids : \A v : Adding(id, v) => Adding(id, v)'
    BY <2>1, <2>2 DEF Adding
  <2>4. /\ reload'.pc = reload.pc /\ reload'.phase = reload.phase /\ reload'.next = reload.next
        /\ reload'.previous = reload.previous /\ reload'.restart = reload.restart /\ reload'.failed = reload.failed
    BY <1>8 DEF Deadline, ReadinessLooks, ReadinessLatches, vars, reloadVars, CallInv, ReloadTypes, Reload
  <2> QED
    BY <2>1, <2>2, <2>3, <2>4, SettledStays
<1>9. CASE Shutdown
  BY <1>9 DEF Shutdown, shutdown, Settled
<1> QED
  BY <1>2, <1>3, <1>4, <1>5, <1>6, <1>7, <1>8, <1>9 DEF Next, ReloadStep

\* Every collector is where the phases of a reload have taken it, in every state.
THEOREM ReloadSettles == Spec => []Settled
<1>1. Init => Settled
  <2> SUFFICES ASSUME Init PROVE Settled
    OBVIOUS
  <2>1. reload.pc = "idle" /\ ~initialized
    BY IdleTyped DEF Init
  <2>2. \A id \in Ids : RunsAs(id, Base[id])
    BY <2>1 DEF Init, LifecycleInit, Base, Nothing, RunsAs, Exists
  <2> QED
    BY <2>1, <2>2 DEF Settled, SettledFor
<1>2. IInv /\ CallInv /\ Settled /\ [Next]_vars => Settled'
  BY SettledKept
<1> QED
  BY <1>1, <1>2, ReloadInvariant, PTL DEF Spec

\* Between reloads the runtime is what the snapshot says until a rollback fails,
\* whichever reloads failed, timed out and were rolled back on the way
\* (ReconcileWithRollback of internal/config and the supervisor under it).
THEOREM RuntimeMatchesSnapshot == Spec => []RuntimeIsSnapshot
<1>1. Settled => RuntimeIsSnapshot
  BY DEF Settled, SettledFor, RunsAs, Base, Enabled, AtRest, RuntimeIsSnapshot
<1> QED
  BY <1>1, ReloadSettles, PTL

\* A ready pod polls: evaluateReadiness says ready, between reloads and until a
\* rollback fails, only when every enabled collector has a poller that runs.
THEOREM ReadyPodsPoll == Spec => []ReadyMeansPolling
<1>1. IInv /\ CallInv /\ Settled => ReadyMeansPolling
  <2> SUFFICES ASSUME IInv, Settled, AtRest, ~tainted, Ready, NEW id \in Enabled(snapshot.config)
               PROVE  Exists(id) /\ Current(id).pc \in {"run", "crashed", "rejected"}
    BY DEF ReadyMeansPolling
  <2>1. id \in Ids /\ snapshot.config[id] # NoVersion /\ RunsAs(id, Base[id]) /\ Base = snapshot.config
    BY DEF Enabled, Settled, SettledFor, AtRest, Base
  <2>2. /\ Exists(id) /\ ~Current(id).canceled
        /\ Current(id).phase \in {"running", "backing_off", "failed"}
    BY <2>1 DEF RunsAs, RunsVersion
  <2>3. Current(id).phase = "running"
    BY <2>1, <2>2 DEF Ready
  <2>4. Shows(Current(id))
    BY <2>1, <2>2 DEF IInv, PhasesShow, LifecycleTypeOK, Exists, Current
  <2> QED
    BY <2>2, <2>3, <2>4 DEF Shows
<1> QED
  BY <1>1, ReloadInvariant, ReloadSettles, PTL
=============================================================================
