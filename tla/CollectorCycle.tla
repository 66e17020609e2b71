--------------------------- MODULE CollectorCycle ---------------------------
(***************************************************************************)
(* The execution layer of the db-collector (collectors/runner.go): one     *)
(* collector's Poller, the scrape cycles it runs, the target goroutines    *)
(* of a cycle, the executor goroutines they wait for, the registry of      *)
(* calls in flight (probeCalls) and the backoff bookkeeping                *)
(* (targetTracker).                                                        *)
(*                                                                         *)
(* A call that ignores its context is abandoned: the target goroutine goes *)
(* on without it and the executor goroutine keeps running, possibly past   *)
(* the end of the cycle and of the Poller.  The registry outlives a Poller *)
(* (every copy of the Runner shares it), so the Poller that replaces one   *)
(* finds the calls its predecessor abandoned.                              *)
(*                                                                         *)
(* Time is measured between cycle starts only: nextAttempt is kept as the  *)
(* time left until it, and a cycle start lets a gap of Gaps pass.          *)
(***************************************************************************)
EXTENDS Integers, FiniteSets

CONSTANTS
  Targets,        \* the target names of the collector
  NProbes,        \* every target runs the probes 1..NProbes, in this order
  MaxConcurrent,  \* Runner.concurrency()
  MaxCalls,       \* bound: executor goroutines per target the model can hold
  Interval,       \* Collector.ScrapeInterval
  MaxBackoff,     \* maxBackoff
  FailureCap,     \* bound: consecutive failures are counted up to this number
  Gaps            \* the times that may pass between two cycle starts

ASSUME SizesAssumption ==
  /\ NProbes \in Nat \ {0}
  /\ MaxConcurrent \in Nat \ {0}
  /\ MaxCalls \in Nat \ {0}
  /\ FailureCap \in Nat \ {0}

ASSUME TimeAssumption ==
  /\ Interval \in Nat \ {0}
  /\ MaxBackoff \in Nat \ {0}
  /\ Gaps \subseteq Nat \ {0}

Probes == 1 .. NProbes
Calls == Targets \X (1 .. MaxCalls)
NoCall == <<>>

VARIABLES
  poller,   \* Poller.Start: "stopped", "idle" (waiting for a tick), "cycle"
  pctx,     \* the Poller's context: "live" or "canceled"
  cctx,     \* the cycle's context: "live", "deadline" or "canceled"
  tgt,      \* the goroutine of each target
  tracker,  \* targetTracker: failures and time to the next attempt
  calls,    \* probeCalls.calls: the registered call of each target
  exec,     \* the executor goroutines
  export,   \* the exported series of each target
  counted   \* reason under which the cycle counted each probe as failed

vars == <<poller, pctx, cctx, tgt, tracker, calls, exec, export, counted>>

-----------------------------------------------------------------------------
(* Types                                                                   *)

\* Outcome of a probe in the cycle; "wait" is a probe that backs off on its own.
Runs == {"none", "wait", "ok", "blocked", "failed"}

\* pc of a target goroutine: "acquire" a slot, "probe" (about to run probe idx),
\* "call" (callExecutor's first select), "grace" (its second), "expired" (about
\* to abandon), "late" (the call finished first), "done".
TargetPC == {"off", "acquire", "probe", "call", "grace", "expired", "late", "done"}

\* probeEnd: why a probe's context ended.
Ends == {"running", "timedout", "deadline", "canceled"}

Outs == {"ok", "blocked", "err", "nettimeout", "panic"}
Reasons == {"none", "timeout", "error", "not_started", "panic"}

TargetGoroutine ==
  [pc : TargetPC, slot : BOOLEAN, idx : 1 .. NProbes + 1,
   run : [Probes -> Runs], mine : Calls \cup {NoCall}, end : Ends]

\* pc of an executor goroutine: "running" (RunProbe), "returned" (about to
\* call finish), "finished" (about to send), "sent" (its result waits in the
\* channel).
Executor ==
  [pc : {"free", "running", "returned", "finished", "sent"}, probe : Probes,
   ctx : Ends, abandoned : BOOLEAN, out : Outs, end : Ends]

\* The longest backoff: the cap and its jitter.
LongestWait == MaxBackoff + MaxBackoff \div 5

Tracker ==
  [fails : 0 .. FailureCap, wait : 0 .. LongestWait,
   pfails : [Probes -> 0 .. FailureCap], pwait : [Probes -> 0 .. LongestWait]]

Health == {"absent", "up", "down"}

Export == [series : [Probes -> BOOLEAN], target : Health, probe : [Probes -> Health]]

TypeOK ==
  /\ poller \in {"stopped", "idle", "cycle"}
  /\ pctx \in {"live", "canceled"}
  /\ cctx \in {"live", "deadline", "canceled"}
  /\ tgt \in [Targets -> TargetGoroutine]
  /\ tracker \in [Targets -> Tracker]
  /\ calls \in [Targets -> Calls \cup {NoCall}]
  /\ exec \in [Calls -> Executor]
  /\ export \in [Targets -> Export]
  /\ counted \in [Targets -> [Probes -> Reasons]]

-----------------------------------------------------------------------------
(* Initial values                                                          *)

IdleGoroutine ==
  [pc |-> "off", slot |-> FALSE, idx |-> 1, run |-> [p \in Probes |-> "none"],
   mine |-> NoCall, end |-> "running"]

FreeExecutor ==
  [pc |-> "free", probe |-> 1, ctx |-> "running", abandoned |-> FALSE,
   out |-> "ok", end |-> "running"]

newTargetTracker ==
  [t \in Targets |-> [fails |-> 0, wait |-> 0, pfails |-> [p \in Probes |-> 0],
                      pwait |-> [p \in Probes |-> 0]]]

NoSeries ==
  [series |-> [p \in Probes |-> FALSE], target |-> "absent",
   probe |-> [p \in Probes |-> "absent"]]

NothingCounted == [t \in Targets |-> [p \in Probes |-> "none"]]

Init ==
  /\ poller = "stopped"
  /\ pctx = "canceled"
  /\ cctx = "canceled"
  /\ tgt = [t \in Targets |-> IdleGoroutine]
  /\ tracker = newTargetTracker
  /\ calls = [t \in Targets |-> NoCall]
  /\ exec = [c \in Calls |-> FreeExecutor]
  /\ export = [t \in Targets |-> NoSeries]
  /\ counted = NothingCounted

-----------------------------------------------------------------------------
(* The Poller                                                              *)

\* Poller.Start up to its first cycle: a fresh tracker, counters at zero.  The
\* supervisor starts a Poller only once its predecessor has returned.
PollerStart ==
  /\ poller = "stopped"
  /\ poller' = "idle"
  /\ pctx' = "live"
  /\ tracker' = newTargetTracker
  /\ tgt' = [t \in Targets |-> IdleGoroutine]
  /\ counted' = NothingCounted
  /\ UNCHANGED <<cctx, calls, exec, export>>

\* The series a skipped target is left with: those of its probes are cleared
\* and its health series say down (skipTarget, recordHealth).
SkippedExport ==
  [series |-> [p \in Probes |-> FALSE], target |-> "down",
   probe |-> [p \in Probes |-> "down"]]

\* Mutant: the time left is never reduced.
Elapse_Frozen(wait, gap) == wait

Elapse(wait, gap) == IF wait > gap THEN wait - gap ELSE 0

\* runCycle: a target whose nextAttempt lies after the cycle's start is skipped,
\* every other one gets a goroutine.  The ticker keeps its schedule, so more
\* than an interval passes only when the previous cycle used up its own.
CycleStart(gap) ==
  LET left(t) == Elapse(tracker[t].wait, gap)
      skipped(t) == left(t) > 0
  IN
  /\ poller = "idle"
  /\ pctx = "live"
  /\ gap <= Interval \/ cctx = "deadline"
  /\ poller' = "cycle"
  /\ cctx' = "live"
  /\ tracker' = [t \in Targets |->
       [tracker[t] EXCEPT !.wait = left(t),
                          !.pwait = [p \in Probes |-> Elapse(tracker[t].pwait[p], gap)]]]
  /\ tgt' = [t \in Targets |->
       [IdleGoroutine EXCEPT !.pc = IF skipped(t) THEN "done" ELSE "acquire"]]
  /\ export' = [t \in Targets |-> IF skipped(t) THEN SkippedExport ELSE export[t]]
  /\ counted' = NothingCounted
  /\ UNCHANGED <<pctx, calls, exec>>

\* The end of a context reaches the contexts derived from it unless they ended
\* before: a probe's cause is fixed by what ended it first.
EndProbes(why) ==
  [c \in Calls |->
     IF exec[c].pc # "free" /\ exec[c].ctx = "running"
       THEN [exec[c] EXCEPT !.ctx = why] ELSE exec[c]]

\* cycleContext: the cycle reaches its scrape interval.
CycleDeadline ==
  /\ poller = "cycle"
  /\ cctx = "live"
  /\ cctx' = "deadline"
  /\ exec' = EndProbes("deadline")
  /\ UNCHANGED <<poller, pctx, tgt, tracker, calls, export, counted>>

\* The supervisor cancels the Poller, to replace or to stop it.
PollerCancel ==
  /\ poller # "stopped"
  /\ pctx = "live"
  /\ pctx' = "canceled"
  /\ IF poller = "cycle" /\ cctx = "live"
       THEN cctx' = "canceled" /\ exec' = EndProbes("canceled")
       ELSE UNCHANGED <<cctx, exec>>
  /\ UNCHANGED <<poller, tgt, tracker, calls, export, counted>>

\* runCycle returns once every target goroutine is done (wg.Wait).
CycleEnd ==
  /\ poller = "cycle"
  /\ \A t \in Targets : tgt[t].pc = "done"
  /\ poller' = "idle"
  /\ UNCHANGED <<pctx, cctx, tgt, tracker, calls, exec, export, counted>>

\* Poller.Start returns: forgetCollector deletes every series of the collector.
PollerStop ==
  /\ poller = "idle"
  /\ pctx = "canceled"
  /\ poller' = "stopped"
  /\ export' = [t \in Targets |-> NoSeries]
  /\ counted' = NothingCounted
  /\ UNCHANGED <<pctx, cctx, tgt, tracker, calls, exec>>

-----------------------------------------------------------------------------
(* A target goroutine                                                      *)

SlotsTaken == Cardinality({t \in Targets : tgt[t].slot})

\* runTarget up to its first probe: take a slot, or go on without one when the
\* cycle is over, and note which probes back off on their own.  When all of
\* them do, all of them run.
Acquire(t) ==
  LET waiting(p) == tracker[t].pwait[p] > 0
      waitingAll == \A p \in Probes : waiting(p)
      run == [p \in Probes |-> IF waiting(p) /\ ~waitingAll THEN "wait" ELSE "none"]
  IN
  /\ tgt[t].pc = "acquire"
  /\ \E slot \in BOOLEAN :
       /\ IF slot THEN SlotsTaken < MaxConcurrent ELSE cctx # "live"
       /\ tgt' = [tgt EXCEPT ![t].pc = "probe", ![t].slot = slot, ![t].run = run]
  /\ UNCHANGED <<poller, pctx, cctx, tracker, calls, exec, export, counted>>

\* Mutant: the series of a probe that backs off are not cleared (and a failure
\* leaves the last values in place).
Outcome_KeepsStale(t, run, reason) ==
  LET p == tgt[t].idx
  IN
  /\ tgt' = [tgt EXCEPT ![t].pc = "probe", ![t].idx = p + 1, ![t].mine = NoCall,
                        ![t].end = "running", ![t].run[p] = run]
  /\ export' = [export EXCEPT ![t].series[p] = @ \/ run \in {"ok", "blocked"}]
  /\ counted' = [counted EXCEPT ![t][p] = reason]

\* The goroutine of t goes on to its next probe with the outcome of this one:
\* recordScope for a result, clearScope for a failure.
Outcome(t, run, reason) ==
  LET p == tgt[t].idx
  IN
  /\ tgt' = [tgt EXCEPT ![t].pc = "probe", ![t].idx = p + 1, ![t].mine = NoCall,
                        ![t].end = "running", ![t].run[p] = run]
  /\ export' = [export EXCEPT ![t].series[p] = run \in {"ok", "blocked"}]
  /\ counted' = [counted EXCEPT ![t][p] = reason]

AtProbe(t) == tgt[t].pc = "probe" /\ tgt[t].idx \in Probes

\* A probe that backs off on its own does not run; its series are cleared.
SkipProbe(t) ==
  /\ AtProbe(t)
  /\ tgt[t].run[tgt[t].idx] = "wait"
  /\ Outcome(t, "wait", "none")
  /\ UNCHANGED <<poller, pctx, cctx, tracker, calls, exec>>

\* executeProbe: the cycle is over, or a call of the target is still in flight.
\* It counts unless the cycle was canceled.
RefuseProbe(t) ==
  /\ AtProbe(t)
  /\ tgt[t].run[tgt[t].idx] # "wait"
  /\ cctx # "live" \/ calls[t] # NoCall
  /\ Outcome(t, "failed", IF cctx = "canceled" THEN "none" ELSE "not_started")
  /\ UNCHANGED <<poller, pctx, cctx, tracker, calls, exec>>

\* probeCalls.start registers the call and its executor goroutine starts.
StartProbe(t) ==
  /\ AtProbe(t)
  /\ tgt[t].run[tgt[t].idx] # "wait"
  /\ cctx = "live"
  /\ calls[t] = NoCall
  /\ \E c \in Calls :
       /\ c[1] = t
       /\ exec[c].pc = "free"
       /\ exec' = [exec EXCEPT ![c] = [FreeExecutor EXCEPT !.pc = "running",
                                                           !.probe = tgt[t].idx]]
       /\ calls' = [calls EXCEPT ![t] = c]
       /\ tgt' = [tgt EXCEPT ![t].pc = "call", ![t].mine = c]
  /\ UNCHANGED <<poller, pctx, cctx, tracker, export, counted>>

\* The probe reaches its own timeout.
ProbeTimeout(t) ==
  /\ tgt[t].pc = "call"
  /\ exec[tgt[t].mine].ctx = "running"
  /\ exec' = [exec EXCEPT ![tgt[t].mine].ctx = "timedout"]
  /\ UNCHANGED <<poller, pctx, cctx, tgt, tracker, calls, export, counted>>

\* callExecutor, first select: the probe's context is done; the grace begins.
ProbeDone(t) ==
  /\ tgt[t].pc = "call"
  /\ exec[tgt[t].mine].ctx # "running"
  /\ tgt' = [tgt EXCEPT ![t].pc = "grace", ![t].end = exec[tgt[t].mine].ctx]
  /\ UNCHANGED <<poller, pctx, cctx, tracker, calls, exec, export, counted>>

\* callExecutor, second select: the grace timer fires.
GraceExpires(t) ==
  /\ tgt[t].pc = "grace"
  /\ tgt' = [tgt EXCEPT ![t].pc = "expired"]
  /\ UNCHANGED <<poller, pctx, cctx, tracker, calls, exec, export, counted>>

\* Mutant: abandoning a call unregisters it.
AbandonCall_Unregisters(t) ==
  /\ tgt[t].pc = "expired"
  /\ exec[tgt[t].mine].pc \in {"running", "returned"}
  /\ exec' = [exec EXCEPT ![tgt[t].mine].abandoned = TRUE]
  /\ calls' = [calls EXCEPT ![t] = NoCall]
  /\ Outcome(t, "failed", IF tgt[t].end = "canceled" THEN "none" ELSE "timeout")
  /\ UNCHANGED <<poller, pctx, cctx, tracker>>

\* probeCalls.abandon on a call that is still running: the probe timed out.  The
\* call stays registered.
AbandonCall(t) ==
  /\ tgt[t].pc = "expired"
  /\ exec[tgt[t].mine].pc \in {"running", "returned"}
  /\ exec' = [exec EXCEPT ![tgt[t].mine].abandoned = TRUE]
  /\ Outcome(t, "failed", IF tgt[t].end = "canceled" THEN "none" ELSE "timeout")
  /\ UNCHANGED <<poller, pctx, cctx, tracker, calls>>

\* probeCalls.abandon on a call that has finished: its result is being sent.
AbandonTooLate(t) ==
  /\ tgt[t].pc = "expired"
  /\ exec[tgt[t].mine].pc \notin {"running", "returned"}
  /\ tgt' = [tgt EXCEPT ![t].pc = "late"]
  /\ UNCHANGED <<poller, pctx, cctx, tracker, calls, exec, export, counted>>

\* Mutant: a failure at the cycle deadline is taken for one of a stopping Poller.
FailureReason_DeadlineIsStop(e) ==
  CASE e.out \in {"ok", "blocked"} -> "none"
    [] e.out = "panic" -> "panic"
    [] e.out \in {"err", "nettimeout"} /\ e.end \in {"canceled", "deadline"} -> "none"
    [] OTHER -> "error"

\* failureReason, failedUnlessStopping and the panic branch of executeProbe.
FailureReason(e) ==
  CASE e.out \in {"ok", "blocked"} -> "none"
    [] e.out = "panic" -> "panic"
    [] e.out \in {"err", "nettimeout"} /\ e.end = "canceled" -> "none"
    [] e.out = "nettimeout" /\ e.end # "canceled" -> "timeout"
    [] e.out = "err" /\ e.end \in {"timedout", "deadline"} -> "timeout"
    [] OTHER -> "error"

\* callExecutor returns the result the executor goroutine sent.
ReceiveResult(t) ==
  LET e == exec[tgt[t].mine]
  IN
  /\ tgt[t].pc \in {"call", "grace", "late"}
  /\ e.pc = "sent"
  /\ exec' = [exec EXCEPT ![tgt[t].mine] = FreeExecutor]
  /\ Outcome(t, IF e.out \in {"ok", "blocked"} THEN e.out ELSE "failed", FailureReason(e))
  /\ UNCHANGED <<poller, pctx, cctx, tracker, calls>>

-----------------------------------------------------------------------------
(* The end of a target                                                     *)

\* backoffFor: the first failure retries on the next cycle; from the second on
\* the delay doubles up to MaxBackoff and the jitter adds at most a fifth.
BackoffFor(failures) ==
  LET doubled == Interval * 2 ^ (failures - 2)
      delay == IF doubled < MaxBackoff THEN doubled ELSE MaxBackoff
  IN IF failures <= 1 THEN {0} ELSE delay .. delay + delay \div 5

OneMore(failures) == IF failures < FailureCap THEN failures + 1 ELSE FailureCap

\* failTarget after resetProbes: the target backs off as a whole.
Failed(t, backoff) ==
  /\ tracker' = [tracker EXCEPT
       ![t] = [fails |-> OneMore(@.fails), wait |-> backoff,
               pfails |-> [p \in Probes |-> 0], pwait |-> [p \in Probes |-> 0]]]
  /\ export' = [export EXCEPT ![t].target = "down",
                              ![t].probe = [p \in Probes |-> "down"]]

\* finishTarget when some probe that ran succeeded: failing probes back off on
\* their own and the target is reset.
Succeeded(t, backoff) ==
  LET run == tgt[t].run
      old == tracker[t]
  IN
  /\ tracker' = [tracker EXCEPT
       ![t] = [fails |-> 0, wait |-> 0,
               pfails |-> [p \in Probes |->
                 CASE run[p] = "wait" -> old.pfails[p]
                   [] run[p] = "failed" -> OneMore(old.pfails[p])
                   [] OTHER -> 0],
               pwait |-> [p \in Probes |->
                 CASE run[p] = "wait" -> old.pwait[p]
                   [] run[p] = "failed" -> backoff[p]
                   [] OTHER -> 0]]]
  /\ export' = [export EXCEPT ![t].target = "up",
       ![t].probe = [p \in Probes |-> IF run[p] \in {"wait", "failed"} THEN "down" ELSE "up"]]

AllThatRanFailed(t) ==
  /\ \E p \in Probes : tgt[t].run[p] = "failed"
  /\ \A p \in Probes : tgt[t].run[p] \in {"failed", "wait"}

\* finishTarget, and the goroutine's end: its slot is released.
FinishTarget(t) ==
  /\ tgt[t].pc = "probe"
  /\ tgt[t].idx = NProbes + 1
  /\ IF AllThatRanFailed(t)
       THEN \E b \in BackoffFor(OneMore(tracker[t].fails)) : Failed(t, b)
       ELSE \E b \in [Probes -> UNION {BackoffFor(OneMore(tracker[t].pfails[p])) : p \in Probes}] :
              /\ \A p \in Probes : b[p] \in BackoffFor(OneMore(tracker[t].pfails[p]))
              /\ Succeeded(t, b)
  /\ tgt' = [tgt EXCEPT ![t].pc = "done", ![t].slot = FALSE]
  /\ UNCHANGED <<poller, pctx, cctx, calls, exec, counted>>

-----------------------------------------------------------------------------
(* An executor goroutine                                                   *)

\* RunProbe returns, or panics; why the context ended is taken at this point.
ExecutorReturns(c) ==
  /\ exec[c].pc = "running"
  /\ \E out \in Outs :
       exec' = [exec EXCEPT ![c].pc = "returned", ![c].out = out, ![c].end = exec[c].ctx]
  /\ UNCHANGED <<poller, pctx, cctx, tgt, tracker, calls, export, counted>>

\* probeCalls.finish: unregister, under the lock that abandon takes.  The result
\* of an abandoned call goes to a channel nobody reads any more.
FinishCall(c) ==
  /\ exec[c].pc = "returned"
  /\ exec' = [exec EXCEPT ![c] = IF exec[c].abandoned THEN FreeExecutor
                                 ELSE [exec[c] EXCEPT !.pc = "finished"]]
  /\ calls' = IF calls[c[1]] = c THEN [calls EXCEPT ![c[1]] = NoCall] ELSE calls
  /\ UNCHANGED <<poller, pctx, cctx, tgt, tracker, export, counted>>

SendResult(c) ==
  /\ exec[c].pc = "finished"
  /\ exec' = [exec EXCEPT ![c].pc = "sent"]
  /\ UNCHANGED <<poller, pctx, cctx, tgt, tracker, calls, export, counted>>

-----------------------------------------------------------------------------

PollerStep == CycleEnd \/ PollerStop

TargetStep(t) ==
  \/ Acquire(t) \/ SkipProbe(t) \/ RefuseProbe(t) \/ StartProbe(t)
  \/ ProbeDone(t) \/ GraceExpires(t) \/ AbandonCall(t) \/ AbandonTooLate(t)
  \/ ReceiveResult(t) \/ FinishTarget(t)

Next ==
  \/ PollerStart
  \/ \E gap \in Gaps : CycleStart(gap)
  \/ CycleDeadline
  \/ PollerCancel
  \/ PollerStep
  \/ \E t \in Targets : TargetStep(t) \/ ProbeTimeout(t)
  \/ \E c \in Calls : ExecutorReturns(c) \/ FinishCall(c) \/ SendResult(c)

Spec == Init /\ [][Next]_vars

\* Goroutines that are not inside RunProbe keep running and timers fire; the
\* executor itself may never return (a driver stuck on a dead connection).
Fairness ==
  /\ WF_vars(PollerStep)
  /\ WF_vars(\E gap \in Gaps : CycleStart(gap))
  /\ \A t \in Targets : WF_vars(TargetStep(t)) /\ WF_vars(ProbeTimeout(t))
  /\ \A c \in Calls : WF_vars(FinishCall(c)) /\ WF_vars(SendResult(c))

FairSpec == Spec /\ Fairness

-----------------------------------------------------------------------------
(* Properties                                                              *)

InExecutor(c) == exec[c].pc \in {"running", "returned"}

\* However long an outage lasts and however often the Poller is replaced, the
\* registry of calls (probeCalls) tells the truth: a target never has two
\* executor calls in flight, so a stuck database costs one goroutine and one
\* connection; a probe is refused for a busy target only because of an abandoned
\* call, never because of the one whose result was just received; and a goroutine
\* that waits for a result waits for a call that is still coming, which was not
\* abandoned and stays registered until it finishes.
CallsTracked ==
  /\ \A c, d \in Calls : InExecutor(c) /\ InExecutor(d) /\ c[1] = d[1] => c = d
  /\ \A t \in Targets : AtProbe(t) /\ calls[t] # NoCall =>
       exec[calls[t]].abandoned /\ InExecutor(calls[t])
  /\ \A t \in Targets : tgt[t].pc \in {"call", "grace", "expired", "late"} =>
       /\ tgt[t].mine \in Calls
       /\ tgt[t].mine[1] = t
       /\ exec[tgt[t].mine].pc # "free"
       /\ ~exec[tgt[t].mine].abandoned
       /\ InExecutor(tgt[t].mine) => calls[t] = tgt[t].mine
       /\ tgt[t].pc = "late" => ~InExecutor(tgt[t].mine)

Settled(t) == poller = "idle" /\ tgt[t].pc = "done"

\* Between cycles a probe exports its series exactly while probe_up says it is
\* up, and target_up is 1 only if one of its probes is: no value of an earlier
\* cycle survives a failure or a backoff.  Once the Poller has returned nothing
\* of the collector is exported, whatever the calls it abandoned return later.
SeriesTruthful ==
  \A t \in Targets :
    /\ Settled(t) =>
         /\ \A p \in Probes : export[t].series[p] <=> export[t].probe[p] = "up"
         /\ export[t].target = "up" <=> \E p \in Probes : export[t].probe[p] = "up"
    /\ poller = "stopped" => export[t] = NoSeries

\* A cycle that was not cut short by a cancellation counts every failed probe
\* and no other one, and those failures make the target back off as a whole or
\* through its probes, never both: some probe of it is always awake (runTarget's
\* "unless every probe is backing off" is never needed).
FailuresCounted ==
  \A t \in Targets :
    /\ Settled(t) /\ pctx = "live" =>
         \A p \in Probes : tgt[t].run[p] = "failed" <=> counted[t][p] # "none"
    /\ tracker[t].fails > 0 => \A p \in Probes : tracker[t].pfails[p] = 0
    /\ \E p \in Probes : tracker[t].pwait[p] <= 0

\* Executors that never return hold up nothing else: a canceled Poller returns
\* (Update, Stop and shutdown wait for it), and as long as the Poller runs every
\* target is attempted again and again, however often it fails.
CyclesGoOn ==
  /\ pctx = "canceled" ~> poller = "stopped"
  /\ \A t \in Targets : []<>(pctx = "canceled" \/ tgt[t].pc = "acquire")
=============================================================================
