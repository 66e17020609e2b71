------------------------ MODULE CollectorCycleProofs ------------------------
(***************************************************************************)
(* What holds of the execution layer for any number of targets, probes and *)
(* executor goroutines, and for any interval and backoff.                  *)
(***************************************************************************)
EXTENDS CollectorCycle, FiniteSetTheorems, TLAPS

-----------------------------------------------------------------------------
(* The operators                                                           *)

\* A registered call is never confused with none.
LEMMA CallIsACall ==
  /\ NoCall \notin Calls
  /\ \A c \in Calls : c[1] \in Targets
BY DEF NoCall, Calls

\* A power of two is a natural number: it counts the subsets of a set.
LEMMA PowersOfTwo ==
  ASSUME NEW n \in Nat
  PROVE  2 ^ n \in Nat
<1>1. IsFiniteSet(1 .. n) /\ Cardinality(1 .. n) = n
  BY FS_Interval
<1>2. IsFiniteSet(SUBSET (1 .. n)) /\ Cardinality(SUBSET (1 .. n)) = 2 ^ n
  BY <1>1, FS_SUBSET
<1> QED
  BY <1>2, FS_CardinalityType

\* A backoff is never negative and never longer than the cap with its jitter.
LEMMA BackoffBounded ==
  ASSUME NEW n \in Nat, NEW b \in BackoffFor(n)
  PROVE  b \in 0 .. LongestWait
<1> DEFINE doubled == Interval * 2 ^ (n - 2)
           delay == IF doubled < MaxBackoff THEN doubled ELSE MaxBackoff
<1>1. CASE n <= 1
  BY <1>1, TimeAssumption DEF BackoffFor, LongestWait
<1>2. CASE n > 1
  <2>1. 2 ^ (n - 2) \in Nat
    <3>1. n - 2 \in Nat
      BY <1>2
    <3> QED
      BY <3>1, PowersOfTwo
  <2>2. doubled \in Nat
    <3> HIDE DEF doubled
    <3>1. PICK power : power = 2 ^ (n - 2)
      OBVIOUS
    <3>2. power \in Nat /\ doubled = Interval * power
      BY <2>1, <3>1 DEF doubled
    <3> QED
      BY <3>2, TimeAssumption
  <2>3. delay \in 0 .. MaxBackoff
    <3> HIDE DEF doubled
    <3> QED
      BY <2>2, TimeAssumption
  <2>4. b \in delay .. delay + delay \div 5
    BY <1>2 DEF BackoffFor
  <2> HIDE DEF delay
  <2>5. delay \div 5 <= MaxBackoff \div 5
    BY <2>3, TimeAssumption
  <2> QED
    BY <2>3, <2>4, <2>5, TimeAssumption DEF LongestWait
<1> QED
  BY <1>1, <1>2

LEMMA OneMoreTyped ==
  ASSUME NEW n \in 0 .. FailureCap
  PROVE  OneMore(n) \in 0 .. FailureCap /\ OneMore(n) \in Nat
BY SizesAssumption DEF OneMore

LEMMA ElapseTyped ==
  ASSUME NEW wait \in 0 .. LongestWait, NEW gap \in Gaps
  PROVE  Elapse(wait, gap) \in 0 .. LongestWait
BY TimeAssumption DEF Elapse, LongestWait

-----------------------------------------------------------------------------
(* Types                                                                   *)

\* The goroutine g once its probe p had the outcome run.
Onwards(g, p, run) ==
  [g EXCEPT !.pc = "probe", !.idx = p + 1, !.mine = NoCall, !.end = "running", !.run[p] = run]

LEMMA OnwardsFields ==
  ASSUME NEW g \in TargetGoroutine, NEW p \in Probes, NEW run
  PROVE  LET next == Onwards(g, p, run) IN
         /\ next.pc = "probe"
         /\ next.slot = g.slot
         /\ next.idx = p + 1
         /\ next.mine = NoCall
         /\ next.end = "running"
         /\ next.run = [g.run EXCEPT ![p] = run]
BY DEF TargetGoroutine, Onwards

LEMMA OnwardsTyped ==
  ASSUME NEW g \in TargetGoroutine, NEW p \in Probes, NEW run \in Runs
  PROVE  Onwards(g, p, run) \in TargetGoroutine
<1>1. PICK q : q = p + 1
  OBVIOUS
<1>2. q \in 1 .. NProbes + 1
  BY <1>1, SizesAssumption DEF Probes
<1> DEFINE h == [g EXCEPT !.pc = "probe", !.idx = q, !.mine = NoCall, !.end = "running"]
<1>3. h \in TargetGoroutine
  BY <1>2 DEF TargetGoroutine, TargetPC, Ends
<1>4. [h EXCEPT !.run[p] = run] \in TargetGoroutine
  <2> HIDE DEF h
  <2> QED
    BY <1>3 DEF TargetGoroutine
<1> QED
  BY <1>1, <1>4 DEF Onwards

\* The series of a target once its probe p had the outcome run.
Exported(x, p, run) == [x EXCEPT !.series[p] = run \in {"ok", "blocked"}]

LEMMA ExportedFields ==
  ASSUME NEW x \in Export, NEW p \in Probes, NEW run
  PROVE  LET next == Exported(x, p, run) IN
         /\ next \in Export
         /\ next.target = x.target
         /\ next.probe = x.probe
         /\ next.series = [x.series EXCEPT ![p] = run \in {"ok", "blocked"}]
<1>1. x.series \in [Probes -> BOOLEAN]
  BY DEF Export
<1>2. [x.series EXCEPT ![p] = run \in {"ok", "blocked"}] \in [Probes -> BOOLEAN]
  BY <1>1
<1>3. Exported(x, p, run) = [x EXCEPT !.series = [x.series EXCEPT ![p] = run \in {"ok", "blocked"}]]
  BY DEF Exported
<1>4. PICK series : series = [x.series EXCEPT ![p] = run \in {"ok", "blocked"}]
  OBVIOUS
<1>5. series \in [Probes -> BOOLEAN] /\ Exported(x, p, run) = [x EXCEPT !.series = series]
  BY <1>2, <1>3, <1>4
<1> QED
  BY <1>4, <1>5 DEF Export

\* What Outcome writes: one goroutine, one series and one counter.
LEMMA OutcomeWrites ==
  ASSUME TypeOK, NEW t \in Targets, NEW run, NEW reason, Outcome(t, run, reason)
  PROVE  /\ tgt' = [tgt EXCEPT ![t] = Onwards(tgt[t], tgt[t].idx, run)]
         /\ export' = [export EXCEPT ![t] = Exported(export[t], tgt[t].idx, run)]
         /\ counted' = [counted EXCEPT ![t] = [counted[t] EXCEPT ![tgt[t].idx] = reason]]
<1>1. /\ tgt \in [Targets -> TargetGoroutine]
      /\ export \in [Targets -> Export]
      /\ counted \in [Targets -> [Probes -> Reasons]]
  BY DEF TypeOK
<1>2. tgt' = [tgt EXCEPT ![t] = Onwards(tgt[t], tgt[t].idx, run)]
  <2>1. PICK p : p = tgt[t].idx
    OBVIOUS
  <2> DEFINE g == [tgt[t] EXCEPT !.pc = "probe", !.idx = p + 1, !.mine = NoCall, !.end = "running"]
             most == [tgt EXCEPT ![t].pc = "probe", ![t].idx = p + 1, ![t].mine = NoCall,
                                 ![t].end = "running"]
  <2>2. most = [tgt EXCEPT ![t] = g]
    BY <1>1
  <2>3. tgt' = [most EXCEPT ![t].run[p] = run]
    BY <2>1 DEF Outcome
  <2>4. Onwards(tgt[t], p, run) = [g EXCEPT !.run[p] = run]
    BY DEF Onwards
  <2>5. [most EXCEPT ![t].run[p] = run] = [tgt EXCEPT ![t] = [g EXCEPT !.run[p] = run]]
    <3> HIDE DEF g, most
    <3> QED
      BY <1>1, <2>2
  <2> QED
    BY <2>1, <2>3, <2>4, <2>5
<1>3. export' = [export EXCEPT ![t] = Exported(export[t], tgt[t].idx, run)]
  BY <1>1 DEF Outcome, Exported
<1>4. counted' = [counted EXCEPT ![t] = [counted[t] EXCEPT ![tgt[t].idx] = reason]]
  BY <1>1 DEF Outcome
<1> QED
  BY <1>2, <1>3, <1>4

LEMMA OutcomeTyped ==
  ASSUME TypeOK, NEW t \in Targets, NEW run \in Runs, NEW reason \in Reasons,
         tgt[t].idx \in Probes, Outcome(t, run, reason)
  PROVE  /\ tgt' \in [Targets -> TargetGoroutine]
         /\ export' \in [Targets -> Export]
         /\ counted' \in [Targets -> [Probes -> Reasons]]
<1>1. /\ tgt \in [Targets -> TargetGoroutine]
      /\ export \in [Targets -> Export]
      /\ counted \in [Targets -> [Probes -> Reasons]]
  BY DEF TypeOK
<1>2. Onwards(tgt[t], tgt[t].idx, run) \in TargetGoroutine
  BY <1>1, OnwardsTyped
<1>3. Exported(export[t], tgt[t].idx, run) \in Export
  BY <1>1, ExportedFields
<1>4. [counted[t] EXCEPT ![tgt[t].idx] = reason] \in [Probes -> Reasons]
  BY <1>1
<1>5. PICK g, x, r : /\ g = Onwards(tgt[t], tgt[t].idx, run)
                     /\ x = Exported(export[t], tgt[t].idx, run)
                     /\ r = [counted[t] EXCEPT ![tgt[t].idx] = reason]
  OBVIOUS
<1>6. /\ tgt' = [tgt EXCEPT ![t] = g]
      /\ export' = [export EXCEPT ![t] = x]
      /\ counted' = [counted EXCEPT ![t] = r]
  BY <1>5, OutcomeWrites
<1>7. g \in TargetGoroutine /\ x \in Export /\ r \in [Probes -> Reasons]
  BY <1>2, <1>3, <1>4, <1>5
<1> QED
  BY <1>1, <1>6, <1>7

\* The goroutine of t about to run or running a probe is at one of its probes.
ProbeAt ==
  \A t \in Targets : tgt[t].pc \in {"call", "grace", "expired", "late"} =>
    /\ tgt[t].idx \in Probes
    /\ tgt[t].mine \in Calls

LEMMA FreshTyped ==
  /\ IdleGoroutine \in TargetGoroutine
  /\ FreeExecutor \in Executor
  /\ newTargetTracker \in [Targets -> Tracker]
  /\ NoSeries \in Export
  /\ SkippedExport \in Export
  /\ NothingCounted \in [Targets -> [Probes -> Reasons]]
<1>1. LongestWait \in Nat
  BY TimeAssumption DEF LongestWait
<1>2. IdleGoroutine \in TargetGoroutine
  BY SizesAssumption DEF IdleGoroutine, TargetGoroutine, TargetPC, Runs, Ends, Probes
<1>3. FreeExecutor \in Executor
  BY SizesAssumption DEF FreeExecutor, Executor, Probes, Outs, Ends
<1>4. newTargetTracker \in [Targets -> Tracker]
  BY <1>1, SizesAssumption DEF newTargetTracker, Tracker
<1>5. NoSeries \in Export /\ SkippedExport \in Export
  BY DEF NoSeries, SkippedExport, Export, Health
<1>6. NothingCounted \in [Targets -> [Probes -> Reasons]]
  BY DEF NothingCounted, Reasons
<1> QED
  BY <1>2, <1>3, <1>4, <1>5, <1>6

LEMMA EndProbesTyped ==
  ASSUME TypeOK, NEW why \in Ends
  PROVE  EndProbes(why) \in [Calls -> Executor]
<1>1. ASSUME NEW c \in Calls PROVE [exec[c] EXCEPT !.ctx = why] \in Executor
  BY DEF TypeOK, Executor
<1> QED
  BY <1>1 DEF TypeOK, EndProbes

Waits == {"call", "grace", "expired", "late"}

\* What a step of the goroutine of t leaves in its place.
Moved(t, g) ==
  /\ tgt' = [tgt EXCEPT ![t] = g]
  /\ g \in TargetGoroutine
  /\ g.pc \in Waits => g.idx \in Probes /\ g.mine \in Calls

LEMMA OutcomeMoves ==
  ASSUME TypeOK, NEW t \in Targets, NEW run \in Runs, NEW reason, tgt[t].idx \in Probes,
         Outcome(t, run, reason)
  PROVE  Moved(t, Onwards(tgt[t], tgt[t].idx, run))
<1>1. tgt[t] \in TargetGoroutine
  BY DEF TypeOK
<1>2. Onwards(tgt[t], tgt[t].idx, run) \in TargetGoroutine
  BY <1>1, OnwardsTyped
<1>3. Onwards(tgt[t], tgt[t].idx, run).pc = "probe"
  BY <1>1, OnwardsFields
<1> QED
  BY <1>2, <1>3, OutcomeWrites DEF Moved, Waits

\* The probes a goroutine is to run, as Acquire notes them.
Plan(t) ==
  [p \in Probes |-> IF tracker[t].pwait[p] > 0 /\ ~(\A q \in Probes : tracker[t].pwait[q] > 0)
                      THEN "wait" ELSE "none"]

LEMMA AcquireMoves ==
  ASSUME TypeOK, NEW t \in Targets, Acquire(t)
  PROVE  \E slot \in BOOLEAN :
           Moved(t, [tgt[t] EXCEPT !.pc = "probe", !.slot = slot, !.run = Plan(t)])
<1>1. tgt \in [Targets -> TargetGoroutine]
  BY DEF TypeOK
<1>2. Plan(t) \in [Probes -> Runs]
  BY DEF Plan, Runs
<1>3. PICK slot \in BOOLEAN :
        tgt' = [tgt EXCEPT ![t].pc = "probe", ![t].slot = slot, ![t].run = Plan(t)]
  BY DEF Acquire, Plan
<1>4. PICK run : run = Plan(t)
  OBVIOUS
<1>5. tgt' = [tgt EXCEPT ![t] = [tgt[t] EXCEPT !.pc = "probe", !.slot = slot, !.run = run]]
  BY <1>1, <1>3, <1>4
<1>6. [tgt[t] EXCEPT !.pc = "probe", !.slot = slot, !.run = run] \in TargetGoroutine
  BY <1>1, <1>2, <1>4 DEF TargetGoroutine, TargetPC
<1>7. [tgt[t] EXCEPT !.pc = "probe", !.slot = slot, !.run = run].pc = "probe"
  BY <1>1 DEF TargetGoroutine
<1> QED
  BY <1>4, <1>5, <1>6, <1>7 DEF Moved, Waits

LEMMA StartMoves ==
  ASSUME TypeOK, NEW t \in Targets, StartProbe(t)
  PROVE  \E c \in Calls :
           /\ c[1] = t
           /\ exec[c].pc = "free"
           /\ exec' = [exec EXCEPT ![c] = [FreeExecutor EXCEPT !.pc = "running",
                                                               !.probe = tgt[t].idx]]
           /\ calls' = [calls EXCEPT ![t] = c]
           /\ Moved(t, [tgt[t] EXCEPT !.pc = "call", !.mine = c])
<1>1. tgt \in [Targets -> TargetGoroutine] /\ tgt[t].idx \in Probes
  BY DEF TypeOK, StartProbe, AtProbe
<1>2. PICK c \in Calls :
           /\ c[1] = t
           /\ exec[c].pc = "free"
           /\ exec' = [exec EXCEPT ![c] = [FreeExecutor EXCEPT !.pc = "running",
                                                               !.probe = tgt[t].idx]]
           /\ calls' = [calls EXCEPT ![t] = c]
           /\ tgt' = [tgt EXCEPT ![t].pc = "call", ![t].mine = c]
  BY DEF StartProbe
<1>3. tgt' = [tgt EXCEPT ![t] = [tgt[t] EXCEPT !.pc = "call", !.mine = c]]
  BY <1>1, <1>2
<1> DEFINE g == [tgt[t] EXCEPT !.pc = "call", !.mine = c]
<1>4. g \in TargetGoroutine /\ g.idx = tgt[t].idx /\ g.mine = c
  <2>1. g \in TargetGoroutine
    BY <1>1 DEF TargetGoroutine, TargetPC
  <2>2. g.idx = tgt[t].idx /\ g.mine = c
    BY <1>1 DEF TargetGoroutine
  <2> QED
    BY <2>1, <2>2
<1>5. Moved(t, g)
  <2> HIDE DEF g
  <2>1. tgt' = [tgt EXCEPT ![t] = g]
    BY <1>3 DEF g
  <2> QED
    BY <1>1, <1>2, <1>4, <2>1 DEF Moved
<1> QED
  BY <1>2, <1>5

LEMMA WaitMoves ==
  ASSUME TypeOK, ProbeAt, NEW t \in Targets
  PROVE  /\ ProbeDone(t) => Moved(t, [tgt[t] EXCEPT !.pc = "grace", !.end = exec[tgt[t].mine].ctx])
         /\ GraceExpires(t) => Moved(t, [tgt[t] EXCEPT !.pc = "expired"])
         /\ AbandonTooLate(t) => Moved(t, [tgt[t] EXCEPT !.pc = "late"])
         /\ FinishTarget(t) => Moved(t, [tgt[t] EXCEPT !.pc = "done", !.slot = FALSE])
<1>1. tgt \in [Targets -> TargetGoroutine] /\ exec \in [Calls -> Executor]
  BY DEF TypeOK
<1>2. ASSUME ProbeDone(t)
      PROVE  Moved(t, [tgt[t] EXCEPT !.pc = "grace", !.end = exec[tgt[t].mine].ctx])
  <2>1. PICK end : end = exec[tgt[t].mine].ctx
    OBVIOUS
  <2>2. tgt[t].mine \in Calls /\ tgt[t].idx \in Probes
    BY <1>2 DEF ProbeDone, ProbeAt
  <2>3. end \in Ends
    BY <1>1, <2>1, <2>2 DEF Executor
  <2>4. tgt' = [tgt EXCEPT ![t] = [tgt[t] EXCEPT !.pc = "grace", !.end = end]]
    BY <1>1, <1>2, <2>1 DEF ProbeDone
  <2>5. [tgt[t] EXCEPT !.pc = "grace", !.end = end] \in TargetGoroutine
    BY <1>1, <2>3 DEF TargetGoroutine, TargetPC
  <2>6. /\ [tgt[t] EXCEPT !.pc = "grace", !.end = end].idx = tgt[t].idx
        /\ [tgt[t] EXCEPT !.pc = "grace", !.end = end].mine = tgt[t].mine
    BY <1>1 DEF TargetGoroutine
  <2> QED
    BY <2>1, <2>2, <2>4, <2>5, <2>6 DEF Moved
<1>3. ASSUME NEW pc \in TargetPC, tgt[t].pc \in Waits, tgt' = [tgt EXCEPT ![t].pc = pc]
      PROVE  Moved(t, [tgt[t] EXCEPT !.pc = pc])
  <2>1. tgt[t].mine \in Calls /\ tgt[t].idx \in Probes
    BY <1>3 DEF ProbeAt, Waits
  <2>2. tgt' = [tgt EXCEPT ![t] = [tgt[t] EXCEPT !.pc = pc]]
    BY <1>1, <1>3
  <2>3. [tgt[t] EXCEPT !.pc = pc] \in TargetGoroutine
    BY <1>1 DEF TargetGoroutine
  <2>4. /\ [tgt[t] EXCEPT !.pc = pc].idx = tgt[t].idx
        /\ [tgt[t] EXCEPT !.pc = pc].mine = tgt[t].mine
    BY <1>1 DEF TargetGoroutine
  <2> QED
    BY <2>1, <2>2, <2>3, <2>4 DEF Moved
<1>4. ASSUME FinishTarget(t)
      PROVE  Moved(t, [tgt[t] EXCEPT !.pc = "done", !.slot = FALSE])
  <2>1. tgt' = [tgt EXCEPT ![t] = [tgt[t] EXCEPT !.pc = "done", !.slot = FALSE]]
    BY <1>1, <1>4 DEF FinishTarget
  <2>2. [tgt[t] EXCEPT !.pc = "done", !.slot = FALSE] \in TargetGoroutine
    BY <1>1 DEF TargetGoroutine, TargetPC
  <2>3. [tgt[t] EXCEPT !.pc = "done", !.slot = FALSE].pc = "done"
    BY <1>1 DEF TargetGoroutine
  <2> QED
    BY <2>1, <2>2, <2>3 DEF Moved, Waits
<1> QED
  BY <1>2, <1>3, <1>4 DEF GraceExpires, AbandonTooLate, Waits, TargetPC

\* A goroutine that moved keeps the types and its probe.
LEMMA MovedTyped ==
  ASSUME TypeOK, ProbeAt, NEW t \in Targets, NEW g, Moved(t, g)
  PROVE  tgt' \in [Targets -> TargetGoroutine] /\ ProbeAt'
<1>1. tgt \in [Targets -> TargetGoroutine]
  BY DEF TypeOK
<1>2. tgt'[t] = g /\ \A u \in Targets \ {t} : tgt'[u] = tgt[u]
  BY <1>1 DEF Moved
<1> QED
  BY <1>1, <1>2 DEF Moved, ProbeAt, Waits

LEMMA FailureReasonTyped ==
  ASSUME NEW e
  PROVE  FailureReason(e) \in Reasons
BY DEF FailureReason, Reasons

\* What the tracker and the series become at the end of a target.
LEMMA FinishTyped ==
  ASSUME TypeOK, NEW t \in Targets, FinishTarget(t)
  PROVE  tracker' \in [Targets -> Tracker] /\ export' \in [Targets -> Export]
<1>1. tracker[t] \in Tracker /\ export[t] \in Export /\ tgt[t] \in TargetGoroutine
  BY DEF TypeOK
<1>2. /\ tracker[t].fails \in 0 .. FailureCap
      /\ tracker[t].pfails \in [Probes -> 0 .. FailureCap]
      /\ tracker[t].pwait \in [Probes -> 0 .. LongestWait]
  BY <1>1 DEF Tracker
<1>3. 0 \in 0 .. FailureCap /\ 0 \in 0 .. LongestWait
  BY SizesAssumption, TimeAssumption DEF LongestWait
<1>4. ASSUME NEW b \in BackoffFor(OneMore(tracker[t].fails)), Failed(t, b)
      PROVE  tracker' \in [Targets -> Tracker] /\ export' \in [Targets -> Export]
  <2>1. b \in 0 .. LongestWait /\ OneMore(tracker[t].fails) \in 0 .. FailureCap
    BY <1>2, <1>4, OneMoreTyped, BackoffBounded
  <2>2. [fails |-> OneMore(tracker[t].fails), wait |-> b,
         pfails |-> [p \in Probes |-> 0], pwait |-> [p \in Probes |-> 0]] \in Tracker
    BY <1>3, <2>1 DEF Tracker
  <2>3. tracker' \in [Targets -> Tracker]
    BY <1>4, <2>2 DEF Failed, TypeOK
  <2>4. PICK down : down = [p \in Probes |-> "down"]
    OBVIOUS
  <2>5. down \in [Probes -> Health]
    BY <2>4 DEF Health
  <2>6. export' = [export EXCEPT ![t].target = "down", ![t].probe = down]
    BY <1>4, <2>4 DEF Failed
  <2>7. export' = [export EXCEPT ![t] = [export[t] EXCEPT !.target = "down", !.probe = down]]
    BY <2>6 DEF TypeOK
  <2>8. [export[t] EXCEPT !.target = "down", !.probe = down] \in Export
    BY <1>1, <2>5 DEF Export, Health
  <2> QED
    BY <2>3, <2>7, <2>8 DEF TypeOK
<1>5. ASSUME NEW b, \A p \in Probes : b[p] \in BackoffFor(OneMore(tracker[t].pfails[p])),
             Succeeded(t, b)
      PROVE  tracker' \in [Targets -> Tracker] /\ export' \in [Targets -> Export]
  <2> DEFINE run == tgt[t].run
             old == tracker[t]
             pfails == [p \in Probes |->
                 CASE run[p] = "wait" -> old.pfails[p]
                   [] run[p] = "failed" -> OneMore(old.pfails[p])
                   [] OTHER -> 0]
             pwait == [p \in Probes |->
                 CASE run[p] = "wait" -> old.pwait[p]
                   [] run[p] = "failed" -> b[p]
                   [] OTHER -> 0]
             probe == [p \in Probes |-> IF run[p] \in {"wait", "failed"} THEN "down" ELSE "up"]
  <2>1. \A p \in Probes : /\ b[p] \in 0 .. LongestWait
                          /\ OneMore(old.pfails[p]) \in 0 .. FailureCap
    BY <1>2, <1>5, OneMoreTyped, BackoffBounded
  <2>2. pfails \in [Probes -> 0 .. FailureCap] /\ pwait \in [Probes -> 0 .. LongestWait]
    BY <1>2, <1>3, <2>1
  <2>3. probe \in [Probes -> Health]
    BY DEF Health
  <2>4. /\ tracker' = [tracker EXCEPT ![t] = [fails |-> 0, wait |-> 0, pfails |-> pfails, pwait |-> pwait]]
        /\ export' = [export EXCEPT ![t].target = "up", ![t].probe = probe]
    BY <1>5 DEF Succeeded
  <2> HIDE DEF pfails, pwait, probe
  <2>5. [fails |-> 0, wait |-> 0, pfails |-> pfails, pwait |-> pwait] \in Tracker
    BY <1>3, <2>2 DEF Tracker
  <2>6. export' = [export EXCEPT ![t] = [export[t] EXCEPT !.target = "up", !.probe = probe]]
    BY <2>4 DEF TypeOK
  <2>7. [export[t] EXCEPT !.target = "up", !.probe = probe] \in Export
    BY <1>1, <2>3 DEF Export, Health
  <2> QED
    BY <2>4, <2>5, <2>6, <2>7 DEF TypeOK
<1> QED
  BY <1>4, <1>5 DEF FinishTarget

\* Every step keeps the types.
LEMMA TypesKept ==
  ASSUME TypeOK, ProbeAt, Next
  PROVE  TypeOK' /\ ProbeAt'
<1>1. CASE PollerStart
  BY <1>1, FreshTyped DEF PollerStart, TypeOK, ProbeAt, IdleGoroutine
<1>2. ASSUME NEW gap \in Gaps, CycleStart(gap) PROVE TypeOK' /\ ProbeAt'
  <2> DEFINE left(t) == Elapse(tracker[t].wait, gap)
             record(t) == [tracker[t] EXCEPT !.wait = left(t),
                 !.pwait = [p \in Probes |-> Elapse(tracker[t].pwait[p], gap)]]
             goroutine(t) == [IdleGoroutine EXCEPT !.pc = IF left(t) > 0 THEN "done" ELSE "acquire"]
             series(t) == IF left(t) > 0 THEN SkippedExport ELSE export[t]
  <2>1. ASSUME NEW t \in Targets PROVE record(t) \in Tracker
    <3>1. /\ tracker[t] \in Tracker
          /\ tracker[t].wait \in 0 .. LongestWait
          /\ tracker[t].pwait \in [Probes -> 0 .. LongestWait]
      BY DEF TypeOK, Tracker
    <3>2. PICK wait, pwait : wait = left(t) /\ pwait = [p \in Probes |-> Elapse(tracker[t].pwait[p], gap)]
      OBVIOUS
    <3>3. wait \in 0 .. LongestWait /\ pwait \in [Probes -> 0 .. LongestWait]
      BY <3>1, <3>2, ElapseTyped
    <3>4. record(t) = [tracker[t] EXCEPT !.wait = wait, !.pwait = pwait]
      BY <3>2
    <3> QED
      BY <3>1, <3>3, <3>4 DEF Tracker
  <2>2. ASSUME NEW t \in Targets
        PROVE  goroutine(t) \in TargetGoroutine /\ goroutine(t).pc \in {"done", "acquire"}
    BY FreshTyped DEF TargetGoroutine, TargetPC
  <2>3. ASSUME NEW t \in Targets PROVE series(t) \in Export
    BY FreshTyped DEF TypeOK
  <2>4. /\ tracker' = [t \in Targets |-> record(t)]
        /\ tgt' = [t \in Targets |-> goroutine(t)]
        /\ export' = [t \in Targets |-> series(t)]
    BY <1>2 DEF CycleStart
  <2>5. poller' = "cycle" /\ cctx' = "live" /\ counted' = NothingCounted /\ UNCHANGED <<pctx, calls, exec>>
    BY <1>2 DEF CycleStart
  <2> HIDE DEF record, goroutine, series
  <2> QED
    BY <2>1, <2>2, <2>3, <2>4, <2>5, FreshTyped DEF TypeOK, ProbeAt
<1>3. CASE CycleDeadline
  BY <1>3, EndProbesTyped DEF CycleDeadline, TypeOK, ProbeAt, Ends
<1>4. CASE PollerCancel
  BY <1>4, EndProbesTyped DEF PollerCancel, TypeOK, ProbeAt, Ends
<1>5. CASE PollerStep
  BY <1>5, FreshTyped DEF PollerStep, CycleEnd, PollerStop, TypeOK, ProbeAt
<1>6. ASSUME NEW t \in Targets, TargetStep(t) \/ ProbeTimeout(t)
      PROVE  TypeOK' /\ ProbeAt'
  <2>1. CASE Acquire(t)
    BY <2>1, AcquireMoves, MovedTyped DEF Acquire, TypeOK
  <2>2. CASE SkipProbe(t)
    BY <2>2, OutcomeMoves, OutcomeTyped, MovedTyped DEF SkipProbe, AtProbe, TypeOK, Runs, Reasons
  <2>3. CASE RefuseProbe(t)
    BY <2>3, OutcomeMoves, OutcomeTyped, MovedTyped DEF RefuseProbe, AtProbe, TypeOK, Runs, Reasons
  <2>4. CASE StartProbe(t)
    <3>1. [FreeExecutor EXCEPT !.pc = "running", !.probe = tgt[t].idx] \in Executor
      BY <2>4, FreshTyped DEF StartProbe, AtProbe, Executor
    <3>2. PICK c \in Calls :
           /\ exec' = [exec EXCEPT ![c] = [FreeExecutor EXCEPT !.pc = "running",
                                                               !.probe = tgt[t].idx]]
           /\ calls' = [calls EXCEPT ![t] = c]
           /\ Moved(t, [tgt[t] EXCEPT !.pc = "call", !.mine = c])
      BY <2>4, StartMoves
    <3>3. exec' \in [Calls -> Executor] /\ calls' \in [Targets -> Calls \cup {NoCall}]
      BY <3>1, <3>2 DEF TypeOK
    <3> QED
      BY <2>4, <3>2, <3>3, MovedTyped DEF StartProbe, TypeOK
  <2>5. CASE ProbeTimeout(t)
    <3>1. exec' \in [Calls -> Executor]
      <4>1. PICK c : c = tgt[t].mine
        OBVIOUS
      <4>2. c \in Calls /\ exec \in [Calls -> Executor]
        BY <2>5, <4>1 DEF ProbeTimeout, ProbeAt, TypeOK
      <4>3. [exec[c] EXCEPT !.ctx = "timedout"] \in Executor
        BY <4>2 DEF Executor, Ends
      <4>4. exec' = [exec EXCEPT ![c] = [exec[c] EXCEPT !.ctx = "timedout"]]
        BY <2>5, <4>1, <4>2 DEF ProbeTimeout
      <4> QED
        BY <4>2, <4>3, <4>4
    <3> QED
      BY <2>5, <3>1 DEF ProbeTimeout, TypeOK, ProbeAt
  <2>6. CASE ProbeDone(t) \/ GraceExpires(t) \/ AbandonTooLate(t)
    BY <2>6, WaitMoves, MovedTyped DEF ProbeDone, GraceExpires, AbandonTooLate, TypeOK
  <2>7. CASE AbandonCall(t)
    <3>1. tgt[t].idx \in Probes
      BY <2>7 DEF AbandonCall, ProbeAt
    <3>2. exec' \in [Calls -> Executor]
      BY <2>7 DEF AbandonCall, ProbeAt, TypeOK, Executor
    <3> QED
      BY <2>7, <3>1, <3>2, OutcomeMoves, OutcomeTyped, MovedTyped DEF AbandonCall, TypeOK, Runs, Reasons
  <2>8. CASE ReceiveResult(t)
    <3>1. tgt[t].idx \in Probes
      BY <2>8 DEF ReceiveResult, ProbeAt
    <3>2. exec' \in [Calls -> Executor]
      BY <2>8, FreshTyped DEF ReceiveResult, TypeOK
    <3>3. PICK run \in Runs, reason \in Reasons : Outcome(t, run, reason)
      BY <2>8, FailureReasonTyped DEF ReceiveResult, Runs
    <3> QED
      BY <2>8, <3>1, <3>2, <3>3, OutcomeMoves, OutcomeTyped, MovedTyped DEF ReceiveResult, TypeOK
  <2>9. CASE FinishTarget(t)
    BY <2>9, FinishTyped, WaitMoves, MovedTyped DEF FinishTarget, TypeOK
  <2> QED
    BY <1>6, <2>1, <2>2, <2>3, <2>4, <2>5, <2>6, <2>7, <2>8, <2>9 DEF TargetStep
<1>7. ASSUME NEW c \in Calls, ExecutorReturns(c) \/ FinishCall(c) \/ SendResult(c)
      PROVE  TypeOK' /\ ProbeAt'
  <2>1. exec[c] \in Executor
    BY DEF TypeOK
  <2>2. CASE ExecutorReturns(c)
    <3>1. PICK out \in Outs :
            exec' = [exec EXCEPT ![c].pc = "returned", ![c].out = out, ![c].end = exec[c].ctx]
      BY <2>2 DEF ExecutorReturns
    <3>2. PICK end : end = exec[c].ctx
      OBVIOUS
    <3>3. exec' = [exec EXCEPT ![c] = [exec[c] EXCEPT !.pc = "returned", !.out = out, !.end = end]]
      BY <3>1, <3>2 DEF TypeOK
    <3>4. [exec[c] EXCEPT !.pc = "returned", !.out = out, !.end = end] \in Executor
      BY <2>1, <3>2 DEF Executor
    <3> QED
      BY <2>2, <3>3, <3>4 DEF ExecutorReturns, TypeOK, ProbeAt
  <2>3. CASE FinishCall(c)
    <3>1. [exec[c] EXCEPT !.pc = "finished"] \in Executor
      BY <2>1 DEF Executor
    <3>2. exec' \in [Calls -> Executor]
      BY <2>3, <3>1, FreshTyped DEF FinishCall, TypeOK
    <3>3. calls' \in [Targets -> Calls \cup {NoCall}]
      BY <2>3 DEF FinishCall, TypeOK
    <3> QED
      BY <2>3, <3>2, <3>3 DEF FinishCall, TypeOK, ProbeAt
  <2>4. CASE SendResult(c)
    <3>1. [exec[c] EXCEPT !.pc = "sent"] \in Executor
      BY <2>1 DEF Executor
    <3>2. exec' = [exec EXCEPT ![c] = [exec[c] EXCEPT !.pc = "sent"]]
      BY <2>4 DEF SendResult, TypeOK
    <3> QED
      BY <2>4, <3>1, <3>2 DEF SendResult, TypeOK, ProbeAt
  <2> QED
    BY <1>7, <2>2, <2>3, <2>4
<1> QED
  BY <1>1, <1>2, <1>3, <1>4, <1>5, <1>6, <1>7 DEF Next

\* The executors' and goroutines' data has its types in every state, whatever the
\* sizes: a goroutine waiting for a call stands at one of its probes, and a backoff
\* (backoffFor) lies between zero and the cap with its jitter.
THEOREM TypesHold == Spec => [](TypeOK /\ ProbeAt)
<1>1. Init => TypeOK /\ ProbeAt
  BY FreshTyped DEF Init, TypeOK, ProbeAt, IdleGoroutine
<1>2. TypeOK /\ ProbeAt /\ [Next]_vars => (TypeOK /\ ProbeAt)'
  <2>1. TypeOK /\ ProbeAt /\ UNCHANGED vars => (TypeOK /\ ProbeAt)'
    BY DEF vars, TypeOK, ProbeAt
  <2> QED
    BY <2>1, TypesKept
<1> QED
  BY <1>1, <1>2, PTL DEF Spec

-----------------------------------------------------------------------------
(* The registry of calls                                                   *)

\* A call in its executor is the registered one of its target; one that was not
\* abandoned has a goroutine waiting for it; only a running call is abandoned.
CallTracked(c) ==
  /\ InExecutor(c) => calls[c[1]] = c
  /\ exec[c].pc # "free" /\ ~exec[c].abandoned =>
       tgt[c[1]].pc \in Waits /\ tgt[c[1]].mine = c
  /\ exec[c].abandoned => InExecutor(c)

\* A registered call is in its executor; a waiting goroutine waits for a call of
\* its own target whose result is still coming.
TargetTracked(t) ==
  /\ calls[t] # NoCall => calls[t][1] = t /\ InExecutor(calls[t])
  /\ tgt[t].pc \in Waits =>
       /\ tgt[t].mine[1] = t
       /\ exec[tgt[t].mine].pc # "free"
       /\ ~exec[tgt[t].mine].abandoned
       /\ tgt[t].pc = "late" => ~InExecutor(tgt[t].mine)

\* No goroutine of a cycle outlives it.
NoneOutlives == poller # "cycle" => \A t \in Targets : tgt[t].pc \in {"off", "done"}

RegistryInv ==
  /\ TypeOK
  /\ ProbeAt
  /\ NoneOutlives
  /\ \A c \in Calls : CallTracked(c)
  /\ \A t \in Targets : TargetTracked(t)

\* Steps that leave the registry alone, and every goroutine waiting for the call it
\* waited for, keep it truthful.
LEMMA SameWaiters ==
  ASSUME RegistryInv, TypeOK', ProbeAt', calls' = calls,
         \A c \in Calls :
           /\ InExecutor(c)' <=> InExecutor(c)
           /\ exec'[c].pc = "free" <=> exec[c].pc = "free"
           /\ exec'[c].abandoned = exec[c].abandoned,
         \A t \in Targets :
           /\ tgt'[t].pc \in Waits <=> tgt[t].pc \in Waits
           /\ tgt[t].pc \in Waits =>
                /\ tgt'[t].mine = tgt[t].mine
                /\ tgt'[t].pc = "late" => tgt[t].pc = "late" \/ ~InExecutor(tgt[t].mine)
  PROVE  (\A c \in Calls : CallTracked(c)') /\ (\A t \in Targets : TargetTracked(t)')
<1>1. \A c \in Calls : InExecutor(c)' <=> InExecutor(c)
  OBVIOUS
<1>2. ASSUME NEW c \in Calls PROVE CallTracked(c)'
  <2>1. c[1] \in Targets
    BY CallIsACall
  <2>2. CallTracked(c)
    BY DEF RegistryInv
  <2> QED
    BY <1>1, <2>1, <2>2 DEF CallTracked
<1>3. ASSUME NEW t \in Targets PROVE TargetTracked(t)'
  <2>1. TargetTracked(t)
    BY DEF RegistryInv
  <2>2. calls'[t] # NoCall => calls'[t][1] = t /\ InExecutor(calls[t])'
    <3>1. calls[t] # NoCall => calls[t] \in Calls
      BY DEF RegistryInv, TypeOK
    <3> QED
      BY <1>1, <2>1, <3>1 DEF TargetTracked, InExecutor
  <2>3. tgt'[t].pc \in Waits =>
          /\ tgt'[t].mine[1] = t
          /\ exec'[tgt'[t].mine].pc # "free"
          /\ ~exec'[tgt'[t].mine].abandoned
          /\ tgt'[t].pc = "late" => ~InExecutor(tgt[t].mine)'
    <3>1. tgt[t].pc \in Waits => tgt[t].mine \in Calls
      BY DEF RegistryInv, ProbeAt, Waits
    <3>2. PICK m : m = tgt[t].mine
      OBVIOUS
    <3>3. tgt[t].pc \in Waits => tgt'[t].mine = m /\ m \in Calls
      BY <3>1, <3>2
    <3> QED
      BY <1>1, <2>1, <3>2, <3>3 DEF TargetTracked, InExecutor
  <2> QED
    BY <2>2, <2>3 DEF TargetTracked
<1> QED
  BY <1>2, <1>3

\* A goroutine that moved, and the others.
LEMMA MovedWhere ==
  ASSUME TypeOK, NEW t \in Targets, NEW g, Moved(t, g)
  PROVE  tgt'[t] = g /\ \A u \in Targets \ {t} : tgt'[u] = tgt[u]
BY DEF TypeOK, Moved

\* A step of a goroutine that is not waiting and does not wait after it.
LEMMA MovedFree ==
  ASSUME RegistryInv, TypeOK', ProbeAt', NEW t \in Targets, NEW g, Moved(t, g),
         tgt[t].pc \notin Waits \cup {"off", "done"}, g.pc \notin Waits,
         UNCHANGED <<poller, calls, exec>>
  PROVE  RegistryInv'
<1>1. tgt'[t] = g /\ \A u \in Targets \ {t} : tgt'[u] = tgt[u]
  BY MovedWhere DEF RegistryInv
<1>2. poller = "cycle"
  BY DEF RegistryInv, NoneOutlives
<1>3. (\A c \in Calls : CallTracked(c)') /\ (\A u \in Targets : TargetTracked(u)')
  BY <1>1, SameWaiters DEF InExecutor
<1> QED
  BY <1>2, <1>3 DEF RegistryInv, NoneOutlives

\* A step of a goroutine that goes on waiting for its call.
LEMMA MovedWaiting ==
  ASSUME RegistryInv, TypeOK', ProbeAt', NEW t \in Targets, NEW g, Moved(t, g),
         tgt[t].pc \in Waits, g.pc \in Waits, g.mine = tgt[t].mine,
         g.pc = "late" => ~InExecutor(tgt[t].mine),
         UNCHANGED <<poller, calls, exec>>
  PROVE  RegistryInv'
<1>1. tgt'[t] = g /\ \A u \in Targets \ {t} : tgt'[u] = tgt[u]
  BY MovedWhere DEF RegistryInv
<1>2. poller = "cycle"
  BY DEF RegistryInv, NoneOutlives, Waits
<1>3. (\A c \in Calls : CallTracked(c)') /\ (\A u \in Targets : TargetTracked(u)')
  BY <1>1, SameWaiters DEF InExecutor
<1> QED
  BY <1>2, <1>3 DEF RegistryInv, NoneOutlives

\* A probe's call is registered under its target, which has no other.
LEMMA StartTracked ==
  ASSUME RegistryInv, TypeOK', ProbeAt', NEW t \in Targets, StartProbe(t)
  PROVE  RegistryInv'
<1>1. PICK c \in Calls :
           /\ c[1] = t
           /\ exec[c].pc = "free"
           /\ exec' = [exec EXCEPT ![c] = [FreeExecutor EXCEPT !.pc = "running",
                                                               !.probe = tgt[t].idx]]
           /\ calls' = [calls EXCEPT ![t] = c]
           /\ Moved(t, [tgt[t] EXCEPT !.pc = "call", !.mine = c])
  BY StartMoves DEF RegistryInv
<1>2. /\ exec'[c].pc = "running"
      /\ ~exec'[c].abandoned
      /\ \A d \in Calls \ {c} : exec'[d] = exec[d]
  BY <1>1 DEF RegistryInv, TypeOK, FreeExecutor
<1>3. /\ tgt'[t].pc = "call"
      /\ tgt'[t].mine = c
      /\ \A u \in Targets \ {t} : tgt'[u] = tgt[u]
  <2>1. tgt'[t] = [tgt[t] EXCEPT !.pc = "call", !.mine = c]
    BY <1>1, MovedWhere DEF RegistryInv
  <2>2. tgt[t] \in TargetGoroutine
    BY DEF RegistryInv, TypeOK
  <2>3. tgt'[t].pc = "call" /\ tgt'[t].mine = c
    BY <2>1, <2>2 DEF TargetGoroutine
  <2> QED
    BY <1>1, <2>3, MovedWhere DEF RegistryInv
<1>4. calls'[t] = c /\ \A u \in Targets \ {t} : calls'[u] = calls[u]
  BY <1>1 DEF RegistryInv, TypeOK
<1>5. calls[t] = NoCall /\ tgt[t].pc = "probe" /\ poller' = poller
  BY DEF StartProbe, AtProbe
<1>6. \A d \in Calls : d[1] = t => exec[d].pc = "free"
  <2>1. ASSUME NEW d \in Calls, d[1] = t PROVE exec[d].pc = "free"
    <3>1. CallTracked(d)
      BY DEF RegistryInv
    <3>2. ~InExecutor(d)
      BY <1>5, <2>1, <3>1, CallIsACall DEF CallTracked
    <3> QED
      BY <1>5, <2>1, <3>1, <3>2 DEF CallTracked, Waits
  <2> QED
    BY <2>1
<1>7. ASSUME NEW d \in Calls PROVE CallTracked(d)'
  <2>1. CallTracked(d) /\ d[1] \in Targets
    BY CallIsACall DEF RegistryInv
  <2>2. CASE d = c
    BY <1>1, <1>2, <1>3, <1>4, <2>2 DEF CallTracked, InExecutor, Waits
  <2>3. CASE d # c /\ d[1] = t
    BY <1>2, <1>6, <2>1, <2>3 DEF CallTracked, InExecutor
  <2>4. CASE d # c /\ d[1] # t
    BY <1>2, <1>3, <1>4, <2>1, <2>4 DEF CallTracked, InExecutor
  <2> QED
    BY <2>2, <2>3, <2>4
<1>8. ASSUME NEW u \in Targets PROVE TargetTracked(u)'
  <2>1. TargetTracked(u)
    BY DEF RegistryInv
  <2>2. CASE u = t
    BY <1>1, <1>2, <1>3, <1>4, <2>2 DEF TargetTracked, InExecutor
  <2>3. CASE u # t
    <3>1. tgt'[u] = tgt[u] /\ calls'[u] = calls[u]
      BY <1>3, <1>4, <2>3
    <3>2. calls[u] # NoCall => calls[u] \in Calls /\ calls[u] # c
      BY <1>1, <2>1, <2>3 DEF TargetTracked, RegistryInv, TypeOK
    <3>3. tgt[u].pc \in Waits => tgt[u].mine \in Calls /\ tgt[u].mine # c
      BY <1>1, <2>1, <2>3 DEF TargetTracked, RegistryInv, ProbeAt, Waits
    <3> QED
      BY <1>2, <2>1, <3>1, <3>2, <3>3 DEF TargetTracked, InExecutor
  <2> QED
    BY <2>2, <2>3
<1>9. NoneOutlives'
  BY <1>5 DEF RegistryInv, NoneOutlives
<1> QED
  BY <1>7, <1>8, <1>9 DEF RegistryInv

\* The call the goroutine of t waits for.
LEMMA Awaited ==
  ASSUME RegistryInv, NEW t \in Targets, tgt[t].pc \in Waits
  PROVE  /\ tgt[t].idx \in Probes
         /\ tgt[t].mine \in Calls
         /\ tgt[t].mine[1] = t
         /\ exec[tgt[t].mine].pc # "free"
         /\ ~exec[tgt[t].mine].abandoned
         /\ InExecutor(tgt[t].mine) => calls[t] = tgt[t].mine
         /\ poller = "cycle"
<1>1. tgt[t].idx \in Probes /\ tgt[t].mine \in Calls
  BY DEF RegistryInv, ProbeAt, Waits
<1>2. TargetTracked(t) /\ CallTracked(tgt[t].mine)
  BY <1>1 DEF RegistryInv
<1>3. poller = "cycle"
  BY DEF RegistryInv, NoneOutlives, Waits
<1> QED
  BY <1>1, <1>2, <1>3 DEF TargetTracked, CallTracked

\* Where a goroutine goes with the outcome of its probe.
LEMMA OutcomeWhere ==
  ASSUME TypeOK, NEW t \in Targets, NEW run, NEW reason, tgt[t].idx \in Probes,
         Outcome(t, run, reason)
  PROVE  /\ tgt'[t].pc = "probe"
         /\ tgt'[t].idx = tgt[t].idx + 1
         /\ tgt'[t].end = "running"
         /\ tgt'[t].run = [tgt[t].run EXCEPT ![tgt[t].idx] = run]
         /\ \A u \in Targets \ {t} : tgt'[u] = tgt[u]
<1>1. tgt[t] \in TargetGoroutine /\ tgt \in [Targets -> TargetGoroutine]
  BY DEF TypeOK
<1>2. PICK g : g = Onwards(tgt[t], tgt[t].idx, run)
  OBVIOUS
<1>3. tgt' = [tgt EXCEPT ![t] = g]
  BY <1>2, OutcomeWrites
<1>4. tgt'[t] = g /\ \A u \in Targets \ {t} : tgt'[u] = tgt[u]
  BY <1>1, <1>3
<1> QED
  BY <1>1, <1>2, <1>4, OnwardsFields

\* An abandoned call stays registered; a received one leaves its executor free.
\* Either way the goroutine of t no longer waits and only its own call c changed.
LEMMA LeftTracked ==
  ASSUME RegistryInv, TypeOK', ProbeAt', NEW t \in Targets, tgt[t].pc \in Waits,
         NEW c \in Calls, c = tgt[t].mine,
         tgt'[t].pc = "probe", \A u \in Targets \ {t} : tgt'[u] = tgt[u],
         UNCHANGED <<poller, calls>>,
         \A d \in Calls \ {c} : exec'[d] = exec[d],
         \/ InExecutor(c) /\ exec'[c].pc = exec[c].pc /\ exec'[c].abandoned
         \/ ~InExecutor(c) /\ exec'[c].pc = "free" /\ ~exec'[c].abandoned
  PROVE  RegistryInv'
<1>1. /\ c[1] = t
      /\ InExecutor(c) => calls[t] = c
      /\ poller = "cycle"
  BY Awaited
<1>2. ASSUME NEW d \in Calls PROVE CallTracked(d)'
  <2>1. CallTracked(d) /\ d[1] \in Targets
    BY CallIsACall DEF RegistryInv
  <2>2. CASE d = c
    BY <1>1, <2>2 DEF CallTracked, InExecutor
  <2>3. CASE d # c
    <3>1. exec'[d] = exec[d]
      BY <2>3
    <3>2. exec[d].pc # "free" /\ ~exec[d].abandoned => d[1] # t
      BY <2>1, <2>3 DEF CallTracked
    <3> QED
      BY <2>1, <3>1, <3>2 DEF CallTracked, InExecutor
  <2> QED
    BY <2>2, <2>3
<1>3. ASSUME NEW u \in Targets PROVE TargetTracked(u)'
  <2>1. TargetTracked(u)
    BY DEF RegistryInv
  <2>2. calls[u] # NoCall => calls[u] \in Calls /\ calls[u][1] = u /\ InExecutor(calls[u])
    BY <2>1 DEF TargetTracked, RegistryInv, TypeOK
  <2>3. calls[u] # NoCall => InExecutor(calls[u])'
    <3>1. CASE calls[u] = c
      BY <2>2, <3>1 DEF InExecutor
    <3>2. CASE calls[u] # c
      BY <2>2, <3>2 DEF InExecutor
    <3> QED
      BY <3>1, <3>2
  <2>4. CASE u = t
    BY <2>2, <2>3, <2>4 DEF TargetTracked, Waits
  <2>5. CASE u # t
    <3>1. tgt[u].pc \in Waits => tgt[u].mine \in Calls /\ tgt[u].mine # c
      BY <1>1, <2>1, <2>5 DEF TargetTracked, RegistryInv, ProbeAt, Waits
    <3> QED
      BY <2>1, <2>2, <2>3, <2>5, <3>1 DEF TargetTracked, InExecutor
  <2> QED
    BY <2>4, <2>5
<1>4. NoneOutlives'
  BY <1>1 DEF NoneOutlives
<1> QED
  BY <1>2, <1>3, <1>4 DEF RegistryInv

LEMMA AbandonTracked ==
  ASSUME RegistryInv, TypeOK', ProbeAt', NEW t \in Targets, AbandonCall(t)
  PROVE  RegistryInv'
<1>1. tgt[t].pc \in Waits /\ InExecutor(tgt[t].mine)
  BY DEF AbandonCall, Waits, InExecutor
<1>2. PICK c : c = tgt[t].mine
  OBVIOUS
<1>3. c \in Calls /\ tgt[t].idx \in Probes
  BY <1>1, <1>2, Awaited
<1>4. exec' = [exec EXCEPT ![c].abandoned = TRUE] /\ UNCHANGED <<poller, calls>>
  BY <1>2 DEF AbandonCall
<1>5. tgt'[t].pc = "probe" /\ \A u \in Targets \ {t} : tgt'[u] = tgt[u]
  BY <1>3, OutcomeWhere DEF AbandonCall, RegistryInv
<1>6. /\ \A d \in Calls \ {c} : exec'[d] = exec[d]
      /\ exec'[c].pc = exec[c].pc
      /\ exec'[c].abandoned
  BY <1>3, <1>4 DEF RegistryInv, TypeOK, Executor
<1> QED
  BY <1>1, <1>2, <1>3, <1>4, <1>5, <1>6, LeftTracked

LEMMA ReceiveTracked ==
  ASSUME RegistryInv, TypeOK', ProbeAt', NEW t \in Targets, ReceiveResult(t)
  PROVE  RegistryInv'
<1>1. tgt[t].pc \in Waits /\ ~InExecutor(tgt[t].mine)
  BY DEF ReceiveResult, Waits, InExecutor
<1>2. PICK c : c = tgt[t].mine
  OBVIOUS
<1>3. c \in Calls /\ tgt[t].idx \in Probes
  BY <1>1, <1>2, Awaited
<1>4. exec' = [exec EXCEPT ![c] = FreeExecutor] /\ UNCHANGED <<poller, calls>>
  BY <1>2 DEF ReceiveResult
<1>5. PICK run, reason : Outcome(t, run, reason)
  BY DEF ReceiveResult
<1>6. tgt'[t].pc = "probe" /\ \A u \in Targets \ {t} : tgt'[u] = tgt[u]
  BY <1>3, <1>5, OutcomeWhere DEF RegistryInv
<1>7. /\ \A d \in Calls \ {c} : exec'[d] = exec[d]
      /\ exec'[c].pc = "free"
      /\ ~exec'[c].abandoned
  BY <1>3, <1>4 DEF RegistryInv, TypeOK, FreeExecutor
<1> QED
  BY <1>1, <1>2, <1>3, <1>4, <1>6, <1>7, LeftTracked

\* The executor's side: a call leaves the registry when it finishes.
LEMMA FinishTracked ==
  ASSUME RegistryInv, TypeOK', ProbeAt', NEW c \in Calls, FinishCall(c)
  PROVE  RegistryInv'
<1>1. /\ exec[c].pc = "returned"
      /\ exec' = [exec EXCEPT ![c] = IF exec[c].abandoned THEN FreeExecutor
                                     ELSE [exec[c] EXCEPT !.pc = "finished"]]
      /\ calls' = IF calls[c[1]] = c THEN [calls EXCEPT ![c[1]] = NoCall] ELSE calls
      /\ UNCHANGED <<poller, tgt>>
  BY DEF FinishCall
<1>2. CallTracked(c) /\ c[1] \in Targets /\ exec[c] \in Executor
  BY CallIsACall DEF RegistryInv, TypeOK
<1>3. calls'[c[1]] = NoCall /\ \A u \in Targets \ {c[1]} : calls'[u] = calls[u]
  BY <1>1, <1>2 DEF CallTracked, InExecutor, RegistryInv, TypeOK
<1>4. \A d \in Calls \ {c} : exec'[d] = exec[d]
  BY <1>1 DEF RegistryInv, TypeOK
<1>5. /\ exec[c].abandoned => exec'[c].pc = "free"
      /\ ~exec[c].abandoned => exec'[c].pc = "finished"
      /\ ~exec'[c].abandoned
  BY <1>1, <1>2 DEF RegistryInv, TypeOK, FreeExecutor, Executor
<1>6. ASSUME NEW d \in Calls PROVE CallTracked(d)'
  <2>1. CallTracked(d) /\ d[1] \in Targets
    BY CallIsACall DEF RegistryInv
  <2>2. CASE d = c
    BY <1>1, <1>5, <2>1, <2>2 DEF CallTracked, InExecutor
  <2>3. CASE d # c
    <3>1. exec'[d] = exec[d]
      BY <1>4, <2>3
    <3>2. InExecutor(d) => d[1] # c[1]
      BY <1>1, <1>2, <2>1, <2>3 DEF CallTracked, InExecutor
    <3> QED
      BY <1>1, <1>3, <2>1, <3>1, <3>2 DEF CallTracked, InExecutor
  <2> QED
    BY <2>2, <2>3
<1>7. ASSUME NEW u \in Targets PROVE TargetTracked(u)'
  <2> tgt' = tgt
    BY <1>1
  <2>1. TargetTracked(u)
    BY DEF RegistryInv
  <2>2. calls'[u] # NoCall => calls'[u][1] = u /\ InExecutor(calls[u])' /\ calls'[u] = calls[u]
    <3>1. CASE u = c[1]
      BY <1>3, <3>1
    <3>2. CASE u # c[1]
      <4>1. calls'[u] = calls[u]
        BY <1>3, <3>2
      <4>2. calls[u] # NoCall => calls[u] \in Calls \ {c} /\ calls[u][1] = u /\ InExecutor(calls[u])
        BY <2>1, <3>2 DEF TargetTracked, RegistryInv, TypeOK
      <4> QED
        BY <1>4, <4>1, <4>2 DEF InExecutor
    <3> QED
      BY <3>1, <3>2
  <2>3. tgt[u].pc \in Waits =>
          /\ tgt[u].mine[1] = u
          /\ exec'[tgt[u].mine].pc # "free"
          /\ ~exec'[tgt[u].mine].abandoned
          /\ tgt[u].pc = "late" => ~InExecutor(tgt[u].mine)'
    <3>1. PICK m : m = tgt[u].mine
      OBVIOUS
    <3>2. tgt[u].pc \in Waits => m \in Calls
      BY <3>1 DEF RegistryInv, ProbeAt, Waits
    <3>3. CASE m = c
      BY <1>5, <2>1, <3>1, <3>3 DEF TargetTracked, InExecutor
    <3>4. CASE m # c
      BY <1>4, <2>1, <3>1, <3>2, <3>4 DEF TargetTracked, InExecutor
    <3> QED
      BY <3>3, <3>4
  <2> QED
    BY <1>1, <2>2, <2>3 DEF TargetTracked, InExecutor
<1>8. NoneOutlives'
  BY <1>1 DEF RegistryInv, NoneOutlives
<1> QED
  BY <1>6, <1>7, <1>8 DEF RegistryInv

\* What EndProbes leaves alone.
LEMMA EndProbesKeeps ==
  ASSUME TypeOK, NEW why, NEW c \in Calls
  PROVE  /\ EndProbes(why)[c].pc = exec[c].pc
         /\ EndProbes(why)[c].abandoned = exec[c].abandoned
         /\ EndProbes(why)[c].end = exec[c].end
         /\ EndProbes(why)[c].ctx \in {exec[c].ctx, why}
BY DEF EndProbes, TypeOK, Executor

\* Steps of contexts and executors that move no goroutine and keep every call where
\* it is.
LEMMA StillTracked ==
  ASSUME RegistryInv, TypeOK', ProbeAt', UNCHANGED <<poller, tgt, calls>>,
         \A c \in Calls :
           /\ InExecutor(c)' <=> InExecutor(c)
           /\ exec'[c].pc = "free" <=> exec[c].pc = "free"
           /\ exec'[c].abandoned = exec[c].abandoned
  PROVE  RegistryInv'
<1>1. (\A c \in Calls : CallTracked(c)') /\ (\A u \in Targets : TargetTracked(u)')
  BY SameWaiters
<1> QED
  BY <1>1 DEF RegistryInv, NoneOutlives

\* The start of a Poller or of a cycle finds no goroutine and leaves none waiting.
LEMMA FreshTracked ==
  ASSUME RegistryInv, TypeOK', ProbeAt', UNCHANGED <<calls, exec>>, poller # "cycle",
         \A t \in Targets : tgt'[t].pc \in {"off", "done", "acquire"},
         poller' = "cycle" \/ \A t \in Targets : tgt'[t].pc \in {"off", "done"}
  PROVE  RegistryInv'
<1>1. \A t \in Targets : tgt[t].pc \notin Waits /\ tgt'[t].pc \notin Waits
  BY DEF RegistryInv, NoneOutlives, Waits
<1>2. (\A c \in Calls : CallTracked(c)') /\ (\A u \in Targets : TargetTracked(u)')
  BY <1>1, SameWaiters DEF InExecutor
<1> QED
  BY <1>2 DEF RegistryInv, NoneOutlives

LEMMA RegistryKept ==
  ASSUME RegistryInv, Next
  PROVE  RegistryInv'
<1> TypeOK' /\ ProbeAt'
  BY TypesKept DEF RegistryInv
<1> TypeOK /\ ProbeAt
  BY DEF RegistryInv
<1>1. CASE PollerStart
  BY <1>1, FreshTracked DEF PollerStart, IdleGoroutine
<1>2. ASSUME NEW gap \in Gaps, CycleStart(gap) PROVE RegistryInv'
  <2>1. \A t \in Targets : tgt'[t].pc \in {"done", "acquire"}
    BY <1>2 DEF CycleStart, IdleGoroutine
  <2> QED
    BY <1>2, <2>1, FreshTracked DEF CycleStart
<1>3. CASE CycleDeadline
  BY <1>3, StillTracked, EndProbesKeeps DEF CycleDeadline, InExecutor
<1>4. CASE PollerCancel
  <2>1. UNCHANGED <<poller, tgt, calls>> /\ (exec' = exec \/ exec' = EndProbes("canceled"))
    BY <1>4 DEF PollerCancel
  <2> QED
    BY <2>1, StillTracked, EndProbesKeeps DEF InExecutor
<1>5. CASE CycleEnd
  <2>1. poller' = "idle" /\ UNCHANGED <<tgt, calls, exec>> /\ \A t \in Targets : tgt[t].pc = "done"
    BY <1>5 DEF CycleEnd
  <2>2. (\A c \in Calls : CallTracked(c)') /\ (\A t \in Targets : TargetTracked(t)')
    BY <2>1, SameWaiters DEF InExecutor
  <2> QED
    BY <2>1, <2>2 DEF RegistryInv, NoneOutlives
<1>6. CASE PollerStop
  <2>1. poller = "idle" /\ poller' = "stopped" /\ UNCHANGED <<tgt, calls, exec>>
    BY <1>6 DEF PollerStop
  <2>2. (\A c \in Calls : CallTracked(c)') /\ (\A t \in Targets : TargetTracked(t)')
    BY <2>1, SameWaiters DEF InExecutor
  <2> QED
    BY <2>1, <2>2 DEF RegistryInv, NoneOutlives
<1>7. ASSUME NEW t \in Targets, TargetStep(t) \/ ProbeTimeout(t)
      PROVE  RegistryInv'
  <2>0. tgt[t] \in TargetGoroutine
    BY DEF TypeOK
  <2>1. CASE Acquire(t)
    <3>1. PICK slot, run :
            Moved(t, [tgt[t] EXCEPT !.pc = "probe", !.slot = slot, !.run = run])
      BY <2>1, AcquireMoves
    <3>2. [tgt[t] EXCEPT !.pc = "probe", !.slot = slot, !.run = run].pc = "probe"
      BY <2>0 DEF TargetGoroutine
    <3> QED
      BY <2>1, <3>1, <3>2, MovedFree DEF Acquire, Waits
  <2>2. CASE SkipProbe(t) \/ RefuseProbe(t)
    <3>1. PICK run, reason : run \in Runs /\ tgt[t].idx \in Probes /\ Outcome(t, run, reason)
      BY <2>2 DEF SkipProbe, RefuseProbe, AtProbe, Runs
    <3>2. Moved(t, Onwards(tgt[t], tgt[t].idx, run))
      BY <3>1, OutcomeMoves
    <3>3. Onwards(tgt[t], tgt[t].idx, run).pc = "probe"
      BY <2>0, <3>1, OnwardsFields
    <3> QED
      BY <2>2, <3>2, <3>3, MovedFree DEF SkipProbe, RefuseProbe, AtProbe, Waits
  <2>3. CASE StartProbe(t)
    BY <2>3, StartTracked
  <2>4. CASE ProbeTimeout(t)
    <3>1. PICK m : m = tgt[t].mine
      OBVIOUS
    <3>2. exec' = [exec EXCEPT ![m].ctx = "timedout"] /\ UNCHANGED <<poller, tgt, calls>>
      BY <2>4, <3>1 DEF ProbeTimeout
    <3>3. m \in Calls
      BY <2>4, <3>1 DEF ProbeTimeout, ProbeAt
    <3>4. \A c \in Calls : exec'[c].pc = exec[c].pc /\ exec'[c].abandoned = exec[c].abandoned
      BY <3>2, <3>3 DEF TypeOK, Executor
    <3> QED
      BY <3>2, <3>4, StillTracked DEF InExecutor
  <2>5. CASE ProbeDone(t)
    <3>1. PICK end : Moved(t, [tgt[t] EXCEPT !.pc = "grace", !.end = end])
      BY <2>5, WaitMoves
    <3>2. /\ [tgt[t] EXCEPT !.pc = "grace", !.end = end].pc = "grace"
          /\ [tgt[t] EXCEPT !.pc = "grace", !.end = end].mine = tgt[t].mine
      BY <2>0 DEF TargetGoroutine
    <3> QED
      BY <2>5, <3>1, <3>2, MovedWaiting DEF ProbeDone, Waits
  <2>6. CASE GraceExpires(t)
    <3>1. Moved(t, [tgt[t] EXCEPT !.pc = "expired"])
      BY <2>6, WaitMoves
    <3>2. /\ [tgt[t] EXCEPT !.pc = "expired"].pc = "expired"
          /\ [tgt[t] EXCEPT !.pc = "expired"].mine = tgt[t].mine
      BY <2>0 DEF TargetGoroutine
    <3> QED
      BY <2>6, <3>1, <3>2, MovedWaiting DEF GraceExpires, Waits
  <2>7. CASE AbandonTooLate(t)
    <3>1. Moved(t, [tgt[t] EXCEPT !.pc = "late"])
      BY <2>7, WaitMoves
    <3>2. /\ [tgt[t] EXCEPT !.pc = "late"].pc = "late"
          /\ [tgt[t] EXCEPT !.pc = "late"].mine = tgt[t].mine
      BY <2>0 DEF TargetGoroutine
    <3> QED
      BY <2>7, <3>1, <3>2, MovedWaiting DEF AbandonTooLate, Waits, InExecutor
  <2>8. CASE AbandonCall(t)
    BY <2>8, AbandonTracked
  <2>9. CASE ReceiveResult(t)
    BY <2>9, ReceiveTracked
  <2>10. CASE FinishTarget(t)
    <3>1. Moved(t, [tgt[t] EXCEPT !.pc = "done", !.slot = FALSE])
      BY <2>10, WaitMoves
    <3>2. [tgt[t] EXCEPT !.pc = "done", !.slot = FALSE].pc = "done"
      BY <2>0 DEF TargetGoroutine
    <3> QED
      BY <2>10, <3>1, <3>2, MovedFree DEF FinishTarget, Waits
  <2> QED
    BY <1>7, <2>1, <2>2, <2>3, <2>4, <2>5, <2>6, <2>7, <2>8, <2>9, <2>10 DEF TargetStep
<1>8. ASSUME NEW c \in Calls, ExecutorReturns(c) \/ FinishCall(c) \/ SendResult(c)
      PROVE  RegistryInv'
  <2>1. CASE ExecutorReturns(c)
    <3>1. PICK out, end : exec' = [exec EXCEPT ![c].pc = "returned", ![c].out = out, ![c].end = end]
      BY <2>1 DEF ExecutorReturns
    <3>2. /\ exec'[c].pc = "returned" /\ exec'[c].abandoned = exec[c].abandoned
          /\ \A d \in Calls \ {c} : exec'[d] = exec[d]
      BY <3>1 DEF TypeOK, Executor
    <3> QED
      BY <2>1, <3>2, StillTracked DEF ExecutorReturns, InExecutor
  <2>2. CASE FinishCall(c)
    BY <2>2, FinishTracked
  <2>3. CASE SendResult(c)
    <3>1. /\ exec'[c].pc = "sent" /\ exec'[c].abandoned = exec[c].abandoned
          /\ \A d \in Calls \ {c} : exec'[d] = exec[d]
      BY <2>3 DEF SendResult, TypeOK, Executor
    <3> QED
      BY <2>3, <3>1, StillTracked DEF SendResult, InExecutor
  <2> QED
    BY <1>8, <2>1, <2>2, <2>3
<1> QED
  BY <1>1, <1>2, <1>3, <1>4, <1>5, <1>6, <1>7, <1>8 DEF Next, PollerStep

LEMMA RegistryStarts ==
  ASSUME Init
  PROVE  RegistryInv
<1>1. TypeOK /\ ProbeAt /\ NoneOutlives
  BY FreshTyped DEF Init, TypeOK, ProbeAt, NoneOutlives, IdleGoroutine
<1>2. \A c \in Calls : CallTracked(c)
  BY DEF Init, CallTracked, InExecutor, FreeExecutor
<1>3. \A t \in Targets : TargetTracked(t)
  BY DEF Init, TargetTracked, Waits, IdleGoroutine
<1> QED
  BY <1>1, <1>2, <1>3 DEF RegistryInv

\* The registry, with what keeps it: a call that was not abandoned has a goroutine
\* waiting for it, a call in its executor is registered, and no goroutine of a cycle
\* outlives it.
THEOREM RegistryInvariant == Spec => []RegistryInv
<1>1. RegistryInv /\ [Next]_vars => RegistryInv'
  <2>1. RegistryInv /\ UNCHANGED vars => RegistryInv'
    BY DEF vars, RegistryInv, TypeOK, ProbeAt, NoneOutlives, CallTracked, TargetTracked, InExecutor
  <2> QED
    BY <2>1, RegistryKept
<1> QED
  BY <1>1, RegistryStarts, PTL DEF Spec

\* For any number of targets, probes and executor goroutines, and however often
\* the Poller is replaced, the registry of calls (probeCalls) tells the truth: one
\* call in flight per target, a busy target only because of an abandoned call, and a
\* waiting goroutine waits for a result that is still coming.
THEOREM CallsAreTracked == Spec => []CallsTracked
<1>1. RegistryInv => CallsTracked
  <2> SUFFICES ASSUME RegistryInv PROVE CallsTracked
    OBVIOUS
  <2>1. ASSUME NEW c \in Calls, NEW d \in Calls, InExecutor(c), InExecutor(d), c[1] = d[1]
        PROVE  c = d
    BY <2>1 DEF RegistryInv, CallTracked
  <2>2. ASSUME NEW t \in Targets, AtProbe(t), calls[t] # NoCall
        PROVE  exec[calls[t]].abandoned /\ InExecutor(calls[t])
    <3>1. calls[t] \in Calls /\ calls[t][1] = t /\ InExecutor(calls[t])
      BY <2>2 DEF RegistryInv, TargetTracked, TypeOK
    <3>2. CallTracked(calls[t])
      BY <3>1 DEF RegistryInv
    <3> QED
      BY <2>2, <3>1, <3>2 DEF CallTracked, InExecutor, AtProbe, Waits
  <2>3. ASSUME NEW t \in Targets, tgt[t].pc \in Waits
        PROVE  tgt[t].pc = "late" => ~InExecutor(tgt[t].mine)
    BY <2>3 DEF RegistryInv, TargetTracked
  <2> QED
    BY <2>1, <2>2, <2>3, Awaited DEF CallsTracked, Waits
<1> QED
  BY <1>1, RegistryInvariant, PTL

-----------------------------------------------------------------------------
(* The outcomes of a cycle                                                 *)

\* The goroutine of t has an outcome, and a series to match, for every probe before
\* idx and none for the others, and it was not left with probes that all wait.
Progress(t) ==
  LET run == tgt[t].run IN
  /\ tgt[t].pc \in {"off", "acquire"} => \A p \in Probes : run[p] = "none"
  /\ tgt[t].pc \in {"acquire", "probe", "call"} => tgt[t].end = "running"
  /\ tgt[t].pc = "acquire" => tgt[t].idx = 1
  /\ tgt[t].pc \in {"probe"} \cup Waits =>
       /\ \A p \in Probes : p < tgt[t].idx =>
            /\ run[p] # "none"
            /\ export[t].series[p] <=> run[p] \in {"ok", "blocked"}
       /\ \A p \in Probes : p >= tgt[t].idx => run[p] \in {"none", "wait"}
       /\ \E p \in Probes : run[p] # "wait"
  /\ tgt[t].pc = "done" =>
       /\ \A p \in Probes : export[t].series[p] <=> export[t].probe[p] = "up"
       /\ export[t].target = "up" <=> \E p \in Probes : export[t].probe[p] = "up"

\* Only a Poller that stops ends a probe as canceled.
CancelKnown ==
  /\ poller = "cycle" /\ cctx = "canceled" => pctx = "canceled"
  /\ \A t \in Targets : tgt[t].pc \in Waits =>
       ("canceled" \in {tgt[t].end, exec[tgt[t].mine].ctx, exec[tgt[t].mine].end} =>
          pctx = "canceled")

\* Failures are counted as long as the Poller is not stopping.
Counting(t) ==
  pctx = "live" => \A p \in Probes : tgt[t].run[p] = "failed" <=> counted[t][p] # "none"

\* The tracker backs off a target or some of its probes, never both, and never
\* all of its probes.
BackingOff(t) ==
  /\ tracker[t].fails > 0 => \A p \in Probes : tracker[t].pfails[p] = 0
  /\ \E p \in Probes : tracker[t].pwait[p] = 0

CycleInv ==
  /\ poller = "stopped" => \A t \in Targets : export[t] = NoSeries
  /\ CancelKnown
  /\ \A t \in Targets : Progress(t) /\ Counting(t) /\ BackingOff(t)

\* What Outcome makes of the series and of the counter of its probe.
LEMMA OutcomeSeries ==
  ASSUME TypeOK, NEW t \in Targets, NEW run, NEW reason, tgt[t].idx \in Probes,
         Outcome(t, run, reason)
  PROVE  /\ export'[t].series = [export[t].series EXCEPT ![tgt[t].idx] = run \in {"ok", "blocked"}]
         /\ \A u \in Targets \ {t} : export'[u] = export[u]
<1>1. export[t] \in Export /\ export \in [Targets -> Export]
  BY DEF TypeOK
<1>2. PICK x : x = Exported(export[t], tgt[t].idx, run)
  OBVIOUS
<1>3. export' = [export EXCEPT ![t] = x]
  BY <1>2, OutcomeWrites
<1>4. x.series = [export[t].series EXCEPT ![tgt[t].idx] = run \in {"ok", "blocked"}]
  BY <1>1, <1>2, ExportedFields
<1> QED
  BY <1>1, <1>3, <1>4

LEMMA OutcomeCounted ==
  ASSUME TypeOK, NEW t \in Targets, NEW run, NEW reason, tgt[t].idx \in Probes,
         Outcome(t, run, reason)
  PROVE  /\ counted'[t][tgt[t].idx] = reason
         /\ \A q \in Probes \ {tgt[t].idx} : counted'[t][q] = counted[t][q]
         /\ \A u \in Targets \ {t} : counted'[u] = counted[u]
BY OutcomeWrites DEF TypeOK

\* An outcome keeps the progress of its goroutine, and its count while the Poller
\* is not stopping counts exactly the failures.
LEMMA OutcomeProgress ==
  ASSUME TypeOK, NEW t \in Targets, NEW run, NEW reason, tgt[t].idx \in Probes,
         tgt[t].pc \in {"probe"} \cup Waits, Outcome(t, run, reason), pctx' = pctx,
         run \in {"wait", "ok", "blocked", "failed"},
         run = "wait" => tgt[t].run[tgt[t].idx] = "wait",
         pctx = "live" => (run = "failed" <=> reason # "none"),
         \A u \in Targets : Progress(u) /\ Counting(u)
  PROVE  \A u \in Targets : Progress(u)' /\ Counting(u)'
<1>1. PICK p : p = tgt[t].idx
  OBVIOUS
<1>2. p \in Probes
  BY <1>1
<1>3. /\ tgt[t].run \in [Probes -> Runs]
      /\ export[t].series \in [Probes -> BOOLEAN]
      /\ counted[t] \in [Probes -> Reasons]
  BY DEF TypeOK, TargetGoroutine, Export
<1>4. /\ tgt'[t].pc = "probe" /\ tgt'[t].idx = p + 1 /\ tgt'[t].end = "running"
      /\ tgt'[t].run[p] = run
      /\ \A q \in Probes \ {p} : tgt'[t].run[q] = tgt[t].run[q]
  <2>1. /\ tgt'[t].pc = "probe" /\ tgt'[t].idx = p + 1 /\ tgt'[t].end = "running"
        /\ tgt'[t].run = [tgt[t].run EXCEPT ![p] = run]
    BY <1>1, OutcomeWhere
  <2> QED
    BY <1>2, <1>3, <2>1
<1>5. /\ export'[t].series[p] = (run \in {"ok", "blocked"})
      /\ \A q \in Probes \ {p} : export'[t].series[q] = export[t].series[q]
  <2>1. export'[t].series = [export[t].series EXCEPT ![tgt[t].idx] = run \in {"ok", "blocked"}]
    BY OutcomeSeries
  <2> QED
    BY <1>1, <1>2, <1>3, <2>1
<1>6. /\ counted'[t][p] = reason
      /\ \A q \in Probes \ {p} : counted'[t][q] = counted[t][q]
  BY <1>1, OutcomeCounted
<1>7. Progress(t)'
  <2>1. ASSUME NEW q \in Probes, q < p + 1
        PROVE  tgt'[t].run[q] # "none" /\ (export'[t].series[q] <=> tgt'[t].run[q] \in {"ok", "blocked"})
    <3>1. CASE q = p
      BY <1>4, <1>5, <3>1
    <3>2. CASE q # p
      <4>1. q < p
        BY <1>2, <2>1, <3>2, SizesAssumption DEF Probes
      <4>2. tgt[t].run[q] # "none" /\ (export[t].series[q] <=> tgt[t].run[q] \in {"ok", "blocked"})
        BY <1>1, <4>1 DEF Progress
      <4> QED
        BY <1>4, <1>5, <3>2, <4>2
    <3> QED
      BY <3>1, <3>2
  <2>2. ASSUME NEW q \in Probes, q >= p + 1 PROVE tgt'[t].run[q] \in {"none", "wait"}
    <3>1. q >= p /\ q # p
      BY <1>2, <2>2, SizesAssumption DEF Probes
    <3>2. tgt[t].run[q] \in {"none", "wait"}
      BY <1>1, <3>1 DEF Progress
    <3> QED
      BY <1>4, <3>1, <3>2
  <2>3. \E q \in Probes : tgt'[t].run[q] # "wait"
    <3>1. PICK q \in Probes : tgt[t].run[q] # "wait"
      BY DEF Progress
    <3> QED
      BY <1>1, <1>2, <1>4, <3>1
  <2> QED
    BY <1>4, <2>1, <2>2, <2>3 DEF Progress, Waits
<1>8. Counting(t)'
  <2>1. ASSUME pctx = "live", NEW q \in Probes
        PROVE  tgt'[t].run[q] = "failed" <=> counted'[t][q] # "none"
    <3>1. CASE q = p
      BY <1>4, <1>6, <2>1, <3>1
    <3>2. CASE q # p
      BY <1>4, <1>6, <2>1, <3>2 DEF Counting
    <3> QED
      BY <3>1, <3>2
  <2> QED
    BY <2>1 DEF Counting
<1>9. ASSUME NEW u \in Targets \ {t} PROVE Progress(u)' /\ Counting(u)'
  <2>1. tgt'[u] = tgt[u] /\ export'[u] = export[u] /\ counted'[u] = counted[u]
    BY OutcomeWhere, OutcomeSeries, OutcomeCounted
  <2>2. Progress(u)'
    BY <2>1 DEF Progress
  <2>3. Counting(u)'
    BY <2>1 DEF Counting
  <2> QED
    BY <2>2, <2>3
<1> QED
  BY <1>7, <1>8, <1>9

\* A goroutine that moved without an outcome, its probes as they were.
LEMMA MovedProgress ==
  ASSUME TypeOK, NEW t \in Targets, NEW g, Moved(t, g), UNCHANGED <<pctx, export, counted>>,
         tgt[t].pc \in {"probe"} \cup Waits, g.pc \in Waits,
         g.idx = tgt[t].idx, g.run = tgt[t].run, g.pc = "call" => g.end = "running",
         \A u \in Targets : Progress(u) /\ Counting(u)
  PROVE  \A u \in Targets : Progress(u)' /\ Counting(u)'
<1>1. tgt'[t] = g /\ \A u \in Targets \ {t} : tgt'[u] = tgt[u]
  BY MovedWhere
<1>2. Progress(t)'
  BY <1>1 DEF Progress, Waits
<1>3. Counting(t)'
  BY <1>1 DEF Counting
<1>4. ASSUME NEW u \in Targets \ {t} PROVE Progress(u)' /\ Counting(u)'
  <2>1. tgt'[u] = tgt[u]
    BY <1>1
  <2>2. Progress(u)'
    BY <2>1 DEF Progress
  <2>3. Counting(u)'
    BY <2>1 DEF Counting
  <2> QED
    BY <2>2, <2>3
<1> QED
  BY <1>2, <1>3, <1>4

\* A goroutine that notes which of its probes back off keeps one that does not.
LEMMA AcquireProgress ==
  ASSUME TypeOK, NEW t \in Targets, Acquire(t), \A u \in Targets : Progress(u) /\ Counting(u)
  PROVE  \A u \in Targets : Progress(u)' /\ Counting(u)'
<1>0. tgt[t] \in TargetGoroutine /\ tgt[t].pc = "acquire" /\ UNCHANGED <<pctx, export, counted>>
  BY DEF TypeOK, Acquire
<1>1. PICK plan : plan = Plan(t)
  OBVIOUS
<1>2. PICK slot : Moved(t, [tgt[t] EXCEPT !.pc = "probe", !.slot = slot, !.run = plan])
  BY <1>1, AcquireMoves
<1>3. /\ tgt'[t] = [tgt[t] EXCEPT !.pc = "probe", !.slot = slot, !.run = plan]
      /\ \A u \in Targets \ {t} : tgt'[u] = tgt[u]
  BY <1>2, MovedWhere
<1>4. tgt'[t].pc = "probe" /\ tgt'[t].run = plan /\ tgt'[t].idx = tgt[t].idx /\ tgt'[t].end = tgt[t].end
  BY <1>0, <1>3 DEF TargetGoroutine
<1>5. /\ \A p \in Probes : plan[p] \in {"none", "wait"} /\ ~(p < 1)
      /\ \E p \in Probes : plan[p] # "wait"
  <2>1. 1 \in Probes /\ \A p \in Probes : ~(p < 1)
    BY SizesAssumption DEF Probes
  <2> QED
    BY <1>1, <2>1 DEF Plan
<1>6. tgt[t].idx = 1 /\ tgt[t].end = "running" /\ \A p \in Probes : tgt[t].run[p] = "none"
  BY <1>0 DEF Progress
<1>7. Progress(t)'
  BY <1>4, <1>5, <1>6 DEF Progress, Waits
<1>8. Counting(t)'
  <2>1. ASSUME pctx = "live", NEW p \in Probes
        PROVE  tgt'[t].run[p] = "failed" <=> counted'[t][p] # "none"
    <3>1. counted[t][p] = "none"
      BY <1>6, <2>1 DEF Counting
    <3> QED
      BY <1>0, <1>4, <1>5, <3>1
  <2> QED
    BY <1>0, <2>1 DEF Counting
<1>9. ASSUME NEW u \in Targets \ {t} PROVE Progress(u)' /\ Counting(u)'
  <2>1. tgt'[u] = tgt[u]
    BY <1>3
  <2>2. Progress(u)'
    BY <1>0, <2>1 DEF Progress
  <2>3. Counting(u)'
    BY <1>0, <2>1 DEF Counting
  <2> QED
    BY <2>2, <2>3
<1> QED
  BY <1>7, <1>8, <1>9

\* The end of a target settles its series and its backoff.
LEMMA FinishProgress ==
  ASSUME TypeOK, ProbeAt, NEW t \in Targets, FinishTarget(t),
         \A u \in Targets : Progress(u) /\ Counting(u) /\ BackingOff(u)
  PROVE  \A u \in Targets : Progress(u)' /\ Counting(u)' /\ BackingOff(u)'
<1>1. /\ tgt[t] \in TargetGoroutine
      /\ tgt[t].run \in [Probes -> Runs]
      /\ export \in [Targets -> Export]
      /\ tracker \in [Targets -> Tracker]
      /\ UNCHANGED <<pctx, counted>>
  BY DEF TypeOK, FinishTarget, TargetGoroutine
<1>2. /\ tgt'[t].pc = "done"
      /\ tgt'[t].run = tgt[t].run
      /\ \A u \in Targets \ {t} : tgt'[u] = tgt[u]
  <2>1. Moved(t, [tgt[t] EXCEPT !.pc = "done", !.slot = FALSE])
    BY WaitMoves
  <2>2. tgt'[t] = [tgt[t] EXCEPT !.pc = "done", !.slot = FALSE]
    BY <2>1, MovedWhere
  <2>3. tgt'[t].pc = "done" /\ tgt'[t].run = tgt[t].run
    BY <1>1, <2>2 DEF TargetGoroutine
  <2> QED
    BY <2>1, <2>3, MovedWhere
<1>3. \A p \in Probes :
        /\ tgt[t].run[p] \in {"wait", "ok", "blocked", "failed"}
        /\ export[t].series[p] <=> tgt[t].run[p] \in {"ok", "blocked"}
  <2>1. tgt[t].pc = "probe" /\ tgt[t].idx = NProbes + 1
    BY DEF FinishTarget
  <2>2. \A p \in Probes : p < NProbes + 1
    BY SizesAssumption DEF Probes
  <2> QED
    BY <1>1, <2>1, <2>2 DEF Progress, Runs
<1>4. \E p \in Probes : tgt[t].run[p] # "wait"
  BY DEF Progress, FinishTarget
<1>5. ASSUME AllThatRanFailed(t), NEW b, Failed(t, b)
      PROVE  Progress(t)' /\ BackingOff(t)' /\ \A u \in Targets \ {t} :
               export'[u] = export[u] /\ tracker'[u] = tracker[u]
  <2>1. PICK down : down = [p \in Probes |-> "down"]
    OBVIOUS
  <2>2. export' = [export EXCEPT ![t].target = "down", ![t].probe = down]
    BY <1>5, <2>1 DEF Failed
  <2>3. /\ export'[t].target = "down"
        /\ export'[t].probe = down
        /\ export'[t].series = export[t].series
        /\ \A u \in Targets \ {t} : export'[u] = export[u]
    BY <1>1, <2>2 DEF Export
  <2>4. \A p \in Probes : ~export'[t].series[p] /\ export'[t].probe[p] = "down"
    BY <1>3, <1>5, <2>1, <2>3 DEF AllThatRanFailed
  <2>5. Progress(t)'
    BY <1>2, <2>3, <2>4 DEF Progress, Waits
  <2>6. /\ \A p \in Probes : tracker'[t].pfails[p] = 0 /\ tracker'[t].pwait[p] = 0
        /\ \A u \in Targets \ {t} : tracker'[u] = tracker[u]
    BY <1>1, <1>5 DEF Failed
  <2>7. BackingOff(t)'
    BY <1>4, <2>6 DEF BackingOff
  <2> QED
    BY <2>3, <2>5, <2>6, <2>7
<1>6. ASSUME ~AllThatRanFailed(t), NEW b, Succeeded(t, b)
      PROVE  Progress(t)' /\ BackingOff(t)' /\ \A u \in Targets \ {t} :
               export'[u] = export[u] /\ tracker'[u] = tracker[u]
  <2>1. PICK q \in Probes : tgt[t].run[q] \in {"ok", "blocked"}
    BY <1>3, <1>4, <1>6 DEF AllThatRanFailed
  <2>2. PICK probe : probe = [p \in Probes |-> IF tgt[t].run[p] \in {"wait", "failed"} THEN "down" ELSE "up"]
    OBVIOUS
  <2>3. export' = [export EXCEPT ![t].target = "up", ![t].probe = probe]
    BY <1>6, <2>2 DEF Succeeded
  <2>4. /\ export'[t].target = "up"
        /\ export'[t].probe = probe
        /\ export'[t].series = export[t].series
        /\ \A u \in Targets \ {t} : export'[u] = export[u]
    BY <1>1, <2>3 DEF Export
  <2>5. \A p \in Probes : export'[t].series[p] <=> export'[t].probe[p] = "up"
    BY <1>3, <2>2, <2>4
  <2>6. export'[t].probe[q] = "up"
    BY <2>1, <2>2, <2>4
  <2>7. Progress(t)'
    BY <1>2, <2>4, <2>5, <2>6 DEF Progress, Waits
  <2>8. /\ tracker'[t].fails = 0
        /\ tracker'[t].pwait[q] = 0
        /\ \A u \in Targets \ {t} : tracker'[u] = tracker[u]
    BY <1>1, <1>6, <2>1 DEF Succeeded
  <2>9. BackingOff(t)'
    BY <2>8 DEF BackingOff
  <2> QED
    BY <2>4, <2>7, <2>8, <2>9
<1>7. Progress(t)' /\ BackingOff(t)' /\ \A u \in Targets \ {t} :
               export'[u] = export[u] /\ tracker'[u] = tracker[u]
  BY <1>5, <1>6 DEF FinishTarget
<1>8. Counting(t)'
  BY <1>1, <1>2 DEF Counting
<1>9. ASSUME NEW u \in Targets \ {t} PROVE Progress(u)' /\ Counting(u)' /\ BackingOff(u)'
  <2>1. tgt'[u] = tgt[u] /\ export'[u] = export[u] /\ tracker'[u] = tracker[u]
    BY <1>2, <1>7
  <2>2. Progress(u)'
    BY <2>1 DEF Progress
  <2>3. Counting(u)'
    BY <1>1, <2>1 DEF Counting
  <2>4. BackingOff(u)'
    BY <2>1 DEF BackingOff
  <2> QED
    BY <2>2, <2>3, <2>4
<1> QED
  BY <1>7, <1>8, <1>9

\* A cycle starts with fresh goroutines; a target it skips is down throughout.
LEMMA CycleStartProgress ==
  ASSUME TypeOK, NEW gap \in Gaps, CycleStart(gap),
         \A u \in Targets : Progress(u) /\ Counting(u) /\ BackingOff(u)
  PROVE  \A u \in Targets : Progress(u)' /\ Counting(u)' /\ BackingOff(u)'
<1> SUFFICES ASSUME NEW t \in Targets PROVE Progress(t)' /\ Counting(t)' /\ BackingOff(t)'
  OBVIOUS
<1>1. PICK left : left = Elapse(tracker[t].wait, gap)
  OBVIOUS
<1>2. /\ tgt'[t] = [IdleGoroutine EXCEPT !.pc = IF left > 0 THEN "done" ELSE "acquire"]
      /\ export'[t] = (IF left > 0 THEN SkippedExport ELSE export[t])
      /\ counted' = NothingCounted
  BY <1>1 DEF CycleStart
<1>3. /\ tgt'[t].pc = (IF left > 0 THEN "done" ELSE "acquire")
      /\ tgt'[t].idx = 1
      /\ tgt'[t].end = "running"
      /\ \A p \in Probes : tgt'[t].run[p] = "none"
  BY <1>2 DEF IdleGoroutine
<1>4. Progress(t)'
  <2>1. CASE left > 0
    BY <1>2, <1>3, <2>1 DEF Progress, Waits, SkippedExport
  <2>2. CASE ~(left > 0)
    BY <1>3, <2>2 DEF Progress, Waits
  <2> QED
    BY <2>1, <2>2
<1>5. Counting(t)'
  BY <1>2, <1>3 DEF Counting, NothingCounted
<1>6. BackingOff(t)'
  <2>1. tracker[t] \in Tracker
    BY DEF TypeOK
  <2>2. PICK pwait : pwait = [p \in Probes |-> Elapse(tracker[t].pwait[p], gap)]
    OBVIOUS
  <2>3. tracker'[t] = [tracker[t] EXCEPT !.wait = left, !.pwait = pwait]
    BY <1>1, <2>2 DEF CycleStart
  <2>4. /\ tracker'[t].fails = tracker[t].fails
        /\ tracker'[t].pfails = tracker[t].pfails
        /\ tracker'[t].pwait = pwait
    BY <2>1, <2>3 DEF Tracker
  <2>5. PICK p \in Probes : tracker[t].pwait[p] = 0
    BY DEF BackingOff
  <2>6. pwait[p] = 0
    BY <2>2, <2>5, TimeAssumption DEF Elapse
  <2> QED
    BY <2>4, <2>6 DEF BackingOff
<1> QED
  BY <1>4, <1>5, <1>6

\* A result is counted as none only for a success or for a probe that was canceled.
LEMMA ReasonKnown ==
  ASSUME NEW e, e.out \in Outs, e.end \in Ends
  PROVE  /\ e.out \in {"ok", "blocked"} => FailureReason(e) = "none"
         /\ e.out \notin {"ok", "blocked"} /\ e.end # "canceled" => FailureReason(e) # "none"
BY DEF FailureReason, Outs, Ends

\* The cause of a goroutine's wait stays known when neither it nor its call moves.
LEMMA CauseKept ==
  ASSUME RegistryInv, CancelKnown, pctx' = pctx, NEW u \in Targets, tgt'[u] = tgt[u],
         tgt[u].pc \in Waits => exec'[tgt[u].mine] = exec[tgt[u].mine]
  PROVE  tgt'[u].pc \in Waits =>
           ("canceled" \in {tgt'[u].end, exec'[tgt'[u].mine].ctx, exec'[tgt'[u].mine].end} =>
              pctx' = "canceled")
BY DEF CancelKnown

\* A step of the goroutine of t changes no other goroutine, nor a call another waits
\* for, and leaves its own wait, if it still waits, without a new cause.
LEMMA CausesKept ==
  ASSUME RegistryInv, CancelKnown, UNCHANGED <<poller, pctx, cctx>>, NEW t \in Targets,
         \A u \in Targets \ {t} : tgt'[u] = tgt[u],
         \A c \in Calls : c[1] # t => exec'[c] = exec[c],
         tgt'[t].pc \in Waits =>
           ("canceled" \in {tgt'[t].end, exec'[tgt'[t].mine].ctx, exec'[tgt'[t].mine].end} =>
              pctx = "canceled")
  PROVE  CancelKnown'
<1>1. ASSUME NEW u \in Targets \ {t}
      PROVE  tgt'[u].pc \in Waits =>
               ("canceled" \in {tgt'[u].end, exec'[tgt'[u].mine].ctx, exec'[tgt'[u].mine].end} =>
                  pctx' = "canceled")
  <2>1. tgt[u].pc \in Waits => exec'[tgt[u].mine] = exec[tgt[u].mine]
    BY Awaited
  <2> QED
    BY <2>1, CauseKept
<1> QED
  BY <1>1 DEF CancelKnown

LEMMA CancelKept ==
  ASSUME RegistryInv, CancelKnown, \A t \in Targets : Progress(t), Next
  PROVE  CancelKnown'
<1> TypeOK /\ ProbeAt
  BY DEF RegistryInv
<1>1. CASE PollerStart
  BY <1>1 DEF PollerStart, IdleGoroutine, CancelKnown, Waits
<1>2. ASSUME NEW gap \in Gaps, CycleStart(gap) PROVE CancelKnown'
  <2>1. \A t \in Targets : tgt'[t].pc \in {"done", "acquire"}
    BY <1>2 DEF CycleStart, IdleGoroutine
  <2> QED
    BY <1>2, <2>1 DEF CycleStart, CancelKnown, Waits
<1>3. CASE CycleDeadline
  <2>1. cctx' = "deadline" /\ exec' = EndProbes("deadline") /\ UNCHANGED <<poller, pctx, tgt>>
    BY <1>3 DEF CycleDeadline
  <2>2. ASSUME NEW t \in Targets, tgt[t].pc \in Waits,
               "canceled" \in {tgt[t].end, exec'[tgt[t].mine].ctx, exec'[tgt[t].mine].end}
        PROVE  pctx = "canceled"
    <3>1. PICK c : c = tgt[t].mine
      OBVIOUS
    <3>2. c \in Calls
      BY <2>2, <3>1, Awaited
    <3>3. exec'[c].end = exec[c].end /\ exec'[c].ctx \in {exec[c].ctx, "deadline"}
      BY <2>1, <3>2, EndProbesKeeps
    <3> QED
      BY <2>2, <3>1, <3>3 DEF CancelKnown
  <2> QED
    BY <2>1, <2>2 DEF CancelKnown
<1>4. CASE PollerCancel
  BY <1>4 DEF PollerCancel, CancelKnown
<1>5. CASE PollerStep
  BY <1>5 DEF PollerStep, CycleEnd, PollerStop, CancelKnown
<1>6. ASSUME NEW t \in Targets, TargetStep(t) \/ ProbeTimeout(t)
      PROVE  CancelKnown'
  <2>0. tgt[t] \in TargetGoroutine
    BY DEF TypeOK
  <2>1. CASE Acquire(t)
    <3>1. PICK slot, run : Moved(t, [tgt[t] EXCEPT !.pc = "probe", !.slot = slot, !.run = run])
      BY <2>1, AcquireMoves
    <3>2. tgt'[t].pc = "probe" /\ \A u \in Targets \ {t} : tgt'[u] = tgt[u]
      <4>1. [tgt[t] EXCEPT !.pc = "probe", !.slot = slot, !.run = run].pc = "probe"
        BY <2>0 DEF TargetGoroutine
      <4> QED
        BY <3>1, <4>1, MovedWhere
    <3> QED
      BY <2>1, <3>2, CausesKept DEF Acquire, Waits
  <2>2. CASE SkipProbe(t) \/ RefuseProbe(t)
    <3>1. PICK run, reason : tgt[t].idx \in Probes /\ Outcome(t, run, reason)
      BY <2>2 DEF SkipProbe, RefuseProbe, AtProbe
    <3>2. tgt'[t].pc = "probe" /\ \A u \in Targets \ {t} : tgt'[u] = tgt[u]
      BY <3>1, OutcomeWhere
    <3> QED
      BY <2>2, <3>2, CausesKept DEF SkipProbe, RefuseProbe, Waits
  <2>3. CASE StartProbe(t)
    <3>1. PICK c \in Calls :
           /\ c[1] = t
           /\ exec' = [exec EXCEPT ![c] = [FreeExecutor EXCEPT !.pc = "running",
                                                               !.probe = tgt[t].idx]]
           /\ Moved(t, [tgt[t] EXCEPT !.pc = "call", !.mine = c])
      BY <2>3, StartMoves
    <3>2. tgt'[t] = [tgt[t] EXCEPT !.pc = "call", !.mine = c] /\ \A u \in Targets \ {t} : tgt'[u] = tgt[u]
      BY <3>1, MovedWhere
    <3>3. tgt'[t].mine = c /\ tgt'[t].end = tgt[t].end
      BY <2>0, <3>2 DEF TargetGoroutine
    <3>4. tgt[t].end = "running"
      BY <2>3 DEF StartProbe, AtProbe, Progress
    <3>5. exec'[c].ctx = "running" /\ exec'[c].end = "running"
      BY <3>1 DEF TypeOK, FreeExecutor
    <3>6. \A d \in Calls : d[1] # t => exec'[d] = exec[d]
      BY <3>1 DEF TypeOK
    <3>7. UNCHANGED <<poller, pctx, cctx>>
      BY <2>3 DEF StartProbe
    <3>8. "canceled" \notin {tgt'[t].end, exec'[tgt'[t].mine].ctx, exec'[tgt'[t].mine].end}
      BY <3>3, <3>4, <3>5
    <3> QED
      BY <3>2, <3>6, <3>7, <3>8, CausesKept
  <2>4. CASE ProbeTimeout(t)
    <3>1. PICK m : m = tgt[t].mine
      OBVIOUS
    <3>2. exec' = [exec EXCEPT ![m].ctx = "timedout"] /\ UNCHANGED <<poller, pctx, cctx, tgt>>
      BY <2>4, <3>1 DEF ProbeTimeout
    <3>3. m \in Calls /\ m[1] = t
      BY <2>4, <3>1, Awaited DEF ProbeTimeout, Waits
    <3>4. exec'[m].ctx = "timedout" /\ exec'[m].end = exec[m].end /\ \A d \in Calls \ {m} : exec'[d] = exec[d]
      BY <3>2, <3>3 DEF TypeOK, Executor
    <3>5. tgt[t].pc \in Waits =>
           ("canceled" \in {tgt[t].end, exec'[m].ctx, exec'[m].end} => pctx = "canceled")
      BY <3>1, <3>4 DEF CancelKnown
    <3> QED
      BY <3>1, <3>2, <3>3, <3>4, <3>5, CausesKept
  <2>5. CASE ProbeDone(t)
    <3>1. PICK m, end : m = tgt[t].mine /\ end = exec[m].ctx
      OBVIOUS
    <3>2. Moved(t, [tgt[t] EXCEPT !.pc = "grace", !.end = end])
      BY <2>5, <3>1, WaitMoves
    <3>3. tgt'[t] = [tgt[t] EXCEPT !.pc = "grace", !.end = end] /\ \A u \in Targets \ {t} : tgt'[u] = tgt[u]
      BY <3>2, MovedWhere
    <3>4. tgt'[t].end = end /\ tgt'[t].mine = m
      BY <2>0, <3>1, <3>3 DEF TargetGoroutine
    <3>5. UNCHANGED <<poller, pctx, cctx, exec>> /\ tgt[t].pc \in Waits
      BY <2>5 DEF ProbeDone, Waits
    <3>6. "canceled" \in {tgt'[t].end, exec'[tgt'[t].mine].ctx, exec'[tgt'[t].mine].end} =>
            pctx = "canceled"
      BY <3>1, <3>4, <3>5 DEF CancelKnown
    <3> QED
      BY <3>3, <3>5, <3>6, CausesKept
  <2>6. CASE GraceExpires(t) \/ AbandonTooLate(t)
    <3>1. PICK pc : Moved(t, [tgt[t] EXCEPT !.pc = pc])
      BY <2>6, WaitMoves
    <3>2. tgt'[t] = [tgt[t] EXCEPT !.pc = pc] /\ \A u \in Targets \ {t} : tgt'[u] = tgt[u]
      BY <3>1, MovedWhere
    <3>3. tgt'[t].end = tgt[t].end /\ tgt'[t].mine = tgt[t].mine
      BY <2>0, <3>2 DEF TargetGoroutine
    <3>4. UNCHANGED <<poller, pctx, cctx, exec>> /\ tgt[t].pc \in Waits
      BY <2>6 DEF GraceExpires, AbandonTooLate, Waits
    <3>5. "canceled" \in {tgt'[t].end, exec'[tgt'[t].mine].ctx, exec'[tgt'[t].mine].end} =>
            pctx = "canceled"
      BY <3>3, <3>4 DEF CancelKnown
    <3> QED
      BY <3>2, <3>4, <3>5, CausesKept
  <2>7. CASE AbandonCall(t) \/ ReceiveResult(t)
    <3>1. PICK m : m = tgt[t].mine
      OBVIOUS
    <3>2. m \in Calls /\ m[1] = t /\ tgt[t].idx \in Probes
      BY <2>7, <3>1, Awaited DEF AbandonCall, ReceiveResult, Waits
    <3>3. PICK run, reason : Outcome(t, run, reason)
      BY <2>7 DEF AbandonCall, ReceiveResult
    <3>4. tgt'[t].pc = "probe" /\ \A u \in Targets \ {t} : tgt'[u] = tgt[u]
      BY <3>2, <3>3, OutcomeWhere
    <3>5. \A c \in Calls \ {m} : exec'[c] = exec[c]
      BY <2>7, <3>1 DEF AbandonCall, ReceiveResult, TypeOK
    <3>6. UNCHANGED <<poller, pctx, cctx>>
      BY <2>7 DEF AbandonCall, ReceiveResult
    <3> QED
      BY <3>2, <3>4, <3>5, <3>6, CausesKept DEF Waits
  <2>8. CASE FinishTarget(t)
    <3>1. Moved(t, [tgt[t] EXCEPT !.pc = "done", !.slot = FALSE])
      BY <2>8, WaitMoves
    <3>2. tgt'[t].pc = "done" /\ \A u \in Targets \ {t} : tgt'[u] = tgt[u]
      <4>1. [tgt[t] EXCEPT !.pc = "done", !.slot = FALSE].pc = "done"
        BY <2>0 DEF TargetGoroutine
      <4> QED
        BY <3>1, <4>1, MovedWhere
    <3> QED
      BY <2>8, <3>2, CausesKept DEF FinishTarget, Waits
  <2> QED
    BY <1>6, <2>1, <2>2, <2>3, <2>4, <2>5, <2>6, <2>7, <2>8 DEF TargetStep
<1>7. ASSUME NEW c \in Calls, ExecutorReturns(c) \/ FinishCall(c) \/ SendResult(c)
      PROVE  CancelKnown'
  <2>1. UNCHANGED <<poller, pctx, cctx, tgt>> /\ \A d \in Calls \ {c} : exec'[d] = exec[d]
    BY <1>7 DEF ExecutorReturns, FinishCall, SendResult, TypeOK
  <2>2. c[1] \in Targets /\ exec[c] \in Executor
    BY CallIsACall DEF TypeOK
  <2>3. "canceled" \in {exec'[c].ctx, exec'[c].end} => "canceled" \in {exec[c].ctx, exec[c].end}
    <3>1. CASE ExecutorReturns(c)
      <4>1. PICK out, ctx : /\ ctx = exec[c].ctx
                            /\ exec' = [exec EXCEPT ![c].pc = "returned", ![c].out = out, ![c].end = ctx]
        BY <3>1 DEF ExecutorReturns
      <4>2. exec'[c].ctx = exec[c].ctx /\ exec'[c].end = ctx
        BY <2>2, <4>1 DEF TypeOK, Executor
      <4> QED
        BY <4>1, <4>2
    <3>2. CASE FinishCall(c)
      <4>1. exec'[c] = FreeExecutor \/ exec'[c] = [exec[c] EXCEPT !.pc = "finished"]
        BY <3>2 DEF FinishCall, TypeOK
      <4> QED
        BY <2>2, <4>1 DEF FreeExecutor, Executor
    <3>3. CASE SendResult(c)
      <4>1. exec'[c] = [exec[c] EXCEPT !.pc = "sent"]
        BY <3>3 DEF SendResult, TypeOK
      <4> QED
        BY <2>2, <4>1 DEF Executor
    <3> QED
      BY <1>7, <3>1, <3>2, <3>3
  <2>4. PICK t \in Targets : t = c[1]
    BY <2>2
  <2>5. \A d \in Calls : d[1] # t => exec'[d] = exec[d]
    BY <2>1, <2>4
  <2>6. tgt[t].pc \in Waits =>
           ("canceled" \in {tgt[t].end, exec'[tgt[t].mine].ctx, exec'[tgt[t].mine].end} =>
              pctx = "canceled")
    <3>1. PICK m : m = tgt[t].mine
      OBVIOUS
    <3>2. tgt[t].pc \in Waits => m \in Calls
      BY <3>1, Awaited
    <3>3. CASE m = c
      BY <2>3, <3>1, <3>3 DEF CancelKnown
    <3>4. CASE m # c
      BY <2>1, <3>1, <3>2, <3>4 DEF CancelKnown
    <3> QED
      BY <3>3, <3>4
  <2> QED
    BY <2>1, <2>5, <2>6, CausesKept
<1> QED
  BY <1>1, <1>2, <1>3, <1>4, <1>5, <1>6, <1>7 DEF Next

\* A step that touches none of them keeps the outcomes of every target.
LEMMA ProgressStill ==
  ASSUME UNCHANGED <<tgt, export, counted, tracker>>, pctx' = "live" => pctx = "live",
         \A u \in Targets : Progress(u) /\ Counting(u) /\ BackingOff(u)
  PROVE  \A u \in Targets : Progress(u)' /\ Counting(u)' /\ BackingOff(u)'
<1>1. \A u \in Targets : Progress(u)'
  BY DEF Progress
<1>2. \A u \in Targets : Counting(u)'
  BY DEF Counting
<1>3. \A u \in Targets : BackingOff(u)'
  BY DEF BackingOff
<1> QED
  BY <1>1, <1>2, <1>3

\* Every step keeps the outcomes of every target.
LEMMA ProgressKept ==
  ASSUME RegistryInv, CycleInv, Next
  PROVE  \A u \in Targets : Progress(u)' /\ Counting(u)' /\ BackingOff(u)'
<1> TypeOK /\ ProbeAt
  BY DEF RegistryInv
<1> CancelKnown /\ \A u \in Targets : Progress(u) /\ Counting(u) /\ BackingOff(u)
  BY DEF CycleInv
<1> DEFINE Goal == \A u \in Targets : Progress(u)' /\ Counting(u)' /\ BackingOff(u)'
<1>1. CASE PollerStart
  <2> SUFFICES ASSUME NEW u \in Targets PROVE Progress(u)' /\ Counting(u)' /\ BackingOff(u)'
    OBVIOUS
  <2>1. Progress(u)'
    BY <1>1 DEF PollerStart, Progress, IdleGoroutine, Waits
  <2>2. Counting(u)'
    BY <1>1 DEF PollerStart, Counting, IdleGoroutine, NothingCounted
  <2>3. BackingOff(u)'
    <3>1. 1 \in Probes
      BY SizesAssumption DEF Probes
    <3> QED
      BY <1>1, <3>1 DEF PollerStart, BackingOff, newTargetTracker
  <2> QED
    BY <2>1, <2>2, <2>3
<1>2. ASSUME NEW gap \in Gaps, CycleStart(gap) PROVE Goal
  BY <1>2, CycleStartProgress
<1>3. CASE CycleDeadline
  BY <1>3, ProgressStill DEF CycleDeadline
<1>4. CASE PollerCancel
  BY <1>4, ProgressStill DEF PollerCancel
<1>5. CASE CycleEnd
  BY <1>5, ProgressStill DEF CycleEnd
<1>6. CASE PollerStop
  <2> SUFFICES ASSUME NEW u \in Targets PROVE Progress(u)' /\ Counting(u)' /\ BackingOff(u)'
    OBVIOUS
  <2>1. /\ pctx' = "canceled" /\ export'[u] = NoSeries
        /\ tgt' = tgt /\ tracker' = tracker
        /\ tgt[u].pc \in {"off", "done"}
    BY <1>6 DEF PollerStop, RegistryInv, NoneOutlives
  <2>2. Progress(u)'
    BY <2>1 DEF Progress, NoSeries, Waits
  <2>3. Counting(u)'
    BY <2>1 DEF Counting
  <2>4. BackingOff(u)'
    BY <2>1 DEF BackingOff
  <2> QED
    BY <2>2, <2>3, <2>4
<1>7. ASSUME NEW t \in Targets, TargetStep(t) \/ ProbeTimeout(t)
      PROVE  Goal
  <2>0. tgt[t] \in TargetGoroutine
    BY DEF TypeOK
  <2>1. ASSUME tracker' = tracker PROVE \A u \in Targets : BackingOff(u)'
    BY <2>1 DEF BackingOff
  <2>2. CASE Acquire(t)
    BY <2>1, <2>2, AcquireProgress DEF Acquire
  <2>3. CASE SkipProbe(t)
    <3>1. \A u \in Targets : Progress(u)' /\ Counting(u)'
      BY <2>3, OutcomeProgress DEF SkipProbe, AtProbe
    <3> QED
      BY <2>1, <2>3, <3>1 DEF SkipProbe
  <2>4. CASE RefuseProbe(t)
    <3>1. PICK reason : /\ Outcome(t, "failed", reason)
                        /\ reason = IF cctx = "canceled" THEN "none" ELSE "not_started"
      BY <2>4 DEF RefuseProbe
    <3>2. tgt[t].pc = "probe" /\ tgt[t].idx \in Probes /\ pctx' = pctx /\ tracker' = tracker
      BY <2>4 DEF RefuseProbe, AtProbe
    <3>3. pctx = "live" => reason # "none"
      <4>1. poller = "cycle"
        BY <3>2 DEF RegistryInv, NoneOutlives
      <4> QED
        BY <3>1, <4>1 DEF CancelKnown
    <3>4. \A u \in Targets : Progress(u)' /\ Counting(u)'
      BY <3>1, <3>2, <3>3, OutcomeProgress
    <3> QED
      BY <2>1, <3>2, <3>4
  <2>5. CASE StartProbe(t)
    <3>1. PICK c \in Calls : Moved(t, [tgt[t] EXCEPT !.pc = "call", !.mine = c])
      BY <2>5, StartMoves
    <3>2. PICK g : g = [tgt[t] EXCEPT !.pc = "call", !.mine = c]
      OBVIOUS
    <3>3. g.pc = "call" /\ g.idx = tgt[t].idx /\ g.run = tgt[t].run /\ g.end = tgt[t].end
      BY <2>0, <3>2 DEF TargetGoroutine
    <3>4. /\ UNCHANGED <<pctx, export, counted, tracker>>
          /\ tgt[t].pc = "probe"
          /\ tgt[t].end = "running"
      BY <2>5 DEF StartProbe, AtProbe, Progress
    <3>5. \A u \in Targets : Progress(u)' /\ Counting(u)'
      BY <3>1, <3>2, <3>3, <3>4, MovedProgress DEF Waits
    <3> QED
      BY <2>1, <3>4, <3>5
  <2>6. CASE ProbeTimeout(t)
    BY <2>6, ProgressStill DEF ProbeTimeout
  <2>7. CASE ProbeDone(t) \/ GraceExpires(t) \/ AbandonTooLate(t)
    <3>1. PICK g : /\ Moved(t, g)
                   /\ g.pc \in Waits \ {"call"}
                   /\ g.idx = tgt[t].idx
                   /\ g.run = tgt[t].run
      <4>1. CASE ProbeDone(t)
        <5>1. PICK end : Moved(t, [tgt[t] EXCEPT !.pc = "grace", !.end = end])
          BY <4>1, WaitMoves
        <5>2. PICK g : g = [tgt[t] EXCEPT !.pc = "grace", !.end = end]
          OBVIOUS
        <5>3. g.pc = "grace" /\ g.idx = tgt[t].idx /\ g.run = tgt[t].run
          BY <2>0, <5>2 DEF TargetGoroutine
        <5> QED
          BY <5>1, <5>2, <5>3 DEF Waits
      <4>2. CASE GraceExpires(t) \/ AbandonTooLate(t)
        <5>1. PICK pc \in {"expired", "late"} : Moved(t, [tgt[t] EXCEPT !.pc = pc])
          BY <4>2, WaitMoves
        <5>2. PICK g : g = [tgt[t] EXCEPT !.pc = pc]
          OBVIOUS
        <5>3. g.pc = pc /\ g.idx = tgt[t].idx /\ g.run = tgt[t].run
          BY <2>0, <5>2 DEF TargetGoroutine
        <5> QED
          BY <5>1, <5>2, <5>3 DEF Waits
      <4> QED
        BY <2>7, <4>1, <4>2
    <3>2. tgt[t].pc \in Waits /\ UNCHANGED <<pctx, export, counted, tracker>>
      BY <2>7 DEF ProbeDone, GraceExpires, AbandonTooLate, Waits
    <3>3. \A u \in Targets : Progress(u)' /\ Counting(u)'
      BY <3>1, <3>2, MovedProgress
    <3> QED
      BY <2>1, <3>2, <3>3
  <2>8. CASE AbandonCall(t)
    <3>1. PICK reason : /\ Outcome(t, "failed", reason)
                        /\ reason = IF tgt[t].end = "canceled" THEN "none" ELSE "timeout"
      BY <2>8 DEF AbandonCall
    <3>2. tgt[t].pc \in Waits /\ pctx' = pctx /\ tracker' = tracker
      BY <2>8 DEF AbandonCall, Waits
    <3>3. tgt[t].idx \in Probes
      BY <3>2, Awaited
    <3>4. pctx = "live" => reason # "none"
      BY <3>1, <3>2 DEF CancelKnown
    <3>5. \A u \in Targets : Progress(u)' /\ Counting(u)'
      BY <3>1, <3>2, <3>3, <3>4, OutcomeProgress
    <3> QED
      BY <2>1, <3>2, <3>5
  <2>9. CASE ReceiveResult(t)
    <3>1. PICK e : e = exec[tgt[t].mine]
      OBVIOUS
    <3>2. tgt[t].pc \in Waits /\ pctx' = pctx /\ tracker' = tracker
      BY <2>9 DEF ReceiveResult, Waits
    <3>3. tgt[t].idx \in Probes /\ tgt[t].mine \in Calls
      BY <3>2, Awaited
    <3>4. e.out \in Outs /\ e.end \in Ends
      BY <3>1, <3>3 DEF TypeOK, Executor
    <3>5. PICK run, reason :
            /\ Outcome(t, run, reason)
            /\ run = IF e.out \in {"ok", "blocked"} THEN e.out ELSE "failed"
            /\ reason = FailureReason(e)
      BY <2>9, <3>1 DEF ReceiveResult
    <3>6. pctx = "live" => e.end # "canceled"
      BY <3>1, <3>2 DEF CancelKnown
    <3>7. run \in {"ok", "blocked", "failed"} /\ (pctx = "live" => (run = "failed" <=> reason # "none"))
      BY <3>4, <3>5, <3>6, ReasonKnown
    <3>8. \A u \in Targets : Progress(u)' /\ Counting(u)'
      BY <3>2, <3>3, <3>5, <3>7, OutcomeProgress
    <3> QED
      BY <2>1, <3>2, <3>8
  <2>10. CASE FinishTarget(t)
    BY <2>10, FinishProgress
  <2> QED
    BY <1>7, <2>2, <2>3, <2>4, <2>5, <2>6, <2>7, <2>8, <2>9, <2>10 DEF TargetStep
<1>8. ASSUME NEW c \in Calls, ExecutorReturns(c) \/ FinishCall(c) \/ SendResult(c)
      PROVE  Goal
  BY <1>8, ProgressStill DEF ExecutorReturns, FinishCall, SendResult
<1> QED
  BY <1>1, <1>2, <1>3, <1>4, <1>5, <1>6, <1>7, <1>8 DEF Next, PollerStep

LEMMA CycleKept ==
  ASSUME RegistryInv, CycleInv, Next
  PROVE  CycleInv'
<1>1. \A u \in Targets : Progress(u)' /\ Counting(u)' /\ BackingOff(u)'
  BY ProgressKept
<1>2. CancelKnown'
  BY CancelKept DEF CycleInv
<1>3. ASSUME poller' = "stopped", NEW t \in Targets PROVE export'[t] = NoSeries
  <2>1. CASE PollerStop
    BY <2>1 DEF PollerStop
  <2>2. CASE poller = "stopped" /\ export' = export
    BY <2>2 DEF CycleInv
  <2>3. poller = "stopped" => \A u \in Targets : tgt[u].pc \in {"off", "done"}
    BY DEF RegistryInv, NoneOutlives
  <2>4. ASSUME NEW u \in Targets, TargetStep(u) \/ ProbeTimeout(u)
        PROVE  poller' = poller /\ tgt[u].pc \notin {"off", "done"}
    BY <2>4 DEF TargetStep, Acquire, SkipProbe, RefuseProbe, StartProbe, ProbeTimeout, ProbeDone,
                GraceExpires, AbandonCall, AbandonTooLate, ReceiveResult, FinishTarget, AtProbe
  <2>5. ASSUME NEW c \in Calls, ExecutorReturns(c) \/ FinishCall(c) \/ SendResult(c)
        PROVE  poller' = poller /\ export' = export
    BY <2>5 DEF ExecutorReturns, FinishCall, SendResult
  <2>6. ASSUME NEW gap \in Gaps, CycleStart(gap) PROVE poller' = "cycle"
    BY <2>6 DEF CycleStart
  <2>7. PollerStart \/ CycleEnd => poller' = "idle"
    BY DEF PollerStart, CycleEnd
  <2>8. CycleDeadline \/ PollerCancel => poller' = poller /\ export' = export
    BY DEF CycleDeadline, PollerCancel
  <2> QED
    BY <1>3, <2>1, <2>2, <2>3, <2>4, <2>5, <2>6, <2>7, <2>8 DEF Next, PollerStep
<1> QED
  BY <1>1, <1>2, <1>3 DEF CycleInv

LEMMA CycleStarts ==
  ASSUME Init
  PROVE  CycleInv
<1>1. 1 \in Probes
  BY SizesAssumption DEF Probes
<1>2. ASSUME NEW t \in Targets PROVE Progress(t) /\ Counting(t) /\ BackingOff(t)
  BY <1>1 DEF Init, Progress, Counting, BackingOff, IdleGoroutine, newTargetTracker, Waits
<1>3. CancelKnown
  BY DEF Init, CancelKnown, IdleGoroutine, Waits
<1> QED
  BY <1>2, <1>3 DEF Init, CycleInv

\* What a cycle has recorded, goroutine by goroutine, in every state.
THEOREM CycleInvariant == Spec => [](RegistryInv /\ CycleInv)
<1>1. RegistryInv /\ CycleInv /\ [Next]_vars => CycleInv'
  <2>1. CycleInv /\ UNCHANGED vars => CycleInv'
    BY DEF vars, CycleInv, CancelKnown, Progress, Counting, BackingOff
  <2> QED
    BY <2>1, CycleKept
<1> QED
  BY <1>1, CycleStarts, RegistryInvariant, PTL DEF Spec

\* Between the cycles of any collector a probe exports its series exactly while
\* probe_up says it is up, target_up follows from its probes, and a Poller that
\* returned (forgetCollector) leaves nothing exported.
THEOREM SeriesAreTruthful == Spec => []SeriesTruthful
<1>1. CycleInv => SeriesTruthful
  BY DEF CycleInv, Progress, SeriesTruthful, Settled
<1> QED
  BY <1>1, CycleInvariant, PTL

\* A cycle that was not canceled counts exactly its failed probes, and the tracker
\* (targetTracker) backs off a target as a whole or through its probes, never both
\* and never all of them.
THEOREM FailuresAreCounted == Spec => []FailuresCounted
<1>1. CycleInv => FailuresCounted
  BY DEF CycleInv, Counting, BackingOff, FailuresCounted, Settled
<1> QED
  BY <1>1, CycleInvariant, PTL
=============================================================================
