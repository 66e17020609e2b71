--------------------------- MODULE LogExtraction ---------------------------
(***************************************************************************)
(* The extraction of one OutSystems log type (collectors/outsystems):      *)
(* the calls of RunProbe, the batches they read behind the lag, the        *)
(* background export that moves the watermark once the OTel Collector      *)
(* took a batch, the watermark in memory and on disk, and the recount that *)
(* looks for rows committed past the lag.                                  *)
(*                                                                         *)
(* A row is a pair <<Instant, number>>; Rows is what the log service will  *)
(* ever write, and when it commits a row is up to it.  Time is counted in  *)
(* the units of Instant.  A crash loses everything but the watermark file  *)
(* and what the Collector accepted.                                        *)
(***************************************************************************)
EXTENDS Integers, FiniteSets, FiniteSetsExt

CONSTANTS
  Rows,             \* the rows the log service writes: pairs <<Instant, number>>
  MaxTime,          \* bound: the clock stops here
  Lag,              \* lag of the log type
  InitialLookback,  \* initial_lookback
  BatchLimit,       \* batch_limit
  MaxBatches,       \* Executor.maxBatches()
  Minute,           \* length of a minute of the recount
  Window,           \* recount_window in minutes; 0 is off
  MaxCrashes        \* bound: restarts of the process

ASSUME ExtractionAssumption ==
  /\ IsFiniteSet(Rows)
  /\ \A r \in Rows : r[1] \in 1 .. MaxTime
  /\ {MaxTime, Lag, InitialLookback, Window, MaxCrashes} \subseteq Nat
  /\ {BatchLimit, MaxBatches, Minute} \subseteq Nat \ {0}

Times == -InitialLookback .. MaxTime
NoMark == MaxTime + 1

VARIABLES
  now,        \* the clock
  db,         \* rows committed in the logging database
  late,       \* history: rows committed later than the lag
  mem, disk,  \* Store: the watermark in memory and in its file
  call,       \* the RunProbe call in progress
  export,     \* exportState.pending: the background export
  scope,      \* exportState.collectors: "none", "live" or "orphaned"
  up,         \* the collector runs (InitCollector, ForgetCollector)
  accepted,   \* how often the Collector took each row (2: more than once)
  recount,    \* recountState
  crashes,    \* restarts so far
  lost,       \* history: the answer to some accepted export was lost
  waived      \* history: a start without a watermark left out Instants up to here

store == <<mem, disk>>
history == <<crashes, lost, waived>>
vars == <<now, db, late, store, call, export, scope, up, accepted, recount, history>>

-----------------------------------------------------------------------------

\* pc of a call: "batch" (about to choose the upper bound), "query", "await"
\* (waiting for the batch it exported), "recount".
Call ==
  [pc : {"idle", "batch", "query", "await", "recount"}, mark : Times, to : Times,
   full : BOOLEAN, n : 1 .. MaxBatches, done : BOOLEAN]

\* An export: "sending", "accepted" (about to save the watermark), "ending"
\* (about to close done), "failed" (kept for the next call to report).
Export ==
  [pc : {"none", "sending", "accepted", "ending", "failed"}, rows : SUBSET Rows,
   next : Times, err : BOOLEAN, canceled : BOOLEAN]

Minutes == 0 .. MaxTime \div Minute + 1
Counts == [Minutes -> 0 .. Cardinality(Rows)]

Recount ==
  [on : BOOLEAN, floor : Int, high : Times, delivered : Counts, late : Counts, duplicate : Counts]

TypeOK ==
  /\ now \in 0 .. MaxTime
  /\ db \subseteq Rows
  /\ late \subseteq db
  /\ {mem, disk} \subseteq Times \cup {NoMark}
  /\ call \in Call
  /\ export \in Export
  /\ scope \in {"none", "live", "orphaned"}
  /\ up \in BOOLEAN
  /\ accepted \in [Rows -> 0 .. 2]
  /\ recount \in Recount
  /\ crashes \in 0 .. MaxCrashes
  /\ lost \in BOOLEAN
  /\ waived \in Times

IdleCall ==
  [pc |-> "idle", mark |-> 0, to |-> 0, full |-> FALSE, n |-> 1, done |-> FALSE]

NoExport == [pc |-> "none", rows |-> {}, next |-> 0, err |-> FALSE, canceled |-> FALSE]

Zero == [m \in Minutes |-> 0]

NoRecount ==
  [on |-> FALSE, floor |-> 0, high |-> 0, delivered |-> Zero, late |-> Zero, duplicate |-> Zero]

Init ==
  /\ now = 0
  /\ db = {}
  /\ late = {}
  /\ mem = NoMark
  /\ disk = NoMark
  /\ call = IdleCall
  /\ export = NoExport
  /\ scope = "none"
  /\ up = TRUE
  /\ accepted = [r \in Rows |-> 0]
  /\ recount = NoRecount
  /\ crashes = 0
  /\ lost = FALSE
  /\ waived = -InitialLookback

-----------------------------------------------------------------------------
(* The environment                                                         *)

Tick ==
  /\ now < MaxTime
  /\ now' = now + 1
  /\ UNCHANGED <<db, late, store, call, export, scope, up, accepted, recount, history>>

\* The log service commits a row, in time or later than the lag.
Commit(r) ==
  /\ r \notin db
  /\ r[1] <= now
  /\ db' = db \cup {r}
  /\ late' = IF r[1] <= now - Lag THEN late \cup {r} ELSE late
  /\ UNCHANGED <<now, store, call, export, scope, up, accepted, recount, history>>

\* The process stops, by a crash or in order (Close cancels the exports that are
\* still running), and starts again with nothing but the watermark file.
Restart ==
  /\ crashes < MaxCrashes
  /\ crashes' = crashes + 1
  /\ mem' = NoMark
  /\ call' = IdleCall
  /\ export' = NoExport
  /\ scope' = "none"
  /\ up' = TRUE
  /\ recount' = NoRecount
  /\ UNCHANGED <<now, db, late, disk, accepted, lost, waived>>

-----------------------------------------------------------------------------
(* The collector starts and stops                                          *)

\* ForgetCollector: the Poller has returned.  A call that still runs was
\* abandoned: its context is done.
ForgetCollector ==
  /\ up
  /\ call.pc = "idle" \/ call.done
  /\ up' = FALSE
  /\ scope' = IF scope = "none" THEN scope ELSE "orphaned"
  /\ UNCHANGED <<now, db, late, store, call, export, accepted, recount, history>>

\* InitCollector: the exports of the collector go on.
InitCollector ==
  /\ ~up
  /\ up' = TRUE
  /\ scope' = IF scope = "orphaned" THEN "live" ELSE scope
  /\ UNCHANGED <<now, db, late, store, call, export, accepted, recount, history>>

\* The orphan timer fires: the exports are canceled and failed ones forgotten.
OrphanFires ==
  /\ scope = "orphaned"
  /\ scope' = "none"
  /\ export' = IF export.pc = "failed" THEN NoExport
               ELSE IF export.pc = "none" THEN export
               ELSE [export EXCEPT !.canceled = TRUE]
  /\ UNCHANGED <<now, db, late, store, call, up, accepted, recount, history>>

-----------------------------------------------------------------------------
(* RunProbe                                                                *)

minuteEnd(t) == -((-t) \div Minute)

\* Mutant: the first minute is compared although it began before the counts.
RecountStart_FloorDown(mark) ==
  IF Window = 0 THEN NoRecount
  ELSE IF recount.on /\ mark >= recount.high THEN [recount EXCEPT !.high = mark]
  ELSE [NoRecount EXCEPT !.on = TRUE, !.floor = mark \div Minute, !.high = mark]

\* recountState.start: the counts go on, or start again at the watermark.
RecountStart(mark) ==
  IF Window = 0 THEN NoRecount
  ELSE IF recount.on /\ mark >= recount.high THEN [recount EXCEPT !.high = mark]
  ELSE [NoRecount EXCEPT !.on = TRUE, !.floor = minuteEnd(mark), !.high = mark]

\* Store.Load: the watermark in memory, or else in the file.
Loaded == IF mem # NoMark THEN mem ELSE disk

\* Where extraction starts without a watermark.
Start == now - InitialLookback

\* RunProbe finds no export left from an earlier call: it loads the watermark, or
\* starts from the lookback and remembers that in memory.
BeginCall ==
  LET fresh == Loaded = NoMark
      mark == IF fresh THEN Start ELSE Loaded
  IN
  /\ up
  /\ call.pc = "idle"
  /\ export.pc = "none"
  /\ mem' = mark
  /\ waived' = IF fresh /\ mark > waived THEN mark ELSE waived
  /\ recount' = RecountStart(mark)
  /\ call' = [IdleCall EXCEPT !.pc = "batch", !.mark = mark]
  /\ UNCHANGED <<now, db, late, disk, export, scope, up, accepted, crashes, lost>>

\* Mutant: the failure is reported but not forgotten.
ReportFailure_Keeps ==
  /\ up
  /\ call.pc = "idle"
  /\ export.pc = "failed"
  /\ UNCHANGED vars

\* awaitExport at the start of a call reports an export that has failed.
ReportFailure ==
  /\ up
  /\ call.pc = "idle"
  /\ export.pc = "failed"
  /\ export' = NoExport
  /\ UNCHANGED <<now, db, late, store, call, scope, up, accepted, recount, history>>

\* The probe's deadline passes while the call is running.
CallDeadline ==
  /\ call.pc # "idle"
  /\ ~call.done
  /\ call' = [call EXCEPT !.done = TRUE]
  /\ UNCHANGED <<now, db, late, store, export, scope, up, accepted, recount, history>>

\* extractBatch, its bounds: nothing to read, or a query up to the lag.
ChooseBounds ==
  /\ call.pc = "batch"
  /\ LET to == now - Lag
     IN call' = IF to <= call.mark THEN [call EXCEPT !.pc = "await", !.full = FALSE]
                                   ELSE [call EXCEPT !.pc = "query", !.to = to]
  /\ UNCHANGED <<now, db, late, store, export, scope, up, accepted, recount, history>>

\* No budget is left to hold a batch, the query fails, its result breaks the
\* contract, or every row of a full batch has the same Instant (ErrBatchStuck; then
\* nothing else can follow the query): the call ends without a batch.
NoBatch ==
  /\ call.pc = "query"
  /\ call' = IdleCall
  /\ UNCHANGED <<now, db, late, store, export, scope, up, accepted, recount, history>>

LastOf(rows) == Max({r[1] : r \in rows})

\* The query's result: the first BatchLimit rows by Instant, or, when the byte
\* budget is used up, the rows up to the first one of a later Instant.
Results ==
  LET found == {r \in db : call.mark < r[1] /\ r[1] <= call.to}
      prefix(b) == \A x \in b, y \in found \ b : x[1] <= y[1]
      partial(b) == /\ Cardinality({r \in b : r[1] = LastOf(b)}) = 1
                    /\ Cardinality({r[1] : r \in b}) > 1
  IN
  {[rows |-> b, full |-> Cardinality(b) = BatchLimit] :
     b \in {x \in SUBSET found : prefix(x) /\
              (Cardinality(x) = BatchLimit \/ (x = found /\ Cardinality(x) < BatchLimit))}}
  \cup
  {[rows |-> b, full |-> TRUE] :
     b \in {x \in SUBSET found : x # {} /\ prefix(x) /\ partial(x) /\ Cardinality(x) <= BatchLimit}}

\* What of a result is delivered now: a full batch leaves its last Instant to the
\* next one.
Delivered(result) ==
  IF result.full THEN {r \in result.rows : r[1] < LastOf(result.rows)} ELSE result.rows

NextMark(result) ==
  IF result.full THEN LastOf(Delivered(result)) ELSE call.to

\* extractBatch with rows to deliver: the export starts, in the scope of the
\* collector, which it creates if need be.
StartExport ==
  /\ call.pc = "query"
  /\ \E result \in Results :
       /\ Delivered(result) # {}
       /\ export' = [NoExport EXCEPT !.pc = "sending", !.rows = Delivered(result),
                                     !.next = NextMark(result)]
       /\ call' = [call EXCEPT !.pc = "await", !.full = result.full, !.mark = NextMark(result)]
  /\ scope' = IF scope = "none" THEN "live" ELSE scope
  /\ UNCHANGED <<now, db, late, store, up, accepted, recount, crashes, lost, waived>>

\* extractBatch without rows: the watermark moves at once.  When the file cannot
\* be written the call fails, and the watermark has moved in memory only.
EmptyBatch ==
  /\ call.pc = "query"
  /\ \E result \in Results : result.rows = {}
  /\ mem' = call.to
  /\ \/ disk' = call.to /\ call' = [call EXCEPT !.pc = "await", !.full = FALSE]
     \/ disk' = disk /\ call' = IdleCall
  /\ UNCHANGED <<now, db, late, export, scope, up, accepted, recount, history>>

\* Mutant: the deadline is not checked.
MoreToRead_IgnoresDeadline == call.full /\ call.n < MaxBatches

\* The call reads another batch; timeLeft is false once its context is done.
MoreToRead == call.full /\ call.n < MaxBatches /\ ~call.done

\* awaitExport after a batch finds no export any more: it was accepted (or there
\* was none).  The call reads on or ends with a recount.
BatchDone ==
  /\ call.pc = "await"
  /\ export.pc = "none"
  /\ \/ MoreToRead /\ call' = [call EXCEPT !.pc = "batch", !.n = @ + 1]
     \/ call' = [call EXCEPT !.pc = "recount"]
  /\ UNCHANGED <<now, db, late, store, export, scope, up, accepted, recount, history>>

\* awaitExport reports the failure of the batch.
BatchFailed ==
  /\ call.pc = "await"
  /\ export.pc = "failed"
  /\ export' = NoExport
  /\ call' = IdleCall
  /\ UNCHANGED <<now, db, late, store, scope, up, accepted, recount, history>>

\* awaitExport stops waiting: the log type is blocked until the export ends.
BatchBlocked ==
  /\ call.pc = "await"
  /\ export.pc \in {"sending", "accepted", "ending"}
  /\ call' = IdleCall
  /\ UNCHANGED <<now, db, late, store, export, scope, up, accepted, recount, history>>

-----------------------------------------------------------------------------
(* The background export                                                   *)

OneMore(n) == IF n < 2 THEN n + 1 ELSE n

Accept == accepted' = [r \in Rows |-> IF r \in export.rows THEN OneMore(accepted[r]) ELSE accepted[r]]

ExportAccepted ==
  /\ export.pc = "sending"
  /\ Accept
  /\ export' = [export EXCEPT !.pc = "accepted"]
  /\ UNCHANGED <<now, db, late, store, call, scope, up, recount, history>>

\* The export ends with an error; the Collector may have taken the batch.
ExportRejected ==
  /\ export.pc = "sending"
  /\ \/ UNCHANGED <<accepted, lost>>
     \/ Accept /\ lost' = TRUE
  /\ export' = [export EXCEPT !.pc = "ending", !.err = TRUE]
  /\ UNCHANGED <<now, db, late, store, call, scope, up, recount, crashes, waived>>

\* recountState.delivered counts the rows and drops the minutes that have left
\* the window.
CountDelivered(log, rows) ==
  LET oldest == minuteEnd(LastOf(rows)) - Window - 1
      kept(counts) == [m \in Minutes |-> IF m <= oldest THEN 0 ELSE counts[m]]
      counted == [m \in Minutes |->
                    log.delivered[m] + Cardinality({r \in rows : minuteEnd(r[1]) = m})]
  IN
  IF ~log.on THEN log
  ELSE [log EXCEPT !.delivered = kept(counted), !.late = kept(log.late),
                   !.duplicate = kept(log.duplicate)]

\* Mutant: the watermark moves in memory only once the file is written.
SaveWatermark_FileFirst ==
  /\ export.pc = "accepted"
  /\ recount' = CountDelivered(recount, export.rows)
  /\ \/ disk' = export.next /\ mem' = export.next /\ export' = [export EXCEPT !.pc = "ending"]
     \/ UNCHANGED store /\ export' = [export EXCEPT !.pc = "ending", !.err = TRUE]
  /\ UNCHANGED <<now, db, late, call, scope, up, accepted, history>>

\* The rows are counted and the watermark is saved: in memory, and in the file
\* unless that fails.
SaveWatermark ==
  /\ export.pc = "accepted"
  /\ recount' = CountDelivered(recount, export.rows)
  /\ mem' = export.next
  /\ \/ disk' = export.next /\ export' = [export EXCEPT !.pc = "ending"]
     \/ disk' = disk /\ export' = [export EXCEPT !.pc = "ending", !.err = TRUE]
  /\ UNCHANGED <<now, db, late, call, scope, up, accepted, history>>

\* The export ends under the lock.  A failure stays for the next call, unless the
\* collector is gone.
ExportEnds ==
  /\ export.pc = "ending"
  /\ export' = IF export.err /\ scope = "live" THEN [export EXCEPT !.pc = "failed"] ELSE NoExport
  /\ UNCHANGED <<now, db, late, store, call, scope, up, accepted, recount, history>>

-----------------------------------------------------------------------------
(* The recount                                                             *)

More(a, b) == IF a < b THEN b ELSE a

\* recountState.window and compare: what the minutes in (lo, hi] hold more or
\* less than was delivered there; each difference is counted once.
Compared(log, mark) ==
  LET hi == mark \div Minute
      lo == More(hi - Window, log.floor)
      extra(m) == Cardinality({r \in db : minuteEnd(r[1]) = m}) - log.delivered[m]
      kept(counts) == [m \in Minutes |-> IF m <= lo THEN 0 ELSE counts[m]]
      inside(m) == lo < m /\ m <= hi
  IN
  IF hi <= lo THEN log
  ELSE [log EXCEPT
     !.delivered = kept(log.delivered),
     !.late = kept([m \in Minutes |-> IF inside(m) THEN More(log.late[m], extra(m)) ELSE log.late[m]]),
     !.duplicate = kept([m \in Minutes |->
                     IF inside(m) THEN More(log.duplicate[m], -extra(m)) ELSE log.duplicate[m]])]

\* recount at the end of a call, if it is due; otherwise the call just ends.
RunRecount ==
  /\ call.pc = "recount"
  /\ call' = IdleCall
  /\ \/ UNCHANGED recount
     \/ recount.on /\ ~call.done /\ recount' = Compared(recount, Loaded)
  /\ UNCHANGED <<now, db, late, store, export, scope, up, accepted, history>>

-----------------------------------------------------------------------------

CallStep ==
  \/ BeginCall \/ ReportFailure \/ ChooseBounds \/ StartExport \/ EmptyBatch
  \/ BatchDone \/ BatchFailed \/ RunRecount

ExportStep == SaveWatermark \/ ExportEnds

Next ==
  \/ Tick \/ \E r \in Rows : Commit(r)
  \/ Restart \/ ForgetCollector \/ InitCollector \/ OrphanFires
  \/ CallStep \/ CallDeadline \/ NoBatch \/ BatchBlocked
  \/ ExportAccepted \/ ExportRejected \/ ExportStep

Spec == Init /\ [][Next]_vars

\* The clock runs, goroutines keep running, a canceled export ends, and a stopped
\* collector is started again and gets to a cycle.  A query succeeds if it is tried
\* over and over, and so does an export; between two successes they may fail, and
\* the deadline may pass, any number of times.
Fairness ==
  /\ WF_vars(Tick) /\ WF_vars(InitCollector)
  /\ WF_vars(CallStep) /\ WF_vars(ExportStep) /\ SF_vars(BeginCall \/ ReportFailure)
  /\ WF_vars(ExportRejected /\ export.canceled)
  /\ SF_vars(StartExport) /\ SF_vars(EmptyBatch) /\ SF_vars(ExportAccepted)

FairSpec == Spec /\ Fairness

-----------------------------------------------------------------------------
(* Properties                                                              *)

\* The watermark passes no row that was committed within the lag and is not
\* delivered, in memory or on disk, whatever fails between reading a batch and
\* saving its watermark.  Only a start without a watermark leaves rows out.
NoRowPassed ==
  \A r \in db \ late : \A mark \in {mem, disk} \ {NoMark} :
    waived < r[1] /\ r[1] <= mark => accepted[r] > 0

\* A row is delivered twice only after a restart or a lost answer: failed saves,
\* blocked exports, abandoned calls and restarts of the collector never make the
\* extraction read it again.
NoRowTwice == crashes = 0 /\ ~lost => \A r \in Rows : accepted[r] < 2

\* The recount reports only what it is for: what it counts as late in a minute was
\* committed past the lag and not delivered, and it never reports a duplicate (no
\* row is ever deleted here), also in the minute the counts started in, for rows
\* the first start left out and after failed and blocked exports.
RecountTruthful ==
  \A m \in Minutes :
    /\ recount.duplicate[m] = 0
    /\ recount.late[m] <= Cardinality({r \in late : minuteEnd(r[1]) = m /\ accepted[r] = 0})

\* Every row committed in time is delivered in the end, whatever fails or restarts
\* on the way, unless a start without a watermark left it out: no failed, blocked
\* or orphaned export stops the log type for good.  Rows too young for the last
\* upper bound of this instance are left out.
TimelyRowsDelivered ==
  \A r \in Rows : r[1] <= MaxTime - Lag =>
    (r \in db \ late ~> accepted[r] > 0 \/ r[1] <= waived)
=============================================================================
