-------------------------- MODULE BackgroundExports --------------------------
(***************************************************************************)
(* What the log types of an outsystems_logs collector share (collectors/   *)
(* outsystems: extractor.go, export.go, derived.go): the bytes of the      *)
(* batches they hold, the collector's entry that keeps its background      *)
(* exports going for a grace period after it stopped, and the derived      *)
(* metrics with their series budget and label caps.  An export outlives    *)
(* the call that started it, and the collector's poller.                   *)
(*                                                                         *)
(* Of the rows of a batch one is kept, an entry point whose duration is    *)
(* known; watermarks are LogExtraction's.  The values of series and the    *)
(* counter of dropped observations are left out.                           *)
(***************************************************************************)
EXTENDS Integers, FiniteSets, FiniteSetsExt

CONSTANTS
    LogTypes,
    MaxBatchBytes, MaxHeldBytes, MinBatchBytes,
    Overshoot,        \* bytes of rows of one Instant, read past a grant
    Limits,           \* values of max_derived_series
    DefaultLimit,     \* DefaultLogMaxDerivedSeries
    HistogramSeries,  \* series of a histogram's label set
    Applications,     \* of the rows; Garbled among them
    Garbled,          \* not valid UTF-8: Prometheus rejects it as a label value
    Other,            \* otherValue
    MaxApplications,
    Unset

ASSUME ExportsAssumptions ==
    /\ IsFiniteSet(LogTypes)
    /\ {MaxBatchBytes, MinBatchBytes} \subseteq Nat \ {0} /\ MinBatchBytes <= MaxBatchBytes
    /\ {MaxHeldBytes, Overshoot, MaxApplications, DefaultLimit} \subseteq Nat
    /\ HistogramSeries \in Nat \ {0} /\ Limits \subseteq Nat \ {0}
    /\ Other \notin Applications /\ Unset \notin Nat

VARIABLES
    poller,   \* "off", "starting", "on" or "stopping": between two steps of InitCollector and ForgetCollector
    own,      \* the collector's collectorExports: "none", "live" or "orphaned"
    batch,    \* the call of each log type
    sending,  \* the export of each log type
    held,     \* exportState.held
    budget,   \* seriesBudget of the collector
    vectors,  \* the derived series there are
    gauge,    \* MetricDerivedSeries, Unset when there is none
    seen,     \* labelCaps of application
    stray      \* whether an export counted rows while its collector was not running, or under labels of an earlier run

derived == <<budget, vectors, gauge, seen, stray>>
exports == <<poller, own, batch, sending, held, derived>>

-----------------------------------------------------------------------------
\* at: "idle", "read" (bytes reserved, the query runs) or "build".
Unread == [at |-> "idle", bytes |-> 0]

\* at: "none", "send", "label", "count", "observe", "end" or "failed".
Unsent == [at |-> "none", bytes |-> 0, ok |-> TRUE, canceled |-> FALSE,
             stale |-> FALSE, row |-> Unset]

NoBudget == [limit |-> Unset, keys |-> {}, series |-> 0]

ExportsInit ==
    /\ poller = "off" /\ own = "none" /\ held = 0
    /\ batch = [l \in LogTypes |-> Unread] /\ sending = [l \in LogTypes |-> Unsent]
    /\ budget = NoBudget /\ vectors = {} /\ gauge = Unset /\ seen = {} /\ stray = FALSE

-----------------------------------------------------------------------------
(* The collector starts and stops.                                         *)

\* InitCollector: exports.adopt
Adopt ==
    /\ poller = "off" /\ poller' = "starting"
    /\ own' = IF own = "orphaned" THEN "live" ELSE own
    /\ UNCHANGED <<batch, sending, held, derived>>

\* derived.init
InitDerived(limit) ==
    /\ poller = "starting" /\ poller' = "on"
    /\ budget' = [budget EXCEPT !.limit = limit] /\ gauge' = budget.series
    /\ UNCHANGED <<own, batch, sending, held, vectors, seen, stray>>

\* ForgetCollector: exports.orphan.  Calls the poller abandoned may still run.
Orphan ==
    /\ poller = "on" /\ poller' = "stopping"
    /\ own' = IF own = "live" THEN "orphaned" ELSE own
    /\ UNCHANGED <<batch, sending, held, derived>>

\* derived.forget
ForgetDerived ==
    /\ poller = "stopping" /\ poller' = "off"
    /\ budget' = NoBudget /\ vectors' = {} /\ gauge' = Unset /\ seen' = {} /\ stray' = FALSE
    /\ sending' = [l \in LogTypes |-> [sending[l] EXCEPT !.stale = (sending[l].at \in {"count", "observe"})]]
    /\ UNCHANGED <<own, batch, held>>

\* The timer of orphan: the exports are canceled, and failures forgotten.
OrphanExpires ==
    /\ own = "orphaned" /\ own' = "none"
    /\ sending' = [l \in LogTypes |->
          IF sending[l].at = "failed" THEN Unsent
          ELSE [sending[l] EXCEPT !.canceled = (sending[l].at = "send")]]
    /\ UNCHANGED <<poller, batch, held, derived>>

-----------------------------------------------------------------------------
(* A call reads a batch.                                                   *)

\* reserve
Grant ==
    LET grant == Min({MaxBatchBytes, MaxHeldBytes - held}) IN
    IF grant < Min({MaxBatchBytes, MinBatchBytes}) THEN 0 ELSE grant

\* awaitExport: the failure of an export is reported by the next call.
AwaitExport(l) ==
    /\ poller = "on" /\ batch[l] = Unread /\ sending[l].at = "failed"
    /\ sending' = [sending EXCEPT ![l] = Unsent]
    /\ UNCHANGED <<poller, own, batch, held, derived>>

\* A log type whose export runs, or that gets no bytes, is blocked.
Reserve(l) ==
    /\ poller = "on" /\ batch[l] = Unread /\ sending[l].at = "none" /\ Grant > 0
    /\ held' = held + Grant
    /\ batch' = [batch EXCEPT ![l] = [at |-> "read", bytes |-> Grant]]
    /\ UNCHANGED <<poller, own, sending, derived>>

\* The query returned rows; their bytes may exceed the grant (readRows).
ReadBatch(l, bytes) ==
    /\ batch[l].at = "read"
    /\ held' = held - (batch[l].bytes - bytes)
    /\ batch' = [batch EXCEPT ![l] = [at |-> "build", bytes |-> bytes]]
    /\ UNCHANGED <<poller, own, sending, derived>>

\* Mutant: What a batch without an export held is not given back.
BatchFails_Kept(l) ==
    /\ batch[l].at \in {"read", "build"}
    /\ held' = IF batch[l].at = "read" THEN held - batch[l].bytes ELSE held
    /\ batch' = [batch EXCEPT ![l] = Unread]
    /\ UNCHANGED <<poller, own, sending, derived>>

\* The query failed, its rows break the contract or are stuck, or it has none.
BatchFails(l) ==
    /\ batch[l].at \in {"read", "build"}
    /\ held' = held - batch[l].bytes
    /\ batch' = [batch EXCEPT ![l] = Unread]
    /\ UNCHANGED <<poller, own, sending, derived>>

\* startExport, under the collector's entry, which it makes when there is none.
BeginExport(l, row) ==
    /\ batch[l].at = "build"
    /\ sending' = [sending EXCEPT ![l] = [Unsent EXCEPT !.at = "send", !.bytes = batch[l].bytes, !.row = row]]
    /\ batch' = [batch EXCEPT ![l] = Unread]
    /\ own' = IF own = "none" THEN "live" ELSE own
    /\ UNCHANGED <<poller, held, derived>>

-----------------------------------------------------------------------------
(* The export, in the background.                                          *)

\* The Collector accepted the batch, or it was refused or canceled; the
\* metrics are updated only if the collector still runs (exportState.live).
Exported(l) ==
    /\ sending[l].at = "send"
    /\ \E ok \in BOOLEAN :
          /\ sending[l].canceled => ~ok
          /\ sending' = [sending EXCEPT ![l] =
                [@ EXCEPT !.at = IF ok /\ own = "live" THEN "label" ELSE "end", !.ok = ok]]
    /\ UNCHANGED <<poller, own, batch, held, derived>>

\* labelCaps.value
Value(v) ==
    IF v \in seen \/ Cardinality(seen) < MaxApplications THEN v ELSE Other

\* observe: the row's labels, then one metric after another.
Label(l) ==
    LET v == Value(sending[l].row) IN
    /\ sending[l].at = "label"
    /\ seen' = seen \cup ({v} \ {Other})
    /\ sending' = [sending EXCEPT ![l] = [@ EXCEPT !.at = "count", !.row = v]]
    /\ UNCHANGED <<poller, own, batch, held, budget, vectors, gauge, stray>>

Limit == IF budget.limit = Unset THEN DefaultLimit ELSE budget.limit

\* Mutant: A series that Prometheus rejects keeps its place in the budget.
Held_Rejected(keys, rejected) == keys

\* releaseLocked
Held(keys, rejected) == keys \ rejected

\* admitLocked, the series written, and those released that Prometheus rejects.
Write(l, cost, sets) ==
    LET fresh == sets \ budget.keys
        rejected == IF sending[l].row = Garbled THEN sets ELSE {}
        keys == Held(budget.keys \cup fresh, rejected)
        series == budget.series + cost * (Cardinality(keys) - Cardinality(budget.keys))
    IN  IF fresh # {} /\ budget.series + cost * Cardinality(fresh) > Limit
        THEN UNCHANGED <<budget, vectors, gauge, stray>>
        ELSE /\ budget' = [budget EXCEPT !.keys = keys, !.series = series]
             /\ vectors' = vectors \cup (sets \ rejected)
             /\ gauge' = IF fresh # {} THEN series ELSE gauge
             /\ stray' = (stray \/ sending[l].stale \/ poller # "on")

\* countOutcome: the series of both outcomes
CountOutcome(l) ==
    /\ sending[l].at = "count"
    /\ Write(l, 1, {<<"operations", sending[l].row, outcome>> : outcome \in {"success", "error"}})
    /\ sending' = [sending EXCEPT ![l].at = "observe"]
    /\ UNCHANGED <<poller, own, batch, held, seen>>

\* observeValue: a histogram
ObserveValue(l) ==
    /\ sending[l].at = "observe"
    /\ Write(l, HistogramSeries, {<<"duration", sending[l].row, "success">>})
    /\ sending' = [sending EXCEPT ![l].at = "end"]
    /\ UNCHANGED <<poller, own, batch, held, seen>>

\* The bytes are released; a failure stays for the next call to report,
\* unless the collector is gone.
EndExport(l) ==
    /\ sending[l].at = "end"
    /\ held' = held - sending[l].bytes
    /\ sending' = [sending EXCEPT ![l] =
          IF ~sending[l].ok /\ own = "live" THEN [Unsent EXCEPT !.at = "failed", !.ok = FALSE] ELSE Unsent]
    /\ UNCHANGED <<poller, own, batch, derived>>

ExportsNext ==
    \/ Adopt \/ Orphan \/ ForgetDerived \/ OrphanExpires
    \/ \E n \in Limits : InitDerived(n)
    \/ \E l \in LogTypes :
          \/ AwaitExport(l) \/ Reserve(l) \/ BatchFails(l)
          \/ \E bytes \in 1..(batch[l].bytes + Overshoot) : ReadBatch(l, bytes)
          \/ \E row \in Applications : BeginExport(l, row)
          \/ Exported(l) \/ Label(l) \/ CountOutcome(l) \/ ObserveValue(l) \/ EndExport(l)

ExportsSpec == ExportsInit /\ [][ExportsNext]_exports

-----------------------------------------------------------------------------
(* Properties.                                                             *)

Bytes == [l \in LogTypes |->
    batch[l].bytes + (IF sending[l].at \in {"none", "failed"} THEN 0 ELSE sending[l].bytes)]

\* The bytes that count as held are those of the batches being read or
\* exported, whatever failed, was canceled or outlived its collector; so
\* none are lost to the log types that wait for them, and once every batch
\* is gone all of them are free again.  Past the bound is only what
\* readRows reads past a grant.
HeldBytesExact ==
    /\ held = MapThenSumSet(LAMBDA l : Bytes[l], LogTypes)
    /\ held <= MaxHeldBytes + Cardinality(LogTypes) * Overshoot

Cost == [k \in vectors |-> IF k[1] = "duration" THEN HistogramSeries ELSE 1]

\* The budget is true: it holds exactly the derived series there are, at
\* what they cost, and the gauge says so; and unless an export counted
\* rows between two runs of its collector, they fit the collector's
\* max_derived_series and have as many applications as their cap allows.
SeriesWithinBudget ==
    /\ budget.keys = vectors /\ budget.series = MapThenSumSet(LAMBDA k : Cost[k], vectors)
    /\ gauge # Unset => gauge = budget.series
    /\ vectors # {} => gauge # Unset
    /\ ~stray => /\ budget.series <= Limit
                /\ Cardinality({k[2] : k \in vectors} \ {Other}) <= MaxApplications
=============================================================================
