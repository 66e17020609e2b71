---------------------------- MODULE EntryPoints ----------------------------
(***************************************************************************)
(* PatientZero's entry points (tools/patientzero/internal/app): requests   *)
(* admitted up to a limit or turned away, the log rows each one commits,   *)
(* at once or held back by a commit-delay fault, and what is counted of    *)
(* them meanwhile: the run's traffic (internal/traffic), the ledger of     *)
(* committed rows (oslog/ledger.go) that delivery checks compare Loki      *)
(* with, and the log lines about turned away requests.                     *)
(*                                                                         *)
(* A request commits one row.  A tick of the clock is a fraction of a      *)
(* second; what is written at one tick stands for any order within it.     *)
(***************************************************************************)
EXTENDS Integers, FiniteSets, FiniteSetsExt

CONSTANTS
    Requests,      \* numbered as they arrive
    MaxInFlight,   \* Server.MaxInFlight
    Every,         \* shedReportEvery, in ticks
    PerSecond,     \* ticks in a second
    Delay,         \* of the commit-delay fault, in ticks
    PruneEvery,    \* in ticks
    Retention,     \* LedgerRetention, in ticks
    Reach,         \* MaxDeliveryReach, in ticks
    MaxTime,       \* bound: ticks
    Never

\* What a line about a run's traffic counts.
Tallied == {"requests", "shed", "rows"}

ASSUME EntryPointsAssumptions ==
    /\ MaxInFlight \in Nat \ {0} /\ PerSecond \in Nat \ {0} /\ MaxTime \in Nat
    /\ {Every, Delay, PruneEvery, Reach, Retention} \subseteq Nat
    /\ Requests \subseteq Nat /\ Reach <= Retention /\ Never \notin Nat /\ Never \notin [Tallied -> Nat]

VARIABLES
    now,
    request,   \* the requests and the goroutines that commit held rows
    holding,   \* whether a commit-delay fault is on
    report,    \* shedReport
    reported,  \* shed requests in log lines
    hasty,     \* whether two lines were logged within Every
    counter,   \* traffic.Counter
    lines,     \* the traffic lines of the run's journal
    ledger     \* Ledger

counting == <<counter, lines>>
server == <<now, request, holding, report, reported, hasty, counting, ledger>>

-----------------------------------------------------------------------------
\* at: "new", "run", "held", "write", "account", "observe", "shed" or "done".
NewRequest == [at |-> "new", instant |-> Never, held |-> FALSE, stored |-> FALSE]
Nothing == [what \in Tallied |-> 0]

Arrives(r) == request[r].at = "new" /\ \A q \in Requests : q < r => request[q].at # "new"

InFlight == {r \in Requests : request[r].at \in {"run", "write", "account", "observe"} /\ ~request[r].held}

\* Mutant: The second a row's Instant is in, not the one that ends with it.
Bucket_Floor(t) == t \div PerSecond

\* bucket: the second whose (second-1, second] holds t
Bucket(t) == (t + PerSecond - 1) \div PerSecond

Unix(t) == t \div PerSecond

ServerInit ==
    /\ now = 0 /\ request = [r \in Requests |-> NewRequest] /\ holding = FALSE
    /\ report = [last |-> Never, held |-> 0, due |-> Never] /\ reported = 0 /\ hasty = FALSE
    /\ counter = [active |-> FALSE, interval |-> Nothing, run |-> Nothing]
    /\ lines = [intervals |-> Nothing, total |-> Never]
    /\ ledger = [rows |-> [s \in 0..Bucket(MaxTime) |-> 0], late |-> [s \in 0..Bucket(MaxTime) |-> 0],
                 pruned |-> Never]

-----------------------------------------------------------------------------
(* The run's traffic.                                                      *)

\* Observe, Shed and Committed count only while a run is active.
Count(what) ==
    counter' = IF counter.active
               THEN [counter EXCEPT !.interval[what] = @ + 1, !.run[what] = @ + 1]
               ELSE counter

Begin ==
    /\ ~counter.active /\ lines.total = Never
    /\ counter' = [active |-> TRUE, interval |-> Nothing, run |-> Nothing]
    /\ UNCHANGED <<now, request, holding, report, reported, hasty, lines, ledger>>

Plus(a, b) == [what \in DOMAIN a |-> a[what] + b[what]]

\* Flush, at every tick of the run's ticker, and its journal line.
Flush ==
    /\ counter.active
    /\ counter' = [counter EXCEPT !.interval = Nothing]
    /\ lines' = [lines EXCEPT !.intervals = Plus(@, counter.interval)]
    /\ UNCHANGED <<now, request, holding, report, reported, hasty, ledger>>

\* Mutant: The interval that the run's end cuts off is not written.
LastInterval_Lost == Nothing

LastInterval == counter.interval

\* End, and the run's last two traffic lines
EndRun ==
    /\ counter.active
    /\ counter' = [active |-> FALSE, interval |-> Nothing, run |-> Nothing]
    /\ lines' = [intervals |-> Plus(lines.intervals, LastInterval), total |-> counter.run]
    /\ UNCHANGED <<now, request, holding, report, reported, hasty, ledger>>

-----------------------------------------------------------------------------
(* Requests turned away.                                                   *)

Line(n) ==
    /\ reported' = reported + n
    /\ hasty' = (hasty \/ (report.last # Never /\ now - report.last < Every))
    /\ report' = [last |-> now, held |-> 0, due |-> Never]

\* limiter: a request the tokens do not admit, and shedReport.add
Shed(r) ==
    /\ Arrives(r) /\ Cardinality(InFlight) >= MaxInFlight
    /\ request' = [request EXCEPT ![r].at = "shed"]
    /\ Count("shed")
    /\ IF report.due # Never \/ (report.last # Never /\ now - report.last < Every)
       THEN /\ report' = [report EXCEPT !.held = @ + 1,
                             !.due = IF @ = Never THEN report.last + Every ELSE @]
            /\ UNCHANGED <<reported, hasty>>
       ELSE Line(report.held + 1)
    /\ UNCHANGED <<now, holding, lines, ledger>>

\* shedReport.flush, by its timer
ReportFlush ==
    /\ report.due # Never /\ now >= report.due
    /\ Line(report.held)
    /\ UNCHANGED <<now, request, holding, counting, ledger>>

-----------------------------------------------------------------------------
(* Requests served.                                                        *)

Admit(r) ==
    /\ Arrives(r) /\ Cardinality(InFlight) < MaxInFlight
    /\ request' = [request EXCEPT ![r].at = "run"]
    /\ UNCHANGED <<now, holding, report, reported, hasty, counting, ledger>>

\* The handler has its rows; finish writes them now, or a goroutine will,
\* Delay from now, while the response goes out and is observed.
Finish(r) ==
    /\ request[r].at = "run"
    /\ IF holding
       THEN request' = [request EXCEPT ![r] = [@ EXCEPT !.at = "held", !.instant = now, !.held = TRUE]]
            /\ Count("requests")
       ELSE request' = [request EXCEPT ![r] = [@ EXCEPT !.at = "write", !.instant = now]]
            /\ UNCHANGED counter
    /\ UNCHANGED <<now, holding, report, reported, hasty, lines, ledger>>

\* Logs.Write commits the rows, or fails: then they are nowhere.
WriteRows(r) ==
    /\ \/ request[r].at = "write"
       \/ request[r].at = "held" /\ now >= request[r].instant + Delay
    /\ \/ request' = [request EXCEPT ![r] = [@ EXCEPT !.at = "account", !.stored = TRUE]]
       \/ request' = [request EXCEPT ![r].at = IF @ = "held" THEN "done" ELSE "observe"]
    /\ UNCHANGED <<now, holding, report, reported, hasty, counting, ledger>>

\* prune: once in PruneEvery, what is older than Retention
PruneLedger(rows) ==
    IF ledger.pruned # Never /\ now - ledger.pruned < PruneEvery THEN rows
    ELSE [s \in DOMAIN rows |-> IF s < Unix(now - Retention) THEN 0 ELSE rows[s]]

\* Ledger.Add, and Counter.Committed
Account(r) ==
    LET b == Bucket(request[r].instant) IN
    /\ request[r].at = "account"
    /\ ledger' = [rows |-> PruneLedger([ledger.rows EXCEPT ![b] = @ + 1]),
                  late |-> PruneLedger([ledger.late EXCEPT ![b] = @ + IF request[r].held THEN 1 ELSE 0]),
                  pruned |-> IF ledger.pruned # Never /\ now - ledger.pruned < PruneEvery
                             THEN ledger.pruned ELSE now]
    /\ Count("rows")
    /\ request' = [request EXCEPT ![r].at = IF request[r].held THEN "done" ELSE "observe"]
    /\ UNCHANGED <<now, holding, report, reported, hasty, lines>>

Observe(r) ==
    /\ request[r].at = "observe"
    /\ Count("requests")
    /\ request' = [request EXCEPT ![r].at = "done"]
    /\ UNCHANGED <<now, holding, report, reported, hasty, lines, ledger>>

\* A step of a run switches the fault on or off.
CommitDelay ==
    /\ holding' = ~holding
    /\ UNCHANGED <<now, request, report, reported, hasty, counting, ledger>>

Tick ==
    /\ now < MaxTime /\ now' = now + 1
    /\ UNCHANGED <<request, holding, report, reported, hasty, counting, ledger>>

ServerNext ==
    \/ Begin \/ Flush \/ EndRun \/ ReportFlush \/ CommitDelay \/ Tick
    \/ \E r \in Requests : Admit(r) \/ Shed(r) \/ Finish(r) \/ WriteRows(r) \/ Account(r) \/ Observe(r)

ServerSpec == ServerInit /\ [][ServerNext]_server

-----------------------------------------------------------------------------
(* What a delivery check reads.                                            *)

\* Ledger.Count
Counted(f, from, to) ==
    MapThenSumSet(LAMBDA s : f[s], {s \in DOMAIN f : Unix(from) < s /\ s <= Unix(to)})

-----------------------------------------------------------------------------
(* Properties.                                                             *)

\* Nothing is counted twice or lost between two counts: the intervals of an
\* ended run add up to the run's own totals, whatever requests ended,
\* were turned away or committed late around the ticker and the run's end;
\* every request turned away is in one log line, or a flush is due that
\* will put it in one (the last of a burst too), and no two lines are
\* closer than the report allows.
CountsAddUp ==
    /\ lines.total # Never => lines.intervals = lines.total
    /\ reported + report.held = Cardinality({r \in Requests : request[r].at = "shed"})
    /\ report.held > 0 => report.due # Never
    /\ ~hasty

\* The ledger is the known answer of a delivery check: for every window of
\* rows within MaxDeliveryReach it counts the committed rows whose Instant
\* is in the window, both ends cut to the second, and which of them were
\* held back, however late they were committed and whatever was pruned.
LedgerExact ==
    \A from \in 0..now : \A to \in from..now : now - from <= Reach =>
       LET inside == {r \in Requests :
               /\ request[r].stored /\ request[r].at # "account"
               /\ request[r].instant > Unix(from) * PerSecond
               /\ request[r].instant <= Unix(to) * PerSecond} IN
       /\ Counted(ledger.rows, from, to) = Cardinality(inside)
       /\ Counted(ledger.late, from, to) = Cardinality({r \in inside : request[r].held})
=============================================================================
