------------------------------ MODULE SelfLogs ------------------------------
(***************************************************************************)
(* logQueue of internal/telemetry: the log records of a service on their   *)
(* way to the Collector.  Goroutines that log add to a bounded queue and   *)
(* never block; one goroutine batches and exports; a shutdown lets it send *)
(* what is queued, until it runs out of time.                              *)
(*                                                                         *)
(* add is three steps of a logger: the bytes are counted, then the record  *)
(* is sent to the channel or the bytes are given back.                     *)
(***************************************************************************)
EXTENDS OtlpClient

CONSTANTS
    Queue,              \* the queue, a sender of the OTLP client
    Logged,             \* the records, each logged once by a goroutine
    MaxQueuedRecords,   \* capacity of the channel
    MaxQueuedBytes,
    MaxBatchRecords

ASSUME SelfLogsAssumptions ==
    /\ Queue \in Senders /\ Logged \subseteq Records /\ IsFiniteSet(Records)
    /\ MaxQueuedRecords \in Nat /\ MaxQueuedBytes \in Nat /\ MaxBatchRecords \in Nat \ {0}

VARIABLES
    adding,     \* where each record is in add
    pending,    \* the channel
    batch,      \* records taken from it
    bytes,      \* queuedBytes
    outcome,    \* how each record was counted
    runner,     \* the goroutine of run
    shut        \* the shutdown: "no", "stop" closed, "late": out of time

logs == <<adding, pending, batch, bytes, outcome, runner, shut>>

-----------------------------------------------------------------------------
InQueue(q) == {q[i] : i \in 1 .. Len(q)}
Bytes(rs) == LET sum[n \in 0 .. Cardinality(Records)] ==
                     IF n = 0 THEN 0
                     ELSE LET r == CHOOSE r \in Records : Cardinality({o \in Records : o < r}) = n - 1
                          IN sum[n - 1] + IF r \in rs THEN SizeOf(r) ELSE 0
             IN sum[Cardinality(Records)]

Counted(rs, as) == outcome' = [r \in Logged |-> IF r \in rs THEN as ELSE outcome[r]]

\* queuedBytes.Add(size) > maxQueuedBytes, one atomic step
HasRoom(r) == bytes + SizeOf(r) <= MaxQueuedBytes

AddBytes(r) ==
    /\ adding[r] = "new"
    /\ bytes' = bytes + SizeOf(r)
    /\ adding' = [adding EXCEPT ![r] = IF HasRoom(r) THEN "room" ELSE "full"]
    /\ UNCHANGED <<pending, batch, outcome, runner, shut, client>>

GiveBack(r) ==
    /\ adding[r] = "full" \/ (adding[r] = "room" /\ Len(pending) >= MaxQueuedRecords)
    /\ bytes' = bytes - SizeOf(r)
    /\ adding' = [adding EXCEPT ![r] = "dropped"]
    /\ Counted({r}, "dropped_queue_full")
    /\ UNCHANGED <<pending, batch, runner, shut, client>>

\* "early": before the shutdown began.
Send(r) ==
    /\ adding[r] = "room" /\ Len(pending) < MaxQueuedRecords
    /\ pending' = Append(pending, r)
    /\ adding' = [adding EXCEPT ![r] = IF shut = "no" THEN "early" ELSE "late"]
    /\ UNCHANGED <<batch, bytes, outcome, runner, shut, client>>

-----------------------------------------------------------------------------
(* run.                                                                    *)

\* flush: an export, or nothing for an empty batch.
Flush(b) == IF b = << >> THEN UNCHANGED export ELSE StartExport(Queue, b)

Receive ==
    LET b == Append(batch, Head(pending))
    IN /\ runner \in {"run", "drain"} /\ export[Queue].state = "none" /\ pending # << >>
       /\ pending' = Tail(pending) /\ batch' = b
       /\ IF Len(b) = MaxBatchRecords THEN Flush(b) ELSE UNCHANGED export
       /\ UNCHANGED <<adding, bytes, outcome, runner, shut, received, rejected, faults>>

Tick ==
    /\ runner = "run" /\ export[Queue].state = "none" /\ batch # << >>
    /\ Flush(batch)
    /\ UNCHANGED <<logs, received, rejected, faults>>

Stopping ==
    /\ runner = "run" /\ export[Queue].state = "none" /\ shut # "no"
    /\ runner' = "drain"
    /\ UNCHANGED <<adding, pending, batch, bytes, outcome, shut, client>>

\* Mutant: Stops without sending the batch it has.
LastFlush_None == runner' = "done" /\ UNCHANGED export

\* The channel is empty: the last flush, then the end.
LastFlush == Flush(batch) /\ runner' = IF batch = << >> THEN "done" ELSE "last"

Drained ==
    /\ runner = "drain" /\ export[Queue].state = "none" /\ pending = << >>
    /\ LastFlush
    /\ UNCHANGED <<adding, pending, batch, bytes, outcome, shut, received, rejected, faults>>

\* export returned: its records are counted and their bytes given back.
Exported ==
    LET rs == InQueue(batch)
    IN /\ export[Queue].state \in {"ok", "failed"}
       /\ Counted(rs, IF export[Queue].state = "ok" THEN "exported" ELSE "dropped_export_failed")
       /\ bytes' = bytes - Bytes(rs)
       /\ batch' = << >>
       /\ export' = [export EXCEPT ![Queue] = NoExport]
       /\ runner' = IF runner = "last" THEN "done" ELSE runner
       /\ UNCHANGED <<adding, pending, shut, received, rejected, faults>>

(* shutdown.                                                               *)

Stop ==
    /\ shut = "no" /\ shut' = "stop"
    /\ UNCHANGED <<adding, pending, batch, bytes, outcome, runner, client>>

\* Its context ends first: the export in flight, and every later one, fails.
OutOfTime ==
    /\ shut = "stop" /\ runner # "done" /\ shut' = "late"
    /\ UNCHANGED <<adding, pending, batch, bytes, outcome, runner, client>>

Canceled ==
    /\ shut = "late" /\ export[Queue].state = "posting"
    /\ export' = [export EXCEPT ![Queue] = [NoExport EXCEPT !.state = "failed"]]
    /\ UNCHANGED <<logs, received, rejected, faults>>

-----------------------------------------------------------------------------
LogsInit ==
    /\ adding = [r \in Logged |-> "new"] /\ pending = << >> /\ batch = << >> /\ bytes = 0
    /\ outcome = [r \in Logged |-> "none"] /\ runner = "run" /\ shut = "no"

Run == Receive \/ Tick \/ Stopping \/ Drained \/ Exported \/ Canceled

LogsNext ==
    \/ \E r \in Logged : AddBytes(r) \/ GiveBack(r) \/ Send(r)
    \/ Run \/ (Post(Queue) /\ UNCHANGED logs)
    \/ Stop \/ OutOfTime

LogsSpec == ClientInit /\ LogsInit /\ [][LogsNext]_<<client, logs>>

-----------------------------------------------------------------------------
\* telemetry/logs.go: an outage "costs records instead of memory", and every
\* record is accounted for (logOutcomes): the records in memory never exceed the
\* bound, however many goroutines add at once; one queued before the shutdown is
\* counted as exported or as dropped when the queue has ended; and what is
\* counted as exported was answered for by the Collector, each record of each
\* request.
LogsAccounted ==
    /\ Bytes(InQueue(pending) \cup InQueue(batch)) <= MaxQueuedBytes
    /\ runner = "done" => \A r \in Logged : adding[r] = "early" => outcome[r] # "none"
    /\ \A r \in Logged : outcome[r] = "exported" => received[r] > 0 \/ r \in rejected

\* shutdown: the queue ends, even if the Collector never answers.
QueueEnds == (shut # "no") ~> (runner = "done")

=============================================================================
