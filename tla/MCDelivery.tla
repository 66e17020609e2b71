----------------------------- MODULE MCDelivery -----------------------------
(* What leaves the processes: audit records and self-logs through the OTLP  *)
(* client, before one Collector, and the series probes record, for a        *)
(* scraper.  In a behaviour one of the three is busy.                       *)
EXTENDS AuditDelivery, SelfLogs, PrometheusExporter

VARIABLE scene
all == <<client, audit, logs, exporter, scene>>
drain == <<client, audit>>
queue == <<client, logs>>

MCSizeOf(r) == IF r % 2 = 0 THEN 1 ELSE 2
MCCollectorOf(c) == IF c = "b1" THEN "b" ELSE "a"
MCMaxAttempts(x) == IF x = Queue THEN 2 ELSE 0

MCInit ==
    /\ ClientInit /\ AuditInit /\ LogsInit /\ ExporterInit
    /\ scene \in {"audit", "logs", "series"}
MCNext ==
    \/ scene = "audit" /\ AuditNext /\ UNCHANGED <<logs, exporter, scene>>
    \/ scene = "logs" /\ LogsNext /\ UNCHANGED <<audit, exporter, scene>>
    \/ scene = "series" /\ ExporterNext /\ UNCHANGED <<client, audit, logs, scene>>

\* A change's transaction ends, a drainer's loop goes on, an attempt ends in
\* an answer, PostgreSQL notices a dead session; goroutines that log go on
\* and so does the queue's, whether or not the Collector answers it, and
\* its shutdown has a deadline.
MCFairness ==
    /\ \A s \in Audited : WF_drain(CommitChange(s) \/ AbortChange(s))
    /\ \A d \in Drainers : /\ WF_drain(DeliveryFailed(d) \/ Delete(d) \/ DeleteFails(d))
                           /\ SF_drain(Claim(d)) /\ WF_drain(Export(d))
    /\ WF_drain(SessionEnds)
    /\ \A r \in Logged : WF_queue(GiveBack(r) \/ Send(r))
    /\ WF_queue(Run) /\ WF_queue(OutOfTime)
MCSpec == MCInit /\ [][MCNext]_all /\ MCFairness

\* Nothing that waits for delivery is stuck: every committed audit record leaves
\* the outbox, and the log queue ends after its shutdown began, even if the
\* Collector never answers.
QueuesDrain == RecordsLeave /\ QueueEnds
=============================================================================
