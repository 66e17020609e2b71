---------------------------- MODULE AuditDelivery ----------------------------
(***************************************************************************)
(* The audit outbox.  A change writes its record in its own transaction;   *)
(* the drainer of each API replica claims the oldest records nobody holds, *)
(* exports them and deletes them once the Collector accepted them, all in  *)
(* one transaction that keeps the rows locked.                             *)
(*                                                                         *)
(* seq is taken when the record is inserted and the row is visible when    *)
(* the change commits, so rows appear out of order.  A lock ends with its  *)
(* transaction: when the drainer ends it, when PostgreSQL loses the        *)
(* connection, or, some time after a crash, when it notices.               *)
(***************************************************************************)
EXTENDS OtlpClient

CONSTANTS
    Drainers,   \* API replicas; each is a sender of the OTLP client
    Audited,    \* seqs of the records: 1 .. n
    BatchSize,  \* records a round claims
    Crashed,    \* holder of the locks of a drainer that died
    Free        \* holder of no lock

ASSUME AuditAssumptions ==
    /\ Drainers \subseteq Senders /\ BatchSize \in Nat \ {0}
    /\ Audited \subseteq Records /\ IsFiniteSet(Audited)
    /\ Free \notin Drainers /\ Crashed \notin Drainers /\ Free # Crashed

VARIABLES
    change,     \* state of the change that writes each record
    outbox,     \* audit_outbox, as committed
    lock,       \* who holds each row
    round       \* Drain of each drainer: the rows it claimed

audit == <<change, outbox, lock, round>>

-----------------------------------------------------------------------------
(* audit.Write, in the transaction of the change.                          *)

Write(s) ==
    /\ change[s] = "none" /\ \A o \in Audited : o < s => change[o] # "none"
    /\ change' = [change EXCEPT ![s] = "open"]
    /\ UNCHANGED <<outbox, lock, round, client>>

CommitChange(s) ==
    /\ change[s] = "open"
    /\ change' = [change EXCEPT ![s] = "committed"]
    /\ outbox' = outbox \cup {s}
    /\ UNCHANGED <<lock, round, client>>

AbortChange(s) ==
    /\ change[s] = "open"
    /\ change' = [change EXCEPT ![s] = "aborted"]
    /\ UNCHANGED <<outbox, lock, round, client>>

-----------------------------------------------------------------------------
(* Outbox.Drain.                                                           *)

\* Mutant: Claims rows another drainer holds.
ClaimAuditRecords_NotSkipped == {s \in outbox : Cardinality({o \in outbox : o < s}) < BatchSize}

\* order by seq limit n for update skip locked
ClaimAuditRecords ==
    LET free == {s \in outbox : lock[s] = Free}
    IN {s \in free : Cardinality({o \in free : o < s}) < BatchSize}

InOrder(rows) ==
    [i \in 1 .. Cardinality(rows) |-> CHOOSE s \in rows : Cardinality({o \in rows : o < s}) = i - 1]

Holding(d) == {s \in Audited : lock[s] = d}

Claim(d) ==
    LET rows == ClaimAuditRecords
    IN /\ round[d] = {} /\ rows # {}
       /\ round' = [round EXCEPT ![d] = rows]
       /\ lock' = [s \in Audited |-> IF s \in rows THEN d ELSE lock[s]]
       /\ StartExport(d, InOrder(rows))
       /\ UNCHANGED <<change, outbox, received, rejected, faults>>

\* Mutant: Leaves the transaction of a failed round open.
Rollback_Forgotten(d) ==
    /\ round' = [round EXCEPT ![d] = {}]
    /\ export' = [export EXCEPT ![d] = NoExport]
    /\ UNCHANGED <<change, outbox, lock, received, rejected>>

\* The transaction ends without the delete.
Rollback(d) ==
    /\ round' = [round EXCEPT ![d] = {}]
    /\ lock' = [s \in Audited |-> IF lock[s] = d THEN Free ELSE lock[s]]
    /\ export' = [export EXCEPT ![d] = NoExport]
    /\ UNCHANGED <<change, outbox, received, rejected>>

\* deliver failed: the rows are left for a later round.
DeliveryFailed(d) ==
    /\ export[d].state = "failed"
    /\ Rollback(d) /\ UNCHANGED faults

\* DeleteAuditRecords and the commit.
Delete(d) ==
    /\ export[d].state = "ok" /\ Holding(d) = round[d]
    /\ outbox' = outbox \ round[d]
    /\ round' = [round EXCEPT ![d] = {}]
    /\ lock' = [s \in Audited |-> IF lock[s] = d THEN Free ELSE lock[s]]
    /\ export' = [export EXCEPT ![d] = NoExport]
    /\ UNCHANGED <<change, received, rejected, faults>>

\* The delete or the commit fails, as it does after a lost connection.
DeleteFails(d) ==
    /\ export[d].state = "ok"
    /\ IF Holding(d) = round[d] THEN Fault ELSE UNCHANGED faults
    /\ Rollback(d)

\* PostgreSQL loses the drainer's connection while it exports: the rows are
\* free though the export goes on.
ConnectionLost(d) ==
    /\ Holding(d) # {} /\ Fault
    /\ lock' = [s \in Audited |-> IF lock[s] = d THEN Free ELSE lock[s]]
    /\ UNCHANGED <<change, outbox, round, export, received, rejected>>

\* The process dies; its successor starts with no round.
Crash(d) ==
    /\ round[d] # {} /\ Fault
    /\ round' = [round EXCEPT ![d] = {}]
    /\ export' = [export EXCEPT ![d] = NoExport]
    /\ lock' = [s \in Audited |-> IF lock[s] = d THEN Crashed ELSE lock[s]]
    /\ UNCHANGED <<change, outbox, received, rejected>>

\* PostgreSQL notices that a crashed drainer is gone.
SessionEnds ==
    /\ \E s \in Audited : lock[s] = Crashed
    /\ lock' = [s \in Audited |-> IF lock[s] = Crashed THEN Free ELSE lock[s]]
    /\ UNCHANGED <<change, outbox, round, client>>

-----------------------------------------------------------------------------
AuditInit ==
    /\ change = [s \in Audited |-> "none"] /\ outbox = {}
    /\ lock = [s \in Audited |-> Free] /\ round = [d \in Drainers |-> {}]

Export(d) == Post(d) /\ UNCHANGED audit
Drain(d) == Claim(d) \/ DeliveryFailed(d) \/ Delete(d) \/ DeleteFails(d)

AuditNext ==
    \/ \E s \in Audited : Write(s) \/ CommitChange(s) \/ AbortChange(s)
    \/ \E d \in Drainers : Drain(d) \/ Export(d) \/ ConnectionLost(d) \/ Crash(d)
    \/ SessionEnds

AuditSpec == ClientInit /\ AuditInit /\ [][AuditNext]_<<client, audit>>

-----------------------------------------------------------------------------
Committed == {s \in Audited : change[s] = "committed"}
Answered == {s \in Audited : received[s] > 0} \cup (rejected \cap Audited)

Promise == INSTANCE AtLeastOnce WITH
    Items <- Audited, put <- Committed, waiting <- outbox, answered <- Answered

\* ADR 0016: "an outage delays records and loses none": the outbox implements
\* AtLeastOnce.  A record leaves the outbox only after the Collector answered
\* for it, whatever fails in between, and a record of a change that did not
\* commit is never sent.
ImplementsAtLeastOnce == Promise!Spec

\* drainer.go: drainers do not send the same rows at once: when nothing goes
\* wrong, a record is delivered once, however many replicas drain.
OnceWithoutFaults == faults = 0 => \A s \in Audited : received[s] <= 1

\* drainer.go: a committed record does not wait for ever: once the Collector
\* and PostgreSQL work, every record leaves the outbox.
RecordsLeave == \A s \in Audited : (change[s] = "committed") ~> (s \notin outbox)

=============================================================================
