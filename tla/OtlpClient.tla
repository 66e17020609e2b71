----------------------------- MODULE OtlpClient -----------------------------
(***************************************************************************)
(* otlp.Client: an export cuts its records into requests of a bounded size *)
(* and posts them in order.  A request is tried again while the receiver   *)
(* answers 429 or 5xx, or does not answer, up to MaxAttempts of the sender *)
(* (0: until its context ends); any other refusal ends the export.         *)
(*                                                                         *)
(* A sender exports one batch at a time.  A record is a number; SizeOf is  *)
(* its encoded size, Header that of the resource and scope a request       *)
(* repeats.                                                                *)
(***************************************************************************)
EXTENDS Naturals, Sequences, FiniteSets

CONSTANTS
    Senders,            \* users of the client
    Records,            \* log records
    SizeOf(_),          \* encoded size of a record
    Header,             \* encoded size of resource and scope
    MaxRequestBytes,    \* 0: no limit
    MaxAttempts(_),     \* of a sender; 0: no limit
    MaxFaults           \* bound: answers that went wrong, crashes and the like

ASSUME OtlpAssumptions ==
    /\ Records \subseteq Nat /\ Header \in Nat /\ MaxRequestBytes \in Nat /\ MaxFaults \in Nat
    /\ \A r \in Records : SizeOf(r) \in Nat \ {0}

VARIABLES
    export,     \* the export of each sender: its requests, attempts and state
    received,   \* how often the receiver took each record
    rejected,   \* records the receiver refused in a partial success
    faults      \* faults so far

client == <<export, received, rejected, faults>>

States == {"none", "posting", "ok", "failed"}
NoExport == [state |-> "none", requests |-> << >>, attempt |-> 1]

Fault == faults < MaxFaults /\ faults' = faults + 1
InRequest(request) == {request[i] : i \in 1 .. Len(request)}

\* Mutant: Starts a request with what did not fit and forgets the record
\* it was about to add.
SplitStep_DropsAtCut(acc, r) ==
    LET fresh == acc.current = << >>
        need == SizeOf(r) + (IF fresh THEN Header ELSE 0)
    IN IF ~fresh /\ acc.size + need > MaxRequestBytes
       THEN [requests |-> Append(acc.requests, acc.current), current |-> << >>, size |-> 0]
       ELSE [acc EXCEPT !.current = Append(@, r), !.size = @ + need]

\* Split's loop: a record that does not fit after others starts a request,
\* with the resource and the scope again.
SplitStep(acc, r) ==
    LET fresh == acc.current = << >>
        need == SizeOf(r) + (IF fresh THEN Header ELSE 0)
    IN IF ~fresh /\ acc.size + need > MaxRequestBytes
       THEN [requests |-> Append(acc.requests, acc.current), current |-> <<r>>, size |-> SizeOf(r) + Header]
       ELSE [acc EXCEPT !.current = Append(@, r), !.size = @ + need]

Split(records) ==
    LET start == [requests |-> << >>, current |-> << >>, size |-> 0]
        acc[i \in 0 .. Len(records)] == IF i = 0 THEN start ELSE SplitStep(acc[i - 1], records[i])
        end == acc[Len(records)]
    IN IF MaxRequestBytes = 0 THEN <<records>>
       ELSE IF end.current = << >> THEN end.requests
       ELSE Append(end.requests, end.current)

StartExport(x, records) ==
    export' = [export EXCEPT ![x] = [state |-> "posting", requests |-> Split(records), attempt |-> 1]]

NextRequest(x) ==
    IF Len(export[x].requests) = 1 THEN [NoExport EXCEPT !.state = "ok"]
    ELSE [state |-> "posting", requests |-> Tail(export[x].requests), attempt |-> 1]

Take(rs) == received' = [r \in Records |-> IF r \in rs THEN received[r] + 1 ELSE received[r]]

\* 2xx.  A partial success refuses some records: they are counted, a warning
\* is logged, and the request counts as accepted.
PostAccepted(x, refused) ==
    LET rs == InRequest(Head(export[x].requests))
    IN /\ export[x].state = "posting" /\ refused \subseteq rs
       /\ Take(rs \ refused) /\ rejected' = rejected \cup refused
       /\ export' = [export EXCEPT ![x] = NextRequest(x)]
       /\ UNCHANGED faults

\* send after a failed attempt: again, or the end of the export.
TriedAgain(x) ==
    IF MaxAttempts(x) > 0 /\ export[x].attempt >= MaxAttempts(x)
    THEN [NoExport EXCEPT !.state = "failed"]
    ELSE [export[x] EXCEPT !.attempt = IF MaxAttempts(x) > 0 THEN @ + 1 ELSE @]

\* 429, 5xx or no connection.
PostRefused(x) ==
    /\ export[x].state = "posting" /\ Fault
    /\ export' = [export EXCEPT ![x] = TriedAgain(x)]
    /\ UNCHANGED <<received, rejected>>

\* The attempt times out, or its connection breaks, after the receiver took
\* the request.
PostUnanswered(x) ==
    /\ export[x].state = "posting" /\ Fault
    /\ Take(InRequest(Head(export[x].requests)))
    /\ export' = [export EXCEPT ![x] = TriedAgain(x)]
    /\ UNCHANGED rejected

\* permanentError, or the context of the export ends.
ExportEnds(x) ==
    /\ export[x].state = "posting" /\ Fault
    /\ export' = [export EXCEPT ![x] = [NoExport EXCEPT !.state = "failed"]]
    /\ UNCHANGED <<received, rejected>>

ClientInit ==
    /\ export = [x \in Senders |-> NoExport]
    /\ received = [r \in Records |-> 0] /\ rejected = {} /\ faults = 0

Post(x) ==
    \/ \E refused \in SUBSET Records : PostAccepted(x, refused)
    \/ PostRefused(x) \/ PostUnanswered(x) \/ ExportEnds(x)
=============================================================================
