--------------------------- MODULE DeliveryProofs ---------------------------
(***************************************************************************)
(* What leaves the processes, for any replicas, goroutines, records, sizes *)
(* of records and limits, and any scopes, labels and values of series.     *)
(*                                                                         *)
(* The audit outbox implements AtLeastOnce, whatever fails, and delivers a *)
(* record once while nothing fails.  AnswersInv ties what a drainer        *)
(* claimed to what its export still has to post and to what the receiver   *)
(* answered for.  OnceInv adds what only holds before the first fault:     *)
(* that the rounds are the locks, and that nothing that will still be      *)
(* posted was received.                                                    *)
(*                                                                         *)
(* The queue of self-logs accounts for every record.  LogsInv ties         *)
(* queuedBytes to the records in add, in the channel and in the batch, and *)
(* the batch to its export.                                                *)
(*                                                                         *)
(* The Prometheus exporter implements ScopedRecorder.  ExporterInv says    *)
(* that the family finds what the scopes' lists point to and that a series *)
(* counts the scopes that list it.  While a call records, Sound holds of   *)
(* what the scope owned before and what it has written so far.             *)
(***************************************************************************)
EXTENDS AuditDelivery, SelfLogs, PrometheusExporter, FiniteSetTheorems, NaturalsInduction, TLAPS

\* The records of a sequence of requests.
RecordsOf(requests) == UNION {InRequest(requests[k]) : k \in 1 .. Len(requests)}

Exports == [state : States, requests : Seq(Seq(Records)), attempt : Nat]

\* Type correctness of the OTLP client and of the outbox.
DeliveryTypes ==
    /\ export \in [Senders -> Exports]
    /\ received \in [Records -> Nat] /\ rejected \subseteq Records /\ faults \in Nat
    /\ change \in [Audited -> {"none", "open", "committed", "aborted"}]
    /\ outbox \subseteq Audited
    /\ lock \in [Audited -> Drainers \cup {Free, Crashed}]
    /\ round \in [Drainers -> SUBSET Audited]

\* Drain: every row a drainer claimed is still to be posted or was answered
\* for, and once its export has ended well all of them were.
RoundCovered(d) ==
    /\ export[d].state = "posting" =>
           /\ export[d].requests # << >>
           /\ RecordsOf(export[d].requests) \subseteq round[d]
           /\ round[d] \subseteq RecordsOf(export[d].requests) \cup Answered
    /\ export[d].state = "ok" => round[d] \subseteq Answered

\* What the outbox keeps, a drainer claims or the receiver answered for is
\* the record of a change that committed.
OnlyCommitted ==
    /\ outbox \subseteq Committed /\ Answered \subseteq Committed
    /\ \A d \in Drainers : round[d] \subseteq Committed

AnswersInv == DeliveryTypes /\ OnlyCommitted /\ \A d \in Drainers : RoundCovered(d)

\* Requests share no record.
Disjoint(requests) ==
    \A j, k \in 1 .. Len(requests) :
        j # k => InRequest(requests[j]) \cap InRequest(requests[k]) = {}

\* Before the first fault, the rows of a round are the ones its drainer holds,
\* they are in the outbox, and what it has yet to post was not received.
RoundFresh(d) ==
    /\ export[d].state # "failed"
    /\ round[d] = Holding(d) /\ round[d] \subseteq outbox
    /\ export[d].state = "posting" =>
           /\ Disjoint(export[d].requests)
           /\ \A s \in RecordsOf(export[d].requests) : received[s] = 0

Fresh ==
    /\ \A d \in Drainers : RoundFresh(d)
    /\ \A s \in outbox : lock[s] = Free => received[s] = 0
    /\ \A s \in Audited : lock[s] # Crashed /\ received[s] <= 1

OnceInv == faults = 0 => Fresh

-----------------------------------------------------------------------------
(* Numbers.                                                                *)

\* A set that has 0, and the successor of each of its numbers below n, has all
\* the numbers up to n.
LEMMA UpTo ==
    ASSUME NEW n \in Nat, NEW S, 0 \in S, \A i \in 0 .. n : i \in S /\ i # n => i + 1 \in S
    PROVE  0 .. n \subseteq S
<1> SUFFICES ASSUME (0 .. n) \ S # {}
             PROVE  FALSE
    OBVIOUS
<1>1. IsWellFoundedOn(OpToRel(<, Nat), Nat)
    BY NatLessThanWellFounded
<1>a. PICK R : R = (0 .. n) \ S
    OBVIOUS
<1>2. R \subseteq Nat /\ R # {}
    BY <1>a
<1>3. \E m \in R : \A k \in R : <<k, m>> \notin OpToRel(<, Nat)
    BY <1>1, <1>2, WFMin
<1>4. PICK m \in R : \A k \in R : ~(k < m)
    BY <1>2, <1>3 DEF OpToRel
<1>5. m # 0 /\ m \in Nat /\ m \in 0 .. n /\ m \notin S
    BY <1>a, <1>2
<1>6. m - 1 \in 0 .. n /\ m - 1 \in S /\ m - 1 # n
    BY <1>a, <1>2, <1>4, <1>5
<1>7. (m - 1) + 1 \in S
    BY <1>6
<1> QED
    BY <1>5, <1>7

-----------------------------------------------------------------------------
(* Split.                                                                  *)

SplitStart == [requests |-> << >>, current |-> << >>, size |-> 0]

\* acc is Split's accumulator after each of the first m records.
Accumulates(acc, records, m) ==
    acc = [i \in 0 .. m |-> IF i = 0 THEN SplitStart ELSE SplitStep(acc[i - 1], records[i])]

\* Split's loop has a value at every record.
LEMMA AccumulatorExists ==
    ASSUME NEW records \in Seq(Records)
    PROVE  \E acc : Accumulates(acc, records, Len(records))
<1> DEFINE S == {m \in Nat : \E acc : Accumulates(acc, records, m)}
<1>1. 0 \in S
    <2>1. Accumulates([i \in 0 .. 0 |-> SplitStart], records, 0)
        BY DEF Accumulates
    <2> QED
        BY <2>1
<1>2. ASSUME NEW m \in 0 .. Len(records), m \in S
      PROVE  m + 1 \in S
    <2>1. PICK acc : Accumulates(acc, records, m)
        BY <1>2
    <2>2. PICK f : f = [i \in 0 .. m + 1 |-> IF i <= m THEN acc[i] ELSE SplitStep(acc[m], records[m + 1])]
        OBVIOUS
    <2>3. ASSUME NEW i \in 0 .. m + 1
          PROVE  f[i] = IF i = 0 THEN SplitStart ELSE SplitStep(f[i - 1], records[i])
        <3>1. CASE i = 0
            BY <3>1, <2>1, <2>2 DEF Accumulates
        <3>2. CASE i # 0 /\ i <= m
            <4>1. i \in 0 .. m /\ i - 1 \in 0 .. m + 1 /\ i - 1 <= m
                BY <3>2
            <4>2. f[i] = acc[i] /\ f[i - 1] = acc[i - 1]
                BY <4>1, <2>2
            <4>3. acc[i] = SplitStep(acc[i - 1], records[i])
                BY <3>2, <4>1, <2>1 DEF Accumulates
            <4> QED
                BY <4>2, <4>3, <3>2
        <3>3. CASE i = m + 1
            <4>1. f[i] = SplitStep(acc[m], records[i]) /\ f[i - 1] = acc[m] /\ i # 0
                BY <3>3, <2>2
            <4> QED
                BY <4>1
        <3> QED
            BY <3>1, <3>2, <3>3
    <2>4. f = [i \in 0 .. m + 1 |-> f[i]]
        BY <2>2
    <2>5. Accumulates(f, records, m + 1)
        BY <2>3, <2>4 DEF Accumulates
    <2> QED
        BY <2>5
<1>3. Len(records) \in Nat
    OBVIOUS
<1>4. 0 .. Len(records) \subseteq S
    <2> HIDE DEF S
    <2> QED
        BY <1>1, <1>2, <1>3, UpTo
<1>5. Len(records) \in S
    BY <1>3, <1>4
<1> QED
    BY <1>5

\* With a limit on requests, Split is what its accumulator has at the end.
LEMMA SplitUnfolds ==
    ASSUME NEW records \in Seq(Records), MaxRequestBytes # 0
    PROVE  \E acc : /\ Accumulates(acc, records, Len(records))
                    /\ Split(records) = IF acc[Len(records)].current = << >>
                                        THEN acc[Len(records)].requests
                                        ELSE Append(acc[Len(records)].requests, acc[Len(records)].current)
<1> DEFINE a == CHOOSE acc : Accumulates(acc, records, Len(records))
<1>1. Accumulates(a, records, Len(records))
    BY AccumulatorExists
<1>2. Split(records) = IF a[Len(records)].current = << >>
                       THEN a[Len(records)].requests
                       ELSE Append(a[Len(records)].requests, a[Len(records)].current)
    BY Zenon DEF Split, Accumulates, SplitStart
<1> QED
    BY <1>1, <1>2

\* What a request has after a record is added to it.
LEMMA InRequestAppend ==
    ASSUME NEW request \in Seq(Records), NEW r \in Records
    PROVE  InRequest(Append(request, r)) = InRequest(request) \cup {r}
<1>1. PICK longer : longer = Append(request, r)
    OBVIOUS
<1>2. /\ longer \in Seq(Records) /\ Len(longer) = Len(request) + 1 /\ Len(request) \in Nat
      /\ \A i \in 1 .. Len(request) : longer[i] = request[i]
      /\ longer[Len(request) + 1] = r
    BY <1>1
<1>3. ASSUME NEW x \in InRequest(longer)
      PROVE  x \in InRequest(request) \cup {r}
    <2>1. PICK i \in 1 .. Len(longer) : x = longer[i]
        BY <1>3 DEF InRequest
    <2>2. CASE i = Len(request) + 1
        BY <2>1, <2>2, <1>2
    <2>3. CASE i # Len(request) + 1
        <3>1. i \in 1 .. Len(request)
            BY <2>1, <2>3, <1>2
        <3> QED
            BY <3>1, <2>1, <1>2 DEF InRequest
    <2> QED
        BY <2>2, <2>3
<1>4. ASSUME NEW x \in InRequest(request) \cup {r}
      PROVE  x \in InRequest(longer)
    <2>1. CASE x = r
        BY <2>1, <1>2 DEF InRequest
    <2>2. CASE x # r
        <3>1. PICK i \in 1 .. Len(request) : x = request[i]
            BY <1>4, <2>2 DEF InRequest
        <3>2. i \in 1 .. Len(longer) /\ longer[i] = x
            BY <3>1, <1>2
        <3> QED
            BY <3>2 DEF InRequest
    <2> QED
        BY <2>1, <2>2
<1> QED
    BY <1>1, <1>3, <1>4

\* A record of requests is in one of them.
LEMMA InRecordsOf ==
    ASSUME NEW requests, NEW x
    PROVE  x \in RecordsOf(requests) <=> \E k \in 1 .. Len(requests) : x \in InRequest(requests[k])
BY DEF RecordsOf

\* What requests have after one is added.
LEMMA RecordsOfAppend ==
    ASSUME NEW requests \in Seq(Seq(Records)), NEW request \in Seq(Records)
    PROVE  /\ Append(requests, request) \in Seq(Seq(Records)) /\ Append(requests, request) # << >>
           /\ RecordsOf(Append(requests, request)) = RecordsOf(requests) \cup InRequest(request)
           /\ Disjoint(requests) /\ RecordsOf(requests) \cap InRequest(request) = {}
                  => Disjoint(Append(requests, request))
<1>1. PICK longer : longer = Append(requests, request)
    OBVIOUS
<1>2. /\ longer \in Seq(Seq(Records)) /\ Len(longer) = Len(requests) + 1 /\ Len(requests) \in Nat
      /\ \A i \in 1 .. Len(requests) : longer[i] = requests[i]
      /\ longer[Len(requests) + 1] = request
    BY <1>1
<1>3. \A i \in 1 .. Len(longer) : i \in 1 .. Len(requests) \/ i = Len(requests) + 1
    BY <1>2
<1>4. Len(requests) + 1 \in 1 .. Len(longer) /\ \A i \in 1 .. Len(requests) : i \in 1 .. Len(longer)
    BY <1>2
<1>5. RecordsOf(longer) = RecordsOf(requests) \cup InRequest(request)
    <2>1. ASSUME NEW x \in RecordsOf(longer)
          PROVE  x \in RecordsOf(requests) \cup InRequest(request)
        <3>1. PICK k \in 1 .. Len(longer) : x \in InRequest(longer[k])
            BY InRecordsOf
        <3>2. CASE k \in 1 .. Len(requests)
            BY <3>1, <3>2, <1>2, InRecordsOf
        <3>3. CASE k = Len(requests) + 1
            BY <3>1, <3>3, <1>2
        <3> QED
            BY <3>2, <3>3, <1>3
    <2>2. ASSUME NEW x \in RecordsOf(requests)
          PROVE  x \in RecordsOf(longer)
        <3>1. PICK k \in 1 .. Len(requests) : x \in InRequest(requests[k])
            BY InRecordsOf
        <3>2. k \in 1 .. Len(longer) /\ longer[k] = requests[k]
            BY <1>2, <1>4
        <3> QED
            BY <3>1, <3>2, InRecordsOf
    <2>3. ASSUME NEW x \in InRequest(request)
          PROVE  x \in RecordsOf(longer)
        BY <1>2, <1>4, InRecordsOf
    <2> QED
        BY <2>1, <2>2, <2>3
<1>6. ASSUME Disjoint(requests), RecordsOf(requests) \cap InRequest(request) = {}
      PROVE  Disjoint(longer)
    <2>1. ASSUME NEW k \in 1 .. Len(requests)
          PROVE  InRequest(requests[k]) \cap InRequest(request) = {}
        <3>1. \A x \in InRequest(requests[k]) : x \in RecordsOf(requests)
            BY InRecordsOf
        <3> QED
            BY <3>1, <1>6
    <2>2. ASSUME NEW j \in 1 .. Len(longer), NEW k \in 1 .. Len(longer), j # k
          PROVE  InRequest(longer[j]) \cap InRequest(longer[k]) = {}
        <3>1. CASE j \in 1 .. Len(requests) /\ k \in 1 .. Len(requests)
            <4>1. longer[j] = requests[j] /\ longer[k] = requests[k]
                BY <3>1, <1>2
            <4> QED
                BY <4>1, <3>1, <2>2, <1>6 DEF Disjoint
        <3>2. CASE j = Len(requests) + 1 /\ k \in 1 .. Len(requests)
            <4>1. longer[j] = request /\ longer[k] = requests[k]
                BY <3>2, <1>2
            <4> QED
                BY <4>1, <3>2, <2>1
        <3>3. CASE j \in 1 .. Len(requests) /\ k = Len(requests) + 1
            <4>1. longer[k] = request /\ longer[j] = requests[j]
                BY <3>3, <1>2
            <4> QED
                BY <4>1, <3>3, <2>1
        <3> QED
            BY <3>1, <3>2, <3>3, <2>2, <1>3
    <2> QED
        BY <2>2 DEF Disjoint
<1>7. longer # << >>
    BY <1>2
<1> QED
    BY <1>1, <1>2, <1>5, <1>6, <1>7

\* What requests have after the first was taken.
LEMMA RecordsOfTail ==
    ASSUME NEW requests \in Seq(Seq(Records)), requests # << >>
    PROVE  /\ Head(requests) \in Seq(Records) /\ Tail(requests) \in Seq(Seq(Records))
           /\ RecordsOf(requests) = InRequest(Head(requests)) \cup RecordsOf(Tail(requests))
           /\ Disjoint(requests) => /\ Disjoint(Tail(requests))
                                    /\ InRequest(Head(requests)) \cap RecordsOf(Tail(requests)) = {}
           /\ Len(requests) # 1 => Tail(requests) # << >>
           /\ Len(requests) = 1 => RecordsOf(Tail(requests)) = {}
<1>1. PICK rest : rest = Tail(requests)
    OBVIOUS
<1>2. /\ rest \in Seq(Seq(Records)) /\ Len(requests) = Len(rest) + 1 /\ Len(rest) \in Nat
      /\ \A i \in 1 .. Len(rest) : rest[i] = requests[i + 1] /\ i + 1 \in 1 .. Len(requests)
      /\ Head(requests) = requests[1] /\ 1 \in 1 .. Len(requests)
      /\ \A i \in 1 .. Len(requests) : i # 1 => i - 1 \in 1 .. Len(rest) /\ rest[i - 1] = requests[i]
    BY <1>1
<1>3. \A i \in 1 .. Len(rest) : i + 1 # 1 /\ \A j \in 1 .. Len(rest) : i # j => i + 1 # j + 1
    BY <1>2
<1>4. RecordsOf(requests) = InRequest(requests[1]) \cup RecordsOf(rest)
    <2>1. ASSUME NEW x \in RecordsOf(requests)
          PROVE  x \in InRequest(requests[1]) \cup RecordsOf(rest)
        <3>1. PICK k \in 1 .. Len(requests) : x \in InRequest(requests[k])
            BY InRecordsOf
        <3>2. CASE k = 1
            BY <3>1, <3>2
        <3>3. CASE k # 1
            <4>1. k - 1 \in 1 .. Len(rest) /\ rest[k - 1] = requests[k]
                BY <3>3, <1>2
            <4> QED
                BY <4>1, <3>1, InRecordsOf
        <3> QED
            BY <3>2, <3>3
    <2>2. ASSUME NEW x \in InRequest(requests[1])
          PROVE  x \in RecordsOf(requests)
        BY <1>2, InRecordsOf
    <2>3. ASSUME NEW x \in RecordsOf(rest)
          PROVE  x \in RecordsOf(requests)
        <3>1. PICK k \in 1 .. Len(rest) : x \in InRequest(rest[k])
            BY InRecordsOf
        <3>2. k + 1 \in 1 .. Len(requests) /\ rest[k] = requests[k + 1]
            BY <1>2
        <3> QED
            BY <3>1, <3>2, InRecordsOf
    <2> QED
        BY <2>1, <2>2, <2>3
<1>5. ASSUME Disjoint(requests)
      PROVE  Disjoint(rest) /\ InRequest(requests[1]) \cap RecordsOf(rest) = {}
    <2>1. ASSUME NEW j \in 1 .. Len(rest), NEW k \in 1 .. Len(rest), j # k
          PROVE  InRequest(rest[j]) \cap InRequest(rest[k]) = {}
        <3>1. j + 1 \in 1 .. Len(requests) /\ k + 1 \in 1 .. Len(requests) /\ j + 1 # k + 1
            BY <2>1, <1>2, <1>3
        <3>2. rest[j] = requests[j + 1] /\ rest[k] = requests[k + 1]
            BY <1>2
        <3> QED
            BY <3>1, <3>2, <1>5 DEF Disjoint
    <2>2. ASSUME NEW x \in RecordsOf(rest)
          PROVE  x \notin InRequest(requests[1])
        <3>1. PICK k \in 1 .. Len(rest) : x \in InRequest(rest[k])
            BY InRecordsOf
        <3>2. k + 1 \in 1 .. Len(requests) /\ rest[k] = requests[k + 1] /\ k + 1 # 1
            BY <1>2, <1>3
        <3>3. InRequest(requests[k + 1]) \cap InRequest(requests[1]) = {}
            BY <3>2, <1>2, <1>5 DEF Disjoint
        <3> QED
            BY <3>1, <3>2, <3>3
    <2> QED
        BY <2>1, <2>2 DEF Disjoint
<1>6. Len(requests) # 1 => rest # << >>
    BY <1>2
<1>7. Len(requests) = 1 => RecordsOf(rest) = {}
    <2>1. Len(requests) = 1 => Len(rest) = 0
        BY <1>2
    <2>2. Len(requests) = 1 => 1 .. Len(rest) = {}
        BY <2>1
    <2> QED
        BY <2>2 DEF RecordsOf
<1>8. Head(requests) \in Seq(Records)
    BY <1>2
<1> QED
    BY <1>1, <1>2, <1>4, <1>5, <1>6, <1>7, <1>8

Injective(records) == \A j, k \in 1 .. Len(records) : j # k => records[j] # records[k]

\* After i records the accumulator has exactly those, each in one request.
SplitHolds(a, records, i) ==
    /\ a \in [requests : Seq(Seq(Records)), current : Seq(Records), size : Nat]
    /\ RecordsOf(a.requests) \cup InRequest(a.current) = {records[k] : k \in 1 .. i}
    /\ i # 0 => a.current # << >>
    /\ Injective(records) => /\ Disjoint(a.requests)
                             /\ RecordsOf(a.requests) \cap InRequest(a.current) = {}

\* A step of Split's loop adds one record and loses none.
LEMMA SplitStepHolds ==
    ASSUME NEW records \in Seq(Records), NEW i \in 1 .. Len(records),
           NEW a, SplitHolds(a, records, i - 1)
    PROVE  SplitHolds(SplitStep(a, records[i]), records, i)
<1>1. PICK r \in Records : r = records[i]
    OBVIOUS
<1>2. /\ a.requests \in Seq(Seq(Records)) /\ a.current \in Seq(Records) /\ a.size \in Nat
      /\ RecordsOf(a.requests) \cup InRequest(a.current) = {records[k] : k \in 1 .. i - 1}
      /\ Injective(records) => /\ Disjoint(a.requests)
                               /\ RecordsOf(a.requests) \cap InRequest(a.current) = {}
    BY DEF SplitHolds
<1>3. SizeOf(r) \in Nat /\ Header \in Nat
    BY OtlpAssumptions
<1>4. {records[k] : k \in 1 .. i} = {records[k] : k \in 1 .. i - 1} \cup {r}
    BY <1>1
<1>5. Injective(records) => r \notin {records[k] : k \in 1 .. i - 1}
    BY <1>1 DEF Injective
<1>6. Append(a.current, r) \in Seq(Records) /\ Append(a.current, r) # << >>
    BY <1>1, <1>2
<1>7. InRequest(Append(a.current, r)) = InRequest(a.current) \cup {r}
    BY <1>2, InRequestAppend
<1>8. PICK b : b = SplitStep(a, r)
    OBVIOUS
<1>9. \/ b = [requests |-> Append(a.requests, a.current), current |-> <<r>>, size |-> SizeOf(r) + Header]
      \/ \E need \in Nat : b = [a EXCEPT !.current = Append(@, r), !.size = @ + need]
    <2>1. SizeOf(r) + Header \in Nat /\ SizeOf(r) + 0 \in Nat
        BY <1>3
    <2> QED
        BY <1>8, <2>1 DEF SplitStep
<1>10. CASE b = [requests |-> Append(a.requests, a.current), current |-> <<r>>, size |-> SizeOf(r) + Header]
    <2>1. <<r>> \in Seq(Records) /\ <<r>> # << >>
        BY <1>1
    <2>2. InRequest(<<r>>) = {r}
        BY DEF InRequest
    <2>3. /\ Append(a.requests, a.current) \in Seq(Seq(Records))
          /\ RecordsOf(Append(a.requests, a.current)) = RecordsOf(a.requests) \cup InRequest(a.current)
          /\ Injective(records) => Disjoint(Append(a.requests, a.current))
        BY <1>2, RecordsOfAppend
    <2>4. /\ b \in [requests : Seq(Seq(Records)), current : Seq(Records), size : Nat]
          /\ b.requests = Append(a.requests, a.current) /\ b.current = <<r>>
        BY <1>10, <1>3, <2>1, <2>3
    <2>5. RecordsOf(b.requests) \cup InRequest(b.current) = {records[k] : k \in 1 .. i}
        BY <2>2, <2>3, <2>4, <1>2, <1>4
    <2>6. Injective(records) => RecordsOf(b.requests) \cap InRequest(b.current) = {}
        BY <2>2, <2>3, <2>4, <1>2, <1>5
    <2> QED
        BY <1>1, <1>8, <2>1, <2>3, <2>4, <2>5, <2>6 DEF SplitHolds
<1>11. CASE \E need \in Nat : b = [a EXCEPT !.current = Append(@, r), !.size = @ + need]
    <2>1. PICK need \in Nat : b = [a EXCEPT !.current = Append(@, r), !.size = @ + need]
        BY <1>11
    <2>2. a \in [requests : Seq(Seq(Records)), current : Seq(Records), size : Nat]
        BY DEF SplitHolds
    <2>3. /\ b \in [requests : Seq(Seq(Records)), current : Seq(Records), size : Nat]
          /\ b.requests = a.requests /\ b.current = Append(a.current, r)
        <3>1. PICK size \in Nat : size = a.size + need
            BY <1>2
        <3>2. PICK longer \in Seq(Records) : longer = Append(a.current, r)
            BY <1>6
        <3>3. b = [requests |-> a.requests, current |-> longer, size |-> size]
            BY <2>1, <2>2, <3>1, <3>2
        <3> QED
            BY <1>2, <3>2, <3>3
    <2>4. RecordsOf(b.requests) \cup InRequest(b.current) = {records[k] : k \in 1 .. i}
        BY <2>3, <1>2, <1>4, <1>7
    <2>5. Injective(records) => RecordsOf(b.requests) \cap InRequest(b.current) = {}
        BY <2>3, <1>2, <1>5, <1>7
    <2> QED
        BY <1>1, <1>2, <1>6, <1>8, <2>3, <2>4, <2>5 DEF SplitHolds
<1> QED
    BY <1>9, <1>10, <1>11

\* Split loses and repeats no record: the requests have exactly the records of
\* the export, and share none when those are all different.
LEMMA SplitKeepsRecords ==
    ASSUME NEW records \in Seq(Records), records # << >>
    PROVE  /\ Split(records) \in Seq(Seq(Records)) /\ Split(records) # << >>
           /\ RecordsOf(Split(records)) = InRequest(records)
           /\ Injective(records) => Disjoint(Split(records))
<1>1. CASE MaxRequestBytes = 0
    <2>1. Split(records) = <<records>>
        BY <1>1 DEF Split
    <2>2. PICK one : one = <<records>>
        OBVIOUS
    <2>3. one \in Seq(Seq(Records)) /\ one # << >> /\ Len(one) = 1 /\ one[1] = records
        BY <2>2
    <2>4. 1 .. Len(one) = {1}
        BY <2>3
    <2>5. RecordsOf(one) = InRequest(records)
        BY <2>3, <2>4 DEF RecordsOf
    <2>6. Disjoint(one)
        BY <2>4 DEF Disjoint
    <2> QED
        BY <2>1, <2>2, <2>3, <2>5, <2>6
<1>2. CASE MaxRequestBytes # 0
    <2>1. PICK acc : /\ Accumulates(acc, records, Len(records))
                     /\ Split(records) = IF acc[Len(records)].current = << >>
                                         THEN acc[Len(records)].requests
                                         ELSE Append(acc[Len(records)].requests, acc[Len(records)].current)
        BY <1>2, SplitUnfolds
    <2>2. PICK n \in Nat : n = Len(records)
        OBVIOUS
    <2>3. n # 0
        BY <2>2
    <2>4. \A i \in 0 .. n : acc[i] = IF i = 0 THEN SplitStart ELSE SplitStep(acc[i - 1], records[i])
        BY <2>1, <2>2 DEF Accumulates
    <2> DEFINE S == {i \in 0 .. n : SplitHolds(acc[i], records, i)}
    <2>5. 0 \in S
        <3>1. acc[0] = SplitStart
            BY <2>4
        <3>2. /\ SplitStart \in [requests : Seq(Seq(Records)), current : Seq(Records), size : Nat]
              /\ SplitStart.requests = << >> /\ SplitStart.current = << >>
            BY DEF SplitStart
        <3>3. 1 .. Len(<< >>) = {} /\ 1 .. 0 = {}
            OBVIOUS
        <3>4. RecordsOf(<< >>) = {} /\ InRequest(<< >>) = {} /\ Disjoint(<< >>)
            BY <3>3 DEF RecordsOf, InRequest, Disjoint
        <3>5. {records[k] : k \in 1 .. 0} = {}
            BY <3>3
        <3> QED
            BY <3>1, <3>2, <3>4, <3>5 DEF SplitHolds
    <2>6. ASSUME NEW i \in 0 .. n, i \in S, i # n
          PROVE  i + 1 \in S
        <3>1. i + 1 \in 1 .. Len(records) /\ i + 1 \in 0 .. n /\ (i + 1) - 1 = i /\ i + 1 # 0
            BY <2>2, <2>6
        <3>2. acc[i + 1] = SplitStep(acc[i], records[i + 1])
            BY <3>1, <2>4
        <3>3. SplitHolds(acc[i], records, (i + 1) - 1)
            BY <3>1, <2>6
        <3>4. SplitHolds(SplitStep(acc[i], records[i + 1]), records, i + 1)
            BY <3>1, <3>3, SplitStepHolds
        <3> QED
            BY <3>1, <3>2, <3>4
    <2>7. 0 .. n \subseteq S
        <3> HIDE DEF S
        <3> QED
            BY <2>5, <2>6, UpTo
    <2>8. SplitHolds(acc[n], records, n)
        BY <2>7
    <2>9. PICK a : a = acc[n] /\ SplitHolds(a, records, n)
        BY <2>8
    <2>10. /\ a.requests \in Seq(Seq(Records)) /\ a.current \in Seq(Records) /\ a.current # << >>
           /\ RecordsOf(a.requests) \cup InRequest(a.current) = {records[k] : k \in 1 .. n}
           /\ Injective(records) => /\ Disjoint(a.requests)
                                    /\ RecordsOf(a.requests) \cap InRequest(a.current) = {}
        BY <2>9, <2>3 DEF SplitHolds
    <2>11. Split(records) = Append(a.requests, a.current)
        BY <2>1, <2>2, <2>9, <2>10
    <2>12. {records[k] : k \in 1 .. n} = InRequest(records)
        BY <2>2 DEF InRequest
    <2> QED
        BY <2>10, <2>11, <2>12, RecordsOfAppend
<1> QED
    BY <1>1, <1>2

-----------------------------------------------------------------------------
(* The rows in the order of their seq.                                     *)

\* A row's place in the order is below the number of rows, and its own.
LEMMA RanksDiffer ==
    ASSUME NEW rows \in SUBSET Nat, IsFiniteSet(rows)
    PROVE  /\ Cardinality(rows) \in Nat
           /\ \A s \in rows : Cardinality({o \in rows : o < s}) \in 0 .. Cardinality(rows) - 1
           /\ \A s, t \in rows : s # t => Cardinality({o \in rows : o < s}) # Cardinality({o \in rows : o < t})
<1>1. rows \subseteq Nat
    OBVIOUS
<1>2. IsFiniteSet(rows) /\ Cardinality(rows) \in Nat
    BY FS_CardinalityType
<1> DEFINE below(s) == {o \in rows : o < s}
<1>3. ASSUME NEW s \in rows
      PROVE  IsFiniteSet(below(s)) /\ Cardinality(below(s)) \in Nat
    <2>1. below(s) \in SUBSET rows
        OBVIOUS
    <2>2. IsFiniteSet(below(s))
        BY <2>1, <1>2, FS_Subset
    <2> QED
        BY <2>2, FS_CardinalityType
<1>4. ASSUME NEW s \in rows
      PROVE  Cardinality(below(s)) \in 0 .. Cardinality(rows) - 1
    <2>1. below(s) \in SUBSET rows
        OBVIOUS
    <2>2. rows # below(s)
        <3>1. s \notin below(s)
            BY <1>1
        <3> QED
            BY <3>1
    <2>3. Cardinality(below(s)) <= Cardinality(rows) /\ Cardinality(rows) # Cardinality(below(s))
        BY <2>1, <2>2, <1>2, FS_Subset
    <2> QED
        BY <2>3, <1>2, <1>3
<1>5. ASSUME NEW s \in rows, NEW t \in rows, s < t
      PROVE  Cardinality(below(s)) # Cardinality(below(t))
    <2>1. below(s) \in SUBSET below(t)
        <3>1. \A o \in rows : o < s => o < t
            BY <1>1, <1>5
        <3> QED
            BY <3>1
    <2>2. below(t) # below(s)
        <3>1. s \in below(t) /\ s \notin below(s)
            BY <1>1, <1>5
        <3> QED
            BY <3>1
    <2>3. Cardinality(below(t)) # Cardinality(below(s))
        BY <2>1, <2>2, <1>3, FS_Subset
    <2> QED
        BY <2>3
<1>6. ASSUME NEW s \in rows, NEW t \in rows, s # t
      PROVE  Cardinality(below(s)) # Cardinality(below(t))
    <2>1. s < t \/ t < s
        BY <1>1, <1>6
    <2> QED
        BY <2>1, <1>5
<1> QED
    BY <1>2, <1>4, <1>6

\* Every place of the order is some row's.
LEMMA EveryPlaceTaken ==
    ASSUME NEW rows \in SUBSET Nat, IsFiniteSet(rows)
    PROVE  \A i \in 0 .. Cardinality(rows) - 1 : \E s \in rows : Cardinality({o \in rows : o < s}) = i
<1> DEFINE rank(s) == Cardinality({o \in rows : o < s})
<1>1. PICK n \in Nat : n = Cardinality(rows)
    BY RanksDiffer
<1>2. /\ \A s \in rows : rank(s) \in 0 .. n - 1
      /\ \A s, t \in rows : s # t => rank(s) # rank(t)
    BY <1>1, RanksDiffer
<1>3. \A i \in 0 .. n - 1 : \E s \in rows : rank(s) = i
    <2>1. PICK f : f = [s \in rows |-> rank(s)]
        OBVIOUS
    <2>2. f \in [rows -> 0 .. n - 1]
        BY <2>1, <1>2
    <2>3. f \in Injection(rows, 0 .. n - 1)
        BY <2>1, <2>2, <1>2 DEF Injection, IsInjective
    <2>4. IsFiniteSet(0 .. n - 1) /\ Cardinality(0 .. n - 1) = n
        BY FS_Interval
    <2>5. f \in Surjection(rows, 0 .. n - 1)
        BY <2>3, <2>4, <1>1, FS_Injection
    <2>6. \A i \in 0 .. n - 1 : \E s \in rows : f[s] = i
        BY <2>5 DEF Surjection
    <2> QED
        BY <2>1, <2>6
<1> QED
    BY <1>1, <1>3

\* InOrder lists each row once.
LEMMA InOrderLists ==
    ASSUME NEW rows \in SUBSET Audited
    PROVE  /\ InOrder(rows) \in Seq(Records) /\ Injective(InOrder(rows))
           /\ InRequest(InOrder(rows)) = rows
           /\ rows # {} => InOrder(rows) # << >>
<1> DEFINE rank(s) == Cardinality({o \in rows : o < s})
<1> DEFINE at(i) == CHOOSE s \in rows : rank(s) = i - 1
<1>0. rows \in SUBSET Nat /\ IsFiniteSet(rows)
    BY AuditAssumptions, OtlpAssumptions, FS_Subset
<1>1. PICK n \in Nat : n = Cardinality(rows)
    BY <1>0, RanksDiffer
<1>2. /\ \A s \in rows : rank(s) \in 0 .. n - 1
      /\ \A s, t \in rows : s # t => rank(s) # rank(t)
    BY <1>0, <1>1, RanksDiffer
<1>3. \A i \in 0 .. n - 1 : \E s \in rows : rank(s) = i
    BY <1>0, <1>1, EveryPlaceTaken
<1>4. PICK w : w = InOrder(rows)
    OBVIOUS
<1>5. w = [i \in 1 .. n |-> at(i)]
    BY <1>1, <1>4 DEF InOrder
<1>6. ASSUME NEW i \in 1 .. n
      PROVE  w[i] \in rows /\ rank(w[i]) = i - 1
    <2>1. i - 1 \in 0 .. n - 1
        OBVIOUS
    <2>2. \E s \in rows : rank(s) = i - 1
        BY <2>1, <1>3
    <2>3. w[i] = at(i)
        <3> HIDE DEF at
        <3> QED
            BY <1>5
    <2>4. at(i) \in rows /\ rank(at(i)) = i - 1
        <3> HIDE DEF rank
        <3> QED
            BY <2>2
    <2> QED
        BY <2>3, <2>4
<1>7. w \in Seq(Records) /\ Len(w) = n
    <2>1. rows \subseteq Records
        BY AuditAssumptions
    <2>2. \A i \in 1 .. n : w[i] \in Records
        BY <1>6, <2>1
    <2>3. w = [i \in 1 .. n |-> w[i]]
        <3> HIDE DEF at
        <3> QED
            BY <1>5
    <2>4. w \in [1 .. n -> Records]
        BY <2>2, <2>3
    <2> QED
        BY <2>4
<1>8. Injective(w)
    <2>1. \A j, k \in 1 .. n : j # k => j - 1 # k - 1
        OBVIOUS
    <2>2. ASSUME NEW j \in 1 .. n, NEW k \in 1 .. n, j # k
          PROVE  w[j] # w[k]
        <3> HIDE DEF rank
        <3> QED
            BY <1>6, <2>1, <2>2
    <2> QED
        BY <1>7, <2>2 DEF Injective
<1>9. InRequest(w) = rows
    <2>1. ASSUME NEW s \in rows
          PROVE  s \in InRequest(w)
        <3>1. PICK i : i = rank(s) + 1
            OBVIOUS
        <3>2. i \in 1 .. n /\ i - 1 = rank(s)
            BY <3>1, <1>2
        <3>3. w[i] \in rows /\ rank(w[i]) = rank(s)
            BY <3>2, <1>6
        <3>4. w[i] = s
            BY <3>3, <1>2
        <3> QED
            BY <3>2, <3>4, <1>7 DEF InRequest
    <2>2. \A s \in InRequest(w) : s \in rows
        BY <1>6, <1>7 DEF InRequest
    <2> QED
        BY <2>1, <2>2
<1>10. rows # {} => w # << >>
    <2>1. w = << >> => InRequest(w) = {}
        <3>1. 1 .. Len(<< >>) = {}
            OBVIOUS
        <3> QED
            BY <3>1 DEF InRequest
    <2> QED
        BY <2>1, <1>9
<1> QED
    BY <1>4, <1>7, <1>8, <1>9, <1>10

-----------------------------------------------------------------------------
(* Steps of the OTLP client.                                               *)

\* The exports a step may leave behind are exports.
LEMMA ExportValues ==
    /\ NoExport \in Exports /\ NoExport.state = "none"
    /\ [NoExport EXCEPT !.state = "ok"] \in Exports /\ [NoExport EXCEPT !.state = "ok"].state = "ok"
    /\ [NoExport EXCEPT !.state = "failed"] \in Exports /\ [NoExport EXCEPT !.state = "failed"].state = "failed"
<1>1. << >> \in Seq(Seq(Records))
    OBVIOUS
<1>2. \A v : [NoExport EXCEPT !.state = v] = [state |-> v, requests |-> << >>, attempt |-> 1]
    BY DEF NoExport
<1>3. \A v \in States : /\ [state |-> v, requests |-> << >>, attempt |-> 1] \in Exports
                         /\ [state |-> v, requests |-> << >>, attempt |-> 1].state = v
    BY <1>1 DEF Exports
<1>4. NoExport = [state |-> "none", requests |-> << >>, attempt |-> 1]
    BY DEF NoExport
<1> QED
    BY <1>2, <1>3, <1>4 DEF States

\* send: what is left of an export after its first request was accepted.
LEMMA NextRequestValue ==
    ASSUME export \in [Senders -> Exports], NEW d \in Senders,
           export[d].state = "posting", export[d].requests # << >>
    PROVE  /\ NextRequest(d) \in Exports
           /\ \/ NextRequest(d).state = "ok" /\ RecordsOf(Tail(export[d].requests)) = {}
              \/ /\ NextRequest(d).state = "posting" /\ Tail(export[d].requests) # << >>
                 /\ NextRequest(d).requests = Tail(export[d].requests)
<1>1. export[d] \in Exports
    OBVIOUS
<1>2. PICK rs \in Seq(Seq(Records)) : rs = export[d].requests
    BY <1>1 DEF Exports
<1>3. /\ Tail(rs) \in Seq(Seq(Records)) /\ (Len(rs) # 1 => Tail(rs) # << >>)
      /\ Len(rs) = 1 => RecordsOf(Tail(rs)) = {}
    BY <1>2, RecordsOfTail
<1>4. CASE Len(rs) = 1
    <2>1. NextRequest(d) = [NoExport EXCEPT !.state = "ok"]
        BY <1>2, <1>4 DEF NextRequest
    <2> QED
        BY <2>1, <1>2, <1>3, <1>4, ExportValues
<1>5. CASE Len(rs) # 1
    <2>1. NextRequest(d) = [state |-> "posting", requests |-> Tail(rs), attempt |-> 1]
        BY <1>2, <1>5 DEF NextRequest
    <2> QED
        BY <2>1, <1>2, <1>3, <1>5 DEF Exports, States
<1> QED
    BY <1>4, <1>5

\* send: a failed attempt leaves the requests as they are, or ends the export.
LEMMA TriedAgainValue ==
    ASSUME export \in [Senders -> Exports], NEW d \in Senders
    PROVE  /\ TriedAgain(d) \in Exports
           /\ \/ TriedAgain(d).state = "failed"
              \/ TriedAgain(d).state = export[d].state /\ TriedAgain(d).requests = export[d].requests
<1>1. export[d] \in Exports
    OBVIOUS
<1>2. PICK x \in Exports : x = export[d]
    BY <1>1
<1>3. x.state \in States /\ x.requests \in Seq(Seq(Records)) /\ x.attempt \in Nat
    BY <1>2 DEF Exports
<1>4. PICK a \in Nat : a = IF MaxAttempts(d) > 0 THEN x.attempt + 1 ELSE x.attempt
    BY <1>3
<1>5. CASE TriedAgain(d) = [NoExport EXCEPT !.state = "failed"]
    BY <1>5, ExportValues
<1>6. CASE TriedAgain(d) = [x EXCEPT !.attempt = a]
    <2>1. [x EXCEPT !.attempt = a] = [state |-> x.state, requests |-> x.requests, attempt |-> a]
        BY <1>2 DEF Exports
    <2> QED
        BY <2>1, <1>2, <1>3, <1>6 DEF Exports
<1>7. TriedAgain(d) = [NoExport EXCEPT !.state = "failed"] \/ TriedAgain(d) = [x EXCEPT !.attempt = a]
    BY <1>2, <1>4 DEF TriedAgain
<1> QED
    BY <1>5, <1>6, <1>7

\* The records of the first request of a drainer's export.
LEMMA FirstRequest ==
    ASSUME AnswersInv, NEW d \in Drainers, export[d].state = "posting"
    PROVE  /\ export[d].requests \in Seq(Seq(Records)) /\ export[d].requests # << >>
           /\ InRequest(Head(export[d].requests)) \subseteq round[d]
           /\ RecordsOf(Tail(export[d].requests)) \subseteq round[d]
           /\ round[d] \subseteq InRequest(Head(export[d].requests))
                                 \cup RecordsOf(Tail(export[d].requests)) \cup Answered
           /\ round[d] \subseteq Audited /\ Audited \subseteq Records
<1>1. d \in Senders /\ export[d] \in Exports /\ RoundCovered(d) /\ round[d] \subseteq Audited
    BY AuditAssumptions DEF AnswersInv, DeliveryTypes
<1>2. PICK rs \in Seq(Seq(Records)) : rs = export[d].requests
    BY <1>1 DEF Exports
<1>3. rs # << >> /\ RecordsOf(rs) \subseteq round[d] /\ round[d] \subseteq RecordsOf(rs) \cup Answered
    BY <1>1, <1>2 DEF RoundCovered
<1>4. RecordsOf(rs) = InRequest(Head(rs)) \cup RecordsOf(Tail(rs))
    BY <1>2, <1>3, RecordsOfTail
<1> QED
    BY <1>1, <1>2, <1>3, <1>4, AuditAssumptions

\* The receiver takes records and answers for others: Answered grows by both.
LEMMA TakeAnswers ==
    ASSUME DeliveryTypes, NEW rs \in SUBSET Audited, NEW refused \in SUBSET Audited,
           Take(rs), rejected' = rejected \cup refused
    PROVE  /\ received' \in [Records -> Nat] /\ rejected' \subseteq Records
           /\ Answered' = Answered \cup rs \cup refused
           /\ \A r \in Records : r \notin rs => received'[r] = received[r]
           /\ \A r \in Records : r \in rs => received'[r] = received[r] + 1
<1>1. Audited \subseteq Records /\ received \in [Records -> Nat] /\ rejected \subseteq Records
    BY AuditAssumptions DEF DeliveryTypes
<1>2. /\ \A r \in Records : r \notin rs => received'[r] = received[r]
      /\ \A r \in Records : r \in rs => received'[r] = received[r] + 1
    BY <1>1 DEF Take
<1>3. \A s \in Audited : received'[s] > 0 <=> received[s] > 0 \/ s \in rs
    BY <1>1, <1>2
<1>4. Answered' = Answered \cup rs \cup refused
    BY <1>1, <1>3 DEF Answered
<1>5. received' \in [Records -> Nat]
    BY <1>1 DEF Take
<1> QED
    BY <1>1, <1>2, <1>4, <1>5

-----------------------------------------------------------------------------
(* Steps of the outbox.                                                    *)

\* A step of AtLeastOnce, or none, under the refinement mapping.
PromiseStep == Promise!Next \/ UNCHANGED <<Committed, outbox, Answered>>

\* A step of the mapping is one of the abstract specification.
LEMMA PromiseSteps ==
    /\ \A s \in Audited : /\ s \notin Committed
                          /\ Committed' = Committed \cup {s} /\ outbox' = outbox \cup {s}
                          /\ Answered' = Answered
                          => PromiseStep
    /\ \A xs \in SUBSET Audited : /\ xs \subseteq Committed
                                  /\ Answered' = Answered \cup xs
                                  /\ Committed' = Committed /\ outbox' = outbox
                                  => PromiseStep
    /\ \A xs \in SUBSET Audited : /\ xs \subseteq outbox \cap Answered
                                  /\ outbox' = outbox \ xs
                                  /\ Committed' = Committed /\ Answered' = Answered
                                  => PromiseStep
    /\ Committed' = Committed /\ outbox' = outbox /\ Answered' = Answered => PromiseStep
<1>1. ASSUME NEW s \in Audited, s \notin Committed, Committed' = Committed \cup {s},
             outbox' = outbox \cup {s}, Answered' = Answered
      PROVE  PromiseStep
    BY <1>1 DEF PromiseStep, Promise!Next, Promise!Put
<1>2. ASSUME NEW xs \in SUBSET Audited, xs \subseteq Committed, Answered' = Answered \cup xs,
             Committed' = Committed, outbox' = outbox
      PROVE  PromiseStep
    BY <1>2 DEF PromiseStep, Promise!Next, Promise!Take
<1>3. ASSUME NEW xs \in SUBSET Audited, xs \subseteq outbox \cap Answered, outbox' = outbox \ xs,
             Committed' = Committed, Answered' = Answered
      PROVE  PromiseStep
    BY <1>3 DEF PromiseStep, Promise!Next, Promise!Forget
<1>4. Committed' = Committed /\ outbox' = outbox /\ Answered' = Answered => PromiseStep
    BY DEF PromiseStep
<1> QED
    BY <1>1, <1>2, <1>3, <1>4

\* What a step leaves alone stays covered.
LEMMA AnswersFrame ==
    ASSUME AnswersInv, DeliveryTypes',
           outbox' \subseteq Committed', Answered \subseteq Answered', Answered' \subseteq Committed',
           Committed \subseteq Committed',
           \A e \in Drainers : \/ export'[e] = export[e] /\ round'[e] = round[e]
                               \/ round'[e] \subseteq Committed' /\ RoundCovered(e)'
    PROVE  AnswersInv'
<1>1. ASSUME NEW e \in Drainers
      PROVE  round'[e] \subseteq Committed' /\ RoundCovered(e)'
    <2>1. CASE export'[e] = export[e] /\ round'[e] = round[e]
        <3>1. RoundCovered(e) /\ round[e] \subseteq Committed
            BY DEF AnswersInv, OnlyCommitted
        <3>2. RoundCovered(e)'
            BY <2>1, <3>1 DEF RoundCovered
        <3> QED
            BY <2>1, <3>1, <3>2
    <2> QED
        BY <2>1
<1> QED
    BY <1>1 DEF AnswersInv, OnlyCommitted

\* What a step leaves alone stays fresh.
LEMMA RoundFreshFrame ==
    ASSUME NEW e \in Drainers, RoundFresh(e),
           export'[e] = export[e], round'[e] = round[e], Holding(e)' = Holding(e),
           round[e] \subseteq outbox',
           export[e].state = "posting" =>
               \A s \in RecordsOf(export[e].requests) : received'[s] = received[s]
    PROVE  RoundFresh(e)'
BY DEF RoundFresh

\* A step that takes a fault leaves nothing to show about a run without any.
LEMMA FaultIsLast ==
    ASSUME DeliveryTypes, Fault
    PROVE  faults' \in Nat /\ OnceInv'
BY DEF DeliveryTypes, Fault, OnceInv

StepKeeps == AnswersInv' /\ OnceInv' /\ PromiseStep

\* audit.Write and the end of the change's transaction.
LEMMA ChangeSteps ==
    ASSUME AnswersInv, OnceInv, NEW s \in Audited, Write(s) \/ CommitChange(s) \/ AbortChange(s)
    PROVE  StepKeeps
<1>1. DeliveryTypes /\ OnlyCommitted
    BY DEF AnswersInv
<1>2. /\ export' = export /\ received' = received /\ rejected' = rejected /\ faults' = faults
      /\ lock' = lock /\ round' = round
    BY DEF Write, CommitChange, AbortChange, client
<1>3. Answered' = Answered
    BY <1>2 DEF Answered
<1>4. DeliveryTypes'
    <2>1. change' \in [Audited -> {"none", "open", "committed", "aborted"}]
        BY <1>1 DEF DeliveryTypes, Write, CommitChange, AbortChange
    <2>2. outbox' \subseteq Audited
        BY <1>1 DEF DeliveryTypes, Write, CommitChange, AbortChange
    <2> QED
        BY <1>1, <1>2, <2>1, <2>2 DEF DeliveryTypes
<1>5. s \notin Committed
    BY DEF Write, CommitChange, AbortChange, Committed
<1>6. received[s] = 0
    <2>1. s \notin Answered
        BY <1>1, <1>5 DEF OnlyCommitted
    <2>2. received[s] \in Nat
        BY <1>1, AuditAssumptions DEF DeliveryTypes
    <2> QED
        BY <2>1, <2>2 DEF Answered
<1>7. \/ Committed' = Committed /\ outbox' = outbox
      \/ Committed' = Committed \cup {s} /\ outbox' = outbox \cup {s}
    <2>1. CASE Write(s) \/ AbortChange(s)
        <3>1. outbox' = outbox
            BY <2>1 DEF Write, AbortChange
        <3>2. \A t \in Audited : change'[t] = "committed" <=> change[t] = "committed"
            BY <2>1, <1>1 DEF Write, AbortChange, DeliveryTypes
        <3> QED
            BY <3>1, <3>2 DEF Committed
    <2>2. CASE CommitChange(s)
        <3>1. outbox' = outbox \cup {s}
            BY <2>2 DEF CommitChange
        <3>2. \A t \in Audited : change'[t] = "committed" <=> change[t] = "committed" \/ t = s
            BY <2>2, <1>1 DEF CommitChange, DeliveryTypes
        <3> QED
            BY <3>1, <3>2 DEF Committed
    <2> QED
        BY <2>1, <2>2
<1>8. AnswersInv'
    <2>1. outbox' \subseteq Committed' /\ Committed \subseteq Committed' /\ Answered' \subseteq Committed'
        BY <1>1, <1>3, <1>7 DEF OnlyCommitted
    <2> QED
        BY <1>2, <1>3, <1>4, <2>1, AnswersFrame
<1>9. OnceInv'
    <2> SUFFICES ASSUME faults = 0
                 PROVE  Fresh'
        BY <1>2 DEF OnceInv
    <2>1. Fresh
        BY DEF OnceInv
    <2>2. ASSUME NEW e \in Drainers
          PROVE  RoundFresh(e)'
        <3>1. RoundFresh(e) /\ round[e] \subseteq outbox
            BY <2>1 DEF Fresh, RoundFresh
        <3>2. Holding(e)' = Holding(e) /\ round[e] \subseteq outbox'
            BY <3>1, <1>2, <1>7 DEF Holding
        <3> QED
            BY <3>1, <3>2, <1>2, RoundFreshFrame
    <2>3. \A t \in outbox' : lock'[t] = Free => received'[t] = 0
        BY <2>1, <1>2, <1>6, <1>7 DEF Fresh
    <2>4. \A t \in Audited : lock'[t] # Crashed /\ received'[t] <= 1
        BY <2>1, <1>2 DEF Fresh
    <2> QED
        BY <2>2, <2>3, <2>4 DEF Fresh
<1>10. PromiseStep
    BY <1>3, <1>5, <1>7, PromiseSteps
<1> QED
    BY <1>8, <1>9, <1>10 DEF StepKeeps

\* PostgreSQL ends the session of a crashed drainer.
LEMMA SessionEndsStep ==
    ASSUME AnswersInv, OnceInv, SessionEnds
    PROVE  StepKeeps
<1>1. DeliveryTypes /\ OnlyCommitted
    BY DEF AnswersInv
<1>2. /\ export' = export /\ received' = received /\ rejected' = rejected /\ faults' = faults
      /\ change' = change /\ outbox' = outbox /\ round' = round
    BY DEF SessionEnds, client
<1>3. Answered' = Answered /\ Committed' = Committed
    BY <1>2 DEF Answered, Committed
<1>4. lock' \in [Audited -> Drainers \cup {Free, Crashed}]
    BY <1>1 DEF DeliveryTypes, SessionEnds
<1>5. DeliveryTypes'
    BY <1>1, <1>2, <1>4 DEF DeliveryTypes
<1>6. AnswersInv'
    BY <1>1, <1>2, <1>3, <1>5, AnswersFrame DEF OnlyCommitted
<1>7. faults # 0
    BY DEF SessionEnds, OnceInv, Fresh
<1>8. OnceInv'
    BY <1>2, <1>7 DEF OnceInv
<1> QED
    BY <1>2, <1>3, <1>6, <1>8, PromiseSteps DEF StepKeeps

\* Claim: the rows become the round, and every one is to be posted.
LEMMA ClaimStep ==
    ASSUME AnswersInv, OnceInv, NEW d \in Drainers, Claim(d)
    PROVE  StepKeeps
<1>1. DeliveryTypes /\ OnlyCommitted /\ d \in Senders
    BY AuditAssumptions DEF AnswersInv
<1>2. PICK rows : rows = ClaimAuditRecords
    OBVIOUS
<1>3. /\ round[d] = {} /\ rows # {}
      /\ round' = [round EXCEPT ![d] = rows]
      /\ lock' = [s \in Audited |-> IF s \in rows THEN d ELSE lock[s]]
      /\ StartExport(d, InOrder(rows))
      /\ UNCHANGED <<change, outbox, received, rejected, faults>>
    BY <1>2 DEF Claim
<1>4. rows \subseteq outbox /\ \A s \in rows : lock[s] = Free
    BY <1>2 DEF ClaimAuditRecords
<1>5. rows \subseteq Audited /\ rows \subseteq Committed
    BY <1>1, <1>4 DEF DeliveryTypes, OnlyCommitted
<1>6. PICK rs : rs = Split(InOrder(rows))
    OBVIOUS
<1>7. rs \in Seq(Seq(Records)) /\ rs # << >> /\ RecordsOf(rs) = rows /\ Disjoint(rs)
    BY <1>3, <1>5, <1>6, InOrderLists, SplitKeepsRecords
<1>8. PICK x : x = [state |-> "posting", requests |-> rs, attempt |-> 1]
    OBVIOUS
<1>9. x \in Exports /\ x.state = "posting" /\ x.requests = rs
    BY <1>7, <1>8 DEF Exports, States
<1>10. export' = [export EXCEPT ![d] = x]
    BY <1>3, <1>6, <1>8 DEF StartExport
<1>11. /\ export'[d] = x /\ round'[d] = rows
       /\ \A e \in Drainers : e # d => export'[e] = export[e] /\ round'[e] = round[e]
    BY <1>1, <1>3, <1>10, AuditAssumptions DEF DeliveryTypes
<1>12. Answered' = Answered /\ Committed' = Committed
    BY <1>3 DEF Answered, Committed
<1>13. DeliveryTypes'
    <2>1. export' \in [Senders -> Exports]
        BY <1>1, <1>9, <1>10 DEF DeliveryTypes
    <2>2. lock' \in [Audited -> Drainers \cup {Free, Crashed}]
        BY <1>1, <1>3 DEF DeliveryTypes
    <2>3. round' \in [Drainers -> SUBSET Audited]
        BY <1>1, <1>3, <1>5 DEF DeliveryTypes
    <2> QED
        BY <1>1, <1>3, <2>1, <2>2, <2>3 DEF DeliveryTypes
<1>14. RoundCovered(d)'
    BY <1>7, <1>9, <1>11 DEF RoundCovered
<1>15. AnswersInv'
    <2>1. \A e \in Drainers : \/ export'[e] = export[e] /\ round'[e] = round[e]
                              \/ round'[e] \subseteq Committed' /\ RoundCovered(e)'
        BY <1>5, <1>11, <1>12, <1>14
    <2> QED
        BY <1>1, <1>3, <1>12, <1>13, <2>1, AnswersFrame DEF OnlyCommitted
<1>16. OnceInv'
    <2> SUFFICES ASSUME faults = 0
                 PROVE  Fresh'
        BY <1>3 DEF OnceInv
    <2>1. Fresh
        BY DEF OnceInv
    <2>2. \A s \in rows : received[s] = 0
        BY <2>1, <1>4 DEF Fresh
    <2>3. RoundFresh(d)'
        <3>1. Holding(d) = {}
            BY <2>1, <1>3 DEF Fresh, RoundFresh
        <3>2. Holding(d)' = rows
            BY <3>1, <1>3, <1>5 DEF Holding
        <3> QED
            BY <3>2, <2>2, <1>3, <1>4, <1>7, <1>9, <1>11 DEF RoundFresh
    <2>4. ASSUME NEW e \in Drainers, e # d
          PROVE  RoundFresh(e)'
        <3>1. RoundFresh(e) /\ round[e] \subseteq outbox'
            BY <2>1, <1>3 DEF Fresh, RoundFresh
        <3>2. Holding(e)' = Holding(e)
            <4>1. \A s \in Audited : lock'[s] = e <=> lock[s] = e
                BY <2>4, <1>3, <1>4, AuditAssumptions
            <4> QED
                BY <4>1 DEF Holding
        <3> QED
            BY <3>1, <3>2, <2>4, <1>3, <1>11, RoundFreshFrame
    <2>5. \A s \in outbox' : lock'[s] = Free => received'[s] = 0
        <3>1. outbox' = outbox /\ received' = received /\ outbox \subseteq Audited
            BY <1>1, <1>3 DEF DeliveryTypes
        <3>2. \A s \in Audited : lock'[s] = Free => lock[s] = Free
            BY <1>3, AuditAssumptions
        <3> QED
            BY <3>1, <3>2, <2>1 DEF Fresh
    <2>6. \A s \in Audited : lock'[s] # Crashed /\ received'[s] <= 1
        BY <2>1, <1>3, AuditAssumptions DEF Fresh
    <2> QED
        BY <2>3, <2>4, <2>5, <2>6 DEF Fresh
<1> QED
    BY <1>3, <1>12, <1>15, <1>16, PromiseSteps DEF StepKeeps

\* The end of a round, however it ends.
LEMMA RoundEnds ==
    ASSUME AnswersInv, NEW d \in Drainers,
           export' = [export EXCEPT ![d] = NoExport], round' = [round EXCEPT ![d] = {}],
           NEW to \in {Free, Crashed}, lock' = [s \in Audited |-> IF lock[s] = d THEN to ELSE lock[s]],
           outbox' \subseteq outbox, UNCHANGED <<change, received, rejected>>, faults' \in Nat
    PROVE  /\ AnswersInv' /\ Committed' = Committed /\ Answered' = Answered
           /\ export'[d] = NoExport /\ round'[d] = {}
           /\ \A e \in Drainers : e # d => export'[e] = export[e] /\ round'[e] = round[e]
<1>1. DeliveryTypes /\ OnlyCommitted /\ d \in Senders
    BY AuditAssumptions DEF AnswersInv
<1>2. /\ export'[d] = NoExport /\ round'[d] = {}
      /\ \A e \in Drainers : e # d => export'[e] = export[e] /\ round'[e] = round[e]
    BY <1>1, AuditAssumptions DEF DeliveryTypes
<1>3. Committed' = Committed /\ Answered' = Answered
    BY DEF Answered, Committed
<1>4. DeliveryTypes'
    <2>1. export' \in [Senders -> Exports]
        BY <1>1, ExportValues DEF DeliveryTypes
    <2>2. lock' \in [Audited -> Drainers \cup {Free, Crashed}]
        BY <1>1 DEF DeliveryTypes
    <2>3. round' \in [Drainers -> SUBSET Audited]
        BY <1>1 DEF DeliveryTypes
    <2> QED
        BY <1>1, <2>1, <2>2, <2>3 DEF DeliveryTypes
<1>5. RoundCovered(d)'
    BY <1>2, ExportValues DEF RoundCovered
<1>6. \A e \in Drainers : \/ export'[e] = export[e] /\ round'[e] = round[e]
                          \/ round'[e] \subseteq Committed' /\ RoundCovered(e)'
    BY <1>2, <1>5
<1>7. outbox' \subseteq Committed' /\ Answered' \subseteq Committed'
    BY <1>1, <1>3 DEF OnlyCommitted
<1>8. AnswersInv'
    BY <1>3, <1>4, <1>6, <1>7, AnswersFrame
<1> QED
    BY <1>2, <1>3, <1>8

\* deliver failed, the delete or the commit failed, or the process died: the
\* rows stay in the outbox.
LEMMA RoundFailsSteps ==
    ASSUME AnswersInv, OnceInv, NEW d \in Drainers,
           DeliveryFailed(d) \/ DeleteFails(d) \/ Crash(d)
    PROVE  StepKeeps
<1>1. DeliveryTypes
    BY DEF AnswersInv
<1>2. /\ export' = [export EXCEPT ![d] = NoExport] /\ round' = [round EXCEPT ![d] = {}]
      /\ outbox' = outbox /\ UNCHANGED <<change, received, rejected>>
    BY DEF DeliveryFailed, DeleteFails, Crash, Rollback
<1>3. \E to \in {Free, Crashed} : lock' = [s \in Audited |-> IF lock[s] = d THEN to ELSE lock[s]]
    <2>1. CASE DeliveryFailed(d) \/ DeleteFails(d)
        BY <2>1 DEF DeliveryFailed, DeleteFails, Rollback
    <2>2. CASE Crash(d)
        BY <2>2 DEF Crash
    <2> QED
        BY <2>1, <2>2
<1>4. faults' \in Nat /\ (Fault \/ (faults' = faults /\ faults # 0))
    <2>1. CASE DeliveryFailed(d)
        <3>1. export[d].state = "failed" /\ faults' = faults
            BY <2>1 DEF DeliveryFailed
        <3>2. faults # 0
            BY <3>1 DEF OnceInv, Fresh, RoundFresh
        <3> QED
            BY <3>1, <3>2, <1>1 DEF DeliveryTypes
    <2>2. CASE DeleteFails(d) /\ Holding(d) = round[d]
        BY <2>2, <1>1, FaultIsLast DEF DeleteFails
    <2>3. CASE DeleteFails(d) /\ Holding(d) # round[d]
        <3>1. faults' = faults
            BY <2>3 DEF DeleteFails
        <3>2. faults # 0
            BY <2>3 DEF OnceInv, Fresh, RoundFresh
        <3> QED
            BY <3>1, <3>2, <1>1 DEF DeliveryTypes
    <2>4. CASE Crash(d)
        BY <2>4, <1>1, FaultIsLast DEF Crash
    <2> QED
        BY <2>1, <2>2, <2>3, <2>4
<1>5. PICK to \in {Free, Crashed} : lock' = [s \in Audited |-> IF lock[s] = d THEN to ELSE lock[s]]
    BY <1>3
<1>6. AnswersInv' /\ Committed' = Committed /\ Answered' = Answered
    BY <1>2, <1>4, <1>5, RoundEnds
<1>7. OnceInv'
    BY <1>1, <1>4, FaultIsLast DEF OnceInv
<1> QED
    BY <1>2, <1>6, <1>7, PromiseSteps DEF StepKeeps

\* DeleteAuditRecords and the commit: the rows of the round leave the outbox.
LEMMA DeleteStep ==
    ASSUME AnswersInv, OnceInv, NEW d \in Drainers, Delete(d)
    PROVE  StepKeeps
<1>1. DeliveryTypes /\ RoundCovered(d)
    BY DEF AnswersInv
<1>2. /\ export' = [export EXCEPT ![d] = NoExport] /\ round' = [round EXCEPT ![d] = {}]
      /\ lock' = [s \in Audited |-> IF lock[s] = d THEN Free ELSE lock[s]]
      /\ outbox' = outbox \ round[d] /\ UNCHANGED <<change, received, rejected>> /\ faults' = faults
      /\ export[d].state = "ok" /\ Holding(d) = round[d]
    BY DEF Delete
<1>3. outbox' \subseteq outbox /\ faults' \in Nat /\ Free \in {Free, Crashed}
    BY <1>1, <1>2 DEF DeliveryTypes
<1>4. /\ AnswersInv' /\ Committed' = Committed /\ Answered' = Answered
      /\ export'[d] = NoExport /\ round'[d] = {}
      /\ \A e \in Drainers : e # d => export'[e] = export[e] /\ round'[e] = round[e]
    BY <1>2, <1>3, RoundEnds
<1>5. PromiseStep
    <2>1. round[d] \subseteq Answered /\ round[d] \subseteq Audited
        BY <1>1, <1>2 DEF RoundCovered, DeliveryTypes
    <2>2. PICK xs \in SUBSET Audited : xs = round[d] \cap outbox
        BY <2>1
    <2>3. xs \subseteq outbox \cap Answered /\ outbox' = outbox \ xs
        BY <2>1, <2>2, <1>2
    <2> QED
        BY <2>3, <1>4, PromiseSteps
<1>6. OnceInv'
    <2> SUFFICES ASSUME faults = 0
                 PROVE  Fresh'
        BY <1>2 DEF OnceInv
    <2>1. Fresh
        BY DEF OnceInv
    <2>2. RoundFresh(d)'
        <3>1. Holding(d)' = {}
            BY <1>2, AuditAssumptions DEF Holding
        <3> QED
            BY <3>1, <1>4, ExportValues DEF RoundFresh
    <2>3. ASSUME NEW e \in Drainers, e # d
          PROVE  RoundFresh(e)'
        <3>1. RoundFresh(e) /\ round[e] = Holding(e) /\ round[e] \subseteq outbox
            BY <2>1 DEF Fresh, RoundFresh
        <3>2. Holding(e) \cap Holding(d) = {}
            BY <2>3 DEF Holding
        <3>3. round[e] \subseteq outbox'
            BY <3>1, <3>2, <1>2
        <3>4. Holding(e)' = Holding(e)
            <4>1. \A s \in Audited : lock'[s] = e <=> lock[s] = e
                BY <2>3, <1>2, AuditAssumptions
            <4> QED
                BY <4>1 DEF Holding
        <3> QED
            BY <3>1, <3>3, <3>4, <2>3, <1>2, <1>4, RoundFreshFrame
    <2>4. \A s \in outbox' : lock'[s] = Free => received'[s] = 0
        <3>1. \A s \in outbox' : s \in outbox /\ s \in Audited /\ s \notin Holding(d)
            BY <1>1, <1>2 DEF DeliveryTypes
        <3>2. \A s \in outbox' : lock'[s] = lock[s]
            BY <3>1, <1>2 DEF Holding
        <3> QED
            BY <3>1, <3>2, <2>1, <1>2 DEF Fresh
    <2>5. \A s \in Audited : lock'[s] # Crashed /\ received'[s] <= 1
        BY <2>1, <1>2, AuditAssumptions DEF Fresh
    <2> QED
        BY <2>2, <2>3, <2>4, <2>5 DEF Fresh
<1> QED
    BY <1>4, <1>5, <1>6 DEF StepKeeps

\* PostgreSQL loses the connection of a drainer that exports.
LEMMA ConnectionLostStep ==
    ASSUME AnswersInv, OnceInv, NEW d \in Drainers, ConnectionLost(d)
    PROVE  StepKeeps
<1>1. DeliveryTypes /\ OnlyCommitted
    BY DEF AnswersInv
<1>2. UNCHANGED <<change, outbox, round, export, received, rejected>> /\ Fault
    BY DEF ConnectionLost
<1>3. faults' \in Nat /\ OnceInv'
    BY <1>1, <1>2, FaultIsLast
<1>4. lock' \in [Audited -> Drainers \cup {Free, Crashed}]
    BY <1>1 DEF DeliveryTypes, ConnectionLost
<1>5. DeliveryTypes'
    BY <1>1, <1>2, <1>3, <1>4 DEF DeliveryTypes
<1>6. Answered' = Answered /\ Committed' = Committed
    BY <1>2 DEF Answered, Committed
<1>7. AnswersInv'
    BY <1>1, <1>2, <1>5, <1>6, AnswersFrame DEF OnlyCommitted
<1> QED
    BY <1>2, <1>3, <1>6, <1>7, PromiseSteps DEF StepKeeps

\* An answer to a post, a lost one, or the end of the export: AnswersInv and
\* the refinement.
LEMMA ExportAnswers ==
    ASSUME AnswersInv, NEW d \in Drainers, UNCHANGED audit, faults' \in Nat,
           NEW x \in Exports, export' = [export EXCEPT ![d] = x],
           NEW rs \in SUBSET round[d], NEW refused \in SUBSET round[d],
           Take(rs), rejected' = rejected \cup refused,
           x.state = "posting" => /\ x.requests # << >> /\ RecordsOf(x.requests) \subseteq round[d]
                                  /\ round[d] \subseteq RecordsOf(x.requests) \cup Answered \cup rs \cup refused,
           x.state = "ok" => round[d] \subseteq Answered \cup rs \cup refused
    PROVE  AnswersInv' /\ PromiseStep
<1>1. DeliveryTypes /\ OnlyCommitted /\ d \in Senders
    BY AuditAssumptions DEF AnswersInv
<1>2. change' = change /\ outbox' = outbox /\ lock' = lock /\ round' = round
    BY DEF audit
<1>3. round[d] \subseteq Committed /\ round[d] \subseteq Audited
    BY <1>1 DEF OnlyCommitted, DeliveryTypes
<1>4. /\ received' \in [Records -> Nat] /\ rejected' \subseteq Records
      /\ Answered' = Answered \cup rs \cup refused
    <2>1. rs \in SUBSET Audited /\ refused \in SUBSET Audited
        BY <1>3
    <2> QED
        BY <2>1, <1>1, TakeAnswers
<1>5. Committed' = Committed
    BY <1>2 DEF Committed
<1>6. DeliveryTypes'
    <2>1. export' \in [Senders -> Exports]
        BY <1>1 DEF DeliveryTypes
    <2> QED
        BY <1>1, <1>2, <1>4, <2>1 DEF DeliveryTypes
<1>7. export'[d] = x /\ \A e \in Drainers : e # d => export'[e] = export[e]
    BY <1>1, AuditAssumptions DEF DeliveryTypes
<1>8. RoundCovered(d)'
    BY <1>2, <1>4, <1>7 DEF RoundCovered
<1>9. \A e \in Drainers : \/ export'[e] = export[e] /\ round'[e] = round[e]
                          \/ round'[e] \subseteq Committed' /\ RoundCovered(e)'
    BY <1>2, <1>3, <1>5, <1>7, <1>8
<1>10. outbox' \subseteq Committed' /\ Answered' \subseteq Committed' /\ Answered \subseteq Answered'
    BY <1>1, <1>2, <1>3, <1>4, <1>5 DEF OnlyCommitted
<1>11. AnswersInv'
    BY <1>5, <1>6, <1>9, <1>10, AnswersFrame
<1>12. PromiseStep
    <2>1. PICK xs \in SUBSET Audited : xs = rs \cup refused
        BY <1>3
    <2>2. xs \subseteq Committed /\ Answered' = Answered \cup xs
        BY <2>1, <1>3, <1>4
    <2> QED
        BY <2>2, <1>2, <1>5, PromiseSteps
<1> QED
    BY <1>11, <1>12

\* A 2xx answer.
LEMMA AcceptedStep ==
    ASSUME AnswersInv, OnceInv, NEW d \in Drainers, UNCHANGED audit,
           NEW refused \in SUBSET Records, PostAccepted(d, refused)
    PROVE  StepKeeps
<1>1. DeliveryTypes /\ export[d].state = "posting" /\ d \in Senders
    BY AuditAssumptions DEF AnswersInv, PostAccepted
<1>2. PICK requests \in Seq(Seq(Records)) : requests = export[d].requests /\ requests # << >>
    BY <1>1, FirstRequest
<1>3. PICK rs : rs = InRequest(Head(requests))
    OBVIOUS
<1>4. PICK rest : rest = Tail(requests)
    OBVIOUS
<1>5. /\ rs \subseteq round[d] /\ RecordsOf(rest) \subseteq round[d]
      /\ round[d] \subseteq rs \cup RecordsOf(rest) \cup Answered
      /\ round[d] \subseteq Audited /\ Audited \subseteq Records
    BY <1>1, <1>2, <1>3, <1>4, FirstRequest
<1>6. PICK x : x = NextRequest(d)
    OBVIOUS
<1>7. /\ x \in Exports
      /\ \/ x.state = "ok" /\ RecordsOf(rest) = {}
         \/ x.state = "posting" /\ rest # << >> /\ x.requests = rest
    BY <1>1, <1>2, <1>4, <1>6, NextRequestValue DEF DeliveryTypes
<1>8. /\ refused \subseteq rs /\ Take(rs \ refused) /\ rejected' = rejected \cup refused
      /\ export' = [export EXCEPT ![d] = x] /\ faults' = faults
    BY <1>2, <1>3, <1>6 DEF PostAccepted
<1>9. PICK taken : taken = rs \ refused
    OBVIOUS
<1>10. /\ taken \in SUBSET round[d] /\ refused \in SUBSET round[d] /\ Take(taken)
       /\ taken \cup refused = rs /\ faults' \in Nat
    BY <1>1, <1>5, <1>8, <1>9 DEF DeliveryTypes
<1>11. AnswersInv' /\ PromiseStep
    <2>1. x.state = "posting" => /\ x.requests # << >> /\ RecordsOf(x.requests) \subseteq round[d]
                                 /\ round[d] \subseteq RecordsOf(x.requests) \cup Answered \cup taken \cup refused
        BY <1>5, <1>7, <1>10
    <2>2. x.state = "ok" => round[d] \subseteq Answered \cup taken \cup refused
        BY <1>5, <1>7, <1>10
    <2> QED
        BY <1>7, <1>8, <1>10, <2>1, <2>2, ExportAnswers
<1>12. OnceInv'
    <2> SUFFICES ASSUME faults = 0
                 PROVE  Fresh'
        BY <1>8 DEF OnceInv
    <2>1. Fresh
        BY DEF OnceInv
    <2>2. outbox' = outbox /\ lock' = lock /\ round' = round
        BY DEF audit
    <2>3. export'[d] = x /\ \A e \in Drainers : e # d => export'[e] = export[e]
        BY <1>1, <1>8, AuditAssumptions DEF DeliveryTypes
    <2>4. /\ \A r \in Records : r \notin rs => received'[r] = received[r]
          /\ \A r \in rs : received'[r] = received[r] \/ received'[r] = received[r] + 1
        <3>1. taken \in SUBSET Audited /\ refused \in SUBSET Audited
            BY <1>5, <1>10
        <3>2. /\ \A r \in Records : r \notin taken => received'[r] = received[r]
              /\ \A r \in Records : r \in taken => received'[r] = received[r] + 1
            BY <3>1, <1>1, <1>8, <1>10, TakeAnswers
        <3> QED
            BY <3>2, <1>5, <1>9
    <2>5. /\ RoundFresh(d) /\ round[d] = Holding(d) /\ Disjoint(requests)
          /\ \A s \in RecordsOf(requests) : received[s] = 0
        BY <2>1, <1>1, <1>2 DEF Fresh, RoundFresh
    <2>6. /\ RecordsOf(requests) = rs \cup RecordsOf(rest) /\ Disjoint(rest)
          /\ rs \cap RecordsOf(rest) = {}
        BY <2>5, <1>2, <1>3, <1>4, RecordsOfTail
    <2>7. RoundFresh(d)'
        <3>1. Holding(d)' = Holding(d)
            BY <2>2 DEF Holding
        <3>2. \A s \in RecordsOf(rest) : received'[s] = 0
            BY <2>4, <2>5, <2>6, <1>5
        <3> QED
            BY <3>1, <3>2, <2>2, <2>3, <2>5, <2>6, <1>7 DEF RoundFresh
    <2>8. ASSUME NEW e \in Drainers, e # d
          PROVE  RoundFresh(e)'
        <3>1. RoundFresh(e) /\ round[e] = Holding(e) /\ round[e] \subseteq outbox'
            BY <2>1, <2>2 DEF Fresh, RoundFresh
        <3>2. Holding(e)' = Holding(e) /\ Holding(e) \cap rs = {}
            BY <2>2, <2>5, <2>8, <1>5 DEF Holding
        <3>3. ASSUME export[e].state = "posting"
              PROVE  \A s \in RecordsOf(export[e].requests) : received'[s] = received[s]
            <4>1. RecordsOf(export[e].requests) \subseteq round[e] /\ round[e] \subseteq Audited
                BY <3>3, <1>1 DEF AnswersInv, RoundCovered, DeliveryTypes
            <4> QED
                BY <4>1, <3>1, <3>2, <2>4, <1>5
        <3> QED
            BY <3>1, <3>2, <3>3, <2>2, <2>3, <2>8, RoundFreshFrame
    <2>9. \A s \in outbox' : lock'[s] = Free => received'[s] = 0
        <3>1. \A s \in rs : lock[s] = d
            BY <2>5, <1>5 DEF Holding
        <3>2. outbox \subseteq Audited
            BY <1>1 DEF DeliveryTypes
        <3> QED
            BY <3>1, <3>2, <2>1, <2>2, <2>4, <1>5, AuditAssumptions DEF Fresh
    <2>10. \A s \in Audited : lock'[s] # Crashed /\ received'[s] <= 1
        <3>1. \A s \in rs : received[s] = 0
            BY <2>5, <2>6
        <3>2. \A s \in Audited : received'[s] <= 1
            BY <3>1, <2>1, <2>4, <1>5 DEF Fresh
        <3> QED
            BY <3>2, <2>1, <2>2 DEF Fresh
    <2> QED
        BY <2>7, <2>8, <2>9, <2>10 DEF Fresh
<1> QED
    BY <1>11, <1>12 DEF StepKeeps

\* Every other end of an attempt takes a fault.
LEMMA FailedPostSteps ==
    ASSUME AnswersInv, OnceInv, NEW d \in Drainers, UNCHANGED audit,
           PostRefused(d) \/ PostUnanswered(d) \/ ExportEnds(d)
    PROVE  StepKeeps
<1>1. DeliveryTypes /\ export[d].state = "posting" /\ d \in Senders /\ Fault /\ RoundCovered(d)
    BY AuditAssumptions DEF AnswersInv, PostRefused, PostUnanswered, ExportEnds
<1>2. faults' \in Nat /\ OnceInv'
    BY <1>1, FaultIsLast
<1>3. PICK rs : rs = InRequest(Head(export[d].requests))
    OBVIOUS
<1>4. rs \in SUBSET round[d] /\ {} \in SUBSET round[d] /\ rejected = rejected \cup {}
    BY <1>1, <1>3, FirstRequest
<1>5. /\ export[d].requests # << >> /\ RecordsOf(export[d].requests) \subseteq round[d]
      /\ round[d] \subseteq RecordsOf(export[d].requests) \cup Answered
    BY <1>1 DEF RoundCovered
<1>7. PICK y : y = TriedAgain(d)
    OBVIOUS
<1>8. /\ y \in Exports
      /\ y.state = "failed" \/ (y.state = "posting" /\ y.requests = export[d].requests)
    BY <1>1, <1>7, TriedAgainValue DEF DeliveryTypes
<1>9. PICK z : z = [NoExport EXCEPT !.state = "failed"]
    OBVIOUS
<1>10. z \in Exports /\ z.state = "failed"
    BY <1>9, ExportValues
<1>11. received' = received => Take({})
    BY <1>1 DEF Take, DeliveryTypes
<1>12. CASE PostRefused(d)
    <2>1. export' = [export EXCEPT ![d] = y] /\ Take({}) /\ rejected' = rejected \cup {}
        BY <1>7, <1>11, <1>12 DEF PostRefused
    <2>2. AnswersInv' /\ PromiseStep
        BY <2>1, <1>2, <1>4, <1>5, <1>8, ExportAnswers
    <2> QED
        BY <2>2, <1>2 DEF StepKeeps
<1>13. CASE PostUnanswered(d)
    <2>1. export' = [export EXCEPT ![d] = y] /\ Take(rs) /\ rejected' = rejected \cup {}
        BY <1>3, <1>7, <1>13 DEF PostUnanswered
    <2>2. AnswersInv' /\ PromiseStep
        BY <2>1, <1>2, <1>4, <1>5, <1>8, ExportAnswers
    <2> QED
        BY <2>2, <1>2 DEF StepKeeps
<1>14. CASE ExportEnds(d)
    <2>1. export' = [export EXCEPT ![d] = z] /\ Take({}) /\ rejected' = rejected \cup {}
        BY <1>9, <1>11, <1>14 DEF ExportEnds
    <2>2. AnswersInv' /\ PromiseStep
        BY <2>1, <1>2, <1>4, <1>10, ExportAnswers
    <2> QED
        BY <2>2, <1>2 DEF StepKeeps
<1> QED
    BY <1>12, <1>13, <1>14

-----------------------------------------------------------------------------
\* The inductive invariant holds at the start.
LEMMA DeliveryInitHolds == ClientInit /\ AuditInit => AnswersInv /\ OnceInv /\ Promise!Init
<1> SUFFICES ASSUME ClientInit, AuditInit
             PROVE  AnswersInv /\ OnceInv /\ Promise!Init
    OBVIOUS
<1>1. DeliveryTypes
    <2>1. export \in [Senders -> Exports]
        BY ExportValues DEF ClientInit
    <2>2. lock \in [Audited -> Drainers \cup {Free, Crashed}]
        BY DEF AuditInit
    <2> QED
        BY <2>1, <2>2 DEF ClientInit, AuditInit, DeliveryTypes
<1>2. \A r \in Audited : received[r] = 0
    BY AuditAssumptions DEF ClientInit
<1>3. Answered = {} /\ Committed = {} /\ outbox = {}
    BY <1>2 DEF ClientInit, AuditInit, Answered, Committed
<1>4. \A d \in Drainers : export[d] = NoExport /\ round[d] = {}
    BY AuditAssumptions DEF ClientInit, AuditInit
<1>5. AnswersInv
    BY <1>1, <1>3, <1>4, ExportValues DEF AnswersInv, OnlyCommitted, RoundCovered
<1>6. \A s \in Audited : lock[s] = Free
    BY DEF AuditInit
<1>7. \A d \in Drainers : RoundFresh(d)
    <2>1. \A d \in Drainers : Holding(d) = {}
        BY <1>6, AuditAssumptions DEF Holding
    <2> QED
        BY <2>1, <1>3, <1>4, ExportValues DEF RoundFresh
<1>8. OnceInv
    BY <1>2, <1>3, <1>6, <1>7, AuditAssumptions DEF OnceInv, Fresh
<1>9. Promise!Init
    BY <1>3 DEF Promise!Init
<1> QED
    BY <1>5, <1>8, <1>9

\* Every step keeps the invariant and is one of AtLeastOnce, or none.
LEMMA DeliveryNextKeeps ==
    AnswersInv /\ OnceInv /\ [AuditNext]_<<client, audit>>
        => AnswersInv' /\ OnceInv' /\ [Promise!Next]_<<Committed, outbox, Answered>>
<1> SUFFICES ASSUME AnswersInv, OnceInv, [AuditNext]_<<client, audit>>
             PROVE  AnswersInv' /\ OnceInv' /\ [Promise!Next]_<<Committed, outbox, Answered>>
    OBVIOUS
<1>1. ASSUME NEW s \in Audited, Write(s) \/ CommitChange(s) \/ AbortChange(s)
      PROVE  StepKeeps
    BY <1>1, ChangeSteps
<1>2. ASSUME NEW d \in Drainers, Drain(d)
      PROVE  StepKeeps
    BY <1>2, ClaimStep, RoundFailsSteps, DeleteStep DEF Drain
<1>3. ASSUME NEW d \in Drainers, Export(d)
      PROVE  StepKeeps
    BY <1>3, AcceptedStep, FailedPostSteps DEF Export, Post
<1>4. ASSUME NEW d \in Drainers, ConnectionLost(d) \/ Crash(d)
      PROVE  StepKeeps
    BY <1>4, ConnectionLostStep, RoundFailsSteps
<1>5. ASSUME SessionEnds
      PROVE  StepKeeps
    BY <1>5, SessionEndsStep
<1>6. ASSUME UNCHANGED <<client, audit>>
      PROVE  StepKeeps
    <2>1. /\ export' = export /\ received' = received /\ rejected' = rejected /\ faults' = faults
          /\ change' = change /\ outbox' = outbox /\ lock' = lock /\ round' = round
        BY <1>6 DEF client, audit
    <2>2. Answered' = Answered /\ Committed' = Committed
        BY <2>1 DEF Answered, Committed
    <2>3. DeliveryTypes'
        BY <2>1 DEF AnswersInv, DeliveryTypes
    <2>4. AnswersInv'
        BY <2>1, <2>2, <2>3, AnswersFrame DEF AnswersInv, OnlyCommitted
    <2>5. OnceInv'
        BY <2>1 DEF OnceInv, Fresh, RoundFresh, Holding
    <2> QED
        BY <2>1, <2>2, <2>4, <2>5, PromiseSteps DEF StepKeeps
<1>7. StepKeeps
    <2>1. CASE AuditNext
        BY <2>1, <1>1, <1>2, <1>3, <1>4, <1>5 DEF AuditNext
    <2> QED
        BY <2>1, <1>6
<1> QED
    BY <1>7 DEF StepKeeps, PromiseStep

\* What a drainer claimed is still to be posted or was answered for, and all of
\* it was before the rows are deleted; before the first fault its rows are the
\* ones it holds and none of them was received before.
THEOREM DeliveryInvariant == AuditSpec => [](AnswersInv /\ OnceInv)
<1>1. ClientInit /\ AuditInit => AnswersInv /\ OnceInv
    BY DeliveryInitHolds
<1>2. AnswersInv /\ OnceInv /\ [AuditNext]_<<client, audit>> => (AnswersInv /\ OnceInv)'
    BY DeliveryNextKeeps
<1> QED
    BY <1>1, <1>2, PTL DEF AuditSpec

\* ADR 0016: the audit outbox implements AtLeastOnce: no record is lost, whatever
\* crashes, times out or loses its connection, for any replicas and records.
THEOREM OutboxImplementsAtLeastOnce == AuditSpec => ImplementsAtLeastOnce
<1>1. ClientInit /\ AuditInit => Promise!Init
    BY DeliveryInitHolds
<1>2. AnswersInv /\ OnceInv /\ [AuditNext]_<<client, audit>>
          => [Promise!Next]_<<Committed, outbox, Answered>>
    BY DeliveryNextKeeps
<1> QED
    BY <1>1, <1>2, DeliveryInvariant, PTL DEF AuditSpec, ImplementsAtLeastOnce, Promise!Spec

\* drainer.go: while nothing fails, a record is delivered at most once, however
\* many replicas drain.
THEOREM DeliveredOnce == AuditSpec => []OnceWithoutFaults
<1>1. OnceInv => OnceWithoutFaults
    BY DEF OnceInv, Fresh, OnceWithoutFaults
<1> QED
    BY <1>1, DeliveryInvariant, PTL

-----------------------------------------------------------------------------
(* The queue of self-logs.                                                 *)

AddStates == {"new", "room", "full", "dropped", "early", "late"}

\* Type correctness of the OTLP client and of the queue.
LogsTypes ==
    /\ export \in [Senders -> Exports]
    /\ received \in [Records -> Nat] /\ rejected \subseteq Records /\ faults \in Nat
    /\ adding \in [Logged -> AddStates] /\ pending \in Seq(Logged) /\ batch \in Seq(Logged)
    /\ outcome \in [Logged -> {"none", "exported", "dropped_queue_full", "dropped_export_failed"}]
    /\ runner \in {"run", "drain", "last", "done"} /\ shut \in {"no", "stop", "late"}

\* Records whose bytes add keeps for the channel, records in memory, and all
\* whose bytes are counted: a record that found no room is counted too until
\* it gives its bytes back.
Entering == {r \in Logged : adding[r] = "room"}
Refused == {r \in Logged : adding[r] = "full"}
InMemory == InQueue(pending) \cup InQueue(batch)

\* queuedBytes is the size of the records that are counted, and without the
\* refused ones it is within the bound.
BytesExact ==
    /\ bytes = Bytes(Entering \cup InMemory \cup Refused)
    /\ Bytes(Entering \cup InMemory) <= MaxQueuedBytes

\* A record is in the channel or in the batch, once, from its send until it
\* is counted.
Placed ==
    /\ Injective(pending) /\ InQueue(pending) \cap InQueue(batch) = {}
    /\ \A r \in Logged : r \in InMemory <=> adding[r] \in {"early", "late"} /\ outcome[r] = "none"
    /\ \A r \in Logged : adding[r] \in {"new", "room", "full"} => outcome[r] = "none"

LogsAnswered == {r \in Logged : received[r] > 0 \/ r \in rejected}

\* The batch is still to be posted or was answered for.
BatchCovered ==
    /\ export[Queue].state = "posting" =>
           /\ export[Queue].requests # << >>
           /\ RecordsOf(export[Queue].requests) \subseteq InQueue(batch)
           /\ InQueue(batch) \subseteq RecordsOf(export[Queue].requests) \cup LogsAnswered
    /\ export[Queue].state = "ok" => InQueue(batch) \subseteq LogsAnswered
    /\ \A r \in Logged : outcome[r] = "exported" => r \in LogsAnswered

\* Once run has drained the channel, only records of a later send are in it.
DrainedBefore ==
    /\ runner # "run" => shut # "no"
    /\ runner \in {"last", "done"} => \A r \in InQueue(pending) : adding[r] = "late"
    /\ runner = "done" => batch = << >>

LogsInv == LogsTypes /\ BytesExact /\ Placed /\ BatchCovered /\ DrainedBefore

-----------------------------------------------------------------------------
(* The size of a set of records.                                           *)

AtPlace(n) == CHOOSE r \in Records : Cardinality({o \in Records : o < r}) = n - 1
Share(rs, n) == IF AtPlace(n) \in rs THEN SizeOf(AtPlace(n)) ELSE 0

\* f has the size of the members of rs among the first n records.
Sums(f, rs, m) == f = [n \in 0 .. m |-> IF n = 0 THEN 0 ELSE f[n - 1] + Share(rs, n)]

\* The record at a place is one of the records, and no two places share one.
LEMMA PlacesHold ==
    /\ Cardinality(Records) \in Nat
    /\ \A n \in 1 .. Cardinality(Records) : AtPlace(n) \in Records /\ SizeOf(AtPlace(n)) \in Nat
    /\ \A r \in Records : \E n \in 1 .. Cardinality(Records) :
           r = AtPlace(n) /\ \A m \in 1 .. Cardinality(Records) : m # n => r # AtPlace(m)
<1> DEFINE rank(r) == Cardinality({o \in Records : o < r})
<1>1. Records \in SUBSET Nat /\ IsFiniteSet(Records)
    BY OtlpAssumptions, SelfLogsAssumptions
<1>2. PICK c \in Nat : c = Cardinality(Records)
    BY <1>1, RanksDiffer
<1>3. /\ \A r \in Records : rank(r) \in 0 .. c - 1
      /\ \A r, s \in Records : r # s => rank(r) # rank(s)
    BY <1>1, <1>2, RanksDiffer
<1>4. \A i \in 0 .. c - 1 : \E r \in Records : rank(r) = i
    BY <1>1, <1>2, EveryPlaceTaken
<1>5. ASSUME NEW n \in 1 .. c
      PROVE  AtPlace(n) \in Records /\ rank(AtPlace(n)) = n - 1
    <2>1. n - 1 \in 0 .. c - 1
        OBVIOUS
    <2>2. \E r \in Records : rank(r) = n - 1
        BY <2>1, <1>4
    <2>3. AtPlace(n) = CHOOSE r \in Records : rank(r) = n - 1
        BY DEF AtPlace
    <2> HIDE DEF rank
    <2> QED
        BY <2>2, <2>3
<1>6. ASSUME NEW n \in 1 .. c
      PROVE  SizeOf(AtPlace(n)) \in Nat
    BY <1>5, OtlpAssumptions
<1>7. ASSUME NEW r \in Records
      PROVE  \E n \in 1 .. c : r = AtPlace(n) /\ \A m \in 1 .. c : m # n => r # AtPlace(m)
    <2> HIDE DEF rank
    <2>1. PICK n : n = rank(r) + 1
        OBVIOUS
    <2>2. n \in 1 .. c /\ n - 1 = rank(r)
        BY <2>1, <1>3
    <2>3. AtPlace(n) = r
        BY <2>2, <1>3, <1>5
    <2>4. \A m \in 1 .. c : m # n => m - 1 # n - 1
        BY <2>2
    <2>5. \A m \in 1 .. c : m # n => r # AtPlace(m)
        BY <2>2, <2>4, <1>5
    <2> QED
        BY <2>2, <2>3, <2>5
<1> QED
    BY <1>2, <1>5, <1>6, <1>7

\* Bytes is the last of the sums, and each of them is a number.
LEMMA BytesUnfolds ==
    ASSUME NEW rs
    PROVE  \E f : /\ \A n \in 0 .. Cardinality(Records) :
                         f[n] = (IF n = 0 THEN 0 ELSE f[n - 1] + Share(rs, n)) /\ f[n] \in Nat
                  /\ Bytes(rs) = f[Cardinality(Records)]
<1>1. PICK c \in Nat : c = Cardinality(Records)
    BY PlacesHold
<1>2. \A n \in 1 .. c : Share(rs, n) \in Nat
    BY <1>1, PlacesHold DEF Share
<1> DEFINE S == {m \in Nat : \E f : Sums(f, rs, m)}
<1>3. 0 \in S
    <2>1. Sums([n \in 0 .. 0 |-> 0], rs, 0)
        BY DEF Sums
    <2> QED
        BY <2>1
<1>4. ASSUME NEW m \in 0 .. c, m \in S
      PROVE  m + 1 \in S
    <2>1. PICK g : Sums(g, rs, m)
        BY <1>4
    <2>2. PICK f : f = [n \in 0 .. m + 1 |-> IF n <= m THEN g[n] ELSE g[m] + Share(rs, m + 1)]
        OBVIOUS
    <2>3. ASSUME NEW n \in 0 .. m + 1
          PROVE  f[n] = IF n = 0 THEN 0 ELSE f[n - 1] + Share(rs, n)
        <3>1. CASE n = 0
            BY <3>1, <2>1, <2>2 DEF Sums
        <3>2. CASE n # 0 /\ n <= m
            <4>1. n \in 0 .. m /\ n - 1 \in 0 .. m + 1 /\ n - 1 <= m
                BY <3>2
            <4>2. f[n] = g[n] /\ f[n - 1] = g[n - 1]
                BY <4>1, <2>2
            <4>3. g[n] = g[n - 1] + Share(rs, n)
                BY <3>2, <4>1, <2>1 DEF Sums
            <4> QED
                BY <4>2, <4>3, <3>2
        <3>3. CASE n = m + 1
            <4>1. f[n] = g[m] + Share(rs, n) /\ f[n - 1] = g[m] /\ n # 0
                BY <3>3, <2>2
            <4> QED
                BY <4>1
        <3> QED
            BY <3>1, <3>2, <3>3
    <2>4. f = [n \in 0 .. m + 1 |-> f[n]]
        BY <2>2
    <2>5. Sums(f, rs, m + 1)
        BY <2>3, <2>4 DEF Sums
    <2> QED
        BY <2>5
<1>5. 0 .. c \subseteq S
    <2> HIDE DEF S
    <2> QED
        BY <1>3, <1>4, UpTo
<1>6. \E f : Sums(f, rs, c)
    BY <1>5
<1> DEFINE a == CHOOSE f : Sums(f, rs, Cardinality(Records))
<1>7. Bytes(rs) = a[Cardinality(Records)]
    BY Zenon DEF Bytes, Sums, Share, AtPlace
<1>8. PICK f : f = a
    OBVIOUS
<1>9. Sums(f, rs, c)
    BY <1>1, <1>6, <1>8
<1>10. \A n \in 0 .. c : f[n] = IF n = 0 THEN 0 ELSE f[n - 1] + Share(rs, n)
    BY <1>9 DEF Sums
<1> DEFINE T == {n \in 0 .. c : f[n] \in Nat}
<1>11. 0 .. c \subseteq T
    <2>1. 0 \in T
        BY <1>10
    <2>2. ASSUME NEW i \in 0 .. c, i \in T, i # c
          PROVE  i + 1 \in T
        <3>1. i + 1 \in 1 .. c /\ i + 1 \in 0 .. c /\ (i + 1) - 1 = i /\ i + 1 # 0
            BY <2>2
        <3>2. f[i + 1] = f[i] + Share(rs, i + 1)
            BY <3>1, <1>10
        <3> QED
            BY <3>1, <3>2, <2>2, <1>2
    <2> HIDE DEF T
    <2> QED
        BY <2>1, <2>2, UpTo
<1>12. \A n \in 0 .. c : f[n] \in Nat
    BY <1>11
<1>13. Bytes(rs) = f[c]
    <2> HIDE DEF a
    <2> QED
        BY <1>1, <1>7, <1>8
<1> HIDE DEF a, S, T
<1> QED
    BY <1>1, <1>10, <1>12, <1>13

\* The sizes of sets that share no record add up.
LEMMA BytesAddUp ==
    ASSUME NEW rs, NEW ss, rs \cap ss = {}
    PROVE  Bytes(rs \cup ss) = Bytes(rs) + Bytes(ss) /\ Bytes(rs) \in Nat /\ Bytes(ss) \in Nat
<1>1. PICK c \in Nat : c = Cardinality(Records)
    BY PlacesHold
<1>2. PICK f : /\ \A n \in 0 .. c : f[n] = (IF n = 0 THEN 0 ELSE f[n - 1] + Share(rs, n)) /\ f[n] \in Nat
               /\ Bytes(rs) = f[c]
    BY <1>1, BytesUnfolds
<1>3. PICK g : /\ \A n \in 0 .. c : g[n] = (IF n = 0 THEN 0 ELSE g[n - 1] + Share(ss, n)) /\ g[n] \in Nat
               /\ Bytes(ss) = g[c]
    BY <1>1, BytesUnfolds
<1>4. PICK h : /\ \A n \in 0 .. c : h[n] = (IF n = 0 THEN 0 ELSE h[n - 1] + Share(rs \cup ss, n)) /\ h[n] \in Nat
               /\ Bytes(rs \cup ss) = h[c]
    BY <1>1, BytesUnfolds
<1>5. ASSUME NEW n \in 1 .. c
      PROVE  /\ Share(rs \cup ss, n) = Share(rs, n) + Share(ss, n)
             /\ Share(rs, n) \in Nat /\ Share(ss, n) \in Nat
    BY <1>1, PlacesHold DEF Share
<1> DEFINE S == {n \in 0 .. c : h[n] = f[n] + g[n]}
<1>6. 0 \in S
    BY <1>2, <1>3, <1>4
<1>7. ASSUME NEW i \in 0 .. c, i \in S, i # c
      PROVE  i + 1 \in S
    <2>1. i + 1 \in 1 .. c /\ i + 1 \in 0 .. c /\ (i + 1) - 1 = i /\ i + 1 # 0
        BY <1>7
    <2>2. /\ f[i + 1] = f[i] + Share(rs, i + 1) /\ g[i + 1] = g[i] + Share(ss, i + 1)
          /\ h[i + 1] = h[i] + Share(rs \cup ss, i + 1)
        BY <2>1, <1>2, <1>3, <1>4
    <2>3. h[i] = f[i] + g[i] /\ f[i] \in Nat /\ g[i] \in Nat
        BY <1>2, <1>3, <1>7
    <2> QED
        BY <2>1, <2>2, <2>3, <1>5
<1>8. 0 .. c \subseteq S
    <2> HIDE DEF S
    <2> QED
        BY <1>6, <1>7, UpTo
<1>9. h[c] = f[c] + g[c]
    BY <1>8
<1> QED
    BY <1>2, <1>3, <1>4, <1>9

\* The size of a set is a number.
LEMMA BytesType ==
    ASSUME NEW rs
    PROVE  Bytes(rs) \in Nat
<1>1. rs \cap {} = {}
    OBVIOUS
<1> QED
    BY <1>1, BytesAddUp

\* A part is not larger than the whole.
LEMMA BytesMonotone ==
    ASSUME NEW ss, NEW rs \in SUBSET ss
    PROVE  Bytes(rs) <= Bytes(ss) /\ Bytes(ss \ rs) = Bytes(ss) - Bytes(rs)
<1>1. PICK rest : rest = ss \ rs
    OBVIOUS
<1>2. rs \cap rest = {} /\ ss = rs \cup rest
    BY <1>1
<1>3. Bytes(ss) = Bytes(rs) + Bytes(rest) /\ Bytes(rs) \in Nat /\ Bytes(rest) \in Nat
    BY <1>2, BytesAddUp
<1> QED
    BY <1>1, <1>3

\* One record has its own size.
LEMMA BytesOfOne ==
    ASSUME NEW r \in Records
    PROVE  Bytes({r}) = SizeOf(r)
<1>1. PICK c \in Nat : c = Cardinality(Records)
    BY PlacesHold
<1>2. PICK f : /\ \A n \in 0 .. c : f[n] = (IF n = 0 THEN 0 ELSE f[n - 1] + Share({r}, n)) /\ f[n] \in Nat
               /\ Bytes({r}) = f[c]
    BY <1>1, BytesUnfolds
<1>3. PICK k \in 1 .. c : r = AtPlace(k) /\ \A m \in 1 .. c : m # k => r # AtPlace(m)
    BY <1>1, PlacesHold
<1>4. SizeOf(r) \in Nat
    BY OtlpAssumptions
<1>5. \A n \in 1 .. c : Share({r}, n) = IF n = k THEN SizeOf(r) ELSE 0
    BY <1>3 DEF Share
<1> DEFINE S == {n \in 0 .. c : f[n] = IF n < k THEN 0 ELSE SizeOf(r)}
<1>6. 0 \in S
    BY <1>2, <1>3
<1>7. ASSUME NEW i \in 0 .. c, i \in S, i # c
      PROVE  i + 1 \in S
    <2>1. i + 1 \in 1 .. c /\ i + 1 \in 0 .. c /\ (i + 1) - 1 = i /\ i + 1 # 0
        BY <1>7
    <2>2. f[i + 1] = f[i] + Share({r}, i + 1)
        BY <2>1, <1>2
    <2>3. f[i] = IF i < k THEN 0 ELSE SizeOf(r)
        BY <1>7
    <2> QED
        BY <2>1, <2>2, <2>3, <1>3, <1>4, <1>5
<1>8. 0 .. c \subseteq S
    <2> HIDE DEF S
    <2> QED
        BY <1>6, <1>7, UpTo
<1>9. f[c] = SizeOf(r)
    BY <1>3, <1>8
<1> QED
    BY <1>2, <1>9

-----------------------------------------------------------------------------
(* Steps of the queue.                                                     *)

\* The channel and the batch after a record is added.
LEMMA QueueAppend ==
    ASSUME NEW q \in Seq(Logged), NEW r \in Logged
    PROVE  /\ Append(q, r) \in Seq(Logged) /\ InQueue(Append(q, r)) = InQueue(q) \cup {r}
           /\ Injective(q) /\ r \notin InQueue(q) => Injective(Append(q, r))
<1>1. PICK longer : longer = Append(q, r)
    OBVIOUS
<1>2. /\ longer \in Seq(Logged) /\ Len(longer) = Len(q) + 1 /\ Len(q) \in Nat
      /\ \A i \in 1 .. Len(q) : longer[i] = q[i] /\ i \in 1 .. Len(longer)
      /\ longer[Len(q) + 1] = r /\ Len(q) + 1 \in 1 .. Len(longer)
    BY <1>1
<1>3. \A i \in 1 .. Len(longer) : i \in 1 .. Len(q) \/ i = Len(q) + 1
    BY <1>2
<1>4. InQueue(longer) = InQueue(q) \cup {r}
    <2>1. ASSUME NEW x \in InQueue(longer)
          PROVE  x \in InQueue(q) \cup {r}
        <3>1. PICK i \in 1 .. Len(longer) : x = longer[i]
            BY DEF InQueue
        <3>2. CASE i \in 1 .. Len(q)
            BY <3>1, <3>2, <1>2 DEF InQueue
        <3>3. CASE i = Len(q) + 1
            BY <3>1, <3>3, <1>2
        <3> QED
            BY <3>2, <3>3, <1>3
    <2>2. ASSUME NEW x \in InQueue(q)
          PROVE  x \in InQueue(longer)
        <3>1. PICK i \in 1 .. Len(q) : x = q[i]
            BY DEF InQueue
        <3>2. i \in 1 .. Len(longer) /\ x = longer[i]
            BY <3>1, <1>2
        <3> QED
            BY <3>2 DEF InQueue
    <2>3. r \in InQueue(longer)
        BY <1>2 DEF InQueue
    <2> QED
        BY <2>1, <2>2, <2>3
<1>5. ASSUME Injective(q), r \notin InQueue(q)
      PROVE  Injective(longer)
    <2>1. \A i \in 1 .. Len(q) : q[i] # r
        BY <1>5 DEF InQueue
    <2>2. ASSUME NEW j \in 1 .. Len(longer), NEW k \in 1 .. Len(longer), j # k
          PROVE  longer[j] # longer[k]
        <3>1. CASE j \in 1 .. Len(q) /\ k \in 1 .. Len(q)
            BY <3>1, <2>2, <1>2, <1>5 DEF Injective
        <3>2. CASE j = Len(q) + 1 /\ k \in 1 .. Len(q)
            BY <3>2, <2>1, <1>2
        <3>3. CASE j \in 1 .. Len(q) /\ k = Len(q) + 1
            BY <3>3, <2>1, <1>2
        <3> QED
            BY <3>1, <3>2, <3>3, <2>2, <1>3
    <2> QED
        BY <2>2 DEF Injective
<1> QED
    BY <1>1, <1>2, <1>4, <1>5

\* The channel after its first record is received.
LEMMA QueueTail ==
    ASSUME NEW q \in Seq(Logged), q # << >>
    PROVE  /\ Head(q) \in Logged /\ Tail(q) \in Seq(Logged)
           /\ InQueue(q) = InQueue(Tail(q)) \cup {Head(q)}
           /\ Injective(q) => Injective(Tail(q)) /\ Head(q) \notin InQueue(Tail(q))
<1>1. PICK rest : rest = Tail(q)
    OBVIOUS
<1>2. /\ rest \in Seq(Logged) /\ Len(q) = Len(rest) + 1 /\ Len(rest) \in Nat
      /\ \A i \in 1 .. Len(rest) : rest[i] = q[i + 1] /\ i + 1 \in 1 .. Len(q) /\ i + 1 # 1
      /\ Head(q) = q[1] /\ 1 \in 1 .. Len(q)
      /\ \A i \in 1 .. Len(q) : i # 1 => i - 1 \in 1 .. Len(rest) /\ rest[i - 1] = q[i]
    BY <1>1
<1>3. \A i, j \in 1 .. Len(rest) : i # j => i + 1 # j + 1
    BY <1>2
<1>4. InQueue(q) = InQueue(rest) \cup {q[1]}
    <2>1. ASSUME NEW x \in InQueue(q)
          PROVE  x \in InQueue(rest) \cup {q[1]}
        <3>1. PICK i \in 1 .. Len(q) : x = q[i]
            BY DEF InQueue
        <3>2. CASE i = 1
            BY <3>1, <3>2
        <3>3. CASE i # 1
            <4>1. i - 1 \in 1 .. Len(rest) /\ rest[i - 1] = q[i]
                BY <3>3, <1>2
            <4> QED
                BY <4>1, <3>1 DEF InQueue
        <3> QED
            BY <3>2, <3>3
    <2>2. ASSUME NEW x \in InQueue(rest)
          PROVE  x \in InQueue(q)
        <3>1. PICK i \in 1 .. Len(rest) : x = rest[i]
            BY DEF InQueue
        <3>2. i + 1 \in 1 .. Len(q) /\ x = q[i + 1]
            BY <3>1, <1>2
        <3> QED
            BY <3>2 DEF InQueue
    <2>3. q[1] \in InQueue(q)
        BY <1>2 DEF InQueue
    <2> QED
        BY <2>1, <2>2, <2>3
<1>5. ASSUME Injective(q)
      PROVE  Injective(rest) /\ q[1] \notin InQueue(rest)
    <2>1. ASSUME NEW j \in 1 .. Len(rest), NEW k \in 1 .. Len(rest), j # k
          PROVE  rest[j] # rest[k]
        <3>1. j + 1 \in 1 .. Len(q) /\ k + 1 \in 1 .. Len(q) /\ j + 1 # k + 1
            BY <2>1, <1>2, <1>3
        <3> QED
            BY <3>1, <1>2, <1>5 DEF Injective
    <2>2. \A i \in 1 .. Len(rest) : rest[i] # q[1]
        BY <1>2, <1>5 DEF Injective
    <2> QED
        BY <2>1, <2>2 DEF Injective, InQueue
<1>6. q[1] \in Logged
    BY <1>2
<1> QED
    BY <1>1, <1>2, <1>4, <1>5, <1>6

\* An empty queue has no record.
LEMMA QueueEmpty == InQueue(<< >>) = {}
<1>1. 1 .. Len(<< >>) = {}
    OBVIOUS
<1> QED
    BY <1>1 DEF InQueue

\* The export a flush starts covers the batch.
LEMMA FlushCovers ==
    ASSUME NEW b \in Seq(Logged), b # << >>, export \in [Senders -> Exports], Flush(b)
    PROVE  /\ export' \in [Senders -> Exports]
           /\ export'[Queue].state = "posting" /\ export'[Queue].requests # << >>
           /\ RecordsOf(export'[Queue].requests) = InQueue(b)
<1>1. Queue \in Senders /\ b \in Seq(Records)
    BY SelfLogsAssumptions
<1>2. PICK rs : rs = Split(b)
    OBVIOUS
<1>3. rs \in Seq(Seq(Records)) /\ rs # << >> /\ RecordsOf(rs) = InQueue(b)
    BY <1>1, <1>2, SplitKeepsRecords DEF InQueue, InRequest
<1>4. PICK x : x = [state |-> "posting", requests |-> rs, attempt |-> 1]
    OBVIOUS
<1>5. x \in Exports /\ x.state = "posting" /\ x.requests = rs
    BY <1>3, <1>4 DEF Exports, States
<1>6. export' = [export EXCEPT ![Queue] = x]
    BY <1>2, <1>4 DEF Flush, StartExport
<1>7. export'[Queue] = x /\ export' \in [Senders -> Exports]
    BY <1>1, <1>5, <1>6
<1> QED
    BY <1>3, <1>5, <1>7

\* What is in the channel is in memory, and was logged.
LEMMA PendingLogged ==
    ASSUME LogsTypes
    PROVE  \A s \in InQueue(pending) : s \in InMemory /\ s \in Logged
<1>1. PICK q \in Seq(Logged) : q = pending
    BY DEF LogsTypes
<1>2. InQueue(q) \subseteq Logged
    BY DEF InQueue
<1> QED
    BY <1>1, <1>2 DEF InMemory

\* The steps of add: the bytes are counted, then given back or sent along.
LEMMA AddSteps ==
    ASSUME LogsInv, NEW r \in Logged, AddBytes(r) \/ GiveBack(r) \/ Send(r)
    PROVE  LogsInv'
<1>1. LogsTypes /\ BytesExact /\ Placed /\ BatchCovered /\ DrainedBefore
    BY DEF LogsInv
<1>2. /\ export' = export /\ received' = received /\ rejected' = rejected /\ faults' = faults
      /\ batch' = batch /\ runner' = runner /\ shut' = shut
    BY DEF AddBytes, GiveBack, Send, client
<1>3. r \in Records /\ Bytes({r}) = SizeOf(r) /\ SizeOf(r) \in Nat
    BY SelfLogsAssumptions, OtlpAssumptions, BytesOfOne
<1>4. /\ adding[r] \in {"new", "room", "full"} /\ r \notin InMemory
      /\ adding' \in [Logged -> AddStates]
      /\ \A s \in Logged : s # r => adding'[s] = adding[s]
    BY <1>1 DEF LogsTypes, Placed, AddBytes, GiveBack, Send, AddStates
<1>5. PICK mem : mem = InMemory
    OBVIOUS
<1>6. PICK ent : ent = Entering
    OBVIOUS
<1>7. PICK ref : ref = Refused
    OBVIOUS
<1>8. /\ bytes = Bytes(ent \cup mem \cup ref) /\ Bytes(ent \cup mem) <= MaxQueuedBytes
      /\ Bytes(ent \cup mem) <= bytes /\ bytes \in Nat /\ Bytes(ent \cup mem) \in Nat
    <2>1. bytes = Bytes(ent \cup mem \cup ref) /\ Bytes(ent \cup mem) <= MaxQueuedBytes
        BY <1>1, <1>5, <1>6, <1>7 DEF BytesExact
    <2>2. Bytes(ent \cup mem) <= Bytes(ent \cup mem \cup ref)
        BY BytesMonotone
    <2>3. Bytes(ent \cup mem \cup ref) \in Nat /\ Bytes(ent \cup mem) \in Nat
        BY BytesType
    <2> QED
        BY <2>1, <2>2, <2>3
<1>9. LogsAnswered' = LogsAnswered
    BY <1>2 DEF LogsAnswered
<1>10. CASE AddBytes(r)
    <2>1. /\ adding[r] = "new" /\ bytes' = bytes + SizeOf(r) /\ pending' = pending /\ outcome' = outcome
          /\ adding'[r] = IF HasRoom(r) THEN "room" ELSE "full"
        BY <1>1, <1>10 DEF AddBytes, LogsTypes
    <2>2. InMemory' = mem
        BY <1>2, <1>5, <2>1 DEF InMemory
    <2>3. r \notin ent /\ r \notin ref /\ r \notin mem
        BY <2>1, <1>4, <1>5, <1>6, <1>7 DEF Entering, Refused
    <2>4. BytesExact'
        <3>1. CASE HasRoom(r)
            <4>1. Entering' = ent \cup {r} /\ Refused' = ref
                BY <3>1, <2>1, <2>3, <1>4, <1>6, <1>7 DEF Entering, Refused
            <4>2. Bytes((ent \cup mem \cup ref) \cup {r}) = bytes + SizeOf(r)
                BY <2>3, <1>3, <1>8, BytesAddUp
            <4>3. Bytes((ent \cup mem) \cup {r}) = Bytes(ent \cup mem) + SizeOf(r)
                BY <2>3, <1>3, BytesAddUp
            <4>4. bytes + SizeOf(r) <= MaxQueuedBytes /\ MaxQueuedBytes \in Nat
                BY <3>1, SelfLogsAssumptions DEF HasRoom
            <4>5. /\ (ent \cup {r}) \cup mem \cup ref = (ent \cup mem \cup ref) \cup {r}
                  /\ (ent \cup {r}) \cup mem = (ent \cup mem) \cup {r}
                OBVIOUS
            <4>6. Bytes((ent \cup mem) \cup {r}) <= MaxQueuedBytes
                BY <4>3, <4>4, <1>3, <1>8
            <4> QED
                BY <4>1, <4>2, <4>5, <4>6, <2>1, <2>2 DEF BytesExact
        <3>2. CASE ~HasRoom(r)
            <4>1. Entering' = ent /\ Refused' = ref \cup {r}
                BY <3>2, <2>1, <2>3, <1>4, <1>6, <1>7 DEF Entering, Refused
            <4>2. Bytes((ent \cup mem \cup ref) \cup {r}) = bytes + SizeOf(r)
                BY <2>3, <1>3, <1>8, BytesAddUp
            <4>3. ent \cup mem \cup (ref \cup {r}) = (ent \cup mem \cup ref) \cup {r}
                OBVIOUS
            <4> QED
                BY <4>1, <4>2, <4>3, <2>1, <2>2, <1>8 DEF BytesExact
        <3> QED
            BY <3>1, <3>2
    <2>5. Placed'
        <3>1. \A s \in Logged : /\ adding'[s] \in {"early", "late"} <=> adding[s] \in {"early", "late"}
                                /\ adding'[s] \in {"new", "room", "full"} => adding[s] \in {"new", "room", "full"}
            BY <2>1, <1>4
        <3> QED
            BY <3>1, <2>1, <2>2, <1>1, <1>2, <1>5 DEF Placed
    <2>6. BatchCovered'
        BY <2>1, <1>1, <1>2, <1>9 DEF BatchCovered
    <2>7. DrainedBefore'
        <3>1. \A s \in InQueue(pending) : s \in InMemory /\ s \in Logged
            BY <1>1, PendingLogged
        <3>2. \A s \in InQueue(pending) : adding'[s] = adding[s]
            BY <3>1, <1>4
        <3> QED
            BY <3>2, <2>1, <1>1, <1>2 DEF DrainedBefore
    <2>8. LogsTypes'
        BY <2>1, <1>1, <1>2, <1>4 DEF LogsTypes
    <2> QED
        BY <2>4, <2>5, <2>6, <2>7, <2>8 DEF LogsInv
<1>11. CASE GiveBack(r)
    <2>1. /\ adding[r] \in {"room", "full"} /\ bytes' = bytes - SizeOf(r) /\ pending' = pending
          /\ adding'[r] = "dropped" /\ Counted({r}, "dropped_queue_full")
        BY <1>1, <1>11 DEF GiveBack, LogsTypes
    <2>2. InMemory' = mem
        BY <1>2, <1>5, <2>1 DEF InMemory
    <2>3. r \in ent \cup ref /\ r \notin mem /\ Entering' = ent \ {r} /\ Refused' = ref \ {r}
        BY <2>1, <1>4, <1>5, <1>6, <1>7 DEF Entering, Refused
    <2>4. BytesExact'
        <3>1. (ent \ {r}) \cup mem \cup (ref \ {r}) = (ent \cup mem \cup ref) \ {r}
            BY <2>3
        <3>2. Bytes((ent \cup mem \cup ref) \ {r}) = bytes - SizeOf(r)
            BY <2>3, <1>3, <1>8, BytesMonotone
        <3>3. Bytes((ent \ {r}) \cup mem) <= Bytes(ent \cup mem) /\ Bytes((ent \ {r}) \cup mem) \in Nat
            BY BytesMonotone, BytesType
        <3>4. Bytes((ent \ {r}) \cup mem) <= MaxQueuedBytes
            BY <3>3, <1>8, SelfLogsAssumptions
        <3> QED
            BY <3>1, <3>2, <3>4, <2>1, <2>2, <2>3 DEF BytesExact
    <2>5. outcome'[r] = "dropped_queue_full" /\ \A s \in Logged : s # r => outcome'[s] = outcome[s]
        BY <2>1 DEF Counted
    <2>6. Placed'
        <3>1. ASSUME NEW s \in Logged
              PROVE  /\ s \in InMemory' <=> adding'[s] \in {"early", "late"} /\ outcome'[s] = "none"
                     /\ adding'[s] \in {"new", "room", "full"} => outcome'[s] = "none"
            <4>1. CASE s = r
                BY <4>1, <2>1, <2>2, <2>3
            <4>2. CASE s # r
                <5>1. adding'[s] = adding[s] /\ outcome'[s] = outcome[s]
                    BY <4>2, <2>5, <1>4
                <5> QED
                    BY <5>1, <2>2, <1>1, <1>5 DEF Placed
            <4> QED
                BY <4>1, <4>2
        <3> QED
            BY <3>1, <2>1, <1>1, <1>2 DEF Placed
    <2>7. BatchCovered'
        BY <2>5, <1>1, <1>2, <1>9 DEF BatchCovered
    <2>8. DrainedBefore'
        <3>1. \A s \in InQueue(pending) : s \in InMemory /\ s \in Logged
            BY <1>1, PendingLogged
        <3>2. \A s \in InQueue(pending) : adding'[s] = adding[s]
            BY <3>1, <1>4
        <3> QED
            BY <3>2, <2>1, <1>1, <1>2 DEF DrainedBefore
    <2>9. LogsTypes'
        <3>1. outcome' \in [Logged -> {"none", "exported", "dropped_queue_full", "dropped_export_failed"}]
            BY <2>1, <1>1 DEF Counted, LogsTypes
        <3> QED
            BY <3>1, <2>1, <1>1, <1>2, <1>4 DEF LogsTypes
    <2> QED
        BY <2>4, <2>6, <2>7, <2>8, <2>9 DEF LogsInv
<1>12. CASE Send(r)
    <2>1. /\ adding[r] = "room" /\ bytes' = bytes /\ pending' = Append(pending, r) /\ outcome' = outcome
          /\ adding'[r] = IF shut = "no" THEN "early" ELSE "late"
        BY <1>1, <1>12 DEF Send, LogsTypes
    <2>2. /\ pending' \in Seq(Logged) /\ InQueue(pending') = InQueue(pending) \cup {r}
          /\ Injective(pending')
        <3>1. pending \in Seq(Logged) /\ Injective(pending) /\ r \notin InQueue(pending)
            BY <1>1, <1>4 DEF LogsTypes, Placed, InMemory
        <3> QED
            BY <3>1, <2>1, QueueAppend
    <2>3. InMemory' = mem \cup {r}
        BY <2>2, <1>2, <1>5 DEF InMemory
    <2>4. r \in ent /\ r \notin mem /\ Entering' = ent \ {r} /\ Refused' = ref
        BY <2>1, <1>4, <1>5, <1>6, <1>7 DEF Entering, Refused
    <2>5. BytesExact'
        <3>1. (ent \ {r}) \cup (mem \cup {r}) = ent \cup mem
            BY <2>4
        <3> QED
            BY <3>1, <2>1, <2>3, <2>4, <1>8 DEF BytesExact
    <2>6. Placed'
        <3>1. outcome'[r] = "none" /\ adding'[r] \in {"early", "late"}
            BY <2>1, <1>1 DEF Placed
        <3>2. InQueue(pending') \cap InQueue(batch') = {}
            BY <2>2, <1>1, <1>2, <1>4 DEF Placed, InMemory
        <3>3. ASSUME NEW s \in Logged
              PROVE  /\ s \in InMemory' <=> adding'[s] \in {"early", "late"} /\ outcome'[s] = "none"
                     /\ adding'[s] \in {"new", "room", "full"} => outcome'[s] = "none"
            <4>1. CASE s = r
                BY <4>1, <3>1, <2>3
            <4>2. CASE s # r
                BY <4>2, <2>1, <2>3, <1>1, <1>4, <1>5 DEF Placed
            <4> QED
                BY <4>1, <4>2
        <3> QED
            BY <3>2, <3>3, <2>2 DEF Placed
    <2>7. BatchCovered'
        BY <2>1, <1>1, <1>2, <1>9 DEF BatchCovered
    <2>8. DrainedBefore'
        <3>1. \A s \in InQueue(pending) : s # r /\ adding'[s] = adding[s]
            <4>1. \A s \in InQueue(pending) : s \in InMemory /\ s \in Logged
                BY <1>1, PendingLogged
            <4> QED
                BY <4>1, <1>4
        <3>2. runner # "run" => adding'[r] = "late"
            BY <2>1, <1>1 DEF DrainedBefore
        <3> QED
            BY <3>1, <3>2, <2>2, <1>1, <1>2 DEF DrainedBefore
    <2>9. LogsTypes'
        BY <2>1, <2>2, <1>1, <1>2, <1>4 DEF LogsTypes
    <2> QED
        BY <2>5, <2>6, <2>7, <2>8, <2>9 DEF LogsInv
<1> QED
    BY <1>10, <1>11, <1>12

\* run: a record is received, and a full batch, a tick or the end of the
\* channel starts an export.
LEMMA RunSteps ==
    ASSUME LogsInv, Receive \/ Tick \/ Stopping \/ Drained
    PROVE  LogsInv'
<1>1. LogsTypes /\ BytesExact /\ Placed /\ BatchCovered /\ DrainedBefore
    BY DEF LogsInv
<1>2. /\ received' = received /\ rejected' = rejected /\ faults' = faults
      /\ adding' = adding /\ bytes' = bytes /\ outcome' = outcome /\ shut' = shut
    BY DEF Receive, Tick, Stopping, Drained, logs, client
<1>3. LogsAnswered' = LogsAnswered /\ Entering' = Entering /\ Refused' = Refused
    BY <1>2 DEF LogsAnswered, Entering, Refused
<1>4. export[Queue].state = "none" /\ export \in [Senders -> Exports] /\ batch \in Seq(Logged)
    BY <1>1 DEF Receive, Tick, Stopping, Drained, LogsTypes
<1>5. /\ pending' \in Seq(Logged) /\ batch' \in Seq(Logged) /\ InMemory' = InMemory
      /\ Injective(pending') /\ InQueue(pending') \cap InQueue(batch') = {}
      /\ InQueue(pending') \subseteq InQueue(pending)
    <2>1. CASE Receive
        <3>1. PICK first : first = Head(pending)
            OBVIOUS
        <3>2. PICK rest : rest = Tail(pending)
            OBVIOUS
        <3>3. /\ pending' = rest /\ batch' = Append(batch, first) /\ pending \in Seq(Logged)
              /\ pending # << >> /\ Injective(pending)
            BY <2>1, <3>1, <3>2, <1>1 DEF Receive, LogsTypes, Placed
        <3>4. /\ first \in Logged /\ rest \in Seq(Logged) /\ InQueue(pending) = InQueue(rest) \cup {first}
              /\ Injective(rest) /\ first \notin InQueue(rest)
            BY <3>1, <3>2, <3>3, QueueTail
        <3>5. batch' \in Seq(Logged) /\ InQueue(batch') = InQueue(batch) \cup {first}
            BY <3>3, <3>4, <1>4, QueueAppend
        <3>6. InQueue(pending') = InQueue(rest) /\ InQueue(pending) \cap InQueue(batch) = {}
            BY <3>3, <1>1 DEF Placed
        <3>7. InMemory' = InMemory
            BY <3>4, <3>5, <3>6 DEF InMemory
        <3> QED
            BY <3>3, <3>4, <3>5, <3>6, <3>7
    <2>2. CASE Tick \/ Stopping \/ Drained
        <3>1. pending' = pending /\ batch' = batch
            BY <2>2 DEF Tick, Stopping, Drained, logs
        <3> QED
            BY <3>1, <1>1 DEF LogsTypes, Placed, InMemory
    <2> QED
        BY <2>1, <2>2
<1>6. BytesExact'
    BY <1>1, <1>2, <1>3, <1>5 DEF BytesExact
<1>7. Placed'
    BY <1>1, <1>2, <1>5 DEF Placed
<1>8. \/ export' = export
      \/ batch' # << >> /\ Flush(batch')
    <2>1. CASE Receive
        <3>1. PICK b : b = Append(batch, Head(pending))
            OBVIOUS
        <3>2. batch' = b /\ (Flush(b) \/ export' = export)
            BY <2>1, <3>1 DEF Receive
        <3>3. Flush(b) => Flush(batch')
            BY <3>2
        <3>4. b # << >>
            <4>1. pending \in Seq(Logged) /\ pending # << >>
                BY <2>1, <1>1 DEF Receive, LogsTypes
            <4>2. Head(pending) \in Logged
                BY <4>1, QueueTail
            <4> QED
                BY <4>2, <3>1, <1>4
        <3> QED
            BY <3>2, <3>3, <3>4
    <2>2. CASE Tick
        <3>1. batch' = batch /\ batch # << >> /\ Flush(batch)
            BY <2>2 DEF Tick, logs
        <3> QED
            BY <3>1
    <2>3. CASE Stopping
        BY <2>3 DEF Stopping, client
    <2>4. CASE Drained
        <3>1. batch' = batch /\ Flush(batch)
            BY <2>4 DEF Drained, LastFlush
        <3> QED
            BY <3>1 DEF Flush
    <2> QED
        BY <2>1, <2>2, <2>3, <2>4
<1>9. export' \in [Senders -> Exports] /\ BatchCovered'
    <2>1. CASE export' = export
        <3>1. export'[Queue].state = "none" /\ \A r \in Logged : outcome'[r] = "exported" => r \in LogsAnswered'
            BY <2>1, <1>1, <1>2, <1>3, <1>4 DEF BatchCovered
        <3> QED
            BY <3>1, <2>1, <1>4 DEF BatchCovered
    <2>2. CASE batch' # << >> /\ Flush(batch')
        <3>1. PICK b \in Seq(Logged) : b = batch'
            BY <1>5
        <3>2. b # << >> /\ Flush(b)
            BY <2>2, <3>1
        <3>3. /\ export' \in [Senders -> Exports]
              /\ export'[Queue].state = "posting" /\ export'[Queue].requests # << >>
              /\ RecordsOf(export'[Queue].requests) = InQueue(b)
            BY <3>1, <3>2, <1>4, FlushCovers
        <3>4. \A r \in Logged : outcome'[r] = "exported" => r \in LogsAnswered'
            BY <1>1, <1>2, <1>3 DEF BatchCovered
        <3> QED
            BY <3>1, <3>3, <3>4 DEF BatchCovered
    <2> QED
        BY <1>8, <2>1, <2>2
<1>10. runner' \in {"run", "drain", "last", "done"} /\ DrainedBefore'
    <2>1. CASE Receive \/ Tick
        <3>1. runner' = runner /\ runner \in {"run", "drain"}
            BY <2>1 DEF Receive, Tick, logs
        <3> QED
            BY <3>1, <1>1, <1>2 DEF DrainedBefore
    <2>2. CASE Stopping
        BY <2>2, <1>2 DEF Stopping, DrainedBefore
    <2>3. CASE Drained
        <3>1. /\ runner = "drain" /\ pending' = << >> /\ batch' = batch
              /\ runner' = IF batch = << >> THEN "done" ELSE "last"
            BY <2>3 DEF Drained, LastFlush
        <3>2. InQueue(pending') = {}
            BY <3>1, QueueEmpty
        <3> QED
            BY <3>1, <3>2, <1>1, <1>2 DEF DrainedBefore
    <2> QED
        BY <2>1, <2>2, <2>3
<1>11. LogsTypes'
    BY <1>1, <1>2, <1>5, <1>9, <1>10 DEF LogsTypes
<1> QED
    BY <1>6, <1>7, <1>9, <1>10, <1>11 DEF LogsInv

\* export returned: the batch is counted and its bytes are given back.
LEMMA ExportedStep ==
    ASSUME LogsInv, Exported
    PROVE  LogsInv'
<1>1. LogsTypes /\ BytesExact /\ Placed /\ BatchCovered /\ DrainedBefore /\ Queue \in Senders
    BY SelfLogsAssumptions DEF LogsInv
<1>2. PICK rs : rs = InQueue(batch)
    OBVIOUS
<1>3. PICK as : as = IF export[Queue].state = "ok" THEN "exported" ELSE "dropped_export_failed"
    OBVIOUS
<1>4. /\ Counted(rs, as) /\ bytes' = bytes - Bytes(rs) /\ batch' = << >>
      /\ export' = [export EXCEPT ![Queue] = NoExport]
      /\ runner' = IF runner = "last" THEN "done" ELSE runner
      /\ UNCHANGED <<adding, pending, shut, received, rejected, faults>>
    BY <1>2, <1>3 DEF Exported
<1>5. export' \in [Senders -> Exports] /\ export'[Queue] = NoExport
    BY <1>1, <1>4, ExportValues DEF LogsTypes
<1>6. LogsAnswered' = LogsAnswered /\ Entering' = Entering /\ Refused' = Refused
    BY <1>4 DEF LogsAnswered, Entering, Refused
<1>7. InQueue(pending') = InQueue(pending) /\ InQueue(batch') = {}
    BY <1>4, QueueEmpty
<1>8. /\ \A r \in Logged : r \in rs => outcome'[r] = as
      /\ \A r \in Logged : r \notin rs => outcome'[r] = outcome[r]
    BY <1>4 DEF Counted
<1>9. rs \subseteq InMemory /\ InMemory' = InMemory \ rs /\ rs \subseteq Logged
    <2>1. rs \subseteq Logged
        BY <1>1, <1>2 DEF LogsTypes, InQueue
    <2>2. InQueue(pending) \cap rs = {}
        BY <1>1, <1>2 DEF Placed
    <2> QED
        BY <2>1, <2>2, <1>2, <1>7 DEF InMemory
<1>10. \A r \in rs : r \notin Entering /\ r \notin Refused
    BY <1>1, <1>9 DEF Placed, Entering, Refused
<1>11. BytesExact'
    <2>1. PICK mem : mem = InMemory
        OBVIOUS
    <2>2. PICK ent : ent = Entering
        OBVIOUS
    <2>3. PICK ref : ref = Refused
        OBVIOUS
    <2>4. bytes = Bytes(ent \cup mem \cup ref) /\ Bytes(ent \cup mem) <= MaxQueuedBytes
        BY <1>1, <2>1, <2>2, <2>3 DEF BytesExact
    <2>5. /\ ent \cup (mem \ rs) \cup ref = (ent \cup mem \cup ref) \ rs
          /\ rs \subseteq ent \cup mem \cup ref
        BY <1>9, <1>10, <2>1, <2>2, <2>3
    <2>6. Bytes((ent \cup mem \cup ref) \ rs) = Bytes(ent \cup mem \cup ref) - Bytes(rs)
        BY <2>5, BytesMonotone
    <2>7. ent \cup (mem \ rs) \in SUBSET (ent \cup mem)
        OBVIOUS
    <2>8. /\ Bytes(ent \cup (mem \ rs)) <= Bytes(ent \cup mem)
          /\ Bytes(ent \cup (mem \ rs)) \in Nat /\ Bytes(ent \cup mem) \in Nat
        BY <2>7, BytesMonotone, BytesType
    <2>9. Bytes(ent \cup (mem \ rs)) <= MaxQueuedBytes
        BY <2>4, <2>8, SelfLogsAssumptions
    <2> QED
        BY <2>1, <2>2, <2>3, <2>4, <2>5, <2>6, <2>9, <1>4, <1>6, <1>9 DEF BytesExact
<1>12. Placed'
    <2>1. ASSUME NEW r \in Logged
          PROVE  /\ r \in InMemory' <=> adding'[r] \in {"early", "late"} /\ outcome'[r] = "none"
                 /\ adding'[r] \in {"new", "room", "full"} => outcome'[r] = "none"
        <3>1. CASE r \in rs
            <4>1. outcome'[r] # "none" /\ r \notin InMemory' /\ adding'[r] \in {"early", "late"}
                BY <3>1, <1>1, <1>3, <1>4, <1>8, <1>9 DEF Placed
            <4> QED
                BY <4>1
        <3>2. CASE r \notin rs
            BY <3>2, <1>1, <1>4, <1>8, <1>9 DEF Placed
        <3> QED
            BY <3>1, <3>2
    <2> QED
        BY <2>1, <1>1, <1>4, <1>7 DEF Placed
<1>13. BatchCovered'
    <2>1. ASSUME NEW r \in Logged, outcome'[r] = "exported"
          PROVE  r \in LogsAnswered
        <3>1. CASE r \in rs
            <4>1. export[Queue].state = "ok"
                BY <3>1, <2>1, <1>3, <1>8
            <4> QED
                BY <4>1, <3>1, <1>1, <1>2 DEF BatchCovered
        <3>2. CASE r \notin rs
            BY <3>2, <2>1, <1>1, <1>8 DEF BatchCovered
        <3> QED
            BY <3>1, <3>2
    <2> QED
        BY <2>1, <1>5, <1>6, ExportValues DEF BatchCovered
<1>14. DrainedBefore' /\ runner' \in {"run", "drain", "last", "done"}
    BY <1>1, <1>4 DEF DrainedBefore, LogsTypes
<1>15. LogsTypes'
    <2>1. outcome' \in [Logged -> {"none", "exported", "dropped_queue_full", "dropped_export_failed"}]
        BY <1>1, <1>3, <1>4 DEF Counted, LogsTypes
    <2>2. batch' \in Seq(Logged)
        BY <1>4
    <2> QED
        BY <2>1, <2>2, <1>1, <1>4, <1>5, <1>14 DEF LogsTypes
<1> QED
    BY <1>11, <1>12, <1>13, <1>14, <1>15 DEF LogsInv

\* An end of the queue's export, an answer to a post or a lost one: what was
\* answered for only grows.
LEMMA QueueExportMoves ==
    ASSUME LogsInv, UNCHANGED logs, faults' \in Nat,
           NEW x \in Exports, export' = [export EXCEPT ![Queue] = x],
           received' \in [Records -> Nat], rejected' \subseteq Records,
           LogsAnswered \subseteq LogsAnswered',
           x.state = "posting" =>
               /\ x.requests # << >> /\ RecordsOf(x.requests) \subseteq InQueue(batch)
               /\ InQueue(batch) \subseteq RecordsOf(x.requests) \cup LogsAnswered',
           x.state = "ok" => InQueue(batch) \subseteq LogsAnswered'
    PROVE  LogsInv'
<1>1. LogsTypes /\ BytesExact /\ Placed /\ BatchCovered /\ DrainedBefore /\ Queue \in Senders
    BY SelfLogsAssumptions DEF LogsInv
<1>2. /\ adding' = adding /\ pending' = pending /\ batch' = batch /\ bytes' = bytes
      /\ outcome' = outcome /\ runner' = runner /\ shut' = shut
    BY DEF logs
<1>3. export' \in [Senders -> Exports] /\ export'[Queue] = x
    BY <1>1 DEF LogsTypes
<1>4. BatchCovered'
    <2>1. \A r \in Logged : outcome'[r] = "exported" => r \in LogsAnswered'
        BY <1>1, <1>2 DEF BatchCovered
    <2> QED
        BY <2>1, <1>2, <1>3 DEF BatchCovered
<1>5. Entering' = Entering /\ Refused' = Refused /\ InMemory' = InMemory
    BY <1>2 DEF Entering, Refused, InMemory
<1>6. BytesExact'
    BY <1>1, <1>2, <1>5 DEF BytesExact
<1>7. Placed'
    BY <1>1, <1>2, <1>5 DEF Placed
<1>8. DrainedBefore'
    BY <1>1, <1>2 DEF DrainedBefore
<1>9. LogsTypes'
    BY <1>1, <1>2, <1>3 DEF LogsTypes
<1> QED
    BY <1>4, <1>6, <1>7, <1>8, <1>9 DEF LogsInv

\* The receiver takes records: what it answered for grows by them.
LEMMA TakeAnswersLogs ==
    ASSUME LogsTypes, NEW rs \in SUBSET Logged, NEW refused \in SUBSET Logged,
           Take(rs), rejected' = rejected \cup refused
    PROVE  /\ received' \in [Records -> Nat] /\ rejected' \subseteq Records
           /\ LogsAnswered' = LogsAnswered \cup rs \cup refused
<1>1. Logged \subseteq Records /\ received \in [Records -> Nat] /\ rejected \subseteq Records
    BY SelfLogsAssumptions DEF LogsTypes
<1>2. /\ \A r \in Records : r \notin rs => received'[r] = received[r]
      /\ \A r \in Records : r \in rs => received'[r] = received[r] + 1
    BY <1>1 DEF Take
<1>3. \A r \in Logged : received'[r] > 0 <=> received[r] > 0 \/ r \in rs
    BY <1>1, <1>2
<1>4. LogsAnswered' = LogsAnswered \cup rs \cup refused
    BY <1>1, <1>3 DEF LogsAnswered
<1>5. received' \in [Records -> Nat]
    BY <1>1 DEF Take
<1> QED
    BY <1>1, <1>4, <1>5

\* The posts of the queue's export, and its end when the shutdown is late.
LEMMA QueuePostSteps ==
    ASSUME LogsInv, UNCHANGED logs, Post(Queue) \/ Canceled
    PROVE  LogsInv'
<1>1. LogsTypes /\ BatchCovered /\ Queue \in Senders /\ export \in [Senders -> Exports]
    BY SelfLogsAssumptions DEF LogsInv, LogsTypes
<1>2. export[Queue].state = "posting"
    BY DEF Post, PostAccepted, PostRefused, PostUnanswered, ExportEnds, Canceled
<1>3. PICK requests : requests = export[Queue].requests
    OBVIOUS
<1>4. /\ requests \in Seq(Seq(Records)) /\ requests # << >> /\ RecordsOf(requests) \subseteq InQueue(batch)
      /\ InQueue(batch) \subseteq RecordsOf(requests) \cup LogsAnswered
    BY <1>1, <1>2, <1>3 DEF BatchCovered, Exports
<1>5. PICK rs : rs = InRequest(Head(requests))
    OBVIOUS
<1>6. PICK rest : rest = Tail(requests)
    OBVIOUS
<1>7. RecordsOf(requests) = rs \cup RecordsOf(rest)
    BY <1>4, <1>5, <1>6, RecordsOfTail
<1>8. InQueue(batch) \subseteq Logged
    BY <1>1 DEF LogsTypes, InQueue
<1>9. rs \in SUBSET Logged /\ {} \in SUBSET Logged /\ rejected = rejected \cup {}
    BY <1>4, <1>7, <1>8
<1>10. PICK y : y = TriedAgain(Queue)
    OBVIOUS
<1>11. /\ y \in Exports
       /\ y.state = "failed" \/ (y.state = "posting" /\ y.requests = requests)
    BY <1>1, <1>2, <1>3, <1>10, TriedAgainValue
<1>12. PICK z : z = [NoExport EXCEPT !.state = "failed"]
    OBVIOUS
<1>13. z \in Exports /\ z.state = "failed"
    BY <1>12, ExportValues
<1>14. received' = received => Take({})
    BY <1>1 DEF Take, LogsTypes
<1>15. ASSUME Fault
       PROVE  faults' \in Nat
    BY <1>1, <1>15 DEF Fault, LogsTypes
<1>16. ASSUME NEW refused \in SUBSET Records, PostAccepted(Queue, refused)
       PROVE  LogsInv'
    <2>1. PICK x : x = NextRequest(Queue)
        OBVIOUS
    <2>2. /\ x \in Exports
          /\ \/ x.state = "ok" /\ RecordsOf(rest) = {}
             \/ x.state = "posting" /\ rest # << >> /\ x.requests = rest
        BY <1>1, <1>2, <1>3, <1>4, <1>6, <2>1, NextRequestValue
    <2>3. PICK taken : taken = rs \ refused
        OBVIOUS
    <2>4. /\ refused \subseteq rs /\ Take(taken) /\ rejected' = rejected \cup refused
          /\ export' = [export EXCEPT ![Queue] = x] /\ faults' = faults
        BY <1>3, <1>5, <1>16, <2>1, <2>3 DEF PostAccepted
    <2>5. taken \in SUBSET Logged /\ refused \in SUBSET Logged /\ taken \cup refused = rs
        BY <1>9, <2>3, <2>4
    <2>6. /\ received' \in [Records -> Nat] /\ rejected' \subseteq Records
          /\ LogsAnswered' = LogsAnswered \cup taken \cup refused
        BY <1>1, <2>4, <2>5, TakeAnswersLogs
    <2>7. x.state = "posting" =>
              /\ x.requests # << >> /\ RecordsOf(x.requests) \subseteq InQueue(batch)
              /\ InQueue(batch) \subseteq RecordsOf(x.requests) \cup LogsAnswered'
        BY <1>4, <1>7, <2>2, <2>5, <2>6
    <2>8. x.state = "ok" => InQueue(batch) \subseteq LogsAnswered'
        BY <1>4, <1>7, <2>2, <2>5, <2>6
    <2>9. faults' \in Nat
        BY <1>1, <2>4 DEF LogsTypes
    <2> QED
        BY <2>2, <2>4, <2>6, <2>7, <2>8, <2>9, QueueExportMoves
<1>17. ASSUME NEW ts \in {{}, rs}, Take(ts), rejected' = rejected, faults' \in Nat,
              NEW x \in {y, z}, export' = [export EXCEPT ![Queue] = x]
       PROVE  LogsInv'
    <2>1. ts \in SUBSET Logged /\ rejected' = rejected \cup {}
        BY <1>9, <1>17
    <2>2. /\ received' \in [Records -> Nat] /\ rejected' \subseteq Records
          /\ LogsAnswered' = LogsAnswered \cup ts \cup {}
        BY <1>1, <1>9, <1>17, <2>1, TakeAnswersLogs
    <2>3. x \in Exports /\ (x.state = "failed" \/ (x.state = "posting" /\ x.requests = requests))
        BY <1>11, <1>13
    <2> QED
        BY <1>4, <1>17, <2>2, <2>3, QueueExportMoves
<1>18. CASE PostRefused(Queue)
    <2>1. Fault /\ export' = [export EXCEPT ![Queue] = y] /\ Take({}) /\ rejected' = rejected
        BY <1>10, <1>14, <1>18 DEF PostRefused
    <2> QED
        BY <2>1, <1>15, <1>17
<1>19. CASE PostUnanswered(Queue)
    <2>1. Fault /\ export' = [export EXCEPT ![Queue] = y] /\ Take(rs) /\ rejected' = rejected
        BY <1>3, <1>5, <1>10, <1>19 DEF PostUnanswered
    <2> QED
        BY <2>1, <1>15, <1>17
<1>20. CASE ExportEnds(Queue)
    <2>1. Fault /\ export' = [export EXCEPT ![Queue] = z] /\ Take({}) /\ rejected' = rejected
        BY <1>12, <1>14, <1>20 DEF ExportEnds
    <2> QED
        BY <2>1, <1>15, <1>17
<1>21. CASE Canceled
    <2>1. export' = [export EXCEPT ![Queue] = z] /\ Take({}) /\ rejected' = rejected /\ faults' \in Nat
        BY <1>1, <1>12, <1>14, <1>21 DEF Canceled, LogsTypes
    <2> QED
        BY <2>1, <1>17
<1> QED
    BY <1>16, <1>18, <1>19, <1>20, <1>21 DEF Post

\* The shutdown begins, and runs out of time.
LEMMA ShutdownSteps ==
    ASSUME LogsInv, Stop \/ OutOfTime
    PROVE  LogsInv'
<1>1. LogsTypes /\ BytesExact /\ Placed /\ BatchCovered /\ DrainedBefore
    BY DEF LogsInv
<1>2. /\ export' = export /\ received' = received /\ rejected' = rejected /\ faults' = faults
      /\ adding' = adding /\ pending' = pending /\ batch' = batch /\ bytes' = bytes
      /\ outcome' = outcome /\ runner' = runner /\ shut' \in {"stop", "late"}
    BY DEF Stop, OutOfTime, client
<1>3. /\ Entering' = Entering /\ Refused' = Refused /\ InMemory' = InMemory
      /\ LogsAnswered' = LogsAnswered
    BY <1>2 DEF Entering, Refused, InMemory, LogsAnswered
<1>4. BytesExact'
    BY <1>1, <1>2, <1>3 DEF BytesExact
<1>5. Placed'
    BY <1>1, <1>2, <1>3 DEF Placed
<1>6. BatchCovered'
    BY <1>1, <1>2, <1>3 DEF BatchCovered
<1>7. DrainedBefore'
    BY <1>1, <1>2 DEF DrainedBefore
<1>8. LogsTypes'
    BY <1>1, <1>2 DEF LogsTypes
<1> QED
    BY <1>4, <1>5, <1>6, <1>7, <1>8 DEF LogsInv

-----------------------------------------------------------------------------
\* queuedBytes is exactly the size of what is on its way, every record is in one
\* place until it is counted, and the batch is covered by its export: in every
\* behaviour of the log queue, for any goroutines, sizes and limits.
THEOREM QueueInvariant == LogsSpec => []LogsInv
<1>1. ClientInit /\ LogsInit => LogsInv
    <2> SUFFICES ASSUME ClientInit, LogsInit
                 PROVE  LogsInv
        OBVIOUS
    <2>1. LogsTypes
        <3>1. export \in [Senders -> Exports]
            BY ExportValues DEF ClientInit
        <3>2. adding \in [Logged -> AddStates] /\ pending \in Seq(Logged) /\ batch \in Seq(Logged)
            BY DEF LogsInit, AddStates
        <3> QED
            BY <3>1, <3>2 DEF ClientInit, LogsInit, LogsTypes
    <2>2. /\ \A r \in Logged : adding[r] = "new" /\ outcome[r] = "none"
          /\ pending = << >> /\ batch = << >>
        BY DEF LogsInit
    <2>3. Entering = {} /\ Refused = {} /\ InMemory = {}
        BY <2>2, QueueEmpty DEF Entering, Refused, InMemory
    <2>4. BytesExact
        <3>1. {} \cap {} = {} /\ {} \cup {} = {}
            OBVIOUS
        <3>2. Bytes({} \cup {}) = Bytes({}) + Bytes({}) /\ Bytes({}) \in Nat
            BY <3>1, BytesAddUp
        <3>3. Bytes({}) = 0
            <4>1. PICK b : b = Bytes({})
                OBVIOUS
            <4>2. b \in Nat /\ b = b + b
                BY <3>1, <3>2, <4>1
            <4>3. b = 0
                BY <4>2
            <4> QED
                BY <4>1, <4>3, Zenon
        <3> QED
            BY <3>1, <3>3, <2>3, SelfLogsAssumptions DEF BytesExact, LogsInit
    <2>5. Placed
        <3>1. Injective(<< >>)
            BY DEF Injective
        <3> QED
            BY <3>1, <2>2, <2>3, QueueEmpty DEF Placed
    <2>6. BatchCovered
        <3>1. export[Queue] = NoExport
            BY SelfLogsAssumptions DEF ClientInit
        <3> QED
            BY <3>1, <2>2, ExportValues DEF BatchCovered
    <2>7. DrainedBefore
        BY DEF DrainedBefore, LogsInit
    <2> QED
        BY <2>1, <2>4, <2>5, <2>6, <2>7 DEF LogsInv
<1>2. LogsInv /\ [LogsNext]_<<client, logs>> => LogsInv'
    <2> SUFFICES ASSUME LogsInv, [LogsNext]_<<client, logs>>
                 PROVE  LogsInv'
        OBVIOUS
    <2>1. ASSUME NEW r \in Logged, AddBytes(r) \/ GiveBack(r) \/ Send(r)
          PROVE  LogsInv'
        BY <2>1, AddSteps
    <2>2. CASE Run
        <3>1. Canceled => UNCHANGED logs
            BY DEF Canceled
        <3> QED
            BY <3>1, <2>2, RunSteps, ExportedStep, QueuePostSteps DEF Run
    <2>3. CASE Post(Queue) /\ UNCHANGED logs
        BY <2>3, QueuePostSteps
    <2>4. CASE Stop \/ OutOfTime
        BY <2>4, ShutdownSteps
    <2>5. CASE UNCHANGED <<client, logs>>
        <3>1. /\ export' = export /\ received' = received /\ rejected' = rejected /\ faults' = faults
              /\ adding' = adding /\ pending' = pending /\ batch' = batch /\ bytes' = bytes
              /\ outcome' = outcome /\ runner' = runner /\ shut' = shut
            BY <2>5 DEF client, logs
        <3>2. /\ Entering' = Entering /\ Refused' = Refused /\ InMemory' = InMemory
              /\ LogsAnswered' = LogsAnswered
            BY <3>1 DEF Entering, Refused, InMemory, LogsAnswered
        <3> QED
            BY <3>1, <3>2 DEF LogsInv, LogsTypes, BytesExact, Placed, BatchCovered, DrainedBefore
    <2> QED
        BY <2>1, <2>2, <2>3, <2>4, <2>5 DEF LogsNext
<1> QED
    BY <1>1, <1>2, PTL DEF LogsSpec

\* telemetry/logs.go: the records in memory never exceed the bound, one queued
\* before the shutdown is counted when the queue has ended, and one counted as
\* exported was answered for.
THEOREM LogsAreAccounted == LogsSpec => []LogsAccounted
<1>1. LogsInv => LogsAccounted
    <2> SUFFICES ASSUME LogsInv
                 PROVE  LogsAccounted
        OBVIOUS
    <2>1. LogsTypes /\ BytesExact /\ Placed /\ BatchCovered /\ DrainedBefore
        BY DEF LogsInv
    <2>2. PICK mem : mem = InMemory
        OBVIOUS
    <2>3. PICK ent : ent = Entering
        OBVIOUS
    <2>4. Bytes(mem) <= MaxQueuedBytes
        <3>1. Bytes(ent \cup mem) <= MaxQueuedBytes
            BY <2>1, <2>2, <2>3 DEF BytesExact
        <3>2. Bytes(mem) <= Bytes(ent \cup mem)
            BY BytesMonotone
        <3> QED
            BY <3>1, <3>2, BytesType, SelfLogsAssumptions
    <2>5. ASSUME runner = "done", NEW r \in Logged, adding[r] = "early"
          PROVE  outcome[r] # "none"
        <3>1. r \notin InMemory
            <4>1. InQueue(batch) = {} /\ r \notin InQueue(pending)
                BY <2>1, <2>5, QueueEmpty DEF DrainedBefore
            <4> QED
                BY <4>1 DEF InMemory
        <3> QED
            BY <3>1, <2>1, <2>5 DEF Placed
    <2>6. \A r \in Logged : outcome[r] = "exported" => received[r] > 0 \/ r \in rejected
        BY <2>1 DEF BatchCovered, LogsAnswered
    <2> QED
        BY <2>2, <2>4, <2>5, <2>6 DEF LogsAccounted, InMemory
<1> QED
    BY <1>1, QueueInvariant, PTL

-----------------------------------------------------------------------------
(* The Prometheus exporter.                                                *)

Object == [label : Labels \cup {Nil}, value : Values \cup {0}, owners : Nat, written : Nat, owned : Nat]
State == [family : Types \cup {Nil}, series : [Labels -> Objects \cup {Nil}], object : [Objects -> Object],
          next : Seq(Objects)]

\* The scopes that own an object, when scope c owns owned[c].
OwnersIn(owned, o) == {c \in Scopes : o \in owned[c]}

\* The family finds an object by its labels, and every object a scope owns; an
\* object counts its owners, and a counter has one at most.
Sound(st, owned) ==
    /\ \A l \in Labels : st.series[l] # Nil => st.object[st.series[l]].label = l
    /\ \A c \in Scopes : \A o \in owned[c] : /\ st.object[o].label \in Labels
                                            /\ st.series[st.object[o].label] = o
    /\ \A l \in Labels : st.series[l] # Nil =>
           st.object[st.series[l]].owners = Cardinality(OwnersIn(owned, st.series[l]))
    /\ st.family = "counter" => \A c, d \in Scopes : owned[c] \cap owned[d] # {} => c = d
    /\ st.family = Nil => \A l \in Labels : st.series[l] = Nil

Once(list) == \A i, j \in 1 .. Len(list) : list[i] = list[j] => i = j
Listed == [c \in Scopes |-> ToSet(scopes[c])]

ExporterTypeOK ==
    /\ family \in Types \cup {Nil} /\ series \in [Labels -> Objects \cup {Nil}] /\ object \in [Objects -> Object]
    /\ scopes \in [Scopes -> Seq(Objects)] /\ generation \in Nat

ExporterInv ==
    /\ ExporterTypeOK
    /\ Sound(Now, Listed)
    /\ \A c \in Scopes : Once(scopes[c])
    /\ \A o \in Objects : object[o].written <= generation /\ object[o].owned <= generation

-----------------------------------------------------------------------------
\* What is assumed of the constants, to be cited.
LEMMA ExporterNumbers ==
    /\ IsFiniteSet(Scopes) /\ IsFiniteSet(Labels) /\ IsFiniteSet(Objects)
    /\ Cardinality(Labels) <= Cardinality(Objects)
    /\ Values \subseteq Nat \ {0} /\ MaxSamples \in Nat /\ MaxCalls \in Nat
    /\ Nil \notin Labels /\ Nil \notin Objects /\ Nil \notin Types /\ Nil \notin Nat
BY ExporterAssumptions

\* The family finds what a scope owns.
LEMMA SoundFinds ==
    ASSUME NEW st, NEW owned, Sound(st, owned), NEW c \in Scopes, NEW o \in owned[c]
    PROVE  st.object[o].label \in Labels /\ st.series[st.object[o].label] = o
BY DEF Sound

\* How the owners of an object change with one scope.
LEMMA OwnersChange ==
    ASSUME NEW S \in SUBSET Scopes, NEW c \in Scopes
    PROVE  /\ IsFiniteSet(S) /\ Cardinality(S) \in Nat /\ (Cardinality(S) = 0 <=> S = {})
           /\ c \in S => Cardinality(S \ {c}) = Cardinality(S) - 1
           /\ c \notin S => Cardinality(S \cup {c}) = Cardinality(S) + 1
<1>1. IsFiniteSet(S)
    BY ExporterNumbers, FS_Subset
<1>2. Cardinality(S) \in Nat /\ (Cardinality(S) = 0 <=> S = {})
    BY <1>1, FS_CardinalityType, FS_EmptySet
<1>3. c \in S => Cardinality(S \ {c}) = Cardinality(S) - 1
    BY <1>1, FS_RemoveElement
<1>4. c \notin S => Cardinality(S \cup {c}) = Cardinality(S) + 1
    BY <1>1, FS_AddElement
<1> QED
    BY <1>1, <1>2, <1>3, <1>4

-----------------------------------------------------------------------------
(* Releasing objects.                                                      *)

\* The scopes that own the series with label l.
OwnersOfLabel(st, owned, l) == IF st.series[l] = Nil THEN {} ELSE OwnersIn(owned, st.series[l])
ValueOf(st, l) == IF st.series[l] = Nil THEN Nil ELSE st.object[st.series[l]].value

\* What releasing changes: a series is gone if it had owners and has none left.
Released(st, owned, st2, owned2) ==
    /\ st2 \in State /\ Sound(st2, owned2) /\ st2.family = st.family /\ st2.next = st.next
    /\ \A o \in Objects : /\ st2.object[o].label = st.object[o].label
                          /\ st2.object[o].written = st.object[o].written
                          /\ st2.object[o].owned = st.object[o].owned
    /\ \A l \in Labels : OwnersOfLabel(st2, owned2, l) \subseteq OwnersOfLabel(st, owned, l)
    /\ \A l \in Labels :
           ValueOf(st2, l) = IF OwnersOfLabel(st, owned, l) # {} /\ OwnersOfLabel(st2, owned2, l) = {}
                             THEN Nil ELSE ValueOf(st, l)

Owning == [Scopes -> SUBSET Objects]

\* release takes one owner from an object, and the last owner's series with it.
LEMMA ReleaseOne ==
    ASSUME NEW st \in State, NEW owned \in Owning, Sound(st, owned), NEW c \in Scopes, NEW o \in owned[c]
    PROVE  Released(st, owned, Release(st, o), [owned EXCEPT ![c] = @ \ {o}])
<1>1. PICK s2 : s2 = Release(st, o)
    OBVIOUS
<1>2. PICK l \in Labels : l = st.object[o].label /\ st.series[l] = o
    BY DEF Sound
<1>3. o \in Objects /\ st.object[o] \in Object
    BY DEF Owning, State
<1>4. PICK n \in Nat : n = st.object[o].owners
    BY <1>3 DEF Object
<1>5. PICK own2 : own2 = [owned EXCEPT ![c] = @ \ {o}]
    OBVIOUS
<1>6. own2 \in Owning /\ own2[c] = owned[c] \ {o} /\ \A d \in Scopes : d # c => own2[d] = owned[d]
    BY <1>5 DEF Owning
<1>7. OwnersIn(own2, o) = OwnersIn(owned, o) \ {c} /\ c \in OwnersIn(owned, o)
    BY <1>6 DEF OwnersIn
<1>8. \A p \in Objects : p # o => OwnersIn(own2, p) = OwnersIn(owned, p)
    BY <1>6 DEF OwnersIn
<1>9. n = Cardinality(OwnersIn(owned, o)) /\ n # 0 /\ n - 1 \in Nat /\ n - 1 = Cardinality(OwnersIn(own2, o))
    <2>1. OwnersIn(owned, o) \in SUBSET Scopes
        BY DEF OwnersIn
    <2>2. n = Cardinality(OwnersIn(owned, o))
        BY <1>2, <1>3, <1>4, ExporterNumbers DEF Sound
    <2>3. Cardinality(OwnersIn(owned, o)) # 0 /\ Cardinality(OwnersIn(owned, o) \ {c}) = n - 1
        BY <2>1, <2>2, <1>7, OwnersChange
    <2> QED
        BY <2>2, <2>3, <1>7
<1>10. n - 1 = 0 <=> OwnersIn(own2, o) = {}
    <2>1. OwnersIn(own2, o) \in SUBSET Scopes
        BY DEF OwnersIn
    <2> QED
        BY <2>1, <1>9, OwnersChange
<1>11. PICK obj : obj = [st.object EXCEPT ![o].owners = n - 1]
    OBVIOUS
<1>12. /\ obj \in [Objects -> Object] /\ obj[o] = [st.object[o] EXCEPT !.owners = n - 1]
       /\ \A p \in Objects : p # o => obj[p] = st.object[p]
    BY <1>3, <1>9, <1>11 DEF State, Object
<1>13. /\ obj[o].owners = n - 1
       /\ \A p \in Objects : /\ obj[p].label = st.object[p].label /\ obj[p].value = st.object[p].value
                              /\ obj[p].written = st.object[p].written /\ obj[p].owned = st.object[p].owned
    BY <1>3, <1>12 DEF State, Object
<1>14. PICK ser : ser = IF n - 1 = 0 THEN [st.series EXCEPT ![l] = Nil] ELSE st.series
    OBVIOUS
<1>15. /\ ser \in [Labels -> Objects \cup {Nil}]
       /\ \A k \in Labels : k # l => ser[k] = st.series[k]
       /\ ser[l] = IF n - 1 = 0 THEN Nil ELSE o
    BY <1>2, <1>14 DEF State
<1>16. s2 = [st EXCEPT !.object = obj, !.series = ser]
    <2>1. PICK left : left = [st EXCEPT !.object[o].owners = @ - 1]
        OBVIOUS
    <2>2. left = [st EXCEPT !.object = obj]
        BY <2>1, <1>4, <1>11 DEF State
    <2>3. left.object = obj /\ left.object[o].owners = n - 1 /\ left.series = st.series
        BY <2>2, <1>13 DEF State
    <2>4. s2 = IF n - 1 <= 0 THEN [left EXCEPT !.series[l] = Nil] ELSE left
        BY <1>1, <1>2, <2>1, <2>3 DEF Release
    <2>5. n - 1 <= 0 <=> n - 1 = 0
        BY <1>9
    <2> QED
        BY <2>2, <2>3, <2>4, <2>5, <1>14 DEF State
<1>17. s2 \in State /\ s2.object = obj /\ s2.series = ser /\ s2.family = st.family /\ s2.next = st.next
    BY <1>16, <1>12, <1>15 DEF State
<1>18. Sound(s2, own2)
    <2>1. ASSUME NEW k \in Labels, ser[k] # Nil
          PROVE  obj[ser[k]].label = k /\ obj[ser[k]].owners = Cardinality(OwnersIn(own2, ser[k]))
        <3>1. st.series[k] = ser[k] /\ ser[k] \in Objects
            BY <2>1, <1>2, <1>15
        <3>2. st.object[ser[k]].label = k /\ st.object[ser[k]].owners = Cardinality(OwnersIn(owned, ser[k]))
            BY <2>1, <3>1 DEF Sound
        <3>3. CASE ser[k] = o
            BY <3>1, <3>2, <3>3, <1>9, <1>13
        <3>4. CASE ser[k] # o
            BY <3>1, <3>2, <3>4, <1>8, <1>12
        <3> QED
            BY <3>3, <3>4
    <2>2. ASSUME NEW d \in Scopes, NEW p \in own2[d]
          PROVE  obj[p].label \in Labels /\ ser[obj[p].label] = p
        <3>1. p \in owned[d] /\ p \in Objects
            BY <1>6, <2>2 DEF Owning
        <3>2. obj[p].label = st.object[p].label /\ st.object[p].label \in Labels /\ st.series[st.object[p].label] = p
            BY <3>1, <1>13 DEF Sound
        <3>3. CASE p = o
            <4>1. d \in OwnersIn(own2, o)
                BY <2>2, <3>3 DEF OwnersIn
            <4> QED
                BY <4>1, <3>2, <3>3, <1>2, <1>10, <1>15
        <3>4. CASE p # o
            BY <3>2, <3>4, <1>2, <1>15
        <3> QED
            BY <3>3, <3>4
    <2>3. ASSUME st.family = "counter", NEW d \in Scopes, NEW e \in Scopes, own2[d] \cap own2[e] # {}
          PROVE  d = e
        <3>1. own2[d] \subseteq owned[d] /\ own2[e] \subseteq owned[e]
            BY <1>6
        <3> QED
            BY <3>1, <2>3 DEF Sound
    <2>4. ASSUME st.family = Nil, NEW k \in Labels
          PROVE  ser[k] = Nil
        <3>1. \A m \in Labels : st.series[m] = Nil
            BY <2>4 DEF Sound
        <3> QED
            BY <3>1, <1>2, <1>3, ExporterNumbers
    <2> QED
        BY <2>1, <2>2, <2>3, <2>4, <1>17 DEF Sound
<1>19. ASSUME NEW k \in Labels
       PROVE  ValueOf(s2, k) = IF OwnersOfLabel(st, owned, k) # {} /\ OwnersOfLabel(s2, own2, k) = {}
                               THEN Nil ELSE ValueOf(st, k)
    <2>1. CASE k = l
        <3>1. OwnersOfLabel(st, owned, k) # {}
            BY <2>1, <1>2, <1>3, <1>7, ExporterNumbers DEF OwnersOfLabel
        <3>2. CASE n - 1 = 0
            BY <3>1, <3>2, <2>1, <1>15, <1>17 DEF OwnersOfLabel, ValueOf
        <3>3. CASE n - 1 # 0
            <4>1. ser[k] = o /\ st.series[k] = o /\ o # Nil
                BY <3>3, <2>1, <1>2, <1>3, <1>15, ExporterNumbers
            <4>2. OwnersOfLabel(s2, own2, k) # {}
                BY <4>1, <3>3, <1>10, <1>17 DEF OwnersOfLabel
            <4> QED
                BY <4>1, <4>2, <1>3, <1>13, <1>17 DEF ValueOf
        <3> QED
            BY <3>2, <3>3
    <2>2. CASE k # l
        <3>1. ser[k] = st.series[k]
            BY <2>2, <1>15
        <3>2. CASE ser[k] = Nil
            BY <3>1, <3>2, <1>17 DEF OwnersOfLabel, ValueOf
        <3>3. CASE ser[k] # Nil
            <4>1. ser[k] \in Objects /\ ser[k] # o
                <5>1. ser[k] \in Objects
                    BY <3>3, <1>15
                <5>2. st.object[ser[k]].label = k
                    BY <3>1, <3>3 DEF Sound
                <5> QED
                    BY <5>1, <5>2, <2>2, <1>2
            <4>2. OwnersOfLabel(s2, own2, k) = OwnersOfLabel(st, owned, k)
                BY <3>1, <4>1, <1>8, <1>17 DEF OwnersOfLabel
            <4>3. ValueOf(s2, k) = ValueOf(st, k)
                BY <3>1, <4>1, <1>13, <1>17 DEF ValueOf
            <4> QED
                BY <4>2, <4>3
        <3> QED
            BY <3>2, <3>3
    <2> QED
        BY <2>1, <2>2
<1>20. ASSUME NEW k \in Labels
       PROVE  OwnersOfLabel(s2, own2, k) \subseteq OwnersOfLabel(st, owned, k)
    <2>1. CASE ser[k] = Nil
        BY <2>1, <1>17 DEF OwnersOfLabel
    <2>2. CASE ser[k] # Nil
        <3>1. ser[k] = st.series[k] /\ ser[k] \in Objects
            BY <2>2, <1>2, <1>15
        <3>2. OwnersIn(own2, ser[k]) \subseteq OwnersIn(owned, ser[k])
            BY <3>1, <1>7, <1>8
        <3> QED
            BY <2>2, <3>1, <3>2, <1>17 DEF OwnersOfLabel
    <2> QED
        BY <2>1, <2>2
<1> QED
    BY <1>1, <1>5, <1>13, <1>17, <1>18, <1>19, <1>20 DEF Released

\* A loop over an empty list.
LEMMA ReleasedNothing ==
    ASSUME NEW st \in State, NEW owned, Sound(st, owned)
    PROVE  Released(st, owned, st, owned)
BY DEF Released

\* What is released in two steps is released in one.
LEMMA ReleasedTwice ==
    ASSUME NEW st, NEW owned, NEW st1, NEW owned1, NEW st2, NEW owned2,
           Released(st, owned, st1, owned1), Released(st1, owned1, st2, owned2)
    PROVE  Released(st, owned, st2, owned2)
<1>1. ASSUME NEW l \in Labels
      PROVE  /\ OwnersOfLabel(st2, owned2, l) \subseteq OwnersOfLabel(st, owned, l)
             /\ ValueOf(st2, l) = IF OwnersOfLabel(st, owned, l) # {} /\ OwnersOfLabel(st2, owned2, l) = {}
                                  THEN Nil ELSE ValueOf(st, l)
    <2>1. PICK a, b, c : /\ a = OwnersOfLabel(st, owned, l) /\ b = OwnersOfLabel(st1, owned1, l)
                         /\ c = OwnersOfLabel(st2, owned2, l)
        OBVIOUS
    <2>2. c \subseteq b /\ b \subseteq a
        BY <2>1 DEF Released
    <2>3. ValueOf(st1, l) = IF a # {} /\ b = {} THEN Nil ELSE ValueOf(st, l)
        BY <2>1 DEF Released
    <2>4. ValueOf(st2, l) = IF b # {} /\ c = {} THEN Nil ELSE ValueOf(st1, l)
        BY <2>1 DEF Released
    <2> QED
        BY <2>1, <2>2, <2>3, <2>4
<1> QED
    BY <1>1 DEF Released

\* f is ReleaseAll's state after each of the first m objects.
ReleaseLoop(f, st, list, kept, m) ==
    f = [i \in 0 .. m |-> IF i = 0 THEN st ELSE ReleaseUnless(kept, f[i - 1], list[i])]

\* The function that ReleaseAll's loop defines exists.
LEMMA ReleaseLoopExists ==
    ASSUME NEW st, NEW kept, NEW list \in Seq(Objects)
    PROVE  \E f : ReleaseLoop(f, st, list, kept, Len(list))
<1> DEFINE S == {m \in Nat : \E f : ReleaseLoop(f, st, list, kept, m)}
<1>1. 0 \in S
    <2>1. ReleaseLoop([i \in 0 .. 0 |-> st], st, list, kept, 0)
        BY DEF ReleaseLoop
    <2> QED
        BY <2>1
<1>2. ASSUME NEW m \in 0 .. Len(list), m \in S
      PROVE  m + 1 \in S
    <2>1. PICK f : ReleaseLoop(f, st, list, kept, m)
        BY <1>2
    <2>2. PICK g : g = [i \in 0 .. m + 1 |-> IF i <= m THEN f[i] ELSE ReleaseUnless(kept, f[m], list[m + 1])]
        OBVIOUS
    <2>3. ASSUME NEW i \in 0 .. m + 1
          PROVE  g[i] = IF i = 0 THEN st ELSE ReleaseUnless(kept, g[i - 1], list[i])
        <3>1. CASE i = 0
            BY <3>1, <2>1, <2>2 DEF ReleaseLoop
        <3>2. CASE i # 0 /\ i <= m
            <4>1. i \in 0 .. m /\ i - 1 \in 0 .. m + 1 /\ i - 1 <= m
                BY <3>2
            <4>2. g[i] = f[i] /\ g[i - 1] = f[i - 1]
                BY <4>1, <2>2
            <4>3. f[i] = ReleaseUnless(kept, f[i - 1], list[i])
                BY <3>2, <4>1, <2>1 DEF ReleaseLoop
            <4> QED
                BY <4>2, <4>3, <3>2
        <3>3. CASE i = m + 1
            <4>1. g[i] = ReleaseUnless(kept, f[m], list[i]) /\ g[i - 1] = f[m] /\ i # 0
                BY <3>3, <2>2
            <4> QED
                BY <4>1
        <3> QED
            BY <3>1, <3>2, <3>3
    <2>4. g = [i \in 0 .. m + 1 |-> g[i]]
        BY <2>2
    <2>5. ReleaseLoop(g, st, list, kept, m + 1)
        BY <2>3, <2>4 DEF ReleaseLoop
    <2> QED
        BY <2>5
<1>3. Len(list) \in Nat
    OBVIOUS
<1>4. 0 .. Len(list) \subseteq S
    <2> HIDE DEF S
    <2> QED
        BY <1>1, <1>2, <1>3, UpTo
<1>5. Len(list) \in S
    BY <1>3, <1>4
<1> QED
    BY <1>5

\* ReleaseAll is the last state of its loop.
LEMMA ReleaseAllUnfolds ==
    ASSUME NEW st, NEW kept, NEW list \in Seq(Objects)
    PROVE  \E f : ReleaseLoop(f, st, list, kept, Len(list)) /\ ReleaseAll(st, list, kept) = f[Len(list)]
<1> DEFINE a == CHOOSE f : ReleaseLoop(f, st, list, kept, Len(list))
<1>1. ReleaseLoop(a, st, list, kept, Len(list))
    BY ReleaseLoopExists
<1>2. ReleaseAll(st, list, kept) = a[Len(list)]
    BY Zenon DEF ReleaseAll, ReleaseLoop
<1> QED
    BY <1>1, <1>2

Firsts(list, i) == {list[j] : j \in 1 .. i}

\* A loop over objects that scope c owns gives up those it does not keep.
LEMMA ReleasedAll ==
    ASSUME NEW st \in State, NEW owned \in Owning, Sound(st, owned), NEW c \in Scopes,
           NEW list \in Seq(Objects), Once(list), NEW kept, ToSet(list) \ kept \subseteq owned[c]
    PROVE  Released(st, owned, ReleaseAll(st, list, kept), [owned EXCEPT ![c] = @ \ (ToSet(list) \ kept)])
<1> DEFINE Left(i) == [owned EXCEPT ![c] = @ \ (Firsts(list, i) \ kept)]
<1>1. PICK f : ReleaseLoop(f, st, list, kept, Len(list)) /\ ReleaseAll(st, list, kept) = f[Len(list)]
    BY ReleaseAllUnfolds
<1>2. Len(list) \in Nat
    OBVIOUS
<1>3. \A i : Left(i) \in Owning /\ Left(i)[c] = owned[c] \ (Firsts(list, i) \ kept)
    BY DEF Owning
<1> DEFINE S == {i \in 0 .. Len(list) : Released(st, owned, f[i], Left(i))}
<1>4. 0 \in S
    <2>1. Firsts(list, 0) = {}
        BY DEF Firsts
    <2>2. Left(0) = owned
        BY <2>1 DEF Owning
    <2>3. f[0] = st
        BY <1>1, <1>2 DEF ReleaseLoop
    <2>4. Released(st, owned, f[0], Left(0))
        <3> HIDE DEF Left
        <3> QED
            BY <2>2, <2>3, ReleasedNothing
    <2> QED
        BY <2>4, <1>2
<1>5. ASSUME NEW i \in 0 .. Len(list), i \in S, i # Len(list)
      PROVE  i + 1 \in S
    <2>1. i + 1 \in 1 .. Len(list) /\ i + 1 \in 0 .. Len(list) /\ list[i + 1] \in Objects
        BY <1>5, <1>2
    <2>2. PICK o \in Objects : o = list[i + 1]
        BY <2>1
    <2>3. f[i + 1] = ReleaseUnless(kept, f[i], o)
        <3>1. f[i + 1] = ReleaseUnless(kept, f[(i + 1) - 1], list[i + 1])
            BY <2>1, <1>1 DEF ReleaseLoop
        <3>2. (i + 1) - 1 = i
            OBVIOUS
        <3> QED
            BY <3>1, <3>2, <2>2
    <2>4. Firsts(list, i + 1) = Firsts(list, i) \cup {o}
        <3>1. 1 .. i + 1 = (1 .. i) \cup {i + 1}
            BY <1>2
        <3> QED
            BY <3>1, <2>2 DEF Firsts
    <2>5. Released(st, owned, f[i], Left(i))
        BY <1>5
    <2>6. CASE o \in kept
        <3>1. Firsts(list, i + 1) \ kept = Firsts(list, i) \ kept
            BY <2>4, <2>6
        <3>2. Left(i + 1) = Left(i) /\ f[i + 1] = f[i]
            BY <3>1, <2>3, <2>6 DEF ReleaseUnless
        <3> QED
            BY <3>2, <2>1, <2>5
    <2>7. CASE o \notin kept
        <3>1. o \in ToSet(list) \ kept
            BY <2>1, <2>2, <2>7 DEF ToSet
        <3>2. o \notin Firsts(list, i)
            <4> SUFFICES ASSUME NEW j \in 1 .. i, list[j] = o PROVE FALSE
                BY DEF Firsts
            <4>1. j \in 1 .. Len(list) /\ j # i + 1
                BY <1>2
            <4> QED
                BY <4>1, <2>1, <2>2 DEF Once
        <3>3. o \in Left(i)[c]
            BY <3>1, <3>2, <1>3
        <3>4. PICK own : own = Left(i)
            OBVIOUS
        <3>5. own \in Owning /\ o \in own[c]
            BY <3>3, <3>4, <1>3
        <3>6. f[i] \in State /\ Sound(f[i], own)
            BY <2>5, <3>4 DEF Released
        <3>7. Released(f[i], own, Release(f[i], o), [own EXCEPT ![c] = @ \ {o}])
            BY <3>5, <3>6, ReleaseOne
        <3>8. [own EXCEPT ![c] = @ \ {o}] = Left(i + 1)
            <4>1. owned[c] \ (Firsts(list, i + 1) \ kept) = (owned[c] \ (Firsts(list, i) \ kept)) \ {o}
                BY <2>4, <2>7
            <4> QED
                BY <4>1, <3>4 DEF Owning
        <3>9. f[i + 1] = Release(f[i], o)
            BY <2>3, <2>7 DEF ReleaseUnless
        <3>10. Released(f[i], Left(i), f[i + 1], Left(i + 1))
            BY <3>4, <3>7, <3>8, <3>9
        <3>11. Released(st, owned, f[i + 1], Left(i + 1))
            <4> HIDE DEF Left
            <4> QED
                BY <3>10, <2>5, ReleasedTwice
        <3> QED
            BY <3>11, <2>1
    <2> QED
        BY <2>6, <2>7
<1>6. 0 .. Len(list) \subseteq S
    <2> HIDE DEF S
    <2> QED
        BY <1>2, <1>4, <1>5, UpTo
<1>7. Released(st, owned, f[Len(list)], Left(Len(list)))
    <2>1. Len(list) \in S
        <3> HIDE DEF S
        <3> QED
            BY <1>2, <1>6
    <2> HIDE DEF Left
    <2> QED
        BY <2>1
<1>8. Firsts(list, Len(list)) = ToSet(list)
    BY DEF Firsts, ToSet
<1> QED
    BY <1>1, <1>7, <1>8

-----------------------------------------------------------------------------
(* Recording samples.                                                      *)

\* The objects of the lists, and of the list a call builds, are what scopes own.
CountedObjects(st, owned) ==
    (UNION {ToSet(scopes[d]) : d \in Scopes}) \cup ToSet(st.next) \subseteq UNION {owned[d] : d \in Scopes}

\* While a label has no series, an object is free.
LEMMA FreeObject ==
    ASSUME NEW st \in State, NEW owned \in Owning, Sound(st, owned), CountedObjects(st, owned),
           NEW l \in Labels, st.series[l] = Nil
    PROVE  \E o \in Objects : o \notin Used(st)
<1> SUFFICES ASSUME \A o \in Objects : o \in Used(st)
             PROVE  FALSE
    OBVIOUS
<1>1. PICK f : f = st.series
    OBVIOUS
<1>2. f \in [Labels -> Objects \cup {Nil}]
    BY <1>1 DEF State
<1>3. PICK L : L = {k \in Labels : f[k] # Nil}
    OBVIOUS
<1>4. \A o \in Objects : \E k \in L : f[k] = o
    <2> TAKE o \in Objects
    <2>1. o \in Used(st) /\ o # Nil
        BY ExporterNumbers
    <2>2. CASE o \in {st.series[k] : k \in Labels}
        BY <2>1, <2>2, <1>1, <1>3
    <2>3. CASE o \in (UNION {ToSet(scopes[d]) : d \in Scopes}) \cup ToSet(st.next)
        <3>1. PICK d \in Scopes : o \in owned[d]
            BY <2>3 DEF CountedObjects
        <3>2. st.object[o].label \in Labels /\ st.series[st.object[o].label] = o
            BY <3>1 DEF Sound
        <3> QED
            BY <3>2, <2>1, <1>1, <1>3
    <2> QED
        BY <2>1, <2>2, <2>3 DEF Used
<1>5. PICK g : g = [k \in L |-> f[k]]
    OBVIOUS
<1>6. g \in Surjection(L, Objects)
    BY <1>2, <1>3, <1>4, <1>5 DEF Surjection
<1>7. L \subseteq Labels \ {l} /\ IsFiniteSet(Labels \ {l}) /\ Cardinality(Labels \ {l}) = Cardinality(Labels) - 1
    BY <1>1, <1>3, ExporterNumbers, FS_RemoveElement
<1>8. IsFiniteSet(L) /\ Cardinality(L) <= Cardinality(Labels) - 1
    BY <1>7, FS_Subset
<1>9. Cardinality(Objects) <= Cardinality(L)
    BY <1>6, <1>8, FS_Surjection
<1>10. Cardinality(L) \in Nat /\ Cardinality(Labels) \in Nat /\ Cardinality(Objects) \in Nat
    BY <1>8, ExporterNumbers, FS_CardinalityType
<1> QED
    BY <1>8, <1>9, <1>10, ExporterNumbers

\* What seriesLocked makes of a state: the family is registered, and a valid
\* sample has a series.
Locked(st, owned, sample, r) ==
    /\ r \in State /\ Sound(r, owned) /\ r.next = st.next
    /\ r.family # Nil /\ (st.family # Nil => r.family = st.family)
    /\ Valid(r, sample) => r.series[sample.label] # Nil
    /\ \/ r.series = st.series /\ r.object = st.object
       \/ /\ Valid(r, sample) /\ st.series[sample.label] = Nil
          /\ \E o \in Objects : /\ o \notin Used(st)
                                /\ r.series = [st.series EXCEPT ![sample.label] = o]
                                /\ r.object = [st.object EXCEPT ![o] = NewSeries(sample.label)]

\* seriesLocked finds the sample's series or makes one of a free object.
LEMMA SeriesIsLocked ==
    ASSUME NEW st \in State, NEW owned \in Owning, Sound(st, owned), CountedObjects(st, owned), NEW sample \in Samples
    PROVE  Locked(st, owned, sample, SeriesLocked(st, sample))
<1>1. PICK l \in Labels : l = sample.label
    BY DEF Samples
<1>2. PICK r : r = Registered(st, sample)
    OBVIOUS
<1>3. /\ r \in State /\ r.series = st.series /\ r.object = st.object /\ r.next = st.next
      /\ r.family # Nil /\ r.family \in Types /\ (st.family # Nil => r.family = st.family)
    BY <1>2, ExporterNumbers DEF Registered, State, Samples
<1>4. Sound(r, owned)
    <2>1. CASE st.family = Nil
        <3>1. \A d \in Scopes : owned[d] = {}
            <4> SUFFICES ASSUME NEW d \in Scopes, NEW o \in owned[d] PROVE FALSE
                OBVIOUS
            <4>1. st.object[o].label \in Labels /\ st.series[st.object[o].label] = o /\ o \in Objects
                BY DEF Sound, Owning
            <4> QED
                BY <4>1, <2>1, ExporterNumbers DEF Sound
        <3> QED
            BY <3>1, <1>3 DEF Sound
    <2>2. CASE st.family # Nil
        BY <2>2, <1>3 DEF Sound
    <2> QED
        BY <2>1, <2>2
<1>5. Used(r) = Used(st)
    BY <1>3 DEF Used
<1>6. CASE ~Valid(r, sample) \/ r.series[l] # Nil
    <2>1. SeriesLocked(st, sample) = r
        BY <1>1, <1>2, <1>6 DEF SeriesLocked
    <2> QED
        BY <2>1, <1>1, <1>3, <1>4, <1>6 DEF Locked
<1>7. CASE Valid(r, sample) /\ r.series[l] = Nil
    <2>1. PICK o : o = CHOOSE p \in Objects : p \notin Used(r)
        OBVIOUS
    <2>2. o \in Objects /\ o \notin Used(st) /\ o # Nil
        <3>1. \E p \in Objects : p \notin Used(r)
            BY <1>1, <1>3, <1>5, <1>7, FreeObject
        <3> QED
            BY <3>1, <2>1, <1>5, ExporterNumbers
    <2>3. PICK q : q = [r EXCEPT !.series[l] = o, !.object[o] = NewSeries(l)]
        OBVIOUS
    <2>4. SeriesLocked(st, sample) = q
        BY <1>1, <1>2, <1>7, <2>1, <2>3 DEF SeriesLocked
    <2>5. PICK ser, obj : ser = [st.series EXCEPT ![l] = o] /\ obj = [st.object EXCEPT ![o] = NewSeries(l)]
        OBVIOUS
    <2>6. NewSeries(l) \in Object /\ NewSeries(l).label = l /\ NewSeries(l).owners = 0
        BY DEF NewSeries, Object
    <2>7. /\ ser \in [Labels -> Objects \cup {Nil}] /\ obj \in [Objects -> Object]
          /\ ser[l] = o /\ obj[o] = NewSeries(l)
          /\ \A k \in Labels : k # l => ser[k] = st.series[k]
          /\ \A p \in Objects : p # o => obj[p] = st.object[p]
        BY <2>2, <2>5, <2>6 DEF State
    <2>8. /\ q \in State /\ q.series = ser /\ q.object = obj /\ q.next = st.next /\ q.family = r.family
        BY <2>3, <2>5, <2>7, <1>3 DEF State
    <2>9. \A d \in Scopes : o \notin owned[d]
        <3> SUFFICES ASSUME NEW d \in Scopes, o \in owned[d] PROVE FALSE
            OBVIOUS
        <3>1. st.object[o].label \in Labels /\ st.series[st.object[o].label] = o
            BY DEF Sound
        <3> QED
            BY <3>1, <2>2 DEF Used
    <2>10. OwnersIn(owned, o) = {} /\ Cardinality(OwnersIn(owned, o)) = 0
        BY <2>9, FS_EmptySet DEF OwnersIn
    <2>11. Sound(q, owned)
        <3>1. ASSUME NEW k \in Labels, ser[k] # Nil
              PROVE  obj[ser[k]].label = k /\ obj[ser[k]].owners = Cardinality(OwnersIn(owned, ser[k]))
            <4>1. CASE k = l
                BY <4>1, <2>6, <2>7, <2>10
            <4>2. CASE k # l
                <5>1. ser[k] = st.series[k] /\ ser[k] \in Objects /\ ser[k] # o
                    BY <3>1, <4>2, <2>2, <2>7 DEF Used
                <5>2. obj[ser[k]] = st.object[ser[k]]
                    BY <5>1, <2>7
                <5> QED
                    BY <3>1, <5>1, <5>2 DEF Sound
            <4> QED
                BY <4>1, <4>2
        <3>2. ASSUME NEW d \in Scopes, NEW p \in owned[d]
              PROVE  obj[p].label \in Labels /\ ser[obj[p].label] = p
            <4>1. p # o /\ p \in Objects /\ p # Nil
                BY <2>9, ExporterNumbers DEF Owning
            <4>2. obj[p] = st.object[p] /\ st.object[p].label \in Labels /\ st.series[st.object[p].label] = p
                BY <4>1, <2>7 DEF Sound
            <4>3. st.object[p].label # l
                BY <4>1, <4>2, <1>3, <1>7
            <4> QED
                BY <4>2, <4>3, <2>7
        <3>3. ASSUME q.family = "counter", NEW d \in Scopes, NEW e \in Scopes, owned[d] \cap owned[e] # {}
              PROVE  d = e
            BY <3>3, <2>8, <1>4 DEF Sound
        <3>4. q.family # Nil
            BY <2>8, <1>3
        <3> QED
            BY <3>1, <3>2, <3>3, <3>4, <2>8 DEF Sound
    <2>12. Valid(q, sample)
        BY <2>8, <1>7 DEF Valid
    <2>13. q.series[l] # Nil /\ st.series[l] = Nil
        BY <2>2, <2>7, <2>8, <1>3, <1>7
    <2> QED
        BY <2>2, <2>4, <2>5, <2>8, <2>11, <2>12, <2>13, <1>1, <1>3 DEF Locked
<1> QED
    BY <1>6, <1>7

\* What scopes own while a call of RecordScope builds its list: scope c both
\* what it reported before and what it has written so far.
During(c, st) == [Listed EXCEPT ![c] = @ \cup ToSet(st.next)]
LabelsOf(st) == {st.object[o].label : o \in ToSet(st.next)}

\* The labels of the objects in the lists stay, and a series that is not
\* written but for label l, stays too.
KeptBut(l, st0, st) ==
    /\ st0.family # Nil => st.family = st0.family
    /\ \A d \in Scopes : \A o \in Listed[d] : st.object[o].label = st0.object[o].label
    /\ \A k \in Labels : k \notin LabelsOf(st) /\ k # l => st.series[k] = st0.series[k] /\ ValueOf(st, k) = ValueOf(st0, k)

\* The marks of generation gen tell what scope c owned and what it has written.
Marked(c, gen, st) ==
    \A o \in Objects : /\ st.object[o].written <= gen /\ st.object[o].owned <= gen
                       /\ st.object[o].written = gen <=> o \in ToSet(st.next)
                       /\ st.object[o].owned = gen <=> o \in ToSet(scopes[c])

Recording(c, gen, l, st0, st) ==
    /\ st \in State /\ Sound(st, During(c, st)) /\ Once(st.next)
    /\ Marked(c, gen, st) /\ KeptBut(l, st0, st)

\* During is an assignment of objects to scopes that counts every list.
LEMMA DuringOwns ==
    ASSUME ExporterTypeOK, NEW c \in Scopes, NEW st \in State
    PROVE  /\ During(c, st) \in Owning /\ CountedObjects(st, During(c, st))
           /\ During(c, st)[c] = ToSet(scopes[c]) \cup ToSet(st.next)
           /\ \A d \in Scopes : d # c => During(c, st)[d] = ToSet(scopes[d])
<1>1. ToSet(st.next) \subseteq Objects /\ \A d \in Scopes : ToSet(scopes[d]) \subseteq Objects
    BY DEF ExporterTypeOK, State, ToSet
<1>2. /\ During(c, st) \in Owning
      /\ During(c, st)[c] = ToSet(scopes[c]) \cup ToSet(st.next)
      /\ \A d \in Scopes : d # c => During(c, st)[d] = ToSet(scopes[d])
    BY <1>1 DEF During, Listed, Owning
<1>3. \A d \in Scopes : ToSet(scopes[d]) \subseteq During(c, st)[d]
    BY <1>2
<1> QED
    BY <1>2, <1>3 DEF CountedObjects

\* The lookup of a sample's series keeps all that, but for the label's series.
LEMMA LockedKeeps ==
    ASSUME ExporterTypeOK, NEW c \in Scopes, NEW gen \in Nat \ {0}, NEW st0, NEW st, Recording(c, gen, Nil, st0, st),
           NEW sample \in Samples, NEW r, Locked(st, During(c, st), sample, r)
    PROVE  /\ Recording(c, gen, sample.label, st0, r) /\ During(c, r) = During(c, st)
           /\ r.series = st.series /\ r.object = st.object => Recording(c, gen, Nil, st0, r)
           /\ ~(r.series = st.series /\ r.object = st.object) =>
                  Valid(r, sample) /\ r.object[r.series[sample.label]].owners = 0
<1>1. PICK l \in Labels : l = sample.label
    BY DEF Samples
<1>2. l # Nil /\ st \in State /\ r \in State /\ r.next = st.next
    BY <1>1, ExporterNumbers DEF Recording, Locked
<1>3. During(c, r) = During(c, st)
    BY <1>2 DEF During
<1>4. Sound(r, During(c, r)) /\ Once(r.next) /\ (st.family # Nil => r.family = st.family)
    BY <1>2, <1>3 DEF Recording, Locked
<1>5. CASE r.series = st.series /\ r.object = st.object
    <2>1. Marked(c, gen, r)
        BY <1>2, <1>5 DEF Marked, Recording
    <2>2. LabelsOf(r) = LabelsOf(st) /\ \A k : ValueOf(r, k) = ValueOf(st, k)
        BY <1>2, <1>5 DEF LabelsOf, ValueOf
    <2>3. KeptBut(Nil, st0, st)
        BY DEF Recording
    <2>4. KeptBut(Nil, st0, r) /\ KeptBut(l, st0, r)
        BY <2>2, <2>3, <1>4, <1>5, ExporterNumbers DEF KeptBut
    <2> QED
        BY <1>1, <1>2, <1>3, <1>4, <1>5, <2>1, <2>4 DEF Recording
<1>6. CASE ~(r.series = st.series /\ r.object = st.object)
    <2>1. PICK o \in Objects : /\ o \notin Used(st) /\ r.series = [st.series EXCEPT ![l] = o]
                              /\ r.object = [st.object EXCEPT ![o] = NewSeries(l)]
        BY <1>1, <1>6 DEF Locked
    <2>2. /\ r.series[l] = o /\ r.object[o] = NewSeries(l)
          /\ \A k \in Labels : k # l => r.series[k] = st.series[k]
          /\ \A p \in Objects : p # o => r.object[p] = st.object[p]
        BY <1>2, <2>1 DEF State
    <2>3. o \notin ToSet(st.next) /\ \A d \in Scopes : o \notin ToSet(scopes[d])
        BY <2>1 DEF Used
    <2>4. Valid(r, sample) /\ r.object[r.series[l]].owners = 0
        BY <1>1, <1>6, <2>2 DEF Locked, NewSeries
    <2>5. Marked(c, gen, r)
        <3> SUFFICES ASSUME NEW p \in Objects
                     PROVE  /\ r.object[p].written <= gen /\ r.object[p].owned <= gen
                            /\ r.object[p].written = gen <=> p \in ToSet(r.next)
                            /\ r.object[p].owned = gen <=> p \in ToSet(scopes[c])
            BY DEF Marked
        <3>1. CASE p = o
            BY <3>1, <2>2, <2>3, <1>2 DEF NewSeries
        <3>2. CASE p # o
            BY <3>2, <2>2, <1>2 DEF Recording, Marked
        <3> QED
            BY <3>1, <3>2
    <2>6. LabelsOf(r) = LabelsOf(st)
        <3>1. \A p \in ToSet(st.next) : p \in Objects /\ r.object[p] = st.object[p]
            BY <1>2, <2>2, <2>3 DEF State, ToSet
        <3> QED
            BY <3>1, <1>2 DEF LabelsOf
    <2>7. ASSUME NEW k \in Labels, k \notin LabelsOf(r), k # l
          PROVE  r.series[k] = st0.series[k] /\ ValueOf(r, k) = ValueOf(st0, k)
        <3>1. r.series[k] = st.series[k] /\ st.series[k] = st0.series[k] /\ ValueOf(st, k) = ValueOf(st0, k)
            BY <2>2, <2>6, <2>7, ExporterNumbers DEF Recording, KeptBut
        <3>2. st.series[k] # o
            BY <2>1 DEF Used
        <3>3. st.series[k] # Nil => st.series[k] \in Objects
            BY <1>2 DEF State
        <3>4. ValueOf(r, k) = ValueOf(st, k)
            BY <3>1, <3>2, <3>3, <2>2 DEF ValueOf
        <3> QED
            BY <3>1, <3>4
    <2>8. ASSUME NEW d \in Scopes, NEW p \in Listed[d]
          PROVE  r.object[p].label = st0.object[p].label
        <3>1. p \in ToSet(scopes[d]) /\ p \in Objects
            BY DEF Listed, ExporterTypeOK, ToSet
        <3> QED
            BY <3>1, <2>2, <2>3 DEF Recording, KeptBut
    <2>9. st0.family # Nil => r.family = st0.family
        BY <1>4 DEF Recording, KeptBut
    <2>10. KeptBut(l, st0, r)
        BY <2>7, <2>8, <2>9 DEF KeptBut
    <2> QED
        BY <1>1, <1>2, <1>3, <1>4, <1>6, <2>4, <2>5, <2>10 DEF Recording
<1> QED
    BY <1>5, <1>6

\* One sample of a batch, whatever becomes of it, keeps what Recording says.
LEMMA SampleRecorded ==
    ASSUME ExporterTypeOK, NEW c \in Scopes, NEW gen \in Nat \ {0}, NEW st0, NEW st, Recording(c, gen, Nil, st0, st),
           NEW sample \in Samples
    PROVE  Recording(c, gen, Nil, st0, RecordSample(st, sample, gen))
<1>1. PICK l \in Labels : l = sample.label
    BY DEF Samples
<1>2. PICK r : r = SeriesLocked(st, sample)
    OBVIOUS
<1>3. PICK own : own = During(c, st)
    OBVIOUS
<1>4. Locked(st, own, sample, r)
    <2>1. st \in State /\ Sound(st, own)
        BY <1>3 DEF Recording
    <2>2. own \in Owning /\ CountedObjects(st, own)
        BY <2>1, <1>3, DuringOwns
    <2> QED
        BY <2>1, <2>2, <1>2, SeriesIsLocked
<1>5. /\ Recording(c, gen, l, st0, r) /\ During(c, r) = own
      /\ r.series = st.series /\ r.object = st.object => Recording(c, gen, Nil, st0, r)
      /\ ~(r.series = st.series /\ r.object = st.object) => Valid(r, sample) /\ r.object[r.series[l]].owners = 0
    BY <1>1, <1>3, <1>4, LockedKeeps
<1>6. PICK o : o = r.series[l]
    OBVIOUS
<1>7. PICK mine : mine = (r.object[o].owned = gen)
    OBVIOUS
<1>8. CASE ~Valid(r, sample)
    <2>1. RecordSample(st, sample, gen) = r
        BY <1>2, <1>8 DEF RecordSample
    <2> QED
        BY <2>1, <1>5, <1>8
<1>9. CASE Valid(r, sample) /\ r.object[o].written # gen /\ CounterOwned(r, o, mine)
    <2>1. RecordSample(st, sample, gen) = r
        BY <1>1, <1>2, <1>6, <1>7, <1>9 DEF RecordSample
    <2>2. r.object[o].owners # 0
        BY <1>9 DEF CounterOwned
    <2> QED
        BY <2>1, <2>2, <1>5, <1>6
<1>10. CASE Valid(r, sample) /\ (r.object[o].written = gen \/ ~CounterOwned(r, o, mine))
    <2>1. /\ r \in State /\ Sound(r, own) /\ Once(r.next) /\ Marked(c, gen, r) /\ KeptBut(l, st0, r)
          /\ o # Nil /\ sample.value \in Values \cup {0}
        BY <1>1, <1>4, <1>5, <1>6, <1>10 DEF Recording, Locked, Samples
    <2>2. o \in Objects /\ r.object[o] \in Object /\ r.object[o].label = l
        BY <2>1, <1>6 DEF State, Sound
    <2>3. PICK n \in Nat : n = r.object[o].owners
        BY <2>2 DEF Object
    <2>4. PICK again : again = (r.object[o].written = gen)
        OBVIOUS
    <2>5. /\ again \in BOOLEAN /\ mine \in BOOLEAN
          /\ again <=> o \in ToSet(r.next)
          /\ mine <=> o \in ToSet(scopes[c])
        BY <2>1, <2>2, <2>4, <1>7 DEF Marked
    <2>6. PICK m, nx : /\ m = IF again \/ mine THEN n ELSE n + 1
                       /\ nx = IF again THEN r.next ELSE Append(r.next, o)
        OBVIOUS
    <2>7. PICK obj : obj = [r.object EXCEPT ![o] = [r.object[o] EXCEPT !.value = sample.value, !.written = gen, !.owners = m]]
        OBVIOUS
    <2>8. /\ obj \in [Objects -> Object] /\ nx \in Seq(Objects) /\ m \in Nat
          /\ obj[o].label = l /\ obj[o].value = sample.value /\ obj[o].written = gen /\ obj[o].owners = m
          /\ obj[o].owned = r.object[o].owned
          /\ \A p \in Objects : p # o => obj[p] = r.object[p]
        <3>1. m \in Nat
            BY <2>3, <2>6
        <3>2. nx \in Seq(Objects)
            BY <2>1, <2>2, <2>6 DEF State
        <3> QED
            BY <3>1, <3>2, <2>1, <2>2, <2>7 DEF State, Object
    <2>9. PICK q : q = RecordSample(st, sample, gen)
        OBVIOUS
    <2>10. q = [r EXCEPT !.object = obj, !.next = nx]
        <3>1. CASE again
            <4>1. q = [r EXCEPT !.object[o].value = sample.value]
                BY <3>1, <2>4, <2>9, <1>1, <1>2, <1>6, <1>10 DEF RecordSample
            <4>2. obj = [r.object EXCEPT ![o].value = sample.value]
                BY <3>1, <2>1, <2>2, <2>3, <2>4, <2>6, <2>7 DEF State, Object
            <4>3. nx = r.next
                BY <3>1, <2>6
            <4> QED
                BY <4>1, <4>2, <4>3, <2>1 DEF State
        <3>2. CASE ~again
            <4>1. PICK r1 : r1 = [r EXCEPT !.object[o].value = sample.value, !.object[o].written = gen,
                                           !.object[o].owners = IF mine THEN @ ELSE @ + 1, !.next = Append(@, o)]
                OBVIOUS
            <4>2. q = r1
                BY <4>1, <3>2, <2>4, <2>9, <1>1, <1>2, <1>6, <1>7, <1>10 DEF RecordSample
            <4>3. PICK obj1 : obj1 = [r.object EXCEPT ![o].value = sample.value, ![o].written = gen,
                                                      ![o].owners = IF mine THEN @ ELSE @ + 1]
                OBVIOUS
            <4>4. obj1 = obj
                BY <4>3, <3>2, <2>1, <2>2, <2>3, <2>5, <2>6, <2>7 DEF State, Object
            <4>5. r1 = [r EXCEPT !.object = obj1, !.next = Append(r.next, o)]
                <5>1. CASE mine
                    <6>1. obj1 = [r.object EXCEPT ![o].value = sample.value, ![o].written = gen, ![o].owners = @]
                        BY <5>1, <4>3
                    <6>2. r1 = [r EXCEPT !.object[o].value = sample.value, !.object[o].written = gen,
                                         !.object[o].owners = @, !.next = Append(@, o)]
                        BY <5>1, <4>1
                    <6> QED
                        BY <6>1, <6>2, <2>1, <2>2 DEF State, Object
                <5>2. CASE ~mine
                    <6>1. obj1 = [r.object EXCEPT ![o].value = sample.value, ![o].written = gen, ![o].owners = @ + 1]
                        BY <5>2, <4>3
                    <6>2. r1 = [r EXCEPT !.object[o].value = sample.value, !.object[o].written = gen,
                                         !.object[o].owners = @ + 1, !.next = Append(@, o)]
                        BY <5>2, <4>1
                    <6> QED
                        BY <6>1, <6>2, <2>1, <2>2 DEF State, Object
                <5> QED
                    BY <5>1, <5>2, <2>5
            <4>6. nx = Append(r.next, o)
                BY <3>2, <2>6
            <4> QED
                BY <4>2, <4>4, <4>5, <4>6
        <3> QED
            BY <3>1, <3>2, <2>5
    <2>11. q \in State /\ q.object = obj /\ q.series = r.series /\ q.family = r.family /\ q.next = nx
        BY <2>1, <2>8, <2>10 DEF State
    <2>12. ToSet(nx) = ToSet(r.next) \cup {o} /\ Once(nx)
        <3>1. CASE again
            BY <3>1, <2>1, <2>5, <2>6
        <3>2. CASE ~again
            <4>1. /\ nx = Append(r.next, o) /\ r.next \in Seq(Objects) /\ o \notin ToSet(r.next)
                  /\ Len(r.next) \in Nat
                BY <3>2, <2>1, <2>5, <2>6 DEF State
            <4>2. /\ Len(nx) = Len(r.next) + 1 /\ nx[Len(r.next) + 1] = o
                  /\ \A i \in 1 .. Len(r.next) : nx[i] = r.next[i] /\ nx[i] # o
                BY <4>1, <2>2 DEF ToSet
            <4>3. ToSet(nx) = ToSet(r.next) \cup {o}
                BY <4>1, <4>2 DEF ToSet
            <4>4. Once(nx)
                <5> SUFFICES ASSUME NEW i \in 1 .. Len(nx), NEW j \in 1 .. Len(nx), nx[i] = nx[j] PROVE i = j
                    BY DEF Once
                <5>1. i \in 1 .. Len(r.next) \/ i = Len(r.next) + 1
                    BY <4>1, <4>2
                <5>2. j \in 1 .. Len(r.next) \/ j = Len(r.next) + 1
                    BY <4>1, <4>2
                <5> QED
                    BY <5>1, <5>2, <4>2, <2>1 DEF Once
            <4> QED
                BY <4>3, <4>4
        <3> QED
            BY <3>1, <3>2, <2>5
    <2>13. PICK own2 : own2 = During(c, q)
        OBVIOUS
    <2>14. /\ own \in Owning /\ own[c] = ToSet(scopes[c]) \cup ToSet(r.next)
           /\ own2 \in Owning /\ own2[c] = own[c] \cup {o} /\ \A d \in Scopes : d # c => own2[d] = own[d]
        <3>1. /\ own \in Owning /\ own[c] = ToSet(scopes[c]) \cup ToSet(r.next)
              /\ \A d \in Scopes : d # c => own[d] = ToSet(scopes[d])
            BY <2>1, <1>5, DuringOwns
        <3>2. /\ own2 \in Owning /\ own2[c] = ToSet(scopes[c]) \cup ToSet(nx)
              /\ \A d \in Scopes : d # c => own2[d] = ToSet(scopes[d])
            BY <2>11, <2>13, DuringOwns
        <3> QED
            BY <3>1, <3>2, <2>12
    <2>15. OwnersIn(own2, o) = OwnersIn(own, o) \cup {c} /\ \A p \in Objects : p # o => OwnersIn(own2, p) = OwnersIn(own, p)
        BY <2>14 DEF OwnersIn
    <2>16. n = Cardinality(OwnersIn(own, o)) /\ m = Cardinality(OwnersIn(own2, o))
        <3>1. n = Cardinality(OwnersIn(own, o))
            BY <2>1, <2>3, <1>6 DEF Sound
        <3>2. OwnersIn(own, o) \in SUBSET Scopes
            BY DEF OwnersIn
        <3>3. c \in OwnersIn(own, o) <=> again \/ mine
            BY <2>5, <2>14 DEF OwnersIn
        <3>4. CASE again \/ mine
            <4>1. OwnersIn(own, o) \cup {c} = OwnersIn(own, o)
                BY <3>3, <3>4
            <4> QED
                BY <4>1, <3>1, <3>4, <2>6, <2>15
        <3>5. CASE ~(again \/ mine)
            <4>1. Cardinality(OwnersIn(own, o) \cup {c}) = n + 1
                BY <3>1, <3>2, <3>3, <3>5, OwnersChange
            <4> QED
                BY <4>1, <3>1, <3>5, <2>6, <2>15
        <3> QED
            BY <3>4, <3>5
    <2>17. Sound(q, own2)
        <3>1. ASSUME NEW k \in Labels, r.series[k] # Nil
              PROVE  obj[r.series[k]].label = k /\ obj[r.series[k]].owners = Cardinality(OwnersIn(own2, r.series[k]))
            <4>1. /\ r.series[k] \in Objects /\ r.object[r.series[k]].label = k
                  /\ r.object[r.series[k]].owners = Cardinality(OwnersIn(own, r.series[k]))
                BY <3>1, <2>1 DEF Sound, State
            <4>2. CASE r.series[k] = o
                BY <4>1, <4>2, <2>2, <2>8, <2>16
            <4>3. CASE r.series[k] # o
                BY <4>1, <4>3, <2>8, <2>15
            <4> QED
                BY <4>2, <4>3
        <3>2. ASSUME NEW d \in Scopes, NEW p \in own2[d]
              PROVE  obj[p].label \in Labels /\ r.series[obj[p].label] = p
            <4>1. CASE p = o
                BY <4>1, <2>8, <1>6
            <4>2. CASE p # o
                <5>1. p \in own[d] /\ p \in Objects
                    BY <4>2, <2>14 DEF Owning
                <5> QED
                    BY <5>1, <4>2, <2>1, <2>8 DEF Sound
            <4> QED
                BY <4>1, <4>2
        <3>3. ASSUME r.family = "counter", NEW d \in Scopes, NEW e \in Scopes, own2[d] \cap own2[e] # {}
              PROVE  d = e
            <4>1. PICK p : p \in own2[d] /\ p \in own2[e]
                BY <3>3
            <4>2. CASE p # o
                <5>1. p \in own[d] /\ p \in own[e]
                    BY <4>1, <4>2, <2>14
                <5> QED
                    BY <5>1, <3>3, <2>1 DEF Sound
            <4>3. CASE p = o
                <5>1. \A b \in Scopes : o \in own[b] => b = c
                    <6> SUFFICES ASSUME NEW b \in Scopes, o \in own[b] PROVE b = c
                        OBVIOUS
                    <6>1. OwnersIn(own, o) \in SUBSET Scopes /\ OwnersIn(own, o) # {}
                        BY DEF OwnersIn
                    <6>2. n # 0
                        BY <6>1, <2>16, OwnersChange
                    <6>3. again \/ mine
                        <7>1. r.object[o].owners > 0
                            BY <6>2, <2>3
                        <7>2. CounterOwned(r, o, mine) \/ mine
                            BY <7>1, <3>3, <2>5 DEF CounterOwned
                        <7> QED
                            BY <7>2, <2>4, <1>10, Zenon
                    <6>4. o \in own[c]
                        BY <6>3, <2>5, <2>14
                    <6> QED
                        BY <6>4, <3>3, <2>1 DEF Sound
                <5> QED
                    BY <5>1, <4>1, <4>3, <2>14
            <4> QED
                BY <4>2, <4>3
        <3>4. r.family # Nil
            BY <1>4 DEF Locked
        <3> QED
            BY <3>1, <3>2, <3>3, <3>4, <2>11 DEF Sound
    <2>18. Marked(c, gen, q)
        <3> SUFFICES ASSUME NEW p \in Objects
                     PROVE  /\ obj[p].written <= gen /\ obj[p].owned <= gen
                            /\ obj[p].written = gen <=> p \in ToSet(nx)
                            /\ obj[p].owned = gen <=> p \in ToSet(scopes[c])
            BY <2>11 DEF Marked
        <3>1. /\ r.object[p].written <= gen /\ r.object[p].owned <= gen
              /\ r.object[p].written = gen <=> p \in ToSet(r.next)
              /\ r.object[p].owned = gen <=> p \in ToSet(scopes[c])
            BY <2>1 DEF Marked
        <3>2. CASE p = o
            BY <3>1, <3>2, <2>8, <2>12
        <3>3. CASE p # o
            BY <3>1, <3>3, <2>8, <2>12
        <3> QED
            BY <3>2, <3>3
    <2>19. LabelsOf(q) = LabelsOf(r) \cup {l}
        <3>1. \A p \in ToSet(nx) : p \in Objects /\ obj[p].label = r.object[p].label
            BY <2>2, <2>8, <2>11 DEF State, ToSet
        <3> QED
            BY <3>1, <2>2, <2>11, <2>12 DEF LabelsOf
    <2>20. KeptBut(Nil, st0, q)
        <3>1. ASSUME NEW k \in Labels, k \notin LabelsOf(q)
              PROVE  q.series[k] = st0.series[k] /\ ValueOf(q, k) = ValueOf(st0, k)
            <4>1. k # l /\ k \notin LabelsOf(r)
                BY <3>1, <2>19
            <4>2. r.series[k] = st0.series[k] /\ ValueOf(r, k) = ValueOf(st0, k)
                BY <4>1, <2>1 DEF KeptBut
            <4>3. r.series[k] # Nil => r.series[k] \in Objects /\ r.series[k] # o
                BY <4>1, <2>1, <2>2 DEF State, Sound
            <4>4. ValueOf(q, k) = ValueOf(r, k)
                BY <4>3, <2>8, <2>11 DEF ValueOf
            <4> QED
                BY <4>2, <4>4, <2>11
        <3>2. ASSUME NEW d \in Scopes, NEW p \in Listed[d]
              PROVE  q.object[p].label = st0.object[p].label
            <4>1. p \in Objects
                BY DEF Listed, ExporterTypeOK, ToSet
            <4>2. obj[p].label = r.object[p].label
                BY <4>1, <2>2, <2>8
            <4> QED
                BY <4>2, <2>1, <2>11 DEF KeptBut
        <3>3. st0.family # Nil => q.family = st0.family
            BY <2>1, <2>11 DEF KeptBut
        <3> QED
            BY <3>1, <3>2, <3>3 DEF KeptBut
    <2> QED
        BY <2>9, <2>11, <2>12, <2>13, <2>17, <2>18, <2>20 DEF Recording
<1> QED
    BY <1>8, <1>9, <1>10

\* f is RecordAll's state after each of the first m samples.
RecordLoop(f, st, samples, gen, m) ==
    f = [i \in 0 .. m |-> IF i = 0 THEN st ELSE RecordSample(f[i - 1], samples[i], gen)]

\* The function that RecordAll's loop defines exists.
LEMMA RecordLoopExists ==
    ASSUME NEW st, NEW samples \in Seq(Samples), NEW gen
    PROVE  \E f : RecordLoop(f, st, samples, gen, Len(samples))
<1> DEFINE S == {m \in Nat : \E f : RecordLoop(f, st, samples, gen, m)}
<1>1. 0 \in S
    <2>1. RecordLoop([i \in 0 .. 0 |-> st], st, samples, gen, 0)
        BY DEF RecordLoop
    <2> QED
        BY <2>1
<1>2. ASSUME NEW m \in 0 .. Len(samples), m \in S
      PROVE  m + 1 \in S
    <2>1. PICK f : RecordLoop(f, st, samples, gen, m)
        BY <1>2
    <2>2. PICK g : g = [i \in 0 .. m + 1 |-> IF i <= m THEN f[i] ELSE RecordSample(f[m], samples[m + 1], gen)]
        OBVIOUS
    <2>3. ASSUME NEW i \in 0 .. m + 1
          PROVE  g[i] = IF i = 0 THEN st ELSE RecordSample(g[i - 1], samples[i], gen)
        <3>1. CASE i = 0
            BY <3>1, <2>1, <2>2 DEF RecordLoop
        <3>2. CASE i # 0 /\ i <= m
            <4>1. i \in 0 .. m /\ i - 1 \in 0 .. m + 1 /\ i - 1 <= m
                BY <3>2
            <4>2. g[i] = f[i] /\ g[i - 1] = f[i - 1]
                BY <4>1, <2>2
            <4>3. f[i] = RecordSample(f[i - 1], samples[i], gen)
                BY <3>2, <4>1, <2>1 DEF RecordLoop
            <4> QED
                BY <4>2, <4>3, <3>2
        <3>3. CASE i = m + 1
            <4>1. g[i] = RecordSample(f[m], samples[i], gen) /\ g[i - 1] = f[m] /\ i # 0
                BY <3>3, <2>2
            <4> QED
                BY <4>1
        <3> QED
            BY <3>1, <3>2, <3>3
    <2>4. g = [i \in 0 .. m + 1 |-> g[i]]
        BY <2>2
    <2>5. RecordLoop(g, st, samples, gen, m + 1)
        BY <2>3, <2>4 DEF RecordLoop
    <2> QED
        BY <2>5
<1>3. Len(samples) \in Nat
    OBVIOUS
<1>4. 0 .. Len(samples) \subseteq S
    <2> HIDE DEF S
    <2> QED
        BY <1>1, <1>2, <1>3, UpTo
<1>5. Len(samples) \in S
    BY <1>3, <1>4
<1> QED
    BY <1>5

\* RecordAll is the last state of its loop.
LEMMA RecordAllUnfolds ==
    ASSUME NEW st, NEW samples \in Seq(Samples), NEW gen
    PROVE  \E f : RecordLoop(f, st, samples, gen, Len(samples)) /\ RecordAll(st, samples, gen) = f[Len(samples)]
<1> DEFINE a == CHOOSE f : RecordLoop(f, st, samples, gen, Len(samples))
<1>1. RecordLoop(a, st, samples, gen, Len(samples))
    BY RecordLoopExists
<1>2. RecordAll(st, samples, gen) = a[Len(samples)]
    BY Zenon DEF RecordAll, RecordLoop
<1> QED
    BY <1>1, <1>2

\* So does the whole batch.
LEMMA AllRecorded ==
    ASSUME ExporterTypeOK, NEW c \in Scopes, NEW gen \in Nat \ {0}, NEW st, Recording(c, gen, Nil, st, st),
           NEW samples \in Seq(Samples)
    PROVE  Recording(c, gen, Nil, st, RecordAll(st, samples, gen))
<1>1. PICK f : RecordLoop(f, st, samples, gen, Len(samples)) /\ RecordAll(st, samples, gen) = f[Len(samples)]
    BY RecordAllUnfolds
<1>2. Len(samples) \in Nat
    OBVIOUS
<1> DEFINE S == {i \in 0 .. Len(samples) : Recording(c, gen, Nil, st, f[i])}
<1>3. 0 \in S
    <2>1. f[0] = st
        BY <1>1, <1>2 DEF RecordLoop
    <2> QED
        BY <2>1, <1>2
<1>4. ASSUME NEW i \in 0 .. Len(samples), i \in S, i # Len(samples)
      PROVE  i + 1 \in S
    <2>1. i + 1 \in 0 .. Len(samples) /\ samples[i + 1] \in Samples
        BY <1>2, <1>4
    <2>2. f[i + 1] = RecordSample(f[i], samples[i + 1], gen)
        <3>1. f[i + 1] = RecordSample(f[(i + 1) - 1], samples[i + 1], gen)
            BY <2>1, <1>1 DEF RecordLoop
        <3>2. (i + 1) - 1 = i
            OBVIOUS
        <3> QED
            BY <3>1, <3>2
    <2>3. Recording(c, gen, Nil, st, f[i])
        BY <1>4
    <2>4. Recording(c, gen, Nil, st, f[i + 1])
        BY <2>1, <2>2, <2>3, SampleRecorded
    <2> QED
        BY <2>1, <2>4
<1>5. 0 .. Len(samples) \subseteq S
    <2> HIDE DEF S
    <2> QED
        BY <1>2, <1>3, <1>4, UpTo
<1> QED
    BY <1>1, <1>2, <1>5

-----------------------------------------------------------------------------
(* What a call makes of the exporter.                                      *)

\* The current state is a State, and the lists an assignment of objects.
LEMMA NowIsState ==
    ASSUME ExporterTypeOK
    PROVE  /\ Now \in State /\ Listed \in Owning /\ \A d \in Scopes : Listed[d] = ToSet(scopes[d])
           /\ Now.family = family /\ Now.series = series /\ Now.object = object /\ Now.next = << >>
<1>1. \A d \in Scopes : ToSet(scopes[d]) \subseteq Objects
    BY DEF ExporterTypeOK, ToSet
<1> QED
    BY <1>1 DEF ExporterTypeOK, Now, State, Listed, Owning

\* A call turns the exporter into st2 with own2, and changes the values of
\* written and of what nobody owns any more.
Turned(st2, own2, written) ==
    /\ st2 \in State /\ Sound(st2, own2) /\ written \subseteq Labels
    /\ family # Nil => st2.family = family
    /\ \A l \in Labels \ written :
           ValueOf(st2, l) = IF OwnersOfLabel(Now, Listed, l) # {} /\ OwnersOfLabel(st2, own2, l) = {}
                             THEN Nil ELSE ValueOf(Now, l)
    /\ \A l \in written : ValueOf(st2, l) # Nil

\* No scope's list changes its labels.
SameLabels(st2) == \A d \in Scopes : \A o \in ToSet(scopes[d]) : st2.object[o].label = object[o].label

MarksUpTo(gen, st2) == \A o \in Objects : st2.object[o].written <= gen /\ st2.object[o].owned <= gen

\* Releasing from the current state turns it with nothing written.
LEMMA ReleasedIsTurned ==
    ASSUME ExporterInv, NEW st2, NEW own2, Released(Now, Listed, st2, own2)
    PROVE  Turned(st2, own2, {}) /\ SameLabels(st2) /\ MarksUpTo(generation, st2)
<1>1. PICK st, own : st = Now /\ own = Listed
    OBVIOUS
<1>2. st.object = object /\ st.family = family
    BY <1>1 DEF Now
<1>3. Released(st, own, st2, own2)
    BY <1>1
<1>4. Turned(st2, own2, {})
    BY <1>1, <1>2, <1>3 DEF Turned, Released
<1>5. SameLabels(st2)
    <2>1. \A d \in Scopes : ToSet(scopes[d]) \subseteq Objects
        BY DEF ExporterInv, ExporterTypeOK, ToSet
    <2> QED
        BY <1>2, <1>3, <2>1 DEF SameLabels, Released
<1>6. MarksUpTo(generation, st2)
    BY <1>2, <1>3 DEF MarksUpTo, Released, ExporterInv
<1> QED
    BY <1>4, <1>5, <1>6

\* clearScopeLocked takes all it owned from a scope.
LEMMA ScopeCleared ==
    ASSUME ExporterInv, NEW c \in Scopes
    PROVE  Released(Now, Listed, ReleaseAll(Now, scopes[c], {}), [Listed EXCEPT ![c] = {}])
<1>1. PICK st, own, list : st = Now /\ own = Listed /\ list = scopes[c]
    OBVIOUS
<1>2. /\ st \in State /\ own \in Owning /\ own[c] = ToSet(list) /\ Sound(st, own) /\ list \in Seq(Objects)
      /\ Once(list)
    BY <1>1, NowIsState DEF ExporterInv, ExporterTypeOK
<1>3. Released(st, own, ReleaseAll(st, list, {}), [own EXCEPT ![c] = @ \ (ToSet(list) \ {})])
    BY <1>2, ReleasedAll
<1>4. own[c] \ (ToSet(list) \ {}) = {}
    BY <1>2
<1>5. [own EXCEPT ![c] = @ \ (ToSet(list) \ {})] = [own EXCEPT ![c] = {}]
    BY <1>4
<1> QED
    BY <1>1, <1>3, <1>5

\* A call of RecordScope begins with the marks of the scope's list.
LEMMA MarkedFirst ==
    ASSUME ExporterInv, NEW c \in Scopes, NEW gen, gen = generation + 1, NEW st, st = MarkOwned(Now, scopes[c], gen)
    PROVE  /\ Recording(c, gen, Nil, st, st)
           /\ st.family = family /\ st.series = series
           /\ \A o \in Objects : st.object[o].label = object[o].label
           /\ \A l \in Labels : ValueOf(st, l) = ValueOf(Now, l)
<1>1. /\ ExporterTypeOK /\ generation \in Nat /\ gen \in Nat /\ Sound(Now, Listed)
      /\ object \in [Objects -> Object] /\ series \in [Labels -> Objects \cup {Nil}]
    BY DEF ExporterInv, ExporterTypeOK
<1>2. PICK obj : obj = [o \in Objects |-> IF o \in ToSet(scopes[c]) THEN [object[o] EXCEPT !.owned = gen] ELSE object[o]]
    OBVIOUS
<1>3. st.object = obj /\ st.family = family /\ st.series = series /\ st.next = << >>
    BY <1>2 DEF MarkOwned, Now
<1>4. /\ obj \in [Objects -> Object]
      /\ \A o \in Objects : /\ obj[o].label = object[o].label /\ obj[o].value = object[o].value
                            /\ obj[o].owners = object[o].owners /\ obj[o].written = object[o].written
                            /\ obj[o].owned = IF o \in ToSet(scopes[c]) THEN gen ELSE object[o].owned
    BY <1>1, <1>2 DEF Object
<1>5. st \in State
    <2>1. st = [Now EXCEPT !.object = obj]
        BY <1>2 DEF MarkOwned, Now
    <2> QED
        BY <2>1, <1>1, <1>4, NowIsState DEF State
<1>6. ToSet(st.next) = {} /\ During(c, st) = Listed
    <2>1. ToSet(st.next) = {}
        BY <1>3 DEF ToSet
    <2>2. Listed \in Owning
        BY <1>1, NowIsState
    <2> QED
        BY <2>1, <2>2 DEF During, Owning
<1>7. \A l \in Labels : series[l] # Nil => series[l] \in Objects
    BY <1>1
<1>8. \A l \in Labels : ValueOf(st, l) = ValueOf(Now, l)
    BY <1>3, <1>4, <1>7 DEF ValueOf, Now
<1>9. Sound(st, Listed)
    <2>1. PICK now, own : now = Now /\ own = Listed
        OBVIOUS
    <2>2. Sound(now, own) /\ now.family = family /\ now.series = series /\ now.object = object
        BY <2>1, <1>1 DEF Now
    <2>3. \A d \in Scopes : own[d] \subseteq Objects
        BY <2>1, <1>1, NowIsState DEF Owning
    <2> QED
        BY <2>1, <2>2, <2>3, <1>3, <1>4, <1>7 DEF Sound
<1>10. Marked(c, gen, st)
    <2>1. \A o \in Objects : /\ object[o].written \in Nat /\ object[o].owned \in Nat
                            /\ object[o].written <= generation /\ object[o].owned <= generation
        BY <1>1 DEF ExporterInv, Object
    <2>2. ASSUME NEW o \in Objects
          PROVE  /\ obj[o].written <= gen /\ obj[o].owned <= gen
                 /\ obj[o].written = gen <=> o \in {}
                 /\ obj[o].owned = gen <=> o \in ToSet(scopes[c])
        <3>1. CASE o \in ToSet(scopes[c])
            BY <3>1, <2>1, <1>1, <1>4
        <3>2. CASE o \notin ToSet(scopes[c])
            BY <3>2, <2>1, <1>1, <1>4
        <3> QED
            BY <3>1, <3>2
    <2> QED
        BY <2>2, <1>3, <1>6 DEF Marked
<1>11. Once(st.next)
    BY <1>3 DEF Once
<1>12. KeptBut(Nil, st, st)
    BY DEF KeptBut
<1> QED
    BY <1>3, <1>4, <1>5, <1>6, <1>8, <1>9, <1>10, <1>11, <1>12 DEF Recording

WrittenIn(rec, gen) == {o \in Objects : rec.object[o].written = gen}

\* A call of RecordScope turns the exporter into fin, in which c owns what the
\* call has written in rec; a counter was not another scope's.
TurnedByScope(c, gen, rec, fin, own2) ==
    /\ Turned(fin, own2, LabelsOf(rec)) /\ SameLabels(fin) /\ MarksUpTo(gen, fin)
    /\ rec.next \in Seq(Objects) /\ Once(rec.next)
    /\ \A o \in ToSet(rec.next) : fin.object[o].label = rec.object[o].label
    /\ fin.family = "counter" => \A l \in LabelsOf(rec) : OwnersOfLabel(Now, Listed, l) \subseteq {c}

\* The loops of RecordScope, together.
LEMMA ScopeRecorded ==
    ASSUME ExporterInv, NEW c \in Scopes, NEW gen, gen = generation + 1, NEW samples \in Seq(Samples),
           NEW rec, rec = RecordAll(MarkOwned(Now, scopes[c], gen), samples, gen),
           NEW fin, fin = ReleaseAll(rec, scopes[c], WrittenIn(rec, gen)),
           NEW own2, own2 = [Listed EXCEPT ![c] = ToSet(rec.next)]
    PROVE  TurnedByScope(c, gen, rec, fin, own2)
<1>1. /\ ExporterTypeOK /\ generation \in Nat /\ gen \in Nat \ {0} /\ Sound(Now, Listed)
      /\ object \in [Objects -> Object] /\ series \in [Labels -> Objects \cup {Nil}]
    BY DEF ExporterInv, ExporterTypeOK
<1>2. PICK st : st = MarkOwned(Now, scopes[c], gen)
    OBVIOUS
<1>3. /\ Recording(c, gen, Nil, st, st) /\ st.family = family /\ st.series = series
      /\ \A o \in Objects : st.object[o].label = object[o].label
      /\ \A l \in Labels : ValueOf(st, l) = ValueOf(Now, l)
    BY <1>2, MarkedFirst
<1>4. Recording(c, gen, Nil, st, rec)
    BY <1>1, <1>2, <1>3, AllRecorded
<1>5. PICK now, own0, list, mid, nxt : /\ now = Now /\ own0 = Listed /\ list = scopes[c]
                                       /\ mid = During(c, rec) /\ nxt = ToSet(rec.next)
    OBVIOUS
<1>6. /\ rec \in State /\ Sound(rec, mid) /\ Once(rec.next) /\ Marked(c, gen, rec) /\ KeptBut(Nil, st, rec)
    BY <1>4, <1>5 DEF Recording
<1>7. /\ own0 \in Owning /\ mid \in Owning /\ nxt \subseteq Objects
      /\ own0[c] = ToSet(list) /\ mid[c] = ToSet(list) \cup nxt
      /\ \A d \in Scopes : d # c => mid[d] = own0[d]
      /\ list \in Seq(Objects) /\ Once(list)
    <2>1. nxt \subseteq Objects
        BY <1>5, <1>6 DEF State, ToSet
    <2>2. list \in Seq(Objects) /\ Once(list)
        BY <1>5 DEF ExporterInv, ExporterTypeOK
    <2> QED
        BY <2>1, <2>2, <1>1, <1>5, <1>6, NowIsState, DuringOwns
<1>8. WrittenIn(rec, gen) = nxt
    BY <1>5, <1>6, <1>7 DEF Marked, WrittenIn
<1>9. own2 = [mid EXCEPT ![c] = @ \ (ToSet(list) \ nxt)]
    <2>1. mid[c] \ (ToSet(list) \ nxt) = nxt
        BY <1>7
    <2> QED
        BY <2>1, <1>5, <1>7 DEF Owning
<1>10. Released(rec, mid, fin, own2)
    <2>1. ToSet(list) \ nxt \subseteq mid[c]
        BY <1>7
    <2>2. Released(rec, mid, ReleaseAll(rec, list, nxt), [mid EXCEPT ![c] = @ \ (ToSet(list) \ nxt)])
        BY <2>1, <1>6, <1>7, ReleasedAll
    <2> QED
        BY <2>2, <1>5, <1>8, <1>9
<1>11. /\ fin \in State /\ Sound(fin, own2) /\ fin.family = rec.family
       /\ \A o \in Objects : /\ fin.object[o].label = rec.object[o].label
                             /\ fin.object[o].written = rec.object[o].written
                             /\ fin.object[o].owned = rec.object[o].owned
    BY <1>10 DEF Released
<1>12. /\ own2[c] = nxt /\ \A d \in Scopes : d # c => own2[d] = own0[d]
    BY <1>5, <1>7 DEF Owning
<1>13. /\ SameLabels(rec) /\ (family # Nil => rec.family = family)
       /\ \A k \in Labels \ LabelsOf(rec) : rec.series[k] = series[k] /\ ValueOf(rec, k) = ValueOf(now, k)
    <2>1. \A d \in Scopes : Listed[d] = ToSet(scopes[d]) /\ ToSet(scopes[d]) \subseteq Objects
        BY <1>1, NowIsState DEF Owning
    <2>2. SameLabels(rec)
        BY <2>1, <1>3, <1>6 DEF SameLabels, KeptBut
    <2>3. family # Nil => rec.family = family
        BY <1>3, <1>6 DEF KeptBut
    <2>4. ASSUME NEW k \in Labels \ LabelsOf(rec)
          PROVE  rec.series[k] = series[k] /\ ValueOf(rec, k) = ValueOf(now, k)
        <3>1. k # Nil
            BY ExporterNumbers
        <3>2. rec.series[k] = st.series[k] /\ ValueOf(rec, k) = ValueOf(st, k)
            BY <3>1, <1>6 DEF KeptBut
        <3> QED
            BY <3>2, <1>3, <1>5
    <2> QED
        BY <2>2, <2>3, <2>4
<1>14. LabelsOf(rec) \subseteq Labels /\ \A o \in nxt : /\ rec.object[o].label \in Labels
                                                       /\ rec.object[o].label \in LabelsOf(rec)
                                                       /\ rec.series[rec.object[o].label] = o
                                                       /\ fin.series[rec.object[o].label] = o
    <2>1. ASSUME NEW o \in nxt
          PROVE  /\ rec.object[o].label \in Labels /\ rec.series[rec.object[o].label] = o
                 /\ fin.series[rec.object[o].label] = o
        <3>1. o \in mid[c] /\ o \in own2[c] /\ o \in Objects
            BY <1>7, <1>12
        <3>2. rec.object[o].label \in Labels /\ rec.series[rec.object[o].label] = o
            BY <3>1, <1>6 DEF Sound
        <3>3. fin.series[fin.object[o].label] = o
            <4>1. Sound(fin, own2) /\ o \in own2[c]
                BY <3>1, <1>11
            <4>2. \A s, w : Sound(s, w) => \A d \in Scopes : \A p \in w[d] : s.series[s.object[p].label] = p
                BY DEF Sound
            <4> QED
                BY <4>1, <4>2, Zenon
        <3>4. fin.object[o].label = rec.object[o].label
            BY <3>1, <1>11
        <3> QED
            BY <3>2, <3>3, <3>4
    <2>2. LabelsOf(rec) = {rec.object[o].label : o \in nxt}
        BY <1>5 DEF LabelsOf
    <2> QED
        BY <2>1, <2>2
<1>15. ASSUME NEW l \in Labels \ LabelsOf(rec)
       PROVE  ValueOf(fin, l) = IF OwnersOfLabel(now, own0, l) # {} /\ OwnersOfLabel(fin, own2, l) = {}
                                THEN Nil ELSE ValueOf(now, l)
    <2>1. OwnersOfLabel(rec, mid, l) = OwnersOfLabel(now, own0, l)
        <3>1. now.series[l] = rec.series[l]
            BY <1>5, <1>13 DEF Now
        <3>2. rec.series[l] # Nil => rec.series[l] \notin nxt
            <4>1. rec.series[l] # Nil => rec.object[rec.series[l]].label = l
                BY <1>6 DEF Sound
            <4> QED
                BY <4>1, <1>14, <1>15
        <3>3. rec.series[l] # Nil => OwnersIn(mid, rec.series[l]) = OwnersIn(own0, rec.series[l])
            BY <3>2, <1>7 DEF OwnersIn
        <3> QED
            BY <3>1, <3>3 DEF OwnersOfLabel
    <2>2. ValueOf(fin, l) = IF OwnersOfLabel(rec, mid, l) # {} /\ OwnersOfLabel(fin, own2, l) = {}
                            THEN Nil ELSE ValueOf(rec, l)
        BY <1>10 DEF Released
    <2>3. ValueOf(rec, l) = ValueOf(now, l)
        BY <1>13
    <2> QED
        BY <2>1, <2>2, <2>3
<1>16. ASSUME NEW l \in LabelsOf(rec)
       PROVE  ValueOf(fin, l) # Nil
    <2>1. PICK o \in nxt : rec.object[o].label = l
        BY <1>5 DEF LabelsOf
    <2>2. fin.series[l] = o /\ o \in Objects
        BY <2>1, <1>7, <1>14
    <2>3. fin.object[o].value \in Nat
        <3>1. fin.object[o] \in Object
            BY <2>2, <1>11 DEF State
        <3>2. fin.object[o].value \in Values \cup {0}
            BY <3>1 DEF Object
        <3>3. Values \cup {0} \subseteq Nat
            BY ExporterNumbers
        <3> QED
            BY <3>2, <3>3, Zenon
    <2> QED
        BY <2>2, <2>3, ExporterNumbers DEF ValueOf
<1>17. Turned(fin, own2, LabelsOf(rec))
    BY <1>5, <1>11, <1>13, <1>14, <1>15, <1>16 DEF Turned
<1>18. ASSUME fin.family = "counter", NEW l \in LabelsOf(rec), NEW d \in OwnersOfLabel(now, own0, l)
       PROVE  d = c
    <2>1. PICK o \in nxt : rec.object[o].label = l
        BY <1>5 DEF LabelsOf
    <2>2. PICK p : p = series[l]
        OBVIOUS
    <2>3. p # Nil /\ d \in Scopes /\ p \in own0[d] /\ now.series = series /\ l \in Labels
        BY <2>2, <1>5, <1>14, <1>18 DEF OwnersOfLabel, OwnersIn, Now
    <2>4. object[p].label = l
        <3>1. now.object[now.series[l]].label = l
            BY <2>2, <2>3, <1>1, <1>5 DEF Sound
        <3> QED
            BY <3>1, <2>2, <2>3, <1>5 DEF Now
    <2>5. rec.object[p].label = l
        <3>1. p \in ToSet(scopes[d])
            BY <2>3, <1>1, <1>5, NowIsState
        <3> QED
            BY <3>1, <2>3, <2>4, <1>13 DEF SameLabels
    <2>6. p \in mid[d]
        BY <2>3, <1>7
    <2>7. rec.series[l] = p
        BY <2>3, <2>5, <2>6, <1>6 DEF Sound
    <2>8. p = o
        BY <2>1, <2>7, <1>14
    <2>9. mid[d] \cap mid[c] # {}
        BY <2>6, <2>8, <1>7
    <2> QED
        BY <2>3, <2>9, <1>6, <1>11, <1>18 DEF Sound
<1>19. SameLabels(fin) /\ \A o \in nxt : fin.object[o].label = rec.object[o].label
    <2>1. \A d \in Scopes : ToSet(scopes[d]) \subseteq Objects
        BY <1>1 DEF ExporterTypeOK, ToSet
    <2>2. \A o \in Objects : fin.object[o].label = rec.object[o].label
        BY <1>11
    <2>3. \A d \in Scopes : \A o \in ToSet(scopes[d]) : rec.object[o].label = object[o].label
        BY <1>13 DEF SameLabels
    <2>4. SameLabels(fin)
        BY <2>1, <2>2, <2>3 DEF SameLabels
    <2> QED
        BY <2>2, <2>4, <1>7
<1>20. MarksUpTo(gen, fin)
    BY <1>6, <1>11 DEF MarksUpTo, Marked
<1> QED
    BY <1>5, <1>6, <1>17, <1>18, <1>19, <1>20 DEF State, TurnedByScope

\* f is ClearAll's state after each of the first m scopes.
ClearLoop(f, st, order, m) ==
    f = [i \in 0 .. m |-> IF i = 0 THEN st ELSE ReleaseAll(f[i - 1], scopes[order[i]], {})]

\* The function that ClearAll's loop defines exists.
LEMMA ClearLoopExists ==
    ASSUME NEW st, NEW order \in Seq(Scopes)
    PROVE  \E f : ClearLoop(f, st, order, Len(order))
<1> DEFINE S == {m \in Nat : \E f : ClearLoop(f, st, order, m)}
<1>1. 0 \in S
    <2>1. ClearLoop([i \in 0 .. 0 |-> st], st, order, 0)
        BY DEF ClearLoop
    <2> QED
        BY <2>1
<1>2. ASSUME NEW m \in 0 .. Len(order), m \in S
      PROVE  m + 1 \in S
    <2>1. PICK f : ClearLoop(f, st, order, m)
        BY <1>2
    <2>2. PICK g : g = [i \in 0 .. m + 1 |-> IF i <= m THEN f[i] ELSE ReleaseAll(f[m], scopes[order[m + 1]], {})]
        OBVIOUS
    <2>3. ASSUME NEW i \in 0 .. m + 1
          PROVE  g[i] = IF i = 0 THEN st ELSE ReleaseAll(g[i - 1], scopes[order[i]], {})
        <3>1. CASE i = 0
            BY <3>1, <2>1, <2>2 DEF ClearLoop
        <3>2. CASE i # 0 /\ i <= m
            <4>1. i \in 0 .. m /\ i - 1 \in 0 .. m + 1 /\ i - 1 <= m
                BY <3>2
            <4>2. g[i] = f[i] /\ g[i - 1] = f[i - 1]
                BY <4>1, <2>2
            <4>3. f[i] = ReleaseAll(f[i - 1], scopes[order[i]], {})
                BY <3>2, <4>1, <2>1 DEF ClearLoop
            <4> QED
                BY <4>2, <4>3, <3>2
        <3>3. CASE i = m + 1
            <4>1. g[i] = ReleaseAll(f[m], scopes[order[i]], {}) /\ g[i - 1] = f[m] /\ i # 0
                BY <3>3, <2>2
            <4> QED
                BY <4>1
        <3> QED
            BY <3>1, <3>2, <3>3
    <2>4. g = [i \in 0 .. m + 1 |-> g[i]]
        BY <2>2
    <2>5. ClearLoop(g, st, order, m + 1)
        BY <2>3, <2>4 DEF ClearLoop
    <2> QED
        BY <2>5
<1>3. Len(order) \in Nat
    OBVIOUS
<1>4. 0 .. Len(order) \subseteq S
    <2> HIDE DEF S
    <2> QED
        BY <1>1, <1>2, <1>3, UpTo
<1>5. Len(order) \in S
    BY <1>3, <1>4
<1> QED
    BY <1>5

\* ClearAll is the last state of its loop.
LEMMA ClearAllUnfolds ==
    ASSUME NEW st, NEW order \in Seq(Scopes)
    PROVE  \E f : ClearLoop(f, st, order, Len(order)) /\ ClearAll(st, order) = f[Len(order)]
<1> DEFINE a == CHOOSE f : ClearLoop(f, st, order, Len(order))
<1>1. ClearLoop(a, st, order, Len(order))
    BY ClearLoopExists
<1>2. ClearAll(st, order) = a[Len(order)]
    BY Zenon DEF ClearAll, ClearLoop
<1> QED
    BY <1>1, <1>2

\* An order of a set of scopes has each of them once.
LEMMA OrderOnce ==
    ASSUME NEW Of \in SUBSET Scopes, NEW order \in SetToSeqs(Of)
    PROVE  order \in Seq(Scopes) /\ Once(order) /\ ToSet(order) = Of
<1>1. PICK n : n = Cardinality(Of)
    OBVIOUS
<1>2. IsFiniteSet(Of) /\ n \in Nat
    BY <1>1, ExporterNumbers, FS_Subset, FS_CardinalityType
<1>3. order \in [1 .. n -> Of] /\ \A i, j \in 1 .. n : i # j => order[i] # order[j]
    BY <1>1 DEF SetToSeqs
<1>4. order \in Seq(Scopes) /\ Len(order) = n
    BY <1>2, <1>3
<1>5. Once(order)
    BY <1>3, <1>4 DEF Once
<1>6. order \in Injection(1 .. n, Of)
    BY <1>3 DEF Injection, IsInjective
<1>7. Cardinality(1 .. n) = Cardinality(Of)
    BY <1>1, <1>2, FS_Interval
<1>8. order \in Surjection(1 .. n, Of)
    BY <1>2, <1>6, <1>7, FS_Injection
<1>9. ToSet(order) = Of
    BY <1>3, <1>8 DEF Surjection, ToSet
<1> QED
    BY <1>4, <1>5, <1>9

\* Clearing some scopes, each once, takes what they owned from all of them.
LEMMA AllCleared ==
    ASSUME ExporterInv, NEW order \in Seq(Scopes), Once(order)
    PROVE  Released(Now, Listed, ClearAll(Now, order), [d \in Scopes |-> IF d \in ToSet(order) THEN {} ELSE Listed[d]])
<1>1. PICK st, own : st = Now /\ own = Listed
    OBVIOUS
<1>2. /\ st \in State /\ own \in Owning /\ Sound(st, own)
      /\ \A d \in Scopes : own[d] = ToSet(scopes[d]) /\ scopes[d] \in Seq(Objects) /\ Once(scopes[d])
    BY <1>1, NowIsState DEF ExporterInv, ExporterTypeOK
<1>3. PICK f : ClearLoop(f, st, order, Len(order)) /\ ClearAll(st, order) = f[Len(order)]
    BY ClearAllUnfolds
<1>4. Len(order) \in Nat
    OBVIOUS
<1> DEFINE Left(i) == [d \in Scopes |-> IF d \in Firsts(order, i) THEN {} ELSE own[d]]
<1>5. \A i : /\ Left(i) \in Owning
             /\ \A d \in Scopes : Left(i)[d] = IF d \in Firsts(order, i) THEN {} ELSE own[d]
    BY <1>2 DEF Owning
<1> DEFINE S == {i \in 0 .. Len(order) : Released(st, own, f[i], Left(i))}
<1>6. 0 \in S
    <2>1. Firsts(order, 0) = {}
        BY DEF Firsts
    <2>2. Left(0) = own
        BY <2>1, <1>2 DEF Owning
    <2>3. f[0] = st
        BY <1>3, <1>4 DEF ClearLoop
    <2>4. Released(st, own, f[0], Left(0))
        <3> HIDE DEF Left
        <3> QED
            BY <2>2, <2>3, <1>2, ReleasedNothing
    <2> QED
        BY <2>4, <1>4
<1>7. ASSUME NEW i \in 0 .. Len(order), i \in S, i # Len(order)
      PROVE  i + 1 \in S
    <2>1. i + 1 \in 1 .. Len(order) /\ i + 1 \in 0 .. Len(order) /\ order[i + 1] \in Scopes
        BY <1>7, <1>4
    <2>2. PICK c \in Scopes : c = order[i + 1]
        BY <2>1
    <2>3. PICK list : list = scopes[c]
        OBVIOUS
    <2>4. f[i + 1] = ReleaseAll(f[i], list, {})
        <3>1. f[i + 1] = ReleaseAll(f[(i + 1) - 1], scopes[order[i + 1]], {})
            BY <2>1, <1>3 DEF ClearLoop
        <3>2. (i + 1) - 1 = i
            OBVIOUS
        <3> QED
            BY <3>1, <3>2, <2>2, <2>3
    <2>5. Firsts(order, i + 1) = Firsts(order, i) \cup {c}
        <3>1. 1 .. i + 1 = (1 .. i) \cup {i + 1}
            BY <1>4
        <3> QED
            BY <3>1, <2>2 DEF Firsts
    <2>6. c \notin Firsts(order, i)
        <3> SUFFICES ASSUME NEW j \in 1 .. i, order[j] = c PROVE FALSE
            BY DEF Firsts
        <3>1. j \in 1 .. Len(order) /\ j # i + 1
            BY <1>4
        <3> QED
            BY <3>1, <2>1, <2>2 DEF Once
    <2>7. PICK w, w2 : w = Left(i) /\ w2 = Left(i + 1)
        OBVIOUS
    <2>8. w \in Owning /\ w[c] = ToSet(list) /\ list \in Seq(Objects) /\ Once(list)
        BY <1>2, <1>5, <2>3, <2>6, <2>7
    <2>9. Released(st, own, f[i], w)
        BY <1>7, <2>7
    <2>10. f[i] \in State /\ Sound(f[i], w)
        BY <2>9 DEF Released
    <2>11. Released(f[i], w, ReleaseAll(f[i], list, {}), [w EXCEPT ![c] = @ \ (ToSet(list) \ {})])
        BY <2>8, <2>10, ReleasedAll
    <2>12. [w EXCEPT ![c] = @ \ (ToSet(list) \ {})] = w2
        <3>1. w[c] \ (ToSet(list) \ {}) = {}
            BY <2>8
        <3>2. \A d \in Scopes : w2[d] = IF d = c THEN {} ELSE w[d]
            BY <1>5, <2>5, <2>7
        <3>3. w2 \in Owning
            BY <1>5, <2>7
        <3> QED
            BY <3>1, <3>2, <3>3, <2>8 DEF Owning
    <2>13. Released(st, own, f[i + 1], w2)
        <3>1. Released(f[i], w, f[i + 1], w2)
            BY <2>4, <2>11, <2>12
        <3> QED
            BY <3>1, <2>9, ReleasedTwice
    <2> QED
        BY <2>1, <2>7, <2>13
<1>8. 0 .. Len(order) \subseteq S
    <2> HIDE DEF S
    <2> QED
        BY <1>4, <1>6, <1>7, UpTo
<1>9. Released(st, own, f[Len(order)], Left(Len(order)))
    <2>1. Len(order) \in S
        <3> HIDE DEF S
        <3> QED
            BY <1>4, <1>8
    <2> HIDE DEF Left
    <2> QED
        BY <2>1
<1>10. Firsts(order, Len(order)) = ToSet(order)
    BY DEF Firsts, ToSet
<1> QED
    BY <1>1, <1>3, <1>9, <1>10

\* The state Record leaves, when the sample's series in r is o.
Wrote(r, o, sample) ==
    IF Valid(r, sample) /\ ~CounterOwned(r, o, FALSE) THEN [r EXCEPT !.object[o].value = sample.value] ELSE r

\* What Record makes of the exporter: one value at most, and none that a scope
\* counts.
LEMMA SampleWritten ==
    ASSUME ExporterInv, NEW sample \in Samples, NEW r, r = SeriesLocked(Now, sample),
           NEW o, o = r.series[sample.label],
           NEW q, q = Wrote(r, o, sample)
    PROVE  \E W \in SUBSET Labels :
               /\ Turned(q, Listed, W) /\ SameLabels(q) /\ MarksUpTo(generation, q)
               /\ q.family = "counter" => \A l \in W : OwnersOfLabel(Now, Listed, l) = {}
<1>1. PICK st, own, l : st = Now /\ own = Listed /\ l = sample.label
    OBVIOUS
<1>2. /\ st \in State /\ own \in Owning /\ Sound(st, own) /\ l \in Labels /\ l # Nil
      /\ st.family = family /\ st.series = series /\ st.object = object /\ st.next = << >>
      /\ \A d \in Scopes : own[d] = ToSet(scopes[d]) /\ own[d] \subseteq Objects
      /\ generation \in Nat /\ MarksUpTo(generation, st)
    <2>1. ExporterTypeOK /\ Sound(Now, Listed) /\ generation \in Nat
        BY DEF ExporterInv, ExporterTypeOK
    <2>2. l \in Labels /\ l # Nil
        BY <1>1, ExporterNumbers DEF Samples
    <2>3. /\ st \in State /\ own \in Owning
          /\ st.family = family /\ st.series = series /\ st.object = object /\ st.next = << >>
          /\ \A d \in Scopes : own[d] = ToSet(scopes[d]) /\ own[d] \subseteq Objects
        BY <1>1, <2>1, NowIsState DEF Owning
    <2>4. MarksUpTo(generation, st)
        BY <2>3 DEF MarksUpTo, ExporterInv
    <2> QED
        BY <1>1, <2>1, <2>2, <2>3, <2>4
<1>3. CountedObjects(st, own)
    <2>1. ToSet(st.next) = {}
        BY <1>2 DEF ToSet
    <2> QED
        BY <2>1, <1>2 DEF CountedObjects
<1>4. Locked(st, own, sample, r)
    BY <1>1, <1>2, <1>3, SeriesIsLocked
<1>5. /\ r \in State /\ Sound(r, own) /\ r.family # Nil /\ (family # Nil => r.family = family)
      /\ Valid(r, sample) => r.series[l] # Nil
    BY <1>1, <1>2, <1>4 DEF Locked
<1>6. /\ ~(r.series = st.series /\ r.object = st.object) =>
              Valid(r, sample) /\ st.series[l] = Nil /\ r.object[o].owners = 0
      /\ \A k \in Labels : k # l => r.series[k] = st.series[k] /\ ValueOf(r, k) = ValueOf(st, k)
      /\ SameLabels(r) /\ MarksUpTo(generation, r)
    <2>1. CASE r.series = st.series /\ r.object = st.object
        <3>1. \A k : ValueOf(r, k) = ValueOf(st, k)
            BY <2>1 DEF ValueOf
        <3> QED
            BY <2>1, <3>1, <1>2 DEF SameLabels, MarksUpTo
    <2>2. CASE ~(r.series = st.series /\ r.object = st.object)
        <3>1. PICK p \in Objects : /\ p \notin Used(st) /\ r.series = [st.series EXCEPT ![l] = p]
                                  /\ r.object = [st.object EXCEPT ![p] = NewSeries(l)]
            BY <2>2, <1>1, <1>4 DEF Locked
        <3>2. /\ r.series[l] = p /\ r.object[p] = NewSeries(l)
              /\ \A k \in Labels : k # l => r.series[k] = st.series[k]
              /\ \A e \in Objects : e # p => r.object[e] = st.object[e]
            BY <3>1, <1>2 DEF State
        <3>3. /\ NewSeries(l).owners = 0 /\ NewSeries(l).written = 0 /\ NewSeries(l).owned = 0
            BY DEF NewSeries
        <3>4. p = o /\ r.object[o].owners = 0
            BY <3>2, <3>3, <1>1
        <3>5. Valid(r, sample) /\ st.series[l] = Nil
            BY <2>2, <1>1, <1>4 DEF Locked
        <3>6. ASSUME NEW k \in Labels, k # l
              PROVE  r.series[k] = st.series[k] /\ ValueOf(r, k) = ValueOf(st, k)
            <4>1. r.series[k] = st.series[k] /\ st.series[k] # p /\ (st.series[k] # Nil => st.series[k] \in Objects)
                BY <3>1, <3>2, <3>6, <1>2 DEF Used, State
            <4> QED
                BY <4>1, <3>2 DEF ValueOf
        <3>7. SameLabels(r)
            <4>1. \A d \in Scopes : \A e \in ToSet(scopes[d]) : e \in Objects /\ e # p
                BY <3>1, <1>2 DEF Used
            <4> QED
                BY <4>1, <3>2, <1>2 DEF SameLabels
        <3>8. MarksUpTo(generation, r)
            <4>1. ASSUME NEW e \in Objects
                  PROVE  r.object[e].written <= generation /\ r.object[e].owned <= generation
                BY <3>2, <3>3, <1>2 DEF MarksUpTo
            <4> QED
                BY <4>1 DEF MarksUpTo
        <3> QED
            BY <3>4, <3>5, <3>6, <3>7, <3>8
    <2> QED
        BY <2>1, <2>2
<1>7. ASSUME NEW k \in Labels, NEW s, s.series[k] = st.series[k], ValueOf(s, k) = ValueOf(st, k)
      PROVE  ValueOf(s, k) = IF OwnersOfLabel(st, own, k) # {} /\ OwnersOfLabel(s, own, k) = {}
                             THEN Nil ELSE ValueOf(st, k)
    BY <1>7 DEF OwnersOfLabel
<1>8. CASE ~(Valid(r, sample) /\ ~CounterOwned(r, o, FALSE))
    <2>1. q = r
        BY <1>8 DEF Wrote
    <2>2. r.series = st.series /\ r.object = st.object
        <3>1. CASE ~Valid(r, sample)
            BY <3>1, <1>6
        <3>2. CASE CounterOwned(r, o, FALSE)
            <4>1. r.object[o].owners # 0
                BY <3>2 DEF CounterOwned
            <4> QED
                BY <4>1, <1>6
        <3> QED
            BY <3>1, <3>2, <1>8
    <2>3. \A k \in Labels : ValueOf(r, k) = ValueOf(st, k)
        BY <2>2 DEF ValueOf
    <2>4. Turned(q, own, {})
        BY <2>1, <2>2, <2>3, <1>1, <1>5, <1>7 DEF Turned
    <2> QED
        BY <2>1, <2>4, <1>1, <1>6
<1>9. CASE Valid(r, sample) /\ ~CounterOwned(r, o, FALSE)
    <2>1. q = [r EXCEPT !.object[o].value = sample.value]
        BY <1>9 DEF Wrote
    <2>2. o \in Objects /\ o # Nil /\ r.object[o] \in Object /\ r.object[o].label = l /\ r.series[l] = o
        BY <1>1, <1>2, <1>5, <1>9 DEF State, Sound
    <2>3. PICK v \in Values \cup {0} : v = sample.value
        BY DEF Samples
    <2>4. PICK obj : obj = [r.object EXCEPT ![o].value = v]
        OBVIOUS
    <2>5. /\ obj \in [Objects -> Object] /\ obj[o].value = v
          /\ \A p \in Objects : /\ obj[p].label = r.object[p].label /\ obj[p].owners = r.object[p].owners
                                /\ obj[p].written = r.object[p].written /\ obj[p].owned = r.object[p].owned
                                /\ p # o => obj[p] = r.object[p]
        BY <2>2, <2>3, <2>4, <1>5 DEF State, Object
    <2>6. q \in State /\ q.object = obj /\ q.series = r.series /\ q.family = r.family
        BY <2>1, <2>3, <2>4, <2>5, <1>5 DEF State
    <2>7. Sound(q, own)
        <3>1. \A k \in Labels : r.series[k] # Nil => r.series[k] \in Objects
            BY <1>5 DEF State
        <3> QED
            BY <3>1, <2>5, <2>6, <1>2, <1>5 DEF Sound
    <2>8. ASSUME NEW k \in Labels \ {l}
          PROVE  q.series[k] = st.series[k] /\ ValueOf(q, k) = ValueOf(st, k)
        <3>1. r.series[k] # Nil => r.series[k] \in Objects /\ r.series[k] # o
            BY <2>2, <1>5 DEF State, Sound
        <3>2. ValueOf(q, k) = ValueOf(r, k)
            BY <3>1, <2>5, <2>6 DEF ValueOf
        <3> QED
            BY <3>2, <2>6, <1>6
    <2>9. ValueOf(q, l) # Nil
        <3>1. ValueOf(q, l) = v
            BY <2>2, <2>5, <2>6 DEF ValueOf
        <3>2. v \in Nat
            BY ExporterNumbers
        <3> QED
            BY <3>1, <3>2, ExporterNumbers
    <2>10. Turned(q, own, {l})
        BY <2>6, <2>7, <2>8, <2>9, <1>1, <1>2, <1>5, <1>7 DEF Turned
    <2>11. SameLabels(q) /\ MarksUpTo(generation, q)
        <3>1. \A d \in Scopes : ToSet(scopes[d]) \subseteq Objects
            BY <1>2
        <3> QED
            BY <3>1, <2>5, <2>6, <1>6 DEF SameLabels, MarksUpTo
    <2>12. ASSUME q.family = "counter"
           PROVE  OwnersOfLabel(st, own, l) = {}
        <3>1. r.object[o].owners \in Nat
            BY <2>2 DEF Object
        <3>2. r.object[o].owners = 0
            BY <3>1, <2>6, <2>12, <1>9 DEF CounterOwned
        <3>3. CASE st.series[l] = Nil
            BY <3>3 DEF OwnersOfLabel
        <3>4. CASE st.series[l] # Nil
            <4>1. st.series[l] = o
                BY <3>4, <2>2, <1>6
            <4>2. Cardinality(OwnersIn(own, o)) = 0
                BY <3>2, <2>2, <1>2, <1>5 DEF Sound
            <4>3. OwnersIn(own, o) = {}
                <5>1. OwnersIn(own, o) \subseteq Scopes
                    BY DEF OwnersIn
                <5>2. IsFiniteSet(OwnersIn(own, o))
                    BY <5>1, ExporterNumbers, FS_Subset
                <5> QED
                    BY <5>2, <4>2, FS_EmptySet
            <4> QED
                BY <4>1, <4>3 DEF OwnersOfLabel
        <3> QED
            BY <3>3, <3>4
    <2> QED
        BY <2>10, <2>11, <2>12, <1>1, <1>2
<1> QED
    BY <1>8, <1>9

-----------------------------------------------------------------------------
(* The invariant.                                                          *)

\* A state a call leaves satisfies the invariant.
LEMMA AfterTurn ==
    ASSUME NEW st2 \in State, NEW own2, Sound(st2, own2), Become(st2), Listed' = own2,
           scopes' \in [Scopes -> Seq(Objects)], \A c \in Scopes : Once(scopes'[c]),
           generation' \in Nat, MarksUpTo(generation', st2)
    PROVE  ExporterInv'
<1>1. family' = st2.family /\ series' = st2.series /\ object' = st2.object
    BY DEF Become
<1>2. ExporterTypeOK'
    BY <1>1 DEF ExporterTypeOK, State
<1>3. PICK now2 : now2 = Now'
    OBVIOUS
<1>4. now2.family = st2.family /\ now2.series = st2.series /\ now2.object = st2.object
    BY <1>1, <1>3 DEF Now
<1>5. Sound(now2, own2)
    BY <1>4 DEF Sound
<1>6. Sound(Now, Listed)'
    BY <1>3, <1>5
<1>7. \A o \in Objects : object'[o].written <= generation' /\ object'[o].owned <= generation'
    BY <1>1 DEF MarksUpTo
<1> QED
    BY <1>2, <1>6, <1>7 DEF ExporterInv

\* What the calls do, as steps of the exporter from the current state to st2.
RecordsScope(c, st2, own2, W, nxt) ==
    /\ Turned(st2, own2, W) /\ own2 \in Owning /\ SameLabels(st2) /\ MarksUpTo(generation', st2)
    /\ nxt \in Seq(Objects) /\ Once(nxt) /\ scopes' = [scopes EXCEPT ![c] = nxt]
    /\ own2 = [Listed EXCEPT ![c] = ToSet(nxt)] /\ W = {st2.object[o].label : o \in ToSet(nxt)}
    /\ Become(st2) /\ generation' \in Nat
    /\ st2.family = "counter" => \A l \in W : OwnersOfLabel(Now, Listed, l) \subseteq {c}

ClearsScope(c, st2, own2) ==
    /\ Turned(st2, own2, {}) /\ own2 \in Owning /\ SameLabels(st2) /\ MarksUpTo(generation', st2)
    /\ own2 = [Listed EXCEPT ![c] = {}] /\ Become(st2) /\ generation' = generation

ForgetsScopes(Of, st2, own2) ==
    /\ Turned(st2, own2, {}) /\ own2 \in Owning /\ SameLabels(st2) /\ MarksUpTo(generation', st2)
    /\ own2 = [d \in Scopes |-> IF d \in Of THEN {} ELSE Listed[d]] /\ Become(st2)
    /\ generation' = generation /\ Listed' = own2 /\ scopes' \in [Scopes -> Seq(Objects)]
    /\ \A d \in Scopes : scopes'[d] = IF d \in Of THEN << >> ELSE scopes[d]

WritesSample(st2, W) ==
    /\ W \in SUBSET Labels /\ Turned(st2, Listed, W) /\ SameLabels(st2) /\ MarksUpTo(generation', st2)
    /\ Become(st2) /\ scopes' = scopes /\ generation' = generation
    /\ st2.family = "counter" => \A l \in W : OwnersOfLabel(Now, Listed, l) = {}

ScopesOf(collector) == {c \in Scopes : CollectorOf(c) = collector}

\* RecordScope is such a step.
LEMMA RecordScopeTurns ==
    ASSUME ExporterInv, NEW c \in Scopes, NEW samples \in BoundedSeq(Samples, MaxSamples), RecordScope(c, samples)
    PROVE  \E st2, own2, W, nxt : RecordsScope(c, st2, own2, W, nxt)
<1>1. samples \in Seq(Samples)
    <2>1. PICK m \in 0 .. MaxSamples : samples \in [1 .. m -> Samples]
        BY DEF BoundedSeq, SeqOf
    <2> QED
        BY <2>1, ExporterNumbers
<1>2. PICK gen : gen = generation + 1
    OBVIOUS
<1>3. PICK rec : rec = RecordAll(MarkOwned(Now, scopes[c], gen), samples, gen)
    OBVIOUS
<1>4. PICK fin : fin = ReleaseAll(rec, scopes[c], WrittenIn(rec, gen))
    OBVIOUS
<1>5. PICK own2 : own2 = [Listed EXCEPT ![c] = ToSet(rec.next)]
    OBVIOUS
<1>6. /\ Turned(fin, own2, LabelsOf(rec)) /\ SameLabels(fin) /\ MarksUpTo(gen, fin)
      /\ rec.next \in Seq(Objects) /\ Once(rec.next)
      /\ \A o \in ToSet(rec.next) : fin.object[o].label = rec.object[o].label
      /\ fin.family = "counter" => \A l \in LabelsOf(rec) : OwnersOfLabel(Now, Listed, l) \subseteq {c}
    <2>1. TurnedByScope(c, gen, rec, fin, own2)
        BY <1>1, <1>2, <1>3, <1>4, <1>5, ScopeRecorded
    <2> QED
        BY <2>1 DEF TurnedByScope
<1>7. generation' = gen /\ Become(fin) /\ scopes' = [scopes EXCEPT ![c] = rec.next]
    BY <1>2, <1>3, <1>4 DEF RecordScope, WrittenIn
<1>8. generation' \in Nat
    BY <1>2, <1>7 DEF ExporterInv, ExporterTypeOK
<1>9. own2 \in Owning
    <2>1. Listed \in Owning
        BY NowIsState DEF ExporterInv
    <2>2. ToSet(rec.next) \subseteq Objects
        BY <1>6 DEF ToSet
    <2> QED
        BY <2>1, <2>2, <1>5 DEF Owning
<1>10. PICK nxt, W : nxt = rec.next /\ W = LabelsOf(rec)
    OBVIOUS
<1>11. W = {fin.object[o].label : o \in ToSet(nxt)}
    BY <1>6, <1>10 DEF LabelsOf
<1>12. MarksUpTo(generation', fin)
    BY <1>6, <1>7
<1>13. fin.family = "counter" => \A l \in W : OwnersOfLabel(Now, Listed, l) \subseteq {c}
    BY <1>6, <1>10
<1>14. /\ Turned(fin, own2, W) /\ nxt \in Seq(Objects) /\ Once(nxt) /\ scopes' = [scopes EXCEPT ![c] = nxt]
       /\ own2 = [Listed EXCEPT ![c] = ToSet(nxt)]
    BY <1>5, <1>6, <1>7, <1>10
<1> QED
    BY <1>6, <1>7, <1>8, <1>9, <1>11, <1>12, <1>13, <1>14 DEF RecordsScope

\* With a list in the place of another, the scope owns its objects.
LEMMA ListReplaced ==
    ASSUME ExporterTypeOK, NEW c \in Scopes, NEW nxt \in Seq(Objects), scopes' = [scopes EXCEPT ![c] = nxt]
    PROVE  /\ Listed' = [Listed EXCEPT ![c] = ToSet(nxt)] /\ Listed' \in Owning
           /\ scopes' \in [Scopes -> Seq(Objects)]
           /\ scopes'[c] = nxt /\ \A d \in Scopes : d # c => scopes'[d] = scopes[d]
<1>1. /\ scopes' \in [Scopes -> Seq(Objects)] /\ scopes'[c] = nxt
      /\ \A d \in Scopes : d # c => scopes'[d] = scopes[d]
    BY DEF ExporterTypeOK
<1>2. \A d \in Scopes : ToSet(scopes'[d]) \subseteq Objects
    BY <1>1 DEF ToSet
<1>3. Listed' = [d \in Scopes |-> ToSet(scopes'[d])]
    BY DEF Listed
<1>4. Listed' = [Listed EXCEPT ![c] = ToSet(nxt)]
    BY <1>1, <1>3 DEF Listed
<1> QED
    BY <1>1, <1>2, <1>3, <1>4 DEF Owning

\* ClearScope is such a step.
LEMMA ClearScopeTurns ==
    ASSUME ExporterInv, NEW c \in Scopes, ClearScope(c)
    PROVE  \E st2, own2 : ClearsScope(c, st2, own2)
<1>1. PICK st2, own2 : st2 = ReleaseAll(Now, scopes[c], {}) /\ own2 = [Listed EXCEPT ![c] = {}]
    OBVIOUS
<1>2. Released(Now, Listed, st2, own2)
    BY <1>1, ScopeCleared
<1>3. Turned(st2, own2, {}) /\ SameLabels(st2) /\ MarksUpTo(generation, st2)
    BY <1>2, ReleasedIsTurned
<1>4. Become(st2) /\ generation' = generation
    BY <1>1 DEF ClearScope
<1>5. own2 \in Owning
    BY <1>1, NowIsState DEF ExporterInv, Owning
<1>6. MarksUpTo(generation', st2)
    BY <1>3, <1>4
<1> QED
    BY <1>1, <1>3, <1>4, <1>5, <1>6 DEF ClearsScope

\* ForgetCollector is such a step, in whatever order it clears the scopes.
LEMMA ForgetCollectorTurns ==
    ASSUME ExporterInv, NEW collector, ForgetCollector(collector),
           NEW Of, Of = ScopesOf(collector)
    PROVE  \E st2, own2 : ForgetsScopes(Of, st2, own2)
<1>1. PICK order \in SetToSeqs(Of) : Become(ClearAll(Now, order))
    BY DEF ForgetCollector, ScopesOf
<1>2. order \in Seq(Scopes) /\ Once(order) /\ ToSet(order) = Of
    BY OrderOnce DEF ScopesOf
<1>3. PICK st2, own2 : st2 = ClearAll(Now, order) /\ own2 = [d \in Scopes |-> IF d \in Of THEN {} ELSE Listed[d]]
    OBVIOUS
<1>4. Released(Now, Listed, st2, own2)
    BY <1>2, <1>3, AllCleared
<1>5. Turned(st2, own2, {}) /\ SameLabels(st2) /\ MarksUpTo(generation, st2)
    BY <1>4, ReleasedIsTurned
<1>6. /\ Become(st2) /\ generation' = generation
      /\ scopes' = [d \in Scopes |-> IF d \in Of THEN << >> ELSE scopes[d]]
    BY <1>1, <1>3 DEF ForgetCollector, ScopesOf
<1>7. /\ scopes' \in [Scopes -> Seq(Objects)]
      /\ \A d \in Scopes : scopes'[d] = IF d \in Of THEN << >> ELSE scopes[d]
    BY <1>6 DEF ExporterInv, ExporterTypeOK
<1>8. \A d \in Scopes : Listed[d] = ToSet(scopes[d]) /\ Listed[d] \subseteq Objects
    BY NowIsState DEF ExporterInv, Owning
<1>9. Listed' = own2
    <2>1. Listed' = [d \in Scopes |-> ToSet(scopes'[d])]
        BY DEF Listed
    <2>2. \A d \in Scopes : ToSet(scopes'[d]) = IF d \in Of THEN {} ELSE Listed[d]
        BY <1>7, <1>8 DEF ToSet
    <2> QED
        BY <2>1, <2>2, <1>3
<1>10. own2 \in Owning
    BY <1>3, <1>8 DEF Owning
<1>11. MarksUpTo(generation', st2)
    BY <1>5, <1>6
<1> QED
    BY <1>3, <1>5, <1>6, <1>7, <1>9, <1>10, <1>11 DEF ForgetsScopes

\* Record is such a step.
LEMMA RecordTurns ==
    ASSUME ExporterInv, NEW sample \in Samples, Record(sample)
    PROVE  \E st2, W : WritesSample(st2, W)
<1>1. PICK r : r = SeriesLocked(Now, sample)
    OBVIOUS
<1>2. PICK o : o = r.series[sample.label]
    OBVIOUS
<1>3. PICK q : q = Wrote(r, o, sample)
    OBVIOUS
<1>4. PICK W \in SUBSET Labels :
          /\ Turned(q, Listed, W) /\ SameLabels(q) /\ MarksUpTo(generation, q)
          /\ q.family = "counter" => \A l \in W : OwnersOfLabel(Now, Listed, l) = {}
    BY <1>1, <1>2, <1>3, SampleWritten
<1>5. Become(q) /\ scopes' = scopes /\ generation' = generation
    BY <1>1, <1>2, <1>3 DEF Record, Wrote
<1>6. MarksUpTo(generation', q)
    BY <1>4, <1>5
<1> QED
    BY <1>4, <1>5, <1>6 DEF WritesSample

\* Every call keeps the invariant.
LEMMA ExporterStep ==
    ASSUME ExporterInv, ExporterNext
    PROVE  ExporterInv'
<1>1. ExporterTypeOK /\ \A c \in Scopes : Once(scopes[c])
    BY DEF ExporterInv
<1>2. Once(<< >>)
    BY DEF Once
<1>3. ASSUME NEW c \in Scopes, NEW samples \in BoundedSeq(Samples, MaxSamples), RecordScope(c, samples)
      PROVE  ExporterInv'
    <2>1. PICK st2, own2, W, nxt : RecordsScope(c, st2, own2, W, nxt)
        BY <1>3, RecordScopeTurns
    <2>2. /\ Listed' = own2 /\ scopes' \in [Scopes -> Seq(Objects)]
          /\ scopes'[c] = nxt /\ \A d \in Scopes : d # c => scopes'[d] = scopes[d]
        BY <1>1, <2>1, ListReplaced DEF RecordsScope
    <2>3. \A d \in Scopes : Once(scopes'[d])
        BY <1>1, <2>1, <2>2 DEF RecordsScope
    <2>4. st2 \in State /\ Sound(st2, own2)
        BY <2>1 DEF Turned, RecordsScope
    <2> QED
        BY <2>1, <2>2, <2>3, <2>4, AfterTurn DEF RecordsScope
<1>4. ASSUME NEW c \in Scopes, ClearScope(c)
      PROVE  ExporterInv'
    <2>1. PICK st2, own2 : ClearsScope(c, st2, own2)
        BY <1>4, ClearScopeTurns
    <2>2. << >> \in Seq(Objects) /\ ToSet(<< >>) = {} /\ scopes' = [scopes EXCEPT ![c] = << >>]
        BY <1>4 DEF ClearScope, ToSet
    <2>3. /\ Listed' = own2 /\ scopes' \in [Scopes -> Seq(Objects)]
          /\ scopes'[c] = << >> /\ \A d \in Scopes : d # c => scopes'[d] = scopes[d]
        BY <1>1, <2>1, <2>2, ListReplaced DEF ClearsScope
    <2>4. \A d \in Scopes : Once(scopes'[d])
        BY <1>1, <1>2, <2>3
    <2>5. st2 \in State /\ Sound(st2, own2)
        BY <2>1 DEF Turned, ClearsScope
    <2>6. generation' \in Nat
        BY <1>1, <2>1 DEF ExporterTypeOK, ClearsScope
    <2> QED
        BY <2>1, <2>3, <2>4, <2>5, <2>6, AfterTurn DEF ClearsScope
<1>5. ASSUME NEW collector, ForgetCollector(collector)
      PROVE  ExporterInv'
    <2>1. PICK Of : Of = ScopesOf(collector)
        OBVIOUS
    <2>2. PICK st2, own2 : ForgetsScopes(Of, st2, own2)
        BY <1>5, <2>1, ForgetCollectorTurns
    <2>3. \A d \in Scopes : Once(scopes'[d])
        BY <1>1, <1>2, <2>2 DEF ForgetsScopes
    <2>4. st2 \in State /\ Sound(st2, own2)
        BY <2>2 DEF Turned, ForgetsScopes
    <2>5. generation' \in Nat
        BY <1>1, <2>2 DEF ExporterTypeOK, ForgetsScopes
    <2> QED
        BY <2>2, <2>3, <2>4, <2>5, AfterTurn DEF ForgetsScopes
<1>6. ASSUME NEW sample \in Samples, Record(sample)
      PROVE  ExporterInv'
    <2>1. PICK st2, W : WritesSample(st2, W)
        BY <1>6, RecordTurns
    <2>2. PICK own : own = Listed
        OBVIOUS
    <2>3. Listed' = own
        BY <2>1, <2>2 DEF Listed, WritesSample
    <2>4. st2 \in State /\ Sound(st2, own)
        BY <2>1, <2>2 DEF Turned, WritesSample
    <2>5. generation' \in Nat /\ scopes' \in [Scopes -> Seq(Objects)] /\ \A d \in Scopes : Once(scopes'[d])
        BY <1>1, <2>1 DEF ExporterTypeOK, WritesSample
    <2> QED
        BY <2>1, <2>3, <2>4, <2>5, AfterTurn DEF WritesSample
<1> QED
    BY <1>3, <1>4, <1>5, <1>6 DEF ExporterNext

\* The invariant holds of the empty exporter.
LEMMA ExporterStart ==
    ASSUME ExporterInit
    PROVE  ExporterInv
<1>1. NewSeries(Nil) \in Object /\ NewSeries(Nil).written = 0 /\ NewSeries(Nil).owned = 0
    BY DEF NewSeries, Object
<1>2. ExporterTypeOK
    BY <1>1 DEF ExporterInit, ExporterTypeOK
<1>3. \A c \in Scopes : Listed[c] = {}
    BY DEF ExporterInit, Listed, ToSet
<1>4. Sound(Now, Listed)
    <2>1. PICK st, own : st = Now /\ own = Listed
        OBVIOUS
    <2>2. st.family = Nil /\ \A l \in Labels : st.series[l] = Nil
        BY <2>1 DEF ExporterInit, Now
    <2>3. Nil # "counter"
        BY ExporterNumbers DEF Types
    <2> QED
        BY <2>1, <2>2, <2>3, <1>3 DEF Sound
<1>5. \A c \in Scopes : Once(scopes[c])
    BY DEF ExporterInit, Once
<1>6. \A o \in Objects : object[o].written <= generation /\ object[o].owned <= generation
    BY <1>1 DEF ExporterInit
<1> QED
    BY <1>2, <1>4, <1>5, <1>6 DEF ExporterInv

\* PrometheusExporter: at every moment the family finds each series object a
\* scope's list points to, the object counts exactly the scopes that list it,
\* and a counter is in one scope's list at most; the marks of a call never run
\* ahead of its generation.
THEOREM ExporterInvariant == ExporterSpec => []ExporterInv
<1>1. ExporterInv /\ [ExporterNext]_exporter => ExporterInv'
    <2> SUFFICES ASSUME ExporterInv, [ExporterNext]_exporter
                 PROVE  ExporterInv'
        OBVIOUS
    <2>1. CASE ExporterNext
        BY <2>1, ExporterStep
    <2>2. CASE UNCHANGED exporter
        <3>1. /\ family' = family /\ series' = series /\ object' = object /\ scopes' = scopes
              /\ generation' = generation
            BY <2>2 DEF exporter
        <3>2. ExporterTypeOK'
            BY <3>1 DEF ExporterInv, ExporterTypeOK
        <3>3. PICK st, own : st = Now /\ own = Listed
            OBVIOUS
        <3>4. Now' = st /\ Listed' = own /\ Sound(st, own)
            BY <3>1, <3>3 DEF Now, Listed, ExporterInv
        <3>5. Sound(Now, Listed)'
            BY <3>4
        <3> QED
            BY <3>1, <3>2, <3>5 DEF ExporterInv
    <2> QED
        BY <2>1, <2>2
<1> QED
    BY <1>1, ExporterStart, PTL DEF ExporterSpec

-----------------------------------------------------------------------------
(* The exporter implements ScopedRecorder.                                 *)

\* The pairs of a scope and a label it reports.
Pairs(st, owned) == UNION {{<<c, st.object[o].label>> : o \in owned[c]} : c \in Scopes}

\* The scopes paired with a label are the owners of its series.
LEMMA PairsOwners ==
    ASSUME NEW st, NEW owned \in Owning, Sound(st, owned), NEW l \in Labels
    PROVE  Recorder!OwnersOf(Pairs(st, owned), l) = OwnersOfLabel(st, owned, l)
<1>1. \A c : <<c, l>> \in Pairs(st, owned) <=> c \in Scopes /\ \E o \in owned[c] : st.object[o].label = l
    BY DEF Pairs
<1>2. ASSUME NEW c \in Scopes
      PROVE  (\E o \in owned[c] : st.object[o].label = l) <=> st.series[l] # Nil /\ st.series[l] \in owned[c]
    <2>1. ASSUME NEW o \in owned[c], st.object[o].label = l
          PROVE  st.series[l] # Nil /\ st.series[l] \in owned[c]
        <3>1. st.series[l] = o
            BY <2>1 DEF Sound
        <3>2. o \in Objects
            BY DEF Owning
        <3> QED
            BY <3>1, <3>2, ExporterNumbers
    <2>2. ASSUME st.series[l] # Nil, st.series[l] \in owned[c]
          PROVE  \E o \in owned[c] : st.object[o].label = l
        <3>1. st.object[st.series[l]].label = l
            BY <2>2 DEF Sound
        <3> QED
            BY <3>1, <2>2
    <2> QED
        BY <2>1, <2>2
<1>3. Recorder!OwnersOf(Pairs(st, owned), l) = {c \in Scopes : <<c, l>> \in Pairs(st, owned)}
    BY DEF Recorder!OwnersOf
<1>4. CASE st.series[l] = Nil
    BY <1>1, <1>2, <1>3, <1>4 DEF OwnersOfLabel
<1>5. CASE st.series[l] # Nil
    BY <1>1, <1>2, <1>3, <1>5 DEF OwnersOfLabel, OwnersIn
<1> QED
    BY <1>4, <1>5

\* What a call makes of the exporter is a change of the recorder.
LEMMA TurnIsBecome ==
    ASSUME ExporterInv, NEW st2, NEW own2 \in Owning, NEW W, Turned(st2, own2, W), Become(st2), Listed' = own2
    PROVE  /\ Owned = Pairs(Now, Listed) /\ Owned' = Pairs(st2, own2)
           /\ Recorder!Become(Pairs(st2, own2), W) /\ family' = st2.family
<1>1. PICK st, own : st = Now /\ own = Listed
    OBVIOUS
<1>2. /\ own \in Owning /\ Sound(st, own) /\ \A d \in Scopes : own[d] = ToSet(scopes[d])
      /\ st.series = series /\ st.object = object
    BY <1>1, NowIsState DEF ExporterInv
<1>3. family' = st2.family /\ series' = st2.series /\ object' = st2.object
    BY DEF Become
<1>4. \A d \in Scopes : own2[d] = ToSet(scopes'[d])
    BY DEF Listed
<1>5. Owned = Pairs(st, own)
    BY <1>2 DEF Owned, Pairs
<1>6. Owned' = Pairs(st2, own2)
    BY <1>3, <1>4 DEF Owned, Pairs
<1>7. \A l \in Labels : Gathered[l] = ValueOf(st, l)
    BY <1>2 DEF Gathered, ValueOf
<1>8. \A l \in Labels : Gathered'[l] = ValueOf(st2, l)
    BY <1>3 DEF Gathered, ValueOf
<1>9. \A l \in Labels : Recorder!OwnersOf(Pairs(st, own), l) = OwnersOfLabel(st, own, l)
    BY <1>2, PairsOwners
<1>10. \A l \in Labels : Recorder!OwnersOf(Pairs(st2, own2), l) = OwnersOfLabel(st2, own2, l)
    <2>1. Sound(st2, own2)
        BY DEF Turned
    <2> QED
        BY <2>1, PairsOwners
<1>11. PICK before, after, pairs, pairs2 : /\ before = Gathered /\ after = Gathered'
                                           /\ pairs = Pairs(st, own) /\ pairs2 = Pairs(st2, own2)
    OBVIOUS
<1>12. ASSUME NEW l \in Labels, l \notin W
       PROVE  after[l] = IF Recorder!OwnersOf(pairs, l) # {} /\ Recorder!OwnersOf(pairs2, l) = {}
                         THEN Nil ELSE before[l]
    <2>1. ValueOf(st2, l) = IF OwnersOfLabel(st, own, l) # {} /\ OwnersOfLabel(st2, own2, l) = {}
                            THEN Nil ELSE ValueOf(st, l)
        BY <1>1, <1>12 DEF Turned
    <2> QED
        BY <2>1, <1>7, <1>8, <1>9, <1>10, <1>11
<1>13. ASSUME NEW l \in W
       PROVE  after[l] # Nil
    BY <1>8, <1>11 DEF Turned
<1>14. family # Nil => family' = family
    BY <1>3 DEF Turned
<1>15. Recorder!Become(pairs2, W)
    BY <1>5, <1>6, <1>11, <1>12, <1>13, <1>14 DEF Recorder!Become
<1> QED
    BY <1>1, <1>3, <1>5, <1>6, <1>11, <1>15

\* The pairs of the scopes that own what they owned stay.
LEMMA PairsOf ==
    ASSUME ExporterTypeOK, NEW st2, SameLabels(st2), NEW own2, NEW p
    PROVE  /\ p \in Pairs(st2, own2) <=> \E d \in Scopes : \E o \in own2[d] : p = <<d, st2.object[o].label>>
           /\ p \in Pairs(Now, Listed) <=> \E d \in Scopes : \E o \in Listed[d] : p = <<d, st2.object[o].label>>
<1>1. p \in Pairs(st2, own2) <=> \E d \in Scopes : \E o \in own2[d] : p = <<d, st2.object[o].label>>
    BY DEF Pairs
<1>2. PICK own : own = Listed
    OBVIOUS
<1>3. \A d \in Scopes : \A o \in own[d] : object[o].label = st2.object[o].label
    BY <1>2, NowIsState DEF SameLabels
<1>4. Pairs(Now, Listed) = UNION {{<<d, object[o].label>> : o \in own[d]} : d \in Scopes}
    BY <1>2, NowIsState DEF Pairs
<1>5. p \in Pairs(Now, Listed) <=> \E d \in Scopes : \E o \in own[d] : p = <<d, object[o].label>>
    BY <1>4
<1> QED
    BY <1>1, <1>2, <1>3, <1>5

\* RecordScope replaces what the scope reported.
LEMMA RecordScopeReplaces ==
    ASSUME ExporterInv, NEW c \in Scopes, NEW samples \in BoundedSeq(Samples, MaxSamples), RecordScope(c, samples)
    PROVE  \E W \in SUBSET Labels : Recorder!Replace(c, W)
<1>1. ExporterTypeOK
    BY DEF ExporterInv
<1>2. PICK st2, own2, W, nxt : RecordsScope(c, st2, own2, W, nxt)
    BY RecordScopeTurns
<1>3. /\ Turned(st2, own2, W) /\ own2 \in Owning /\ SameLabels(st2) /\ Become(st2) /\ Listed' = own2
      /\ W \in SUBSET Labels
    <2>1. Listed' = own2
        BY <1>1, <1>2, ListReplaced DEF RecordsScope
    <2> QED
        BY <2>1, <1>2 DEF RecordsScope, Turned
<1>4. /\ Owned = Pairs(Now, Listed) /\ Owned' = Pairs(st2, own2)
      /\ Recorder!Become(Pairs(st2, own2), W) /\ family' = st2.family
    BY <1>3, TurnIsBecome
<1>5. PICK own, pairs, pairs2 : own = Listed /\ pairs = Owned /\ pairs2 = Pairs(st2, own2)
    OBVIOUS
<1>6. own \in Owning /\ own2[c] = ToSet(nxt) /\ \A d \in Scopes : d # c => own2[d] = own[d]
    BY <1>1, <1>2, <1>5, NowIsState DEF RecordsScope, Owning
<1>7. W = {st2.object[o].label : o \in own2[c]}
    BY <1>2, <1>6 DEF RecordsScope
<1>8. ASSUME NEW p
      PROVE  p \in pairs2 <=> p \in {e \in pairs : e[1] # c} \cup {<<c, s>> : s \in W}
    <2>1. p \in pairs2 <=> \E d \in Scopes : \E o \in own2[d] : p = <<d, st2.object[o].label>>
        BY <1>1, <1>3, <1>5, PairsOf
    <2>2. p \in pairs <=> \E d \in Scopes : \E o \in own[d] : p = <<d, st2.object[o].label>>
        BY <1>1, <1>3, <1>4, <1>5, PairsOf
    <2>3. ASSUME NEW d \in Scopes, NEW o \in own2[d], p = <<d, st2.object[o].label>>
          PROVE  p \in {e \in pairs : e[1] # c} \cup {<<c, s>> : s \in W}
        <3>1. CASE d = c
            BY <3>1, <2>3, <1>7
        <3>2. CASE d # c
            BY <3>2, <2>2, <2>3, <1>6
        <3> QED
            BY <3>1, <3>2
    <2>4. ASSUME p \in pairs, p[1] # c
          PROVE  p \in pairs2
        <3>0. PICK d \in Scopes : \E o \in own[d] : p = <<d, st2.object[o].label>>
            BY <2>2, <2>4
        <3>1. PICK o \in own[d] : p = <<d, st2.object[o].label>>
            BY <3>0
        <3>2. d # c /\ o \in own2[d]
            BY <3>1, <2>4, <1>6
        <3> QED
            BY <3>1, <3>2, <2>1
    <2>5. ASSUME NEW s \in W, p = <<c, s>>
          PROVE  p \in pairs2
        BY <2>1, <2>5, <1>7
    <2> QED
        BY <2>1, <2>3, <2>4, <2>5
<1>9. pairs2 = {e \in pairs : e[1] # c} \cup {<<c, s>> : s \in W}
    BY <1>8
<1>10. ASSUME family' = "counter", NEW s \in W
       PROVE  Recorder!OwnersOf(Owned, s) \subseteq {c}
    <2>1. PICK now : now = Now
        OBVIOUS
    <2>2. Sound(now, own) /\ s \in Labels
        BY <2>1, <1>3, <1>5 DEF ExporterInv
    <2>3. Recorder!OwnersOf(Pairs(now, own), s) = OwnersOfLabel(now, own, s)
        BY <2>2, <1>6, PairsOwners
    <2>4. OwnersOfLabel(now, own, s) \subseteq {c}
        BY <2>1, <1>2, <1>4, <1>5, <1>10 DEF RecordsScope
    <2>5. Pairs(now, own) = Owned
        BY <2>1, <1>4, <1>5
    <2> QED
        BY <2>3, <2>4, <2>5
<1>11. Recorder!Become({e \in Owned : e[1] # c} \cup {<<c, s>> : s \in W}, W)
    BY <1>4, <1>5, <1>9
<1>12. Recorder!Replace(c, W)
    BY <1>10, <1>11 DEF Recorder!Replace
<1> QED
    BY <1>3, <1>12

\* ClearScope replaces it by nothing.
LEMMA ClearScopeReplaces ==
    ASSUME ExporterInv, NEW c \in Scopes, ClearScope(c)
    PROVE  Recorder!Replace(c, {})
<1>1. ExporterTypeOK
    BY DEF ExporterInv
<1>2. PICK st2, own2 : ClearsScope(c, st2, own2)
    BY ClearScopeTurns
<1>3. Turned(st2, own2, {}) /\ own2 \in Owning /\ SameLabels(st2) /\ Become(st2) /\ Listed' = own2
    <2>1. << >> \in Seq(Objects) /\ ToSet(<< >>) = {} /\ scopes' = [scopes EXCEPT ![c] = << >>]
        BY DEF ClearScope, ToSet
    <2>2. Listed' = own2
        BY <2>1, <1>1, <1>2, ListReplaced DEF ClearsScope
    <2> QED
        BY <2>2, <1>2 DEF ClearsScope
<1>4. Owned = Pairs(Now, Listed) /\ Recorder!Become(Pairs(st2, own2), {})
    BY <1>3, TurnIsBecome
<1>5. PICK own, pairs, pairs2 : own = Listed /\ pairs = Owned /\ pairs2 = Pairs(st2, own2)
    OBVIOUS
<1>6. own \in Owning /\ own2[c] = {} /\ \A d \in Scopes : d # c => own2[d] = own[d]
    BY <1>1, <1>2, <1>5, NowIsState DEF ClearsScope, Owning
<1>7. ASSUME NEW p
      PROVE  p \in pairs2 <=> p \in {e \in pairs : e[1] # c}
    <2>1. p \in pairs2 <=> \E d \in Scopes : \E o \in own2[d] : p = <<d, st2.object[o].label>>
        BY <1>1, <1>3, <1>5, PairsOf
    <2>2. p \in pairs <=> \E d \in Scopes : \E o \in own[d] : p = <<d, st2.object[o].label>>
        BY <1>1, <1>3, <1>4, <1>5, PairsOf
    <2>3. ASSUME NEW d \in Scopes, NEW o \in own2[d], p = <<d, st2.object[o].label>>
          PROVE  p \in pairs /\ p[1] # c
        <3>1. d # c /\ o \in own[d]
            BY <2>3, <1>6
        <3> QED
            BY <3>1, <2>2, <2>3
    <2>4. ASSUME p \in pairs, p[1] # c
          PROVE  p \in pairs2
        <3>0. PICK d \in Scopes : \E o \in own[d] : p = <<d, st2.object[o].label>>
            BY <2>2, <2>4
        <3>1. PICK o \in own[d] : p = <<d, st2.object[o].label>>
            BY <3>0
        <3>2. d # c /\ o \in own2[d]
            BY <3>1, <2>4, <1>6
        <3> QED
            BY <3>1, <3>2, <2>1
    <2> QED
        BY <2>1, <2>3, <2>4
<1>8. pairs2 = {e \in pairs : e[1] # c} \cup {<<c, s>> : s \in {}}
    BY <1>7
<1>9. Recorder!Become({e \in Owned : e[1] # c} \cup {<<c, s>> : s \in {}}, {})
    BY <1>4, <1>5, <1>8
<1> QED
    BY <1>9 DEF Recorder!Replace

\* ForgetCollector forgets the collector's scopes.
LEMMA ForgetCollectorForgets ==
    ASSUME ExporterInv, NEW collector, ForgetCollector(collector)
    PROVE  Recorder!Forget(collector)
<1>1. ExporterTypeOK
    BY DEF ExporterInv
<1>2. PICK Of : Of = ScopesOf(collector)
    OBVIOUS
<1>3. PICK st2, own2 : ForgetsScopes(Of, st2, own2)
    BY <1>2, ForgetCollectorTurns
<1>4. Turned(st2, own2, {}) /\ own2 \in Owning /\ SameLabels(st2) /\ Become(st2) /\ Listed' = own2
    BY <1>3 DEF ForgetsScopes
<1>5. Owned = Pairs(Now, Listed) /\ Recorder!Become(Pairs(st2, own2), {})
    BY <1>4, TurnIsBecome
<1>6. PICK own, pairs, pairs2 : own = Listed /\ pairs = Owned /\ pairs2 = Pairs(st2, own2)
    OBVIOUS
<1>7. \A d \in Scopes : own2[d] = IF CollectorOf(d) = collector THEN {} ELSE own[d]
    BY <1>2, <1>3, <1>6 DEF ForgetsScopes, ScopesOf
<1>8. ASSUME NEW p
      PROVE  p \in pairs2 <=> p \in {e \in pairs : CollectorOf(e[1]) # collector}
    <2>1. p \in pairs2 <=> \E d \in Scopes : \E o \in own2[d] : p = <<d, st2.object[o].label>>
        BY <1>1, <1>4, <1>6, PairsOf
    <2>2. p \in pairs <=> \E d \in Scopes : \E o \in own[d] : p = <<d, st2.object[o].label>>
        BY <1>1, <1>4, <1>5, <1>6, PairsOf
    <2>3. ASSUME NEW d \in Scopes, NEW o \in own2[d], p = <<d, st2.object[o].label>>
          PROVE  p \in pairs /\ CollectorOf(p[1]) # collector
        <3>1. CollectorOf(d) # collector /\ o \in own[d] /\ p[1] = d
            BY <2>3, <1>7
        <3> QED
            BY <3>1, <2>2, <2>3
    <2>4. ASSUME p \in pairs, CollectorOf(p[1]) # collector
          PROVE  p \in pairs2
        <3>0. PICK d \in Scopes : \E o \in own[d] : p = <<d, st2.object[o].label>>
            BY <2>2, <2>4
        <3>1. PICK o \in own[d] : p = <<d, st2.object[o].label>>
            BY <3>0
        <3>2. CollectorOf(d) # collector /\ o \in own2[d]
            <4>1. p[1] = d
                BY <3>1
            <4> QED
                BY <4>1, <2>4, <1>7
        <3> QED
            BY <3>1, <3>2, <2>1
    <2> QED
        BY <2>1, <2>3, <2>4
<1>9. pairs2 = {e \in pairs : CollectorOf(e[1]) # collector}
    BY <1>8
<1>10. Recorder!Become({e \in Owned : CollectorOf(e[1]) # collector}, {})
    BY <1>5, <1>6, <1>9
<1> QED
    BY <1>10 DEF Recorder!Forget

\* Record writes for no scope.
LEMMA RecordWrites ==
    ASSUME ExporterInv, NEW sample \in Samples, Record(sample)
    PROVE  \E W \in SUBSET Labels : Recorder!Write(W)
<1>1. ExporterTypeOK
    BY DEF ExporterInv
<1>2. PICK st2, W : WritesSample(st2, W)
    BY RecordTurns
<1>3. PICK own, now : own = Listed /\ now = Now
    OBVIOUS
<1>4. /\ Turned(st2, own, W) /\ own \in Owning /\ SameLabels(st2) /\ Become(st2) /\ Listed' = own
      /\ W \in SUBSET Labels
    <2>1. scopes' = scopes
        BY <1>2 DEF WritesSample
    <2>2. Listed' = own /\ own \in Owning
        BY <2>1, <1>1, <1>3, NowIsState DEF Listed
    <2> QED
        BY <2>2, <1>2, <1>3 DEF WritesSample
<1>5. /\ Owned = Pairs(now, own) /\ Recorder!Become(Pairs(st2, own), W) /\ family' = st2.family
    BY <1>3, <1>4, TurnIsBecome
<1>6. Pairs(st2, own) = Pairs(now, own)
    <2>1. \A p : p \in Pairs(st2, own) <=> p \in Pairs(now, own)
        BY <1>1, <1>3, <1>4, PairsOf
    <2>2. \A p \in Pairs(st2, own) : p \in Pairs(now, own)
        BY <2>1
    <2>3. \A p \in Pairs(now, own) : p \in Pairs(st2, own)
        BY <2>1
    <2> QED
        BY <2>2, <2>3
<1>7. Recorder!Become(Owned, W)
    BY <1>5, <1>6
<1>8. ASSUME family' = "counter", NEW s \in W
      PROVE  Recorder!OwnersOf(Owned, s) = {}
    <2>1. Sound(now, own) /\ s \in Labels
        BY <1>3, <1>4 DEF ExporterInv
    <2>2. Recorder!OwnersOf(Pairs(now, own), s) = OwnersOfLabel(now, own, s)
        BY <2>1, <1>4, PairsOwners
    <2>3. OwnersOfLabel(now, own, s) = {}
        BY <1>2, <1>3, <1>5, <1>8 DEF WritesSample
    <2> QED
        BY <2>2, <2>3, <1>5
<1>9. Recorder!Write(W)
    BY <1>7, <1>8 DEF Recorder!Write
<1> QED
    BY <1>4, <1>9

\* Every call is a step of the recorder.
LEMMA ExporterSimulates ==
    ASSUME ExporterInv, ExporterNext
    PROVE  Recorder!RecorderNext
<1>1. ASSUME NEW c \in Scopes, NEW samples \in BoundedSeq(Samples, MaxSamples), RecordScope(c, samples)
      PROVE  Recorder!RecorderNext
    BY <1>1, RecordScopeReplaces DEF Recorder!RecorderNext
<1>2. ASSUME NEW c \in Scopes, ClearScope(c)
      PROVE  Recorder!RecorderNext
    <2>1. Recorder!Replace(c, {}) /\ {} \in SUBSET Labels
        BY <1>2, ClearScopeReplaces
    <2> QED
        BY <2>1 DEF Recorder!RecorderNext
<1>3. ASSUME NEW c \in Scopes, ForgetCollector(CollectorOf(c))
      PROVE  Recorder!RecorderNext
    BY <1>3, ForgetCollectorForgets DEF Recorder!RecorderNext
<1>4. ASSUME NEW sample \in Samples, Record(sample)
      PROVE  Recorder!RecorderNext
    BY <1>4, RecordWrites DEF Recorder!RecorderNext
<1> QED
    BY <1>1, <1>2, <1>3, <1>4 DEF ExporterNext

\* export/exporter.go: the PrometheusExporter implements ScopedRecorder: the
\* counts, generations and lists of series objects add up to the promise that a
\* series is exported while a scope reports it, for any scopes, labels, samples
\* and order of calls.
THEOREM ExporterImplementsScopedRecorder == ExporterSpec => ImplementsScopedRecorder
<1>1. ExporterInit => Recorder!RecorderInit
    <2> SUFFICES ASSUME ExporterInit
                 PROVE  Recorder!RecorderInit
        OBVIOUS
    <2>1. \A c \in Scopes : ToSet(scopes[c]) = {}
        BY DEF ExporterInit, ToSet
    <2>2. Owned = {}
        BY <2>1 DEF Owned
    <2>3. Gathered = [l \in Labels |-> Nil] /\ family = Nil
        BY DEF ExporterInit, Gathered
    <2> QED
        BY <2>2, <2>3 DEF Recorder!RecorderInit
<1>2. ExporterInv /\ [ExporterNext]_exporter => [Recorder!RecorderNext]_<<Owned, Gathered, family>>
    <2> SUFFICES ASSUME ExporterInv, [ExporterNext]_exporter
                 PROVE  Recorder!RecorderNext \/ UNCHANGED <<Owned, Gathered, family>>
        OBVIOUS
    <2>1. CASE ExporterNext
        BY <2>1, ExporterSimulates
    <2>2. CASE UNCHANGED exporter
        BY <2>2 DEF exporter, Owned, Gathered
    <2> QED
        BY <2>1, <2>2
<1> QED
    BY <1>1, <1>2, ExporterInvariant, PTL DEF ExporterSpec, ImplementsScopedRecorder, Recorder!RecorderSpec
=============================================================================
