-------------------------- MODULE PatientZeroProofs -------------------------
(***************************************************************************)
(* PatientZero, for any scenario directory, requests and times: what its   *)
(* EntryPoints count and keep, and what its ScenarioRunner journals.       *)
(***************************************************************************)
EXTENDS ScenarioRunner, EntryPoints, SetSums

-----------------------------------------------------------------------------
(***************************************************************************)
(* CountsAddUp and LedgerExact of EntryPoints, for any requests, periods,  *)
(* delay and retention.                                                    *)
(*                                                                         *)
(* The lines written and the interval that runs add up to the run          *)
(* (TrafficSound), and what the log has held back has a flush that is due  *)
(* (ReportSound).  The ledger has, for every second a prune has not taken, *)
(* the requests accounted in it (LedgerSound); what it answers is a sum    *)
(* over seconds that no prune takes before they are out of reach.          *)
(***************************************************************************)

-----------------------------------------------------------------------------
(* What is counted of the requests: CountsAddUp.                           *)

Times == Nat \cup {Never}
Tallies == [Tallied -> Nat]

Positions == {"new", "run", "held", "write", "account", "observe", "shed", "done"}
Request == [at : Positions, instant : Times, held : BOOLEAN, stored : BOOLEAN]

ServerTypeOK ==
    /\ now \in Nat
    /\ request \in [Requests -> Request]
    /\ holding \in BOOLEAN
    /\ report \in [last : Times, held : Nat, due : Times]
    /\ reported \in Nat
    /\ hasty \in BOOLEAN
    /\ counter \in [active : BOOLEAN, interval : Tallies, run : Tallies]
    /\ lines \in [intervals : Tallies, total : Tallies \cup {Never}]

\* The intervals written and the one that runs add up to the run, until its end.
TrafficSound ==
    /\ counter.active => /\ lines.total = Never
                         /\ \A what \in Tallied :
                               lines.intervals[what] + counter.interval[what] = counter.run[what]
    /\ ~counter.active /\ lines.total = Never => lines.intervals = Nothing
    /\ lines.total # Never => lines.intervals = lines.total

Turned == {r \in Requests : request[r].at = "shed"}

\* What is held back of the log has a flush that is due, not before Every has passed.
ReportSound ==
    /\ IsFiniteSet(Turned) /\ reported + report.held = Cardinality(Turned)
    /\ report.held > 0 => report.due # Never
    /\ report.due # Never => report.last # Never /\ report.due = report.last + Every
    /\ report.last # Never => report.last <= now
    /\ ~hasty

CountsInv == ServerTypeOK /\ TrafficSound /\ ReportSound

LEMMA ServerNumbers ==
    /\ Every \in Nat /\ Delay \in Nat /\ PruneEvery \in Nat /\ Reach \in Nat /\ Retention \in Nat
    /\ PerSecond \in Nat /\ PerSecond # 0 /\ MaxTime \in Nat /\ Never \notin Nat /\ Reach <= Retention
BY EntryPointsAssumptions

LEMMA CountsInit == ServerInit => CountsInv
<1> SUFFICES ASSUME ServerInit PROVE CountsInv
  OBVIOUS
<1>1. Nothing \in Tallies /\ \A what \in Tallied : Nothing[what] = 0
  BY DEF Nothing, Tallies
<1>2. ServerTypeOK
  <2>1. request \in [Requests -> Request]
    BY DEF ServerInit, NewRequest, Request, Times, Positions
  <2>2. counter \in [active : BOOLEAN, interval : Tallies, run : Tallies]
        /\ lines \in [intervals : Tallies, total : Tallies \cup {Never}]
        /\ report \in [last : Times, held : Nat, due : Times]
    BY <1>1 DEF ServerInit, Times
  <2> QED
    BY <2>1, <2>2 DEF ServerInit, ServerTypeOK
<1>3. Turned = {}
  BY DEF ServerInit, NewRequest, Turned
<1> QED
  BY <1>2, <1>3, FS_EmptySet DEF CountsInv, TrafficSound, ReportSound, ServerInit

\* Steps that write no log line and turn no request away.
LEMMA ReportKept ==
  ASSUME CountsInv, UNCHANGED <<report, reported, hasty>>, now' \in Nat, now <= now', Turned' = Turned
  PROVE  ReportSound'
BY ServerNumbers DEF CountsInv, ReportSound, ServerTypeOK, Times

\* Count, while a run is active or not.
LEMMA CountKeeps ==
  ASSUME CountsInv, NEW what \in Tallied, Count(what), UNCHANGED lines
  PROVE  /\ counter' \in [active : BOOLEAN, interval : Tallies, run : Tallies]
         /\ TrafficSound'
<1>1. CASE ~counter.active
  BY <1>1 DEF Count, CountsInv, TrafficSound, ServerTypeOK
<1>2. CASE counter.active
  <2>1. counter' = [counter EXCEPT !.interval[what] = @ + 1, !.run[what] = @ + 1]
    BY <1>2 DEF Count
  <2>2. counter \in [active : BOOLEAN, interval : Tallies, run : Tallies] /\ counter.active \in BOOLEAN
        /\ counter.interval \in Tallies /\ counter.run \in Tallies /\ lines.intervals \in Tallies
    BY DEF CountsInv, ServerTypeOK
  <2>3. /\ counter'.active = counter.active
        /\ counter'.interval = [counter.interval EXCEPT ![what] = @ + 1]
        /\ counter'.run = [counter.run EXCEPT ![what] = @ + 1]
    BY <2>1, <2>2
  <2>4. counter'.interval \in Tallies /\ counter'.run \in Tallies
    BY <2>2, <2>3 DEF Tallies
  <2>5. counter' = [active |-> counter'.active, interval |-> counter'.interval, run |-> counter'.run]
    BY <2>1, <2>2
  <2>6. counter' \in [active : BOOLEAN, interval : Tallies, run : Tallies]
    BY <2>2, <2>3, <2>4, <2>5
  <2>7. \A w \in Tallied : lines.intervals[w] + counter'.interval[w] = counter'.run[w]
    BY <1>2, <2>2, <2>3 DEF CountsInv, TrafficSound, Tallies
  <2> QED
    BY <1>2, <2>3, <2>6, <2>7 DEF CountsInv, TrafficSound
<1> QED
  BY <1>1, <1>2

\* A request that was not turned away goes on.
LEMMA RequestMoves ==
  ASSUME ServerTypeOK, NEW r \in Requests, NEW x \in Request, x.at # "shed", request[r].at # "shed",
         request' = [request EXCEPT ![r] = x]
  PROVE  request' \in [Requests -> Request] /\ Turned' = Turned
BY DEF ServerTypeOK, Turned

LEMMA TrafficKept == ASSUME TrafficSound, UNCHANGED counting PROVE TrafficSound'
BY DEF TrafficSound, counting

LEMMA RunKeeps == ASSUME CountsInv, Begin \/ Flush \/ EndRun PROVE CountsInv'
<1>1. UNCHANGED <<now, request, holding, report, reported, hasty>>
  BY DEF Begin, Flush, EndRun
<1>2. ReportSound'
  <2>1. now' \in Nat /\ now <= now' /\ Turned' = Turned
    BY <1>1 DEF CountsInv, ServerTypeOK, Turned
  <2> QED
    BY <1>1, <2>1, ReportKept
<1>3. Nothing \in Tallies /\ \A what \in Tallied : Nothing[what] = 0
  BY DEF Nothing, Tallies
<1>4. /\ counter.interval \in Tallies /\ counter.run \in Tallies /\ lines.intervals \in Tallies
      /\ lines.total \in Tallies \cup {Never} /\ counter.active \in BOOLEAN
  BY DEF CountsInv, ServerTypeOK
<1>5. ASSUME NEW a \in Tallies, NEW b \in Tallies
      PROVE  Plus(a, b) \in Tallies /\ \A what \in Tallied : Plus(a, b)[what] = a[what] + b[what]
  <2>1. DOMAIN a = Tallied
    BY DEF Tallies
  <2> QED
    BY <2>1 DEF Plus, Tallies
<1>7. CASE Begin
  <2>1. /\ ~counter.active /\ lines.total = Never /\ UNCHANGED lines
        /\ counter' = [active |-> TRUE, interval |-> Nothing, run |-> Nothing]
    BY <1>7 DEF Begin
  <2>2. lines.intervals = Nothing
    BY <2>1 DEF CountsInv, TrafficSound
  <2>3. counter' \in [active : BOOLEAN, interval : Tallies, run : Tallies] /\ counter'.active
        /\ counter'.interval = Nothing /\ counter'.run = Nothing
    BY <1>3, <2>1
  <2>4. TrafficSound'
    BY <1>3, <2>1, <2>2, <2>3 DEF TrafficSound
  <2> QED
    BY <1>1, <1>2, <2>1, <2>3, <2>4 DEF CountsInv, ServerTypeOK
<1>8. CASE Flush
  <2>1. /\ counter.active
        /\ counter' = [counter EXCEPT !.interval = Nothing]
        /\ lines' = [lines EXCEPT !.intervals = Plus(@, counter.interval)]
    BY <1>8 DEF Flush
  <2>2. lines.total = Never /\ \A what \in Tallied : lines.intervals[what] + counter.interval[what] = counter.run[what]
    BY <2>1 DEF CountsInv, TrafficSound
  <2>3. /\ counter' \in [active : BOOLEAN, interval : Tallies, run : Tallies] /\ counter'.active
        /\ counter'.interval = Nothing /\ counter'.run = counter.run
    BY <1>3, <2>1 DEF CountsInv, ServerTypeOK
  <2>4. PICK sum \in Tallies : sum = Plus(lines.intervals, counter.interval)
    BY <1>4, <1>5
  <2>5. /\ lines' \in [intervals : Tallies, total : Tallies \cup {Never}]
        /\ lines'.intervals = sum /\ lines'.total = Never
    BY <2>1, <2>2, <2>4 DEF CountsInv, ServerTypeOK
  <2>6. \A what \in Tallied : sum[what] + Nothing[what] = counter.run[what]
    BY <1>3, <1>4, <1>5, <2>2, <2>4 DEF Tallies
  <2>7. TrafficSound'
    BY <2>3, <2>5, <2>6 DEF TrafficSound
  <2> QED
    BY <1>1, <1>2, <2>3, <2>5, <2>7 DEF CountsInv, ServerTypeOK
<1>9. CASE EndRun
  <2>1. /\ counter.active
        /\ counter' = [active |-> FALSE, interval |-> Nothing, run |-> Nothing]
        /\ lines' = [intervals |-> Plus(lines.intervals, counter.interval), total |-> counter.run]
    BY <1>9 DEF EndRun, LastInterval
  <2>2. \A what \in Tallied : lines.intervals[what] + counter.interval[what] = counter.run[what]
    BY <2>1 DEF CountsInv, TrafficSound
  <2>3. Plus(lines.intervals, counter.interval) = counter.run
    <3>1. PICK sum \in Tallies : sum = Plus(lines.intervals, counter.interval)
      BY <1>4, <1>5
    <3>2. \A what \in Tallied : sum[what] = counter.run[what]
      BY <1>4, <1>5, <2>2, <3>1
    <3> QED
      BY <1>4, <3>1, <3>2 DEF Tallies
  <2>4. counter' \in [active : BOOLEAN, interval : Tallies, run : Tallies] /\ ~counter'.active
    BY <1>3, <2>1
  <2>5. /\ lines' \in [intervals : Tallies, total : Tallies \cup {Never}]
        /\ lines'.intervals = counter.run /\ lines'.total = counter.run
    BY <1>4, <2>1, <2>3
  <2>6. counter.run # Never
    BY <1>4, EntryPointsAssumptions DEF Tallies
  <2>7. TrafficSound'
    BY <2>4, <2>5, <2>6 DEF TrafficSound
  <2> QED
    BY <1>1, <1>2, <2>4, <2>5, <2>7 DEF CountsInv, ServerTypeOK
<1> QED
  BY <1>7, <1>8, <1>9

\* A log line, allowed once Every has passed.
LEMMA LineKeeps ==
  ASSUME CountsInv, NEW n \in Nat, Line(n), UNCHANGED now,
         report.last # Never => now - report.last >= Every,
         IsFiniteSet(Turned'), reported + n = Cardinality(Turned')
  PROVE  /\ report' \in [last : Times, held : Nat, due : Times] /\ reported' \in Nat /\ hasty' \in BOOLEAN
         /\ ReportSound'
<1>1. /\ reported' = reported + n
      /\ hasty' = (hasty \/ (report.last # Never /\ now - report.last < Every))
      /\ report' = [last |-> now, held |-> 0, due |-> Never]
  BY DEF Line
<1>2. now \in Nat /\ report.last \in Times /\ reported \in Nat /\ ~hasty
  BY DEF CountsInv, ServerTypeOK, ReportSound
<1>3. ~(report.last # Never /\ now - report.last < Every)
  BY <1>2, ServerNumbers DEF Times
<1>4. hasty' = FALSE
  BY <1>1, <1>2, <1>3
<1>5. /\ report' \in [last : Times, held : Nat, due : Times]
      /\ report'.last = now /\ report'.held = 0 /\ report'.due = Never
  BY <1>1, <1>2 DEF Times
<1>6. reported' \in Nat /\ reported' + 0 = reported'
  BY <1>1, <1>2
<1> QED
  BY <1>1, <1>2, <1>4, <1>5, <1>6 DEF ReportSound

LEMMA ShedKeeps == ASSUME CountsInv, NEW r \in Requests, Shed(r) PROVE CountsInv'
<1>1. /\ request[r].at = "new" /\ request' = [request EXCEPT ![r].at = "shed"]
      /\ Count("shed") /\ UNCHANGED <<now, holding, lines>>
  BY DEF Shed, Arrives
<1>2. counter' \in [active : BOOLEAN, interval : Tallies, run : Tallies] /\ TrafficSound'
  <2>1. "shed" \in Tallied
    BY DEF Tallied
  <2> QED
    BY <1>1, <2>1, CountKeeps
<1>3. request' \in [Requests -> Request] /\ Turned' = Turned \cup {r} /\ r \notin Turned
  BY <1>1 DEF CountsInv, ServerTypeOK, Turned, Request, Positions
<1>4. IsFiniteSet(Turned') /\ Cardinality(Turned') = Cardinality(Turned) + 1
  BY <1>3, FS_AddElement DEF CountsInv, ReportSound
<1>5. /\ now \in Nat /\ report \in [last : Times, held : Nat, due : Times] /\ reported \in Nat
      /\ report.last \in Times /\ report.due \in Times /\ report.held \in Nat
      /\ reported + report.held = Cardinality(Turned) /\ ~hasty /\ hasty \in BOOLEAN
      /\ report.due # Never => report.last # Never /\ report.due = report.last + Every
      /\ report.last # Never => report.last <= now
  BY DEF CountsInv, ServerTypeOK, ReportSound
<1>6. /\ report' \in [last : Times, held : Nat, due : Times] /\ reported' \in Nat /\ hasty' \in BOOLEAN
      /\ ReportSound'
  <2>1. CASE report.due # Never \/ (report.last # Never /\ now - report.last < Every)
    <3>1. /\ report' = [report EXCEPT !.held = @ + 1, !.due = IF @ = Never THEN report.last + Every ELSE @]
          /\ UNCHANGED <<reported, hasty>>
      BY <2>1 DEF Shed
    <3>2. report.last \in Nat /\ report.last # Never
      BY <1>5, <2>1 DEF Times
    <3>3. report.last + Every \in Times /\ report.last + Every # Never
      BY <3>2, ServerNumbers DEF Times
    <3>4. /\ report' \in [last : Times, held : Nat, due : Times]
          /\ report'.last = report.last /\ report'.held = report.held + 1 /\ report'.due = report.last + Every
      <4>1. PICK due \in Times : due = report.last + Every
        BY <3>3
      <4>2. (IF report.due = Never THEN report.last + Every ELSE report.due) = due
        BY <1>5, <4>1
      <4>3. report' = [report EXCEPT !.held = report.held + 1, !.due = due]
        BY <3>1, <4>2
      <4>4. PICK n \in Nat : n = report.held + 1
        BY <1>5
      <4>5. report' = [report EXCEPT !.held = n, !.due = due]
        BY <4>3, <4>4
      <4>6. report'.last = report.last /\ report'.held = n /\ report'.due = due
        BY <1>5, <4>5
      <4>7. report' \in [last : Times, held : Nat, due : Times]
        BY <1>5, <4>5
      <4> QED
        BY <4>1, <4>4, <4>6, <4>7
    <3>5. reported' + report'.held = Cardinality(Turned')
      BY <1>4, <1>5, <3>1, <3>4
    <3> QED
      BY <1>1, <1>4, <1>5, <3>1, <3>2, <3>3, <3>4, <3>5 DEF ReportSound
  <2>2. CASE ~(report.due # Never \/ (report.last # Never /\ now - report.last < Every))
    <3>1. Line(report.held + 1)
      BY <2>2 DEF Shed
    <3>2. report.held + 1 \in Nat /\ reported + (report.held + 1) = Cardinality(Turned')
      BY <1>4, <1>5
    <3>3. report.last # Never => now - report.last >= Every
      BY <1>5, <2>2, ServerNumbers DEF Times
    <3> QED
      BY <1>1, <1>4, <3>1, <3>2, <3>3, LineKeeps
  <2> QED
    BY <2>1, <2>2
<1> QED
  BY <1>1, <1>2, <1>3, <1>6 DEF CountsInv, ServerTypeOK

LEMMA ReportFlushKeeps == ASSUME CountsInv, ReportFlush PROVE CountsInv'
<1>1. /\ report.due # Never /\ now >= report.due /\ Line(report.held)
      /\ UNCHANGED <<now, request, holding, counting>>
  BY DEF ReportFlush
<1>2. report.last \in Nat /\ now - report.last >= Every
  <2>1. report.last \in Times /\ report.last # Never /\ report.due = report.last + Every /\ now \in Nat
    BY <1>1 DEF CountsInv, ServerTypeOK, ReportSound
  <2> QED
    BY <1>1, <2>1, ServerNumbers DEF Times
<1>3. Turned' = Turned /\ report.held \in Nat /\ reported + report.held = Cardinality(Turned) /\ IsFiniteSet(Turned)
  BY <1>1 DEF Turned, CountsInv, ServerTypeOK, ReportSound
<1>4. /\ report' \in [last : Times, held : Nat, due : Times] /\ reported' \in Nat /\ hasty' \in BOOLEAN
      /\ ReportSound'
  BY <1>1, <1>2, <1>3, LineKeeps
<1> QED
  BY <1>1, <1>4, TrafficKept DEF CountsInv, ServerTypeOK, counting

\* What the other steps of a request leave of the counts.
LEMMA ServedKeeps ==
  ASSUME CountsInv, UNCHANGED <<now, holding, report, reported, hasty, lines>>,
         request' \in [Requests -> Request], Turned' = Turned,
         UNCHANGED counter \/ \E what \in Tallied : Count(what)
  PROVE  CountsInv'
<1>1. ReportSound'
  BY ReportKept DEF CountsInv, ServerTypeOK
<1>2. counter' \in [active : BOOLEAN, interval : Tallies, run : Tallies] /\ TrafficSound'
  BY CountKeeps, TrafficKept DEF CountsInv, ServerTypeOK, counting
<1> QED
  BY <1>1, <1>2 DEF CountsInv, ServerTypeOK

\* A record of a request, field by field.
LEMMA RequestFields ==
  ASSUME ServerTypeOK, NEW r \in Requests
  PROVE  /\ request[r] \in Request /\ request[r].at \in Positions /\ request[r].instant \in Times
         /\ request[r].held \in BOOLEAN /\ request[r].stored \in BOOLEAN
BY DEF ServerTypeOK, Request

\* A step of a request as one record that replaces another.
LEMMA RequestStep ==
  ASSUME ServerTypeOK, NEW r \in Requests,
         Admit(r) \/ Finish(r) \/ WriteRows(r) \/ Account(r) \/ Observe(r)
  PROVE  \E x \in Request : /\ x.at \notin {"shed", "new"} /\ request[r].at # "shed"
                            /\ request' = [request EXCEPT ![r] = x]
<1> DEFINE q == request[r]
<1>1. q \in Request /\ request \in [Requests -> Request]
  BY DEF ServerTypeOK
<1>2. ASSUME NEW a \in Positions PROVE [q EXCEPT !.at = a] \in Request /\ [q EXCEPT !.at = a].at = a
  BY <1>1 DEF Request
<1>3. CASE Admit(r)
  <2>1. q.at = "new" /\ request' = [request EXCEPT ![r] = [q EXCEPT !.at = "run"]]
    BY <1>1, <1>3 DEF Admit, Arrives
  <2> QED
    BY <1>2, <2>1 DEF Positions
<1>4. CASE Observe(r)
  <2>1. q.at = "observe" /\ request' = [request EXCEPT ![r] = [q EXCEPT !.at = "done"]]
    BY <1>1, <1>4 DEF Observe
  <2> QED
    BY <1>2, <2>1 DEF Positions
<1>5. CASE Account(r)
  <2>1. q.at = "account" /\ request' = [request EXCEPT ![r] = [q EXCEPT !.at = IF request[r].held THEN "done" ELSE "observe"]]
    BY <1>1, <1>5 DEF Account
  <2> QED
    BY <1>2, <2>1 DEF Positions
<1>6. CASE Finish(r)
  <2>1. q.at = "run" /\ now \in Times
    BY <1>6 DEF Finish, ServerTypeOK, Times
  <2>2. CASE holding
    <3>1. request' = [request EXCEPT ![r] = [q EXCEPT !.at = "held", !.instant = now, !.held = TRUE]]
      BY <1>1, <1>6, <2>2 DEF Finish
    <3>2. [q EXCEPT !.at = "held", !.instant = now, !.held = TRUE] \in Request
      BY <1>1, <2>1 DEF Request, Positions
    <3>3. [q EXCEPT !.at = "held", !.instant = now, !.held = TRUE].at = "held"
      BY <1>1 DEF Request
    <3> QED
      BY <2>1, <3>1, <3>2, <3>3
  <2>3. CASE ~holding
    <3>1. request' = [request EXCEPT ![r] = [q EXCEPT !.at = "write", !.instant = now]]
      BY <1>1, <1>6, <2>3 DEF Finish
    <3>2. [q EXCEPT !.at = "write", !.instant = now] \in Request
      BY <1>1, <2>1 DEF Request, Positions
    <3>3. [q EXCEPT !.at = "write", !.instant = now].at = "write"
      BY <1>1 DEF Request
    <3> QED
      BY <2>1, <3>1, <3>2, <3>3
  <2> QED
    BY <2>2, <2>3
<1>7. CASE WriteRows(r)
  <2>1. q.at \in {"write", "held"}
    BY <1>7 DEF WriteRows
  <2>2. CASE request' = [request EXCEPT ![r] = [@ EXCEPT !.at = "account", !.stored = TRUE]]
    <3>1. request' = [request EXCEPT ![r] = [q EXCEPT !.at = "account", !.stored = TRUE]]
      BY <1>1, <2>2
    <3>2. [q EXCEPT !.at = "account", !.stored = TRUE] \in Request /\ [q EXCEPT !.at = "account", !.stored = TRUE].at = "account"
      BY <1>1 DEF Request, Positions
    <3> QED
      BY <2>1, <3>1, <3>2
  <2>3. CASE request' = [request EXCEPT ![r].at = IF @ = "held" THEN "done" ELSE "observe"]
    <3>1. request' = [request EXCEPT ![r] = [q EXCEPT !.at = IF q.at = "held" THEN "done" ELSE "observe"]]
      BY <1>1, <2>3
    <3> QED
      BY <1>2, <2>1, <3>1 DEF Positions
  <2> QED
    BY <1>7, <2>2, <2>3 DEF WriteRows
<1> QED
  BY <1>3, <1>4, <1>5, <1>6, <1>7

LEMMA CountsNext == CountsInv /\ [ServerNext]_server => CountsInv'
<1> SUFFICES ASSUME CountsInv, [ServerNext]_server PROVE CountsInv'
  OBVIOUS
<1>1. CASE Begin \/ Flush \/ EndRun
  BY <1>1, RunKeeps
<1>2. CASE ReportFlush
  BY <1>2, ReportFlushKeeps
<1>3. CASE CommitDelay
  <2>1. holding' \in BOOLEAN /\ UNCHANGED <<now, request, report, reported, hasty, counting>>
    BY <1>3 DEF CommitDelay, CountsInv, ServerTypeOK
  <2>2. Turned' = Turned
    BY <2>1 DEF Turned
  <2>3. ReportSound'
    BY <2>1, <2>2, ReportKept DEF CountsInv, ServerTypeOK
  <2> QED
    BY <2>1, <2>3, TrafficKept DEF CountsInv, ServerTypeOK, counting
<1>4. CASE Tick
  <2>1. now' = now + 1 /\ now \in Nat /\ UNCHANGED <<request, holding, report, reported, hasty, counting>>
    BY <1>4 DEF Tick, CountsInv, ServerTypeOK
  <2>2. Turned' = Turned /\ now' \in Nat /\ now <= now'
    BY <2>1 DEF Turned
  <2>3. ReportSound'
    BY <2>1, <2>2, ReportKept
  <2> QED
    BY <2>1, <2>2, <2>3, TrafficKept DEF CountsInv, ServerTypeOK, counting
<1>5. CASE \E r \in Requests : Shed(r)
  BY <1>5, ShedKeeps
<1>6. ASSUME NEW r \in Requests, Admit(r) \/ Finish(r) \/ WriteRows(r) \/ Account(r) \/ Observe(r)
      PROVE  CountsInv'
  <2>1. request' \in [Requests -> Request] /\ Turned' = Turned
    BY <1>6, RequestStep, RequestMoves DEF CountsInv
  <2>2. UNCHANGED <<now, holding, report, reported, hasty, lines>>
    BY <1>6 DEF Admit, Finish, WriteRows, Account, Observe, counting
  <2>3. UNCHANGED counter \/ \E what \in Tallied : Count(what)
    BY <1>6 DEF Admit, Finish, WriteRows, Account, Observe, counting, Tallied
  <2> QED
    BY <2>1, <2>2, <2>3, ServedKeeps
<1>7. CASE UNCHANGED server
  <2>1. request' \in [Requests -> Request] /\ Turned' = Turned
    BY <1>7 DEF server, Turned, CountsInv, ServerTypeOK
  <2> QED
    BY <1>7, <2>1, ServedKeeps DEF server, counting
<1> QED
  BY <1>1, <1>2, <1>3, <1>4, <1>5, <1>6, <1>7 DEF ServerNext

\* The counts of the entry points: a run's intervals and totals, and the requests
\* in log lines, held for one or to come.
THEOREM CountsInvariant == ServerSpec => []CountsInv
<1>1. ServerInit => CountsInv
  BY CountsInit
<1>2. CountsInv /\ [ServerNext]_server => CountsInv'
  BY CountsNext
<1> QED
  BY <1>1, <1>2, PTL DEF ServerSpec

\* The intervals of an ended run add up to its totals, every request turned away is
\* in one log line or will be by a flush that is due, and no two lines are closer
\* than the report allows (shedReport, traffic.Counter).
THEOREM CountsAlwaysAddUp == ServerSpec => []CountsAddUp
<1>1. CountsInv => CountsAddUp
  BY DEF CountsInv, TrafficSound, ReportSound, CountsAddUp, Turned
<1> QED
  BY <1>1, CountsInvariant, PTL

-----------------------------------------------------------------------------
(* The ledger of committed rows: LedgerExact.                              *)

LEMMA QuotientIs ==
  ASSUME NEW x \in Int, NEW p \in Nat, p # 0
  PROVE  /\ x \div p \in Int
         /\ (x \div p) * p <= x /\ x < (x \div p) * p + p
BY SMTT(30)

LEMMA TimesGrows ==
  ASSUME NEW a \in Int, NEW b \in Int, NEW p \in Nat, a <= b
  PROVE  a * p <= b * p
BY SMTT(30)

\* A whole number is below a quotient, or not.
LEMMA QuotientAbove ==
  ASSUME NEW x \in Int, NEW p \in Nat, p # 0, NEW s \in Int
  PROVE  s <= x \div p <=> s * p <= x
<1>1. PICK q \in Int : q = x \div p
  BY QuotientIs
<1>2. PICK m \in Int : m = q * p
  OBVIOUS
<1>3. PICK n \in Int : n = s * p
  OBVIOUS
<1>4. m <= x /\ x < m + p
  BY <1>1, <1>2, QuotientIs
<1>5. s <= q => n <= m
  BY <1>2, <1>3, TimesGrows
<1>6. q + 1 <= s => m + p <= n
  <2>1. (q + 1) * p = m + p
    BY <1>2
  <2>2. q + 1 <= s => (q + 1) * p <= s * p
    BY TimesGrows
  <2> QED
    BY <1>3, <2>1, <2>2
<1>7. CASE s <= q
  <2>1. n <= m
    BY <1>5, <1>7
  <2>2. n <= x
    BY <1>4, <2>1
  <2> QED
    BY <1>1, <1>3, <1>7, <2>2
<1>8. CASE q + 1 <= s
  <2>1. ~(n <= x)
    BY <1>4, <1>6, <1>8
  <2>2. ~(s <= q)
    BY <1>8
  <2> QED
    BY <1>1, <1>3, <2>1, <2>2
<1> QED
  BY <1>7, <1>8

Unstored == {"new", "run", "held", "write", "shed"}

\* A request's rows are stored once, at an Instant that has passed.
RequestSound(r) ==
    /\ request[r].at \in Unstored => ~request[r].stored
    /\ request[r].at = "account" => request[r].stored
    /\ request[r].stored \/ request[r].at \in {"held", "write"} => request[r].instant \in Nat /\ request[r].instant <= now

Seconds == 0 .. Bucket(MaxTime)
LedgerTypeOK ==
    /\ ledger \in [rows : [Seconds -> Nat], late : [Seconds -> Nat], pruned : Times]
    /\ now <= MaxTime

\* The requests whose rows are in the ledger, and those of one second.
Accounted == {r \in Requests : request[r].stored /\ request[r].at # "account"}
Within(s) == {r \in Accounted : Bucket(request[r].instant) = s}
HeldBack(s) == {r \in Within(s) : request[r].held}

\* Seconds that a prune takes are not asked for.
Kept(s) == s >= Unix(now - Retention)

LedgerSound ==
    /\ IsFiniteSet(Accounted)
    /\ \A s \in Seconds : Kept(s) => /\ ledger.rows[s] = Cardinality(Within(s))
                                     /\ ledger.late[s] = Cardinality(HeldBack(s))

LedgerInv == (\A r \in Requests : RequestSound(r)) /\ LedgerTypeOK /\ LedgerSound

\* The second of a later Instant is not an earlier one.
LEMMA UnixGrows ==
  ASSUME NEW t \in Int, NEW u \in Int, t <= u
  PROVE  Unix(t) \in Int /\ Unix(u) \in Int /\ Unix(t) <= Unix(u)
<1>1. PerSecond \in Nat /\ PerSecond # 0
  BY ServerNumbers
<1>2. PICK a \in Int : a = t \div PerSecond
  BY <1>1, QuotientIs
<1>3. PICK b \in Int : b = u \div PerSecond
  BY <1>1, QuotientIs
<1>4. PICK m \in Int : m = a * PerSecond
  BY <1>1
<1>5. m <= t
  BY <1>1, <1>2, <1>4, QuotientAbove
<1>6. m <= u
  BY <1>5
<1>7. a <= b
  BY <1>1, <1>3, <1>4, <1>6, QuotientAbove
<1> QED
  BY <1>2, <1>3, <1>7 DEF Unix

\* bucket: a row is past a second exactly when its Instant is.
LEMMA BucketAfter ==
  ASSUME NEW t \in Nat, NEW s \in Int
  PROVE  /\ Bucket(t) \in Int
         /\ s < Bucket(t) <=> t > s * PerSecond
<1>1. PerSecond \in Nat /\ PerSecond # 0
  BY ServerNumbers
<1>2. PICK x \in Int : x = t + PerSecond - 1
  BY <1>1
<1>3. PICK b \in Int : b = x \div PerSecond
  BY <1>1, QuotientIs
<1>4. PICK m \in Int : m = s * PerSecond
  BY <1>1
<1>5. (s + 1) * PerSecond = m + PerSecond
  BY <1>1, <1>4
<1>6. s + 1 <= b <=> m + PerSecond <= x
  <2>1. s + 1 \in Int
    OBVIOUS
  <2>2. s + 1 <= x \div PerSecond <=> (s + 1) * PerSecond <= x
    BY <1>1, <2>1, QuotientAbove
  <2> QED
    BY <1>3, <1>5, <2>2
<1>7. s < b <=> t > m
  BY <1>1, <1>2, <1>6
<1>8. Bucket(t) = b
  BY <1>2, <1>3 DEF Bucket
<1> QED
  BY <1>4, <1>7, <1>8

LEMMA BucketIn == ASSUME NEW t \in Nat, t <= MaxTime PROVE Bucket(t) \in Seconds
<1>1. Bucket(t) \in Int /\ Bucket(MaxTime) \in Int
  BY BucketAfter, ServerNumbers
<1>2. 0 <= Bucket(t)
  <2>1. -1 < Bucket(t) <=> t > (-1) * PerSecond
    BY BucketAfter
  <2>2. t > (-1) * PerSecond
    BY ServerNumbers
  <2> QED
    BY <1>1, <2>1, <2>2
<1>3. Bucket(t) <= Bucket(MaxTime)
  <2>1. PICK s \in Int : s = Bucket(MaxTime)
    BY <1>1
  <2>2. PICK m \in Int : m = s * PerSecond
    BY ServerNumbers
  <2>3. ~(MaxTime > m)
    BY <2>1, <2>2, BucketAfter, ServerNumbers
  <2>4. ~(t > m)
    BY <2>2, <2>3, ServerNumbers
  <2>5. ~(s < Bucket(t))
    BY <2>2, <2>4, BucketAfter
  <2> QED
    BY <1>1, <2>1, <2>5
<1> QED
  BY <1>1, <1>2, <1>3 DEF Seconds

LEMMA LedgerInit == ServerInit => LedgerInv
<1> SUFFICES ASSUME ServerInit PROVE LedgerInv
  OBVIOUS
<1>1. \A r \in Requests : request[r].at = "new" /\ ~request[r].stored
  BY DEF ServerInit, NewRequest
<1>2. \A r \in Requests : RequestSound(r)
  BY <1>1 DEF RequestSound
<1>3. LedgerTypeOK
  BY ServerNumbers DEF ServerInit, LedgerTypeOK, Seconds, Times
<1>4. Accounted = {}
  BY <1>1 DEF Accounted
<1>5. \A s \in Seconds : Within(s) = {} /\ HeldBack(s) = {} /\ ledger.rows[s] = 0 /\ ledger.late[s] = 0
  BY <1>4 DEF Within, HeldBack, ServerInit, Seconds
<1>6. LedgerSound
  BY <1>4, <1>5, FS_EmptySet DEF LedgerSound
<1> QED
  BY <1>2, <1>3, <1>6 DEF LedgerInv

\* Time passes: what was not asked for before is not asked for later.
LEMMA KeptBefore == ASSUME now \in Nat, now' \in Nat, now <= now', NEW s \in Int, Kept(s)' PROVE Kept(s)
<1>1. PICK t \in Int : t = now - Retention
  BY ServerNumbers
<1>2. PICK u \in Int : u = now' - Retention
  <2>1. PICK n \in Nat : n = now'
    OBVIOUS
  <2>2. n - Retention \in Int
    BY <2>1, ServerNumbers
  <2> QED
    BY <2>1, <2>2
<1>3. Unix(t) <= Unix(u) /\ Unix(t) \in Int /\ Unix(u) \in Int
  BY <1>1, <1>2, UnixGrows, ServerNumbers
<1>4. s >= Unix(u)
  BY <1>2 DEF Kept, Unix
<1> QED
  BY <1>1, <1>3, <1>4 DEF Kept

\* Steps that leave the ledger and the rows in it alone.
LEMMA LedgerKept ==
  ASSUME ServerTypeOK, LedgerInv, UNCHANGED ledger, now' \in Nat, now <= now', now' <= MaxTime,
         \A r \in Requests : RequestSound(r)',
         \A r \in Requests : /\ r \in Accounted' <=> r \in Accounted
                             /\ r \in Accounted => /\ request'[r].instant = request[r].instant
                                                   /\ request'[r].held = request[r].held
  PROVE  LedgerInv'
<1>1. Accounted' = Accounted
  BY DEF Accounted
<1>2. \A s : Within(s)' = Within(s) /\ HeldBack(s)' = HeldBack(s)
  <2> SUFFICES ASSUME NEW s PROVE Within(s)' = Within(s) /\ HeldBack(s)' = HeldBack(s)
    OBVIOUS
  <2>1. \A r \in Accounted : r \in Requests
    BY DEF Accounted
  <2>2. Within(s)' = Within(s)
    BY <1>1, <2>1 DEF Within, Bucket
  <2> QED
    BY <2>1, <2>2 DEF HeldBack, Within
<1>3. LedgerSound'
  <2>1. Seconds' = Seconds /\ \A s \in Seconds : s \in Int
    BY DEF Seconds, Bucket
  <2>2. \A s \in Seconds : Kept(s)' => Kept(s)
    BY <2>1, KeptBefore DEF ServerTypeOK
  <2> QED
    BY <1>1, <1>2, <2>1, <2>2 DEF LedgerInv, LedgerSound
<1>4. LedgerTypeOK'
  BY DEF LedgerInv, LedgerTypeOK
<1> QED
  BY <1>3, <1>4 DEF LedgerInv

\* The steps of a request before its rows are in the ledger, and after.
LEMMA RequestKept ==
  ASSUME ServerTypeOK, LedgerInv, NEW r \in Requests, NEW x \in Request, request' = [request EXCEPT ![r] = x],
         x.at \in Unstored => ~x.stored, x.at = "account" => x.stored,
         x.stored \/ x.at \in {"held", "write"} => x.instant \in Nat /\ x.instant <= now,
         (x.stored /\ x.at # "account") <=> (request[r].stored /\ request[r].at # "account"),
         request[r].stored => x.instant = request[r].instant /\ x.held = request[r].held,
         UNCHANGED <<now, ledger>>
  PROVE  LedgerInv'
<1>1. request \in [Requests -> Request] /\ now \in Nat
  BY DEF ServerTypeOK
<1>2. \A q \in Requests : request'[q] = IF q = r THEN x ELSE request[q]
  BY <1>1
<1>3. \A q \in Requests : RequestSound(q)'
  BY <1>2 DEF LedgerInv, RequestSound
<1>4. \A q \in Requests : /\ q \in Accounted' <=> q \in Accounted
                          /\ q \in Accounted => /\ request'[q].instant = request[q].instant
                                                /\ request'[q].held = request[q].held
  BY <1>2 DEF Accounted
<1>5. now' \in Nat /\ now <= now' /\ now' <= MaxTime
  BY <1>1 DEF LedgerInv, LedgerTypeOK
<1> QED
  BY <1>3, <1>4, <1>5, LedgerKept

\* prune takes only seconds that are not asked for.
LEMMA PruneKeeps ==
  ASSUME now \in Nat, NEW f \in [Seconds -> Nat]
  PROVE  /\ PruneLedger(f) \in [Seconds -> Nat]
         /\ \A s \in Seconds : Kept(s) => PruneLedger(f)[s] = f[s]
<1>1. PICK u : u = Unix(now - Retention)
  OBVIOUS
<1>2. u \in Int
  <2>1. now - Retention \in Int /\ now - Retention <= now - Retention
    BY ServerNumbers
  <2> QED
    BY <1>1, <2>1, UnixGrows
<1>3. \A s \in Seconds : s \in Int
  BY DEF Seconds
<1>4. PICK g : g = [s \in Seconds |-> IF s < u THEN 0 ELSE f[s]]
  OBVIOUS
<1>5. g \in [Seconds -> Nat] /\ \A s \in Seconds : s >= u => g[s] = f[s]
  BY <1>2, <1>3, <1>4
<1>6. PruneLedger(f) = f \/ PruneLedger(f) = g
  BY <1>1, <1>4 DEF PruneLedger
<1> QED
  BY <1>1, <1>5, <1>6 DEF Kept

\* One request more of a second, in the ledger as among the requests.
LEMMA OneMore ==
  ASSUME NEW S, IsFiniteSet(S), NEW f \in [Seconds -> Nat], NEW b \in Seconds, NEW s \in Seconds,
         NEW r, r \notin S, NEW on \in BOOLEAN, f[s] = Cardinality(S)
  PROVE  [f EXCEPT ![b] = @ + IF on THEN 1 ELSE 0][s] = Cardinality(IF on /\ b = s THEN S \cup {r} ELSE S)
<1>1. Cardinality(S \cup {r}) = Cardinality(S) + 1
  BY FS_AddElement
<1>2. f[s] \in Nat
  OBVIOUS
<1> QED
  BY <1>1, <1>2

LEMMA AccountKeeps == ASSUME ServerTypeOK, LedgerInv, NEW r \in Requests, Account(r) PROVE LedgerInv'
<1>1. PICK b : b = Bucket(request[r].instant)
  OBVIOUS
<1>2. PICK x : x = [request[r] EXCEPT !.at = IF request[r].held THEN "done" ELSE "observe"]
  OBVIOUS
<1>3. /\ request \in [Requests -> Request] /\ request[r] \in Request /\ now \in Nat /\ now <= MaxTime
      /\ request[r].held \in BOOLEAN
  BY RequestFields DEF ServerTypeOK, LedgerInv, LedgerTypeOK
<1>4. /\ request[r].at = "account" /\ request' = [request EXCEPT ![r] = x] /\ UNCHANGED now
  BY <1>2, <1>3 DEF Account
<1>5. /\ request[r].stored /\ request[r].instant \in Nat /\ request[r].instant <= now
  BY <1>4 DEF LedgerInv, RequestSound
<1>6. x.at \in {"done", "observe"} /\ x.stored = request[r].stored /\ x.instant = request[r].instant /\ x.held = request[r].held
  BY <1>2, <1>3 DEF Request
<1>7. \A q \in Requests : request'[q] = IF q = r THEN x ELSE request[q]
  BY <1>3, <1>4
<1>8. \A q \in Requests : RequestSound(q)'
  BY <1>4, <1>5, <1>6, <1>7 DEF LedgerInv, RequestSound, Unstored
<1>9. b \in Seconds
  <2>1. request[r].instant <= MaxTime
    BY <1>3, <1>5, ServerNumbers
  <2> QED
    BY <1>1, <1>5, <2>1, BucketIn
<1>10. Accounted' = Accounted \cup {r} /\ r \notin Accounted /\ IsFiniteSet(Accounted) /\ IsFiniteSet(Accounted')
  <2>1. Accounted' = Accounted \cup {r} /\ r \notin Accounted
    BY <1>4, <1>5, <1>6, <1>7 DEF Accounted
  <2> QED
    BY <2>1, FS_AddElement DEF LedgerInv, LedgerSound
<1>11. PICK on : on = request[r].held
  OBVIOUS
<1>12. on \in BOOLEAN
  BY <1>3, <1>11
<1>13. ledger.rows \in [Seconds -> Nat] /\ ledger.late \in [Seconds -> Nat] /\ ledger.pruned \in Times
  BY DEF LedgerInv, LedgerTypeOK
<1>14. PICK f : f = [ledger.rows EXCEPT ![b] = @ + IF TRUE THEN 1 ELSE 0]
  OBVIOUS
<1>15. PICK g : g = [ledger.late EXCEPT ![b] = @ + IF on THEN 1 ELSE 0]
  OBVIOUS
<1>16. f \in [Seconds -> Nat] /\ g \in [Seconds -> Nat]
  BY <1>9, <1>12, <1>13, <1>14, <1>15
<1>17. /\ PruneLedger(f) \in [Seconds -> Nat] /\ \A s \in Seconds : Kept(s) => PruneLedger(f)[s] = f[s]
       /\ PruneLedger(g) \in [Seconds -> Nat] /\ \A s \in Seconds : Kept(s) => PruneLedger(g)[s] = g[s]
  BY <1>3, <1>16, PruneKeeps
<1>18. PICK pruned : pruned = IF ledger.pruned # Never /\ now - ledger.pruned < PruneEvery THEN ledger.pruned ELSE now
  OBVIOUS
<1>19. ledger' = [rows |-> PruneLedger(f), late |-> PruneLedger(g), pruned |-> pruned]
  <2>1. f = [ledger.rows EXCEPT ![b] = @ + 1]
    BY <1>14
  <2> QED
    BY <1>1, <1>11, <1>15, <1>18, <2>1 DEF Account
<1>20. /\ ledger' \in [rows : [Seconds -> Nat], late : [Seconds -> Nat], pruned : Times]
       /\ ledger'.rows = PruneLedger(f) /\ ledger'.late = PruneLedger(g)
  <2>1. pruned \in Times
    BY <1>3, <1>13, <1>18 DEF Times
  <2>2. PICK p \in [Seconds -> Nat] : p = PruneLedger(f)
    BY <1>17
  <2>3. PICK q \in [Seconds -> Nat] : q = PruneLedger(g)
    BY <1>17
  <2>4. ledger' = [rows |-> p, late |-> q, pruned |-> pruned]
    BY <1>19, <2>2, <2>3
  <2>5. ledger' \in [rows : [Seconds -> Nat], late : [Seconds -> Nat], pruned : Times]
    BY <2>1, <2>4
  <2> QED
    BY <2>2, <2>3, <2>4, <2>5
<1>21. ASSUME NEW s \in Seconds
       PROVE  /\ Within(s)' = IF b = s THEN Within(s) \cup {r} ELSE Within(s)
              /\ HeldBack(s)' = IF on /\ b = s THEN HeldBack(s) \cup {r} ELSE HeldBack(s)
              /\ r \notin Within(s) /\ r \notin HeldBack(s)
              /\ IsFiniteSet(Within(s)) /\ IsFiniteSet(HeldBack(s))
  <2>1. \A q \in Accounted : q \in Requests /\ q # r /\ request'[q] = request[q]
    BY <1>7, <1>10 DEF Accounted
  <2>2. Bucket(request'[r].instant) = b /\ request'[r].held = on
    BY <1>1, <1>6, <1>7, <1>11 DEF Bucket
  <2>3. \A q \in Accounted : Bucket(request'[q].instant) = Bucket(request[q].instant)
    BY <2>1
  <2>4. Within(s)' = {q \in Accounted' : Bucket(request'[q].instant) = s}
    BY DEF Within, Bucket
  <2>5. Within(s) = {q \in Accounted : Bucket(request[q].instant) = s}
    BY DEF Within
  <2>6. Within(s)' = IF b = s THEN Within(s) \cup {r} ELSE Within(s)
    BY <1>10, <2>2, <2>3, <2>4, <2>5
  <2>7. r \notin Within(s) /\ r \notin HeldBack(s)
    BY <1>10 DEF Within, HeldBack
  <2>8. \A q \in Within(s) : request'[q].held = request[q].held
    BY <2>1 DEF Within
  <2>9. HeldBack(s)' = {q \in Within(s)' : request'[q].held} /\ HeldBack(s) = {q \in Within(s) : request[q].held}
    BY DEF HeldBack
  <2>10. HeldBack(s)' = IF on /\ b = s THEN HeldBack(s) \cup {r} ELSE HeldBack(s)
    BY <1>12, <2>2, <2>6, <2>8, <2>9
  <2>11. Within(s) \subseteq Accounted /\ HeldBack(s) \subseteq Accounted
    BY DEF Within, HeldBack
  <2> QED
    BY <1>10, <2>6, <2>7, <2>10, <2>11, FS_Subset
<1>22. ASSUME NEW s \in Seconds, Kept(s)
       PROVE  /\ ledger'.rows[s] = Cardinality(Within(s)')
              /\ ledger'.late[s] = Cardinality(HeldBack(s)')
  <2>1. ledger.rows[s] = Cardinality(Within(s)) /\ ledger.late[s] = Cardinality(HeldBack(s))
    BY <1>22 DEF LedgerInv, LedgerSound
  <2>2. ledger'.rows[s] = f[s] /\ ledger'.late[s] = g[s]
    BY <1>17, <1>20, <1>22
  <2>3. f[s] = Cardinality(IF TRUE /\ b = s THEN Within(s) \cup {r} ELSE Within(s))
    <3>1. PICK S : S = Within(s)
      OBVIOUS
    <3>2. PICK h \in [Seconds -> Nat] : h = ledger.rows
      BY <1>13
    <3>3. IsFiniteSet(S) /\ r \notin S /\ h[s] = Cardinality(S)
      BY <1>21, <2>1, <3>1, <3>2
    <3>4. PICK yes : yes = TRUE
      OBVIOUS
    <3>5. yes \in BOOLEAN
      BY <3>4
    <3>6. [h EXCEPT ![b] = @ + IF yes THEN 1 ELSE 0][s] = Cardinality(IF yes /\ b = s THEN S \cup {r} ELSE S)
      BY <1>9, <3>3, <3>5, OneMore
    <3> QED
      BY <1>14, <3>1, <3>2, <3>4, <3>6
  <2>4. g[s] = Cardinality(IF on /\ b = s THEN HeldBack(s) \cup {r} ELSE HeldBack(s))
    <3>1. PICK S : S = HeldBack(s)
      OBVIOUS
    <3>2. PICK h \in [Seconds -> Nat] : h = ledger.late
      BY <1>13
    <3>3. IsFiniteSet(S) /\ r \notin S /\ h[s] = Cardinality(S)
      BY <1>21, <2>1, <3>1, <3>2
    <3>4. [h EXCEPT ![b] = @ + IF on THEN 1 ELSE 0][s] = Cardinality(IF on /\ b = s THEN S \cup {r} ELSE S)
      BY <1>9, <1>12, <3>3, OneMore
    <3> QED
      BY <1>15, <3>1, <3>2, <3>4
  <2>5. (IF TRUE /\ b = s THEN Within(s) \cup {r} ELSE Within(s)) = Within(s)'
    BY <1>21
  <2>6. (IF on /\ b = s THEN HeldBack(s) \cup {r} ELSE HeldBack(s)) = HeldBack(s)'
    BY <1>21
  <2> QED
    BY <2>2, <2>3, <2>4, <2>5, <2>6
<1>23. LedgerSound'
  <2>1. Seconds' = Seconds /\ \A s : Kept(s)' <=> Kept(s)
    BY <1>4 DEF Seconds, Kept, Unix, Bucket
  <2> QED
    BY <1>10, <1>22, <2>1 DEF LedgerSound
<1>24. LedgerTypeOK'
  BY <1>3, <1>4, <1>20 DEF LedgerTypeOK, Seconds, Bucket
<1> QED
  BY <1>8, <1>23, <1>24 DEF LedgerInv

\* The steps of a request that leave the ledger alone.
LEMMA RequestLedger ==
  ASSUME ServerTypeOK, LedgerInv, NEW r \in Requests,
         Shed(r) \/ Admit(r) \/ Finish(r) \/ WriteRows(r) \/ Observe(r)
  PROVE  LedgerInv'
<1> DEFINE q == request[r]
<1>1. /\ q \in Request /\ request \in [Requests -> Request] /\ q.stored \in BOOLEAN /\ q.held \in BOOLEAN
      /\ q.at \in Positions /\ now \in Nat
  BY RequestFields DEF ServerTypeOK
<1>2. UNCHANGED <<now, ledger>>
  BY DEF Shed, Admit, Finish, WriteRows, Observe
<1>3. /\ q.at \in Unstored => ~q.stored
      /\ q.at = "account" => q.stored
      /\ q.stored \/ q.at \in {"held", "write"} => q.instant \in Nat /\ q.instant <= now
  BY DEF LedgerInv, RequestSound
<1>4. ASSUME NEW at \in Positions, request' = [request EXCEPT ![r] = [q EXCEPT !.at = at]],
             \/ q.at = "new" /\ at \in {"run", "shed"}
             \/ q.at \in {"held", "write"} /\ at \in {"done", "observe"}
             \/ q.at = "observe" /\ at = "done"
      PROVE  LedgerInv'
  <2>1. PICK x : x = [q EXCEPT !.at = at]
    OBVIOUS
  <2>2. x.at = at /\ x.stored = q.stored /\ x.instant = q.instant /\ x.held = q.held
    BY <1>1, <2>1 DEF Request
  <2>3. x \in Request
    BY <1>1, <2>1 DEF Request
  <2>4. request' = [request EXCEPT ![r] = x]
    BY <1>4, <2>1
  <2>5. /\ x.at \in Unstored => ~x.stored
        /\ x.at = "account" => x.stored
        /\ x.stored \/ x.at \in {"held", "write"} => x.instant \in Nat /\ x.instant <= now
        /\ (x.stored /\ x.at # "account") <=> (q.stored /\ q.at # "account")
    BY <1>3, <1>4, <2>2 DEF Unstored
  <2> QED
    BY <1>2, <2>2, <2>3, <2>4, <2>5, RequestKept
<1>5. CASE Shed(r) \/ Admit(r)
  <2>1. PICK at \in {"run", "shed"} : q.at = "new" /\ request' = [request EXCEPT ![r] = [q EXCEPT !.at = at]]
    BY <1>1, <1>5 DEF Shed, Admit, Arrives
  <2> QED
    BY <1>4, <2>1 DEF Positions
<1>6. CASE Observe(r)
  <2>1. q.at = "observe" /\ request' = [request EXCEPT ![r] = [q EXCEPT !.at = "done"]]
    BY <1>1, <1>6 DEF Observe
  <2> QED
    BY <1>4, <2>1 DEF Positions
<1>7. CASE Finish(r)
  <2>1. q.at = "run" /\ ~q.stored /\ now \in Times
    BY <1>1, <1>3, <1>7 DEF Finish, Unstored, Times
  <2>2. ASSUME NEW x \in Request, request' = [request EXCEPT ![r] = x], x.at \in {"held", "write"}, x.instant = now,
               x.stored = q.stored
        PROVE  LedgerInv'
    <3>1. /\ x.at \in Unstored => ~x.stored
          /\ x.at = "account" => x.stored
          /\ x.stored \/ x.at \in {"held", "write"} => x.instant \in Nat /\ x.instant <= now
          /\ (x.stored /\ x.at # "account") <=> (q.stored /\ q.at # "account")
          /\ ~q.stored
      BY <1>1, <2>1, <2>2
    <3> QED
      BY <1>2, <2>2, <3>1, RequestKept
  <2>3. CASE holding
    <3>1. PICK x : x = [q EXCEPT !.at = "held", !.instant = now, !.held = TRUE]
      OBVIOUS
    <3>2. request' = [request EXCEPT ![r] = x]
      BY <1>1, <1>7, <2>3, <3>1 DEF Finish
    <3>3. x \in Request
      BY <1>1, <2>1, <3>1 DEF Request, Positions
    <3>4. x.at = "held" /\ x.instant = now /\ x.stored = q.stored
      BY <1>1, <3>1 DEF Request
    <3> QED
      BY <2>2, <3>2, <3>3, <3>4
  <2>4. CASE ~holding
    <3>1. PICK x : x = [q EXCEPT !.at = "write", !.instant = now]
      OBVIOUS
    <3>2. request' = [request EXCEPT ![r] = x]
      BY <1>1, <1>7, <2>4, <3>1 DEF Finish
    <3>3. x \in Request
      BY <1>1, <2>1, <3>1 DEF Request, Positions
    <3>4. x.at = "write" /\ x.instant = now /\ x.stored = q.stored
      BY <1>1, <3>1 DEF Request
    <3> QED
      BY <2>2, <3>2, <3>3, <3>4
  <2> QED
    BY <2>3, <2>4
<1>8. CASE WriteRows(r)
  <2>1. q.at \in {"write", "held"}
    BY <1>8 DEF WriteRows
  <2>2. CASE request' = [request EXCEPT ![r] = [@ EXCEPT !.at = "account", !.stored = TRUE]]
    <3>1. PICK x : x = [q EXCEPT !.at = "account", !.stored = TRUE]
      OBVIOUS
    <3>2. request' = [request EXCEPT ![r] = x]
      BY <1>1, <2>2, <3>1
    <3>3. x \in Request
      BY <1>1, <3>1 DEF Request, Positions
    <3>4. x.at = "account" /\ x.instant = q.instant /\ x.stored /\ x.held = q.held
      BY <1>1, <3>1 DEF Request
    <3>5. /\ x.at \in Unstored => ~x.stored
          /\ x.at = "account" => x.stored
          /\ x.stored \/ x.at \in {"held", "write"} => x.instant \in Nat /\ x.instant <= now
          /\ (x.stored /\ x.at # "account") <=> (q.stored /\ q.at # "account")
      BY <1>3, <2>1, <3>4 DEF Unstored
    <3> QED
      BY <1>2, <3>2, <3>3, <3>4, <3>5, RequestKept
  <2>3. CASE request' = [request EXCEPT ![r].at = IF @ = "held" THEN "done" ELSE "observe"]
    <3>1. PICK at \in {"done", "observe"} : request' = [request EXCEPT ![r] = [q EXCEPT !.at = at]]
      <4>1. PICK at : at = IF q.at = "held" THEN "done" ELSE "observe"
        OBVIOUS
      <4>2. request' = [request EXCEPT ![r] = [q EXCEPT !.at = at]] /\ at \in {"done", "observe"}
        BY <1>1, <2>3, <4>1
      <4> QED
        BY <4>2
    <3> QED
      BY <1>4, <2>1, <3>1 DEF Positions
  <2> QED
    BY <1>8, <2>2, <2>3 DEF WriteRows
<1> QED
  BY <1>5, <1>6, <1>7, <1>8

LEMMA LedgerNext == ServerTypeOK /\ LedgerInv /\ [ServerNext]_server => LedgerInv'
<1> SUFFICES ASSUME ServerTypeOK, LedgerInv, [ServerNext]_server PROVE LedgerInv'
  OBVIOUS
<1>1. now \in Nat /\ now <= MaxTime
  BY DEF ServerTypeOK, LedgerInv, LedgerTypeOK
<1>2. ASSUME UNCHANGED <<request, ledger>>, now' \in Nat, now <= now', now' <= MaxTime
      PROVE  LedgerInv'
  <2>1. \A r \in Requests : RequestSound(r)'
    BY <1>1, <1>2 DEF LedgerInv, RequestSound
  <2>2. Accounted' = Accounted
    BY <1>2 DEF Accounted
  <2> QED
    BY <1>2, <2>1, <2>2, LedgerKept
<1>3. CASE Begin \/ Flush \/ EndRun \/ ReportFlush \/ CommitDelay \/ UNCHANGED server
  <2>1. UNCHANGED <<now, request, ledger>>
    BY <1>3 DEF Begin, Flush, EndRun, ReportFlush, CommitDelay, server
  <2> QED
    BY <1>1, <1>2, <2>1
<1>4. CASE Tick
  <2>1. UNCHANGED <<request, ledger>> /\ now < MaxTime /\ now' = now + 1
    BY <1>4 DEF Tick
  <2>2. now' \in Nat /\ now <= now' /\ now' <= MaxTime
    BY <1>1, <2>1, ServerNumbers
  <2> QED
    BY <1>2, <2>1, <2>2
<1>5. CASE \E r \in Requests : Account(r)
  BY <1>5, AccountKeeps
<1>6. CASE \E r \in Requests : Shed(r) \/ Admit(r) \/ Finish(r) \/ WriteRows(r) \/ Observe(r)
  BY <1>6, RequestLedger
<1> QED
  BY <1>3, <1>4, <1>5, <1>6 DEF ServerNext

\* What the ledger knows of the committed rows, second by second, as far back as
\* a prune leaves it.
THEOREM LedgerInvariant == ServerSpec => []LedgerInv
<1>1. ServerInit => LedgerInv
  BY LedgerInit
<1>2. ServerTypeOK /\ LedgerInv /\ [ServerNext]_server => LedgerInv'
  BY LedgerNext
<1>3. ServerSpec => []ServerTypeOK
  <2>1. CountsInv => ServerTypeOK
    BY DEF CountsInv
  <2> QED
    BY <2>1, CountsInvariant, PTL
<1> QED
  BY <1>1, <1>2, <1>3, PTL DEF ServerSpec

\* What Count adds up over a window of seconds that a prune has not reached.
LEMMA CountedExactly ==
  ASSUME LedgerInv, NEW from \in Nat, NEW to \in Nat, now \in Nat, now - from <= Reach,
         NEW f \in [Seconds -> Nat], NEW R \in SUBSET Accounted,
         \A s \in Seconds : Kept(s) => f[s] = Cardinality({r \in R : Bucket(request[r].instant) = s})
  PROVE  Counted(f, from, to) = Cardinality({r \in R : /\ request[r].instant > Unix(from) * PerSecond
                                                       /\ request[r].instant <= Unix(to) * PerSecond})
<1>1. PICK u : u = Unix(from)
  OBVIOUS
<1>2. PICK v : v = Unix(to)
  OBVIOUS
<1>3. u \in Int /\ v \in Int
  BY <1>1, <1>2, UnixGrows
<1>4. PICK S : S = {s \in Seconds : u < s /\ s <= v}
  OBVIOUS
<1>5. PICK b : b = [r \in R |-> Bucket(request[r].instant)]
  OBVIOUS
<1>6. IsFiniteSet(R) /\ IsFiniteSet(S)
  <2>1. IsFiniteSet(Seconds)
    <3>1. Bucket(MaxTime) \in Int
      BY BucketAfter, ServerNumbers
    <3> QED
      BY <3>1, FS_Interval DEF Seconds
  <2> QED
    BY <1>4, <2>1, FS_Subset DEF LedgerInv, LedgerSound
<1>7. \A s \in S : Kept(s)
  <2>1. PICK w \in Int : w = now - Retention
    BY ServerNumbers
  <2>2. w <= from
    BY <2>1, ServerNumbers
  <2>3. Unix(w) <= u /\ Unix(w) \in Int
    BY <1>1, <2>2, UnixGrows
  <2>4. \A s \in S : s \in Int /\ u < s
    BY <1>4 DEF Seconds
  <2>5. \A s \in S : s >= Unix(w)
    BY <1>3, <2>3, <2>4
  <2> QED
    BY <2>1, <2>5 DEF Kept
<1>8. \A s \in S : f[s] = Cardinality({r \in R : b[r] = s})
  <2>1. \A s : {r \in R : b[r] = s} = {r \in R : Bucket(request[r].instant) = s}
    BY <1>5
  <2>2. \A s \in S : s \in Seconds
    BY <1>4
  <2> QED
    BY <1>7, <2>1, <2>2
<1>9. Sum(f, S) = Cardinality({r \in R : b[r] \in S})
  BY <1>6, <1>8, SumOfCounts
<1>10. Counted(f, from, to) = Sum(f, S)
  <2>1. {s \in DOMAIN f : Unix(from) < s /\ s <= Unix(to)} = S
    BY <1>1, <1>2, <1>4
  <2> QED
    BY <2>1 DEF Counted, Sum
<1>11. ASSUME NEW r \in R
       PROVE  b[r] \in S <=> request[r].instant > u * PerSecond /\ request[r].instant <= v * PerSecond
  <2>1. r \in Requests /\ request[r].stored
    BY DEF Accounted
  <2>2. PICK t : t = request[r].instant
    OBVIOUS
  <2>3. t \in Nat /\ t <= now
    BY <2>1, <2>2 DEF LedgerInv, RequestSound
  <2>4. t <= MaxTime
    BY <2>3, ServerNumbers DEF LedgerInv, LedgerTypeOK
  <2>5. Bucket(t) \in Seconds /\ Bucket(t) \in Int
    BY <2>3, <2>4, BucketIn, BucketAfter, <1>3
  <2>6. /\ u < Bucket(t) <=> t > u * PerSecond
        /\ v < Bucket(t) <=> t > v * PerSecond
    BY <1>3, <2>3, BucketAfter
  <2>7. u * PerSecond \in Int /\ v * PerSecond \in Int
    BY <1>3, ServerNumbers
  <2>8. Bucket(t) <= v <=> ~(v < Bucket(t))
    BY <1>3, <2>5
  <2>9. t <= v * PerSecond <=> ~(t > v * PerSecond)
    BY <2>3, <2>7
  <2>10. b[r] = Bucket(t)
    BY <1>5, <2>2
  <2> QED
    BY <1>4, <2>2, <2>5, <2>6, <2>8, <2>9, <2>10
<1>12. {r \in R : b[r] \in S} = {r \in R : /\ request[r].instant > Unix(from) * PerSecond
                                           /\ request[r].instant <= Unix(to) * PerSecond}
  BY <1>1, <1>2, <1>11
<1> QED
  BY <1>9, <1>10, <1>12

\* For every window within MaxDeliveryReach the ledger counts the committed rows
\* whose Instant is in it, and which of them were held back, however late they
\* were committed and whatever prune took (Ledger.Add, prune, Count).
THEOREM LedgerIsExact == ServerSpec => []LedgerExact
<1>1. ServerTypeOK /\ LedgerInv => LedgerExact
  <2> SUFFICES ASSUME ServerTypeOK, LedgerInv, NEW from \in 0..now, NEW to \in from..now, now - from <= Reach
               PROVE  LET inside == {r \in Requests :
                               /\ request[r].stored /\ request[r].at # "account"
                               /\ request[r].instant > Unix(from) * PerSecond
                               /\ request[r].instant <= Unix(to) * PerSecond} IN
                      /\ Counted(ledger.rows, from, to) = Cardinality(inside)
                      /\ Counted(ledger.late, from, to) = Cardinality({r \in inside : request[r].held})
    BY DEF LedgerExact
  <2> DEFINE inside == {r \in Requests : /\ request[r].stored /\ request[r].at # "account"
                                          /\ request[r].instant > Unix(from) * PerSecond
                                          /\ request[r].instant <= Unix(to) * PerSecond}
  <2>1. now \in Nat /\ from \in Nat /\ to \in Nat
    BY DEF ServerTypeOK
  <2>2. ledger.rows \in [Seconds -> Nat] /\ ledger.late \in [Seconds -> Nat]
    BY DEF LedgerInv, LedgerTypeOK
  <2>3. Counted(ledger.rows, from, to) = Cardinality(inside)
    <3>1. PICK R : R = Accounted
      OBVIOUS
    <3>2. \A s \in Seconds : Kept(s) => ledger.rows[s] = Cardinality({r \in R : Bucket(request[r].instant) = s})
      BY <3>1 DEF LedgerInv, LedgerSound, Within
    <3>3. Counted(ledger.rows, from, to) = Cardinality({r \in R : /\ request[r].instant > Unix(from) * PerSecond
                                                                  /\ request[r].instant <= Unix(to) * PerSecond})
      <4>1. R \in SUBSET Accounted
        BY <3>1
      <4>2. PICK f \in [Seconds -> Nat] : f = ledger.rows
        BY <2>2
      <4>3. \A s \in Seconds : Kept(s) => f[s] = Cardinality({r \in R : Bucket(request[r].instant) = s})
        BY <3>2, <4>2
      <4>4. Counted(f, from, to) = Cardinality({r \in R : /\ request[r].instant > Unix(from) * PerSecond
                                                         /\ request[r].instant <= Unix(to) * PerSecond})
        BY <2>1, <4>1, <4>3, CountedExactly
      <4> QED
        BY <4>2, <4>4
    <3>4. {r \in R : /\ request[r].instant > Unix(from) * PerSecond
                     /\ request[r].instant <= Unix(to) * PerSecond} = inside
      BY <3>1 DEF Accounted
    <3> QED
      BY <3>3, <3>4
  <2>4. Counted(ledger.late, from, to) = Cardinality({r \in inside : request[r].held})
    <3>1. PICK R : R = {r \in Accounted : request[r].held}
      OBVIOUS
    <3>2. \A s : {r \in R : Bucket(request[r].instant) = s} = HeldBack(s)
      BY <3>1 DEF HeldBack, Within
    <3>3. \A s \in Seconds : Kept(s) => ledger.late[s] = Cardinality({r \in R : Bucket(request[r].instant) = s})
      BY <3>2 DEF LedgerInv, LedgerSound
    <3>4. Counted(ledger.late, from, to) = Cardinality({r \in R : /\ request[r].instant > Unix(from) * PerSecond
                                                                  /\ request[r].instant <= Unix(to) * PerSecond})
      <4>1. R \in SUBSET Accounted
        BY <3>1
      <4>2. PICK f \in [Seconds -> Nat] : f = ledger.late
        BY <2>2
      <4>3. \A s \in Seconds : Kept(s) => f[s] = Cardinality({r \in R : Bucket(request[r].instant) = s})
        BY <3>3, <4>2
      <4>4. Counted(f, from, to) = Cardinality({r \in R : /\ request[r].instant > Unix(from) * PerSecond
                                                         /\ request[r].instant <= Unix(to) * PerSecond})
        BY <2>1, <4>1, <4>3, CountedExactly
      <4> QED
        BY <4>2, <4>4
    <3>5. {r \in R : /\ request[r].instant > Unix(from) * PerSecond
                     /\ request[r].instant <= Unix(to) * PerSecond} = {r \in inside : request[r].held}
      BY <3>1 DEF Accounted
    <3> QED
      BY <3>4, <3>5
  <2> QED
    BY <2>3, <2>4
<1>2. ServerSpec => []ServerTypeOK
  <2>1. CountsInv => ServerTypeOK
    BY DEF CountsInv
  <2> QED
    BY <2>1, CountsInvariant, PTL
<1> QED
  BY <1>1, <1>2, LedgerInvariant, PTL

-----------------------------------------------------------------------------
(***************************************************************************)
(* ChecksInWindow and JournalFaithful of ScenarioRunner, for any scenario  *)
(* directory and any number of journals kept.                              *)
(*                                                                         *)
(* The steps that have ended are those before the run's step, so a check's *)
(* window is open when its anchor says so (StepsSound, CheckSound).  What  *)
(* the journal says of a step depends on that step and the run's phase     *)
(* alone (SaysOfStep).  What it says of an outage is right because at most *)
(* one request waits, the agent is busy with that one or with a run that is*)
(* over, and no answer it has given is for a request it still works on     *)
(* (DelegateSound, HostSound): a late answer finds nothing that waits.     *)
(***************************************************************************)

-----------------------------------------------------------------------------
(* Scenarios and runs: ChecksInWindow and JournalFaithful.                 *)

NoScenario == [steps |-> <<>>, signals |-> <<>>]
Scenarios == LoadDir \cup {NoScenario}

Checking == [at : {"anchor", "opened", "eval", "done"}, polls : Nat,
             result : {"pending", "pass", "fail", "skipped"}]
FaultSaid == {"none", "on", "off", "error"}
CheckSaid == {"none", "pass", "fail", "skipped"}
Tables(S) == UNION {[1 .. n -> S] : n \in Nat}
States == {"none", "stopped", "error", "failed", "passed"}
Phases == {"off", "next", "starting", "sleep", "stopping", "drain", "judge", "ended"}

Runs == [id : Nat, scenario : Scenarios, pc : Phases, step : Nat,
         stopped : BOOLEAN, canceled : BOOLEAN, err : {"none", "fault", "detached"}, state : States,
         began : SUBSET Nat, ended : SUBSET Nat, checks : Tables(Checking)]
Journals == [start : BOOLEAN, faults : Tables(FaultSaid), checks : Tables(CheckSaid), end : States \cup {None},
             late : BOOLEAN, broken : BOOLEAN]
FaultRequests == [id : Nat, action : {"none", "start", "stop"}, type : Kinds]
Delegates == [attached : BOOLEAN, seq : Nat, pending : FaultRequests, done : {"none", "ok", "fault", "detached"}]
Injectors == [rules : SUBSET Nat, running : Nat, published : Nat, previous : Nat]
Hosts == [pc : {"off", "poll", "apply", "answer", "detach", "stop", "waits", "restore"}, run : Nat, answered : Nat,
          req : FaultRequests, ok : BOOLEAN, outage : BOOLEAN, byHand : BOOLEAN]

RunTypeOK ==
    /\ process \in {"up", "ending", "gone"} /\ current \in BOOLEAN
    /\ run \in Runs
    /\ current <=> run.pc # "off"
    /\ process = "gone" => run.pc = "off"
    /\ run.pc = "off" => run.scenario = NoScenario
    /\ run.pc # "off" => run.scenario \in LoadDir
    /\ run.checks \in [Signals(run.scenario) -> Checking]

\* The steps that have ended are those before the run's step, which may have begun.
StepsSound ==
    run.pc # "off" =>
       /\ run.step \in 1 .. Len(run.scenario.steps) + 1
       /\ run.ended = 1 .. (run.step - 1)
       /\ run.ended \subseteq run.began /\ run.began \subseteq 1 .. run.step
       /\ run.pc \in {"starting", "sleep", "stopping"} => run.step <= Len(run.scenario.steps)
       /\ run.pc \in {"sleep", "stopping"} => run.step \in run.began
       /\ run.pc \in {"starting", "stopping"} => Kind \in Cluster
       /\ run.pc = "stopping" => Kind = "outage"

\* A check that was evaluated had its anchor, and one that is skipped has a reason.
CheckSound(i) ==
    LET c == run.checks[i]  sig == run.scenario.signals[i] IN
    /\ c.at = "eval" \/ c.result \in {"pass", "fail"} => Opened(sig)
    /\ c.at = "done" <=> c.result # "pending"
    /\ c.result = "skipped" => Canceled

RunInv == RunTypeOK /\ StepsSound /\ \A i \in DOMAIN run.checks : CheckSound(i)

-----------------------------------------------------------------------------
\* How a run ends.
EndSound ==
    /\ run.canceled => run.stopped \/ run.err # "none"
    /\ run.pc \in {"drain", "judge", "ended"} => run.step > Len(run.scenario.steps) \/ Canceled
    /\ run.pc \in {"judge", "ended"} => ChecksDone
    /\ run.pc = "ended" /\ run.state = "passed" =>
          /\ run.step > Len(run.scenario.steps)
          /\ \A i \in DOMAIN run.checks : run.checks[i].result = "pass"

\* What the journal says of a step.
SaysOfStep(i) ==
    LET none == run.scenario.steps[i] = "none"  said == journal.faults[i] IN
    /\ i < run.step => said = IF none THEN "none" ELSE "off"
    /\ i > run.step => said = "none"
    /\ i = run.step => /\ run.pc \in {"next", "starting"} => said = "none"
                       /\ run.pc \in {"sleep", "stopping"} => said = IF none THEN "none" ELSE "on"
                       /\ run.pc \in {"drain", "judge", "ended"} => said \in {"none", "error"}

JournalSays ==
    /\ journal.start /\ ~journal.late
    /\ journal.end = IF run.pc = "ended" THEN run.state ELSE None
    /\ journal.faults \in [Steps(run.scenario) -> FaultSaid]
    /\ \A i \in Steps(run.scenario) : SaysOfStep(i)
    /\ journal.checks \in [Signals(run.scenario) -> CheckSaid]
    /\ \A i \in Signals(run.scenario) :
          journal.checks[i] = IF run.checks[i].at = "done" THEN run.checks[i].result ELSE "none"

JournalSound ==
    /\ journal \in Journals
    /\ files \subseteq 0 .. run.id
    /\ run.pc # "off" => run.id \in files
    /\ run.pc # "off" /\ ~journal.broken => JournalSays

\* The in-process faults that are on are those of the run's step.
Sleeping(kinds) == run.pc = "sleep" /\ Kind \in kinds
InjectorSound ==
    /\ injector \in Injectors
    /\ injector.rules = IF Sleeping(Rules) THEN {run.step} ELSE {}
    /\ IF Sleeping({"deploy"}) THEN injector.previous = 1 ELSE injector.running = 1

JournalInv == EndSound /\ JournalSound /\ InjectorSound

-----------------------------------------------------------------------------
\* The workload is as the request of the run's step asks.
AsAsked ==
    Kind = "outage" => /\ run.pc = "stopping" => workload = "up"
                       /\ run.pc = "starting" /\ AgentAttends => workload = "down"

\* The delegate: one request at a time, of a step that waits for it.
DelegateSound ==
    /\ delegate \in Delegates
    /\ delegate.pending # NoRequest =>
          /\ run.pc \in {"starting", "stopping"} /\ delegate.done = "none"
          /\ delegate.pending.id = delegate.seq /\ delegate.seq > 0
          /\ delegate.pending.type = Kind
          /\ delegate.pending.action = IF run.pc = "starting" THEN "start" ELSE "stop"
    /\ delegate.done # "none" => run.pc \in {"starting", "stopping"}
    /\ delegate.done = "ok" => AsAsked

\* The host agent acts for the request that waits, or for a run that is over, and
\* answers each request once.
HostSound ==
    /\ host \in Hosts /\ mail \in [id : Nat, ok : BOOLEAN] /\ workload \in {"up", "down"}
    /\ Alive => mail.id <= delegate.seq /\ host.answered <= delegate.seq /\ host.req.id <= delegate.seq
    /\ host.run <= run.id
    /\ host.pc \in {"apply", "answer"} => host.req.id > 0
    /\ NeedsAgent(run.scenario) => host.run = run.id \/ host.pc = "off"
    /\ current /\ host.run = run.id /\ host.pc \in {"apply", "answer"} =>
          /\ run.step <= Len(run.scenario.steps) /\ host.req.type = Kind
          /\ mail.id # host.req.id
          /\ \/ delegate.pending = host.req
             \/ run.pc \in {"drain", "judge", "ended"}
    /\ current /\ host.run = run.id /\ host.pc = "answer" /\ host.ok /\ delegate.pending = host.req => AsAsked
    /\ current /\ host.run = run.id /\ host.pc = "poll" /\ delegate.pending # NoRequest /\ mail.id = delegate.pending.id =>
          host.answered = mail.id
    /\ delegate.pending # NoRequest /\ mail.id = delegate.pending.id /\ mail.ok => AsAsked

\* An outage of the run's step, and one that has ended.
WorkloadSound ==
    /\ Sleeping({"outage"}) /\ AgentAttends => workload = "down"
    /\ \A i \in Steps(run.scenario) :
          run.pc # "off" /\ run.scenario.steps[i] = "outage" /\ i < run.step /\ ~Again(i) => workload = "up"

AgentInv == DelegateSound /\ HostSound /\ WorkloadSound

-----------------------------------------------------------------------------
(* What the actions make of the run, field by field.                       *)

LEMMA BeganRun ==
  ASSUME run \in Runs, run' = [run EXCEPT !.pc = "sleep", !.began = @ \cup {run.step}]
  PROVE  /\ run' \in Runs /\ run'.pc = "sleep" /\ run'.began = run.began \cup {run.step}
         /\ UNCHANGED <<run.id, run.scenario, run.step, run.stopped, run.canceled, run.err, run.state,
                        run.ended, run.checks>>
<1>1. PICK b : b = run.began \cup {run.step}
  OBVIOUS
<1>2. b \in SUBSET Nat /\ run' = [run EXCEPT !.pc = "sleep", !.began = b]
  BY <1>1 DEF Runs
<1>3. run' \in Runs
  BY <1>2 DEF Runs, Phases
<1> QED
  BY <1>1, <1>2, <1>3 DEF Runs

LEMMA FailedRun ==
  ASSUME run \in Runs, NEW e \in {"fault", "detached"}, run' = [run EXCEPT !.pc = "drain", !.err = e, !.canceled = TRUE]
  PROVE  /\ run' \in Runs /\ run'.pc = "drain" /\ run'.err = e /\ run'.canceled = TRUE
         /\ UNCHANGED <<run.id, run.scenario, run.step, run.stopped, run.state, run.began, run.ended, run.checks>>
<1>1. run' \in Runs
  BY DEF Runs, Phases
<1> QED
  BY <1>1 DEF Runs

LEMMA EndedRun ==
  ASSUME run \in Runs, run' = [run EXCEPT !.pc = "next", !.ended = @ \cup {run.step}, !.step = @ + 1]
  PROVE  /\ run' \in Runs /\ run'.pc = "next" /\ run'.ended = run.ended \cup {run.step} /\ run'.step = run.step + 1
         /\ UNCHANGED <<run.id, run.scenario, run.stopped, run.canceled, run.err, run.state, run.began, run.checks>>
<1>1. PICK b : b = run.ended \cup {run.step}
  OBVIOUS
<1>2. PICK n : n = run.step + 1
  OBVIOUS
<1>3. b \in SUBSET Nat /\ n \in Nat /\ run' = [run EXCEPT !.pc = "next", !.ended = b, !.step = n]
  BY <1>1, <1>2 DEF Runs
<1>4. run' \in Runs
  BY <1>3 DEF Runs, Phases
<1> QED
  BY <1>1, <1>2, <1>3, <1>4 DEF Runs

LEMMA MovedRun ==
  ASSUME run \in Runs, NEW pc \in Phases, run' = [run EXCEPT !.pc = pc]
  PROVE  /\ run' \in Runs /\ run'.pc = pc
         /\ UNCHANGED <<run.id, run.scenario, run.step, run.stopped, run.canceled, run.err, run.state,
                        run.began, run.ended, run.checks>>
<1>1. run' \in Runs
  BY DEF Runs
<1> QED
  BY <1>1 DEF Runs

LEMMA StoppedRun ==
  ASSUME run \in Runs, run' = [run EXCEPT !.stopped = TRUE, !.canceled = TRUE]
  PROVE  /\ run' \in Runs /\ run'.stopped = TRUE /\ run'.canceled = TRUE
         /\ UNCHANGED <<run.id, run.scenario, run.pc, run.step, run.err, run.state, run.began, run.ended, run.checks>>
<1>1. run' \in Runs
  BY DEF Runs
<1> QED
  BY <1>1 DEF Runs

LEMMA JudgedRun ==
  ASSUME run \in Runs, NEW s \in States, run' = [run EXCEPT !.pc = "ended", !.state = s]
  PROVE  /\ run' \in Runs /\ run'.pc = "ended" /\ run'.state = s
         /\ UNCHANGED <<run.id, run.scenario, run.step, run.stopped, run.canceled, run.err,
                        run.began, run.ended, run.checks>>
<1>1. run' \in Runs
  BY DEF Runs, Phases
<1> QED
  BY <1>1 DEF Runs

\* Tables are what sequences are here: functions on 1 .. n.
LEMMA TableIs == ASSUME NEW S, NEW n \in Nat, NEW f \in [1 .. n -> S] PROVE f \in Tables(S)
BY DEF Tables

LEMMA ScenarioShape ==
  ASSUME NEW s \in Scenarios
  PROVE  /\ Len(s.steps) \in Nat /\ Len(s.signals) \in Nat
         /\ \A i \in Steps(s) : s.steps[i] \in Kinds
         /\ \A i \in Signals(s) : s.signals[i] \in Signal
<1>1. CASE s \in LoadDir
  <2>1. s.steps \in Seq(Kinds) /\ s.signals \in Seq(Signal)
    BY <1>1, RunnerAssumptions DEF LoadDir
  <2> QED
    BY <2>1 DEF Steps, Signals
<1>2. CASE s = NoScenario
  <2>1. s.steps = <<>> /\ s.signals = <<>>
    BY <1>2 DEF NoScenario
  <2>2. Len(s.steps) = 0 /\ Len(s.signals) = 0
    BY <2>1
  <2> QED
    BY <2>2 DEF Steps, Signals
<1> QED
  BY <1>1, <1>2 DEF Scenarios

LEMMA CheckedRun ==
  ASSUME run \in Runs, run.checks \in [Signals(run.scenario) -> Checking],
         NEW i \in Signals(run.scenario), NEW c \in Checking, Check(i, c)
  PROVE  /\ run' \in Runs /\ run'.checks = [run.checks EXCEPT ![i] = c]
         /\ run'.checks \in [Signals(run.scenario) -> Checking]
         /\ UNCHANGED <<run.id, run.scenario, run.pc, run.step, run.stopped, run.canceled, run.err, run.state,
                        run.began, run.ended>>
<1>1. PICK f : f = [run.checks EXCEPT ![i] = c]
  OBVIOUS
<1>2. run' = [run EXCEPT !.checks = f]
  BY <1>1 DEF Check, Runs
<1>3. f \in [Signals(run.scenario) -> Checking]
  BY <1>1
<1>4. f \in Tables(Checking)
  <2>1. Len(run.scenario.signals) \in Nat
    BY ScenarioShape DEF Runs
  <2> QED
    BY <1>3, <2>1, TableIs DEF Signals
<1>5. run' \in Runs
  BY <1>2, <1>4 DEF Runs
<1> QED
  BY <1>1, <1>2, <1>3, <1>5 DEF Runs

\* A run that starts, and one that is over.
LEMMA IdleRun ==
    /\ Idle.id = 0 /\ Idle.scenario = NoScenario /\ Idle.pc = "off" /\ Idle.step = 0
    /\ Idle.stopped = FALSE /\ Idle.canceled = FALSE /\ Idle.err = "none" /\ Idle.state = "none"
    /\ Idle.began = {} /\ Idle.ended = {} /\ Idle.checks = <<>>
    /\ Idle \in Runs /\ Idle.checks \in [Signals(NoScenario) -> Checking]
<1>1. <<>> \in [1 .. 0 -> Checking]
  OBVIOUS
<1>2. <<>> \in Tables(Checking)
  BY <1>1, TableIs
<1>3. Signals(NoScenario) = 1 .. 0
  <2>1. NoScenario.signals = <<>>
    BY DEF NoScenario
  <2>2. Len(<<>>) = 0
    OBVIOUS
  <2> QED
    BY <2>1, <2>2 DEF Signals
<1>4. Idle.checks = <<>> /\ Idle.scenario = NoScenario
  BY DEF Idle, NoScenario
<1>5. Idle \in Runs
  BY <1>2 DEF Idle, Runs, Scenarios, NoScenario, States, Phases
<1> QED
  BY <1>1, <1>3, <1>4, <1>5 DEF Idle

LEMMA StartedRun ==
  ASSUME NEW n \in Nat, NEW s \in LoadDir,
         run' = [Idle EXCEPT !.id = n, !.scenario = s, !.pc = "next", !.step = 1,
                             !.checks = [i \in Signals(s) |-> Pending]]
  PROVE  /\ run' \in Runs /\ run'.id = n /\ run'.scenario = s /\ run'.pc = "next" /\ run'.step = 1
         /\ run'.stopped = FALSE /\ run'.canceled = FALSE /\ run'.err = "none" /\ run'.state = "none"
         /\ run'.began = {} /\ run'.ended = {}
         /\ run'.checks = [i \in Signals(s) |-> Pending] /\ run'.checks \in [Signals(s) -> Checking]
<1>1. PICK f : f = [i \in Signals(s) |-> Pending]
  OBVIOUS
<1>2. f \in [Signals(s) -> Checking]
  BY <1>1 DEF Pending, Checking
<1>3. f \in Tables(Checking)
  <2>1. Len(s.signals) \in Nat
    BY ScenarioShape DEF Scenarios
  <2> QED
    BY <1>2, <2>1, TableIs DEF Signals
<1>4. run' = [Idle EXCEPT !.id = n, !.scenario = s, !.pc = "next", !.step = 1, !.checks = f]
  BY <1>1
<1>5. s \in Scenarios
  BY DEF Scenarios
<1>6. run' \in Runs
  <2>1. PICK a : a = [Idle EXCEPT !.id = n, !.scenario = s]
    OBVIOUS
  <2>2. a \in Runs
    BY <1>5, <2>1, IdleRun DEF Runs
  <2>3. PICK b : b = [a EXCEPT !.pc = "next", !.step = 1]
    OBVIOUS
  <2>4. b \in Runs
    BY <2>2, <2>3 DEF Runs, Phases
  <2>5. run' = [b EXCEPT !.checks = f]
    BY <1>4, <2>1, <2>3
  <2> QED
    BY <1>3, <2>4, <2>5 DEF Runs
<1>7. /\ run'.id = n /\ run'.scenario = s /\ run'.pc = "next" /\ run'.step = 1
      /\ run'.stopped = FALSE /\ run'.canceled = FALSE /\ run'.err = "none" /\ run'.state = "none"
      /\ run'.began = {} /\ run'.ended = {} /\ run'.checks = f
  BY <1>4, IdleRun DEF Runs
<1> QED
  BY <1>1, <1>2, <1>6, <1>7

LEMMA ReleasedRun ==
  ASSUME NEW n \in Nat, NEW s \in States, run' = [Idle EXCEPT !.id = n, !.state = s]
  PROVE  /\ run' \in Runs /\ run'.id = n /\ run'.scenario = NoScenario /\ run'.pc = "off" /\ run'.step = 0
         /\ run'.stopped = FALSE /\ run'.canceled = FALSE /\ run'.err = "none" /\ run'.state = s
         /\ run'.checks = <<>> /\ run'.checks \in [Signals(NoScenario) -> Checking]
<1>1. run' \in Runs
  BY IdleRun DEF Runs
<1>2. /\ run'.id = n /\ run'.scenario = NoScenario /\ run'.pc = "off" /\ run'.step = 0
      /\ run'.stopped = FALSE /\ run'.canceled = FALSE /\ run'.err = "none" /\ run'.state = s
      /\ run'.checks = <<>>
  BY IdleRun DEF Runs
<1> QED
  BY <1>1, <1>2, IdleRun

LEMMA CrashedRun ==
  ASSUME NEW n \in Nat, run' = [Idle EXCEPT !.id = n]
  PROVE  /\ run' \in Runs /\ run'.id = n /\ run'.scenario = NoScenario /\ run'.pc = "off" /\ run'.step = 0
         /\ run'.stopped = FALSE /\ run'.canceled = FALSE /\ run'.err = "none" /\ run'.state = "none"
         /\ run'.checks = <<>> /\ run'.checks \in [Signals(NoScenario) -> Checking]
<1>1. run' \in Runs
  BY IdleRun DEF Runs
<1>2. /\ run'.id = n /\ run'.scenario = NoScenario /\ run'.pc = "off" /\ run'.step = 0
      /\ run'.stopped = FALSE /\ run'.canceled = FALSE /\ run'.err = "none" /\ run'.state = "none"
      /\ run'.checks = <<>>
  BY IdleRun DEF Runs
<1> QED
  BY <1>1, <1>2, IdleRun

-----------------------------------------------------------------------------
(* The steps and the checks of a run.                                      *)

LEMMA RunInit == RunnerInit => RunInv
<1> SUFFICES ASSUME RunnerInit PROVE RunInv
  OBVIOUS
<1>1. run = Idle /\ process = "up" /\ current = FALSE
  BY DEF RunnerInit
<1>2. RunTypeOK
  BY <1>1, IdleRun DEF RunTypeOK
<1>3. StepsSound
  BY <1>1, IdleRun DEF StepsSound
<1>4. DOMAIN run.checks = {}
  BY <1>1, IdleRun
<1> QED
  BY <1>2, <1>3, <1>4 DEF RunInv

\* A check stays sound while steps begin and end.
LEMMA ChecksKept ==
  ASSUME RunInv, UNCHANGED <<run.scenario, run.checks>>,
         run.began \subseteq run'.began, run.ended \subseteq run'.ended, Canceled => Canceled'
  PROVE  \A i \in DOMAIN run'.checks : CheckSound(i)'
<1> SUFFICES ASSUME NEW i \in DOMAIN run.checks PROVE CheckSound(i)'
  OBVIOUS
<1>1. CheckSound(i)
  BY DEF RunInv
<1> QED
  BY <1>1 DEF CheckSound, Opened

\* What stays of a run's type while its scenario and its checks do.
LEMMA TypeKept ==
  ASSUME RunInv, run' \in Runs, UNCHANGED <<process, current, run.scenario, run.checks>>,
         run.pc # "off", run'.pc # "off"
  PROVE  RunTypeOK'
BY DEF RunInv, RunTypeOK

\* A run's numbers, in a run that has started.
LEMMA RunNumbers ==
  ASSUME RunInv, run.pc # "off"
  PROVE  /\ run \in Runs /\ run.scenario \in LoadDir /\ run.step \in Nat /\ run.step # 0
         /\ Len(run.scenario.steps) \in Nat /\ run.step <= Len(run.scenario.steps) + 1
         /\ Steps(run.scenario) = 1 .. Len(run.scenario.steps)
         /\ Signals(run.scenario) = 1 .. Len(run.scenario.signals) /\ Len(run.scenario.signals) \in Nat
         /\ \A i \in Steps(run.scenario) : run.scenario.steps[i] \in Kinds
         /\ DOMAIN run.checks = Signals(run.scenario)
<1>1. run \in Runs /\ run.scenario \in LoadDir /\ run.scenario \in Scenarios
      /\ DOMAIN run.checks = Signals(run.scenario)
  BY DEF RunInv, RunTypeOK, Scenarios
<1>2. /\ Len(run.scenario.steps) \in Nat /\ Len(run.scenario.signals) \in Nat
      /\ \A i \in Steps(run.scenario) : run.scenario.steps[i] \in Kinds
  BY <1>1, ScenarioShape
<1>3. run.step \in 1 .. Len(run.scenario.steps) + 1
  BY DEF RunInv, StepsSound
<1> QED
  BY <1>1, <1>2, <1>3 DEF Steps, Signals

LEMMA BeganKeeps ==
  ASSUME RunInv, run.pc \in {"next", "starting"}, run.step <= Len(run.scenario.steps), UNCHANGED <<process, current>>,
         run' = [run EXCEPT !.pc = "sleep", !.began = @ \cup {run.step}]
  PROVE  RunInv'
<1>1. run.pc # "off" /\ run \in Runs
  BY DEF RunInv, RunTypeOK
<1>2. /\ run' \in Runs /\ run'.pc = "sleep" /\ run'.began = run.began \cup {run.step}
      /\ UNCHANGED <<run.id, run.scenario, run.step, run.canceled, run.ended, run.checks>>
  BY <1>1, BeganRun
<1>3. RunTypeOK'
  BY <1>1, <1>2, TypeKept
<1>4. StepsSound'
  <2>1. /\ run.step \in 1 .. Len(run.scenario.steps) + 1 /\ run.ended = 1 .. (run.step - 1)
        /\ run.ended \subseteq run.began /\ run.began \subseteq 1 .. run.step
    BY <1>1 DEF RunInv, StepsSound
  <2>2. run.step \in Nat /\ run.step # 0
    BY <1>1, RunNumbers
  <2>3. run.step \in 1 .. run.step
    BY <2>2
  <2>4. run'.ended \subseteq run'.began /\ run'.began \subseteq 1 .. run'.step
    BY <1>2, <2>1, <2>3
  <2> QED
    BY <1>2, <2>1, <2>4 DEF StepsSound
<1>5. \A i \in DOMAIN run'.checks : CheckSound(i)'
  BY <1>2, ChecksKept DEF Canceled
<1> QED
  BY <1>3, <1>4, <1>5 DEF RunInv

LEMMA EndedKeeps ==
  ASSUME RunInv, run.pc \in {"sleep", "stopping"}, UNCHANGED <<process, current>>,
         run' = [run EXCEPT !.pc = "next", !.ended = @ \cup {run.step}, !.step = @ + 1]
  PROVE  RunInv'
<1>1. run.pc # "off" /\ run \in Runs
  BY DEF RunInv, RunTypeOK
<1>2. /\ run' \in Runs /\ run'.pc = "next" /\ run'.ended = run.ended \cup {run.step} /\ run'.step = run.step + 1
      /\ UNCHANGED <<run.id, run.scenario, run.canceled, run.began, run.checks>>
  BY <1>1, EndedRun
<1>3. RunTypeOK'
  BY <1>1, <1>2, TypeKept
<1>4. StepsSound'
  <2>1. /\ run.ended = 1 .. (run.step - 1) /\ run.step <= Len(run.scenario.steps)
        /\ run.ended \subseteq run.began /\ run.began \subseteq 1 .. run.step /\ run.step \in run.began
    BY <1>1 DEF RunInv, StepsSound
  <2>2. run.step \in Nat /\ run.step # 0 /\ Len(run.scenario.steps) \in Nat
    BY <1>1, RunNumbers
  <2>3. run'.step \in 1 .. Len(run.scenario.steps) + 1
    BY <1>2, <2>1, <2>2
  <2>4. 1 .. (run.step - 1) \cup {run.step} = 1 .. ((run.step + 1) - 1)
    BY <2>2
  <2>5. run'.ended = 1 .. (run'.step - 1)
    BY <1>2, <2>1, <2>4
  <2>6. 1 .. run.step \subseteq 1 .. (run.step + 1)
    BY <2>2
  <2>7. run'.ended \subseteq run'.began /\ run'.began \subseteq 1 .. run'.step
    BY <1>2, <2>1, <2>6
  <2> QED
    BY <1>2, <2>3, <2>5, <2>7 DEF StepsSound
<1>5. \A i \in DOMAIN run'.checks : CheckSound(i)'
  BY <1>2, ChecksKept DEF Canceled
<1> QED
  BY <1>3, <1>4, <1>5 DEF RunInv

\* The run goes on in another phase, with its steps as they are.
LEMMA PhaseKeeps ==
  ASSUME RunInv, run.pc # "off", run' \in Runs, run'.pc # "off",
         UNCHANGED <<current, run.scenario, run.step, run.began, run.ended, run.checks>>,
         process' \in {"up", "ending"}, Canceled => Canceled',
         \/ run'.pc \in {"drain", "judge", "ended"} \/ run'.pc = run.pc
         \/ run'.pc = "starting" /\ run.step <= Len(run.scenario.steps) /\ Kind \in Cluster
         \/ run'.pc = "stopping" /\ run.pc = "sleep" /\ Kind = "outage"
  PROVE  RunInv'
<1>1. RunTypeOK'
  BY DEF RunInv, RunTypeOK
<1>2. StepsSound'
  BY DEF RunInv, StepsSound, Kind, Cluster
<1>3. \A i \in DOMAIN run'.checks : CheckSound(i)'
  BY ChecksKept
<1> QED
  BY <1>1, <1>2, <1>3 DEF RunInv

\* A run starts, or there is none.
LEMMA StartKeeps ==
  ASSUME RunInv, NEW s \in LoadDir, NEW agent \in BOOLEAN, StartWith(s, agent)
  PROVE  RunInv'
<1>1. /\ process = "up" /\ UNCHANGED process /\ current' = TRUE
      /\ run' = [Idle EXCEPT !.id = run.id + 1, !.scenario = s, !.pc = "next", !.step = 1,
                             !.checks = [i \in Signals(s) |-> Pending]]
  BY DEF StartWith
<1>2. PICK n \in Nat : n = run.id + 1
  BY DEF RunInv, RunTypeOK, Runs
<1>3. run' = [Idle EXCEPT !.id = n, !.scenario = s, !.pc = "next", !.step = 1,
                             !.checks = [i \in Signals(s) |-> Pending]]
  BY <1>1, <1>2
<1>4. /\ run' \in Runs /\ run'.scenario = s /\ run'.pc = "next" /\ run'.step = 1
      /\ run'.began = {} /\ run'.ended = {}
      /\ run'.checks = [i \in Signals(s) |-> Pending] /\ run'.checks \in [Signals(s) -> Checking]
  BY <1>3, StartedRun
<1>5. RunTypeOK'
  BY <1>1, <1>4 DEF RunTypeOK, Signals
<1>6. StepsSound'
  <2>1. Len(s.steps) \in Nat
    BY ScenarioShape DEF Scenarios
  <2>2. 1 \in 1 .. Len(s.steps) + 1 /\ 1 .. (1 - 1) = {}
    BY <2>1
  <2> QED
    BY <1>4, <2>2 DEF StepsSound
<1>7. \A i \in DOMAIN run'.checks : CheckSound(i)'
  <2>1. \A i \in DOMAIN run'.checks : run'.checks[i] = Pending
    BY <1>4
  <2> QED
    BY <2>1 DEF CheckSound, Pending
<1> QED
  BY <1>5, <1>6, <1>7 DEF RunInv

LEMMA NoRunKeeps ==
  ASSUME run' \in Runs, run'.scenario = NoScenario, run'.pc = "off", run'.checks = <<>>, current' = FALSE,
         run'.checks \in [Signals(NoScenario) -> Checking], process' \in {"up", "ending", "gone"}
  PROVE  RunInv'
<1>1. RunTypeOK'
  BY DEF RunTypeOK, Signals
<1>2. StepsSound'
  BY DEF StepsSound
<1>3. DOMAIN run'.checks = {}
  OBVIOUS
<1> QED
  BY <1>1, <1>2, <1>3 DEF RunInv

\* A check is settled, or goes on: pointwise.
LEMMA CheckStepIs ==
  ASSUME RunInv, NEW i \in DOMAIN run.checks, CheckStep(i)
  PROVE  \E c \in Checking :
            /\ Check(i, c) /\ i \in Signals(run.scenario) /\ run.checks[i].at # "done" /\ run.pc # "off"
            /\ c.at = "eval" \/ c.result \in {"pass", "fail"} => Opened(run.scenario.signals[i])
            /\ c.at = "done" <=> c.result # "pending"
            /\ c.result = "skipped" => Canceled
            /\ \/ c.at # "done" /\ UNCHANGED journal
               \/ c.at = "done" /\ journal' \in Write([journal EXCEPT !.checks[i] = c.result])
            /\ UNCHANGED <<process, current, delegate, injector, files, outside>>
<1> DEFINE o == run.checks[i]
<1>1. /\ i \in Signals(run.scenario) /\ o \in Checking /\ CheckSound(i) /\ run.pc # "off"
      /\ UNCHANGED <<process, current, delegate, injector, files, outside>>
  <2>1. i \in Signals(run.scenario) /\ o \in Checking
    BY DEF RunInv, RunTypeOK
  <2>2. run.pc = "off" => run.scenario = NoScenario
    BY DEF RunInv, RunTypeOK
  <2>3. Signals(NoScenario) = {}
    BY DEF Signals, NoScenario
  <2> QED
    BY <2>1, <2>2, <2>3 DEF CheckStep, RunInv
<1>2. ASSUME NEW result \in {"pass", "fail", "skipped"}, Settle(i, result), o.at # "done",
             result = "skipped" => Canceled, result # "skipped" => Opened(run.scenario.signals[i])
      PROVE  \E c \in Checking :
            /\ Check(i, c) /\ c.at = "done" /\ c.result = result
            /\ journal' \in Write([journal EXCEPT !.checks[i] = c.result])
  <2>1. PICK c : c = [o EXCEPT !.at = "done", !.result = result]
    OBVIOUS
  <2>2. c.at = "done" /\ c.result = result
    BY <1>1, <2>1 DEF Checking
  <2>3. c \in Checking
    BY <1>1, <2>1 DEF Checking
  <2>4. Check(i, c) /\ journal' \in Write([journal EXCEPT !.checks[i] = result])
    BY <1>2, <2>1 DEF Settle
  <2> QED
    BY <2>2, <2>3, <2>4
<1>3. ASSUME NEW result \in {"pass", "fail", "skipped"}, Settle(i, result), o.at # "done",
             result = "skipped" => Canceled, result # "skipped" => Opened(run.scenario.signals[i])
      PROVE  \E c \in Checking :
            /\ Check(i, c) /\ i \in Signals(run.scenario) /\ run.checks[i].at # "done" /\ run.pc # "off"
            /\ c.at = "eval" \/ c.result \in {"pass", "fail"} => Opened(run.scenario.signals[i])
            /\ c.at = "done" <=> c.result # "pending"
            /\ c.result = "skipped" => Canceled
            /\ \/ c.at # "done" /\ UNCHANGED journal
               \/ c.at = "done" /\ journal' \in Write([journal EXCEPT !.checks[i] = c.result])
            /\ UNCHANGED <<process, current, delegate, injector, files, outside>>
  <2>1. PICK c \in Checking : /\ Check(i, c) /\ c.at = "done" /\ c.result = result
                              /\ journal' \in Write([journal EXCEPT !.checks[i] = c.result])
    BY <1>2, <1>3
  <2> QED
    BY <1>1, <1>3, <2>1
<1>4. CASE CheckOpens(i)
  <2>1. PICK at \in {"opened", "eval"} : /\ Check(i, [o EXCEPT !.at = at]) /\ o.at \in {"anchor", "opened"}
                                         /\ at = "eval" => Opened(run.scenario.signals[i])
    BY <1>4 DEF CheckOpens
  <2>2. UNCHANGED journal
    BY <1>4 DEF CheckOpens
  <2>3. PICK c : c = [o EXCEPT !.at = at]
    OBVIOUS
  <2>4. c \in Checking /\ c.at = at /\ c.result = o.result
    BY <1>1, <2>1, <2>3 DEF Checking
  <2>5. o.result = "pending"
    BY <1>1, <2>1 DEF CheckSound
  <2> QED
    BY <1>1, <2>1, <2>2, <2>3, <2>4, <2>5
<1>5. CASE CheckSkipped(i)
  <2>1. o.at # "done" /\ Canceled /\ Settle(i, "skipped")
    BY <1>5 DEF CheckSkipped
  <2> QED
    BY <1>3, <2>1
<1>6. CASE CheckEvaluates(i)
  <2>1. o.at = "eval" /\ Opened(run.scenario.signals[i]) /\ o.result = "pending"
    BY <1>1, <1>6 DEF CheckEvaluates, CheckSound
  <2>2. \/ Settle(i, "pass") \/ Settle(i, "fail")
        \/ UNCHANGED journal /\ Check(i, [o EXCEPT !.polls = @ + 1])
    BY <1>6 DEF CheckEvaluates
  <2>3. CASE Settle(i, "pass") \/ Settle(i, "fail")
    BY <1>3, <2>1, <2>3
  <2>4. CASE UNCHANGED journal /\ Check(i, [o EXCEPT !.polls = @ + 1])
    <3>1. PICK n \in Nat : n = o.polls + 1
      BY <1>1 DEF Checking
    <3>2. PICK c : c = [o EXCEPT !.polls = n]
      OBVIOUS
    <3>3. c \in Checking /\ c.at = o.at /\ c.result = o.result
      BY <1>1, <3>2 DEF Checking
    <3>4. Check(i, c)
      BY <2>4, <3>1, <3>2
    <3> QED
      BY <1>1, <2>1, <2>4, <3>3, <3>4
  <2> QED
    BY <2>2, <2>3, <2>4
<1> QED
  BY <1>4, <1>5, <1>6 DEF CheckStep

LEMMA CheckStepKeeps == ASSUME RunInv, NEW i \in DOMAIN run.checks, CheckStep(i) PROVE RunInv'
<1>1. PICK c \in Checking :
            /\ Check(i, c) /\ i \in Signals(run.scenario) /\ run.pc # "off"
            /\ c.at = "eval" \/ c.result \in {"pass", "fail"} => Opened(run.scenario.signals[i])
            /\ c.at = "done" <=> c.result # "pending"
            /\ c.result = "skipped" => Canceled
            /\ UNCHANGED <<process, current>>
  BY CheckStepIs
<1>2. run \in Runs /\ run.checks \in [Signals(run.scenario) -> Checking]
  BY DEF RunInv, RunTypeOK
<1>3. /\ run' \in Runs /\ run'.checks = [run.checks EXCEPT ![i] = c]
      /\ run'.checks \in [Signals(run.scenario) -> Checking]
      /\ UNCHANGED <<run.scenario, run.pc, run.step, run.canceled, run.began, run.ended>>
  BY <1>1, <1>2, CheckedRun
<1>4. RunTypeOK'
  BY <1>1, <1>3 DEF RunInv, RunTypeOK, Signals
<1>5. StepsSound'
  BY <1>3 DEF RunInv, StepsSound, Kind
<1>6. ASSUME NEW k \in Signals(run.scenario) PROVE CheckSound(k)'
  <2>1. run'.checks[k] = IF k = i THEN c ELSE run.checks[k]
    BY <1>1, <1>2, <1>3
  <2>2. k # i => CheckSound(k)
    BY <1>2 DEF RunInv
  <2>3. Opened(run.scenario.signals[k]) => Opened(run.scenario.signals[k])'
    BY <1>3 DEF Opened
  <2>4. Canceled' = Canceled
    BY <1>1, <1>3 DEF Canceled
  <2>5. k = i => CheckSound(k)'
    BY <1>1, <1>3, <2>1, <2>3, <2>4 DEF CheckSound
  <2>6. k # i => CheckSound(k)'
    BY <1>3, <2>1, <2>2, <2>3, <2>4 DEF CheckSound
  <2> QED
    BY <2>5, <2>6
<1> QED
  BY <1>3, <1>4, <1>5, <1>6 DEF RunInv

\* What the run's own goroutine does with a step's fault.
LEMMA FaultSteps ==
  ASSUME RunInv, FaultStart \/ FaultStop \/ DoReturns
  PROVE  /\ run.pc # "off" /\ run.step <= Len(run.scenario.steps) /\ UNCHANGED <<process, current, files, outside>>
         /\ \/ run.pc \in {"next", "starting"} /\ Began
            \/ run.pc \in {"sleep", "stopping"} /\ Ended
            \/ /\ run.pc \in {"next", "starting", "sleep", "stopping"} /\ Kind # "none"
               /\ \E e \in {"fault", "detached"} : FaultFails(e)
            \/ run.pc = "next" /\ Kind \in Cluster /\ Do("start", "starting")
            \/ run.pc = "sleep" /\ Kind = "outage" /\ Do("stop", "stopping")
<1>1. CASE FaultStart
  BY <1>1 DEF FaultStart, ErrNoAgent, Cluster
<1>2. CASE FaultStop
  <2>1. run.pc = "sleep" /\ run.step <= Len(run.scenario.steps)
    BY <1>2 DEF FaultStop, RunInv, StepsSound
  <2> QED
    BY <1>2, <2>1 DEF FaultStop, ErrNoAgent
<1>3. CASE DoReturns
  <2>1. run.pc \in {"starting", "stopping"} /\ run.step <= Len(run.scenario.steps) /\ Kind \in Cluster
    BY <1>3 DEF DoReturns, RunInv, StepsSound
  <2>2. Kind # "none"
    BY <2>1 DEF Cluster
  <2> QED
    BY <1>3, <2>1, <2>2 DEF DoReturns
<1> QED
  BY <1>1, <1>2, <1>3

LEMMA FaultStepsKeep == ASSUME RunInv, FaultStart \/ FaultStop \/ DoReturns PROVE RunInv'
<1>1. /\ run.pc # "off" /\ run.step <= Len(run.scenario.steps) /\ UNCHANGED <<process, current>>
  BY FaultSteps
<1>2. run \in Runs /\ process' \in {"up", "ending"}
  BY <1>1 DEF RunInv, RunTypeOK
<1>3. CASE run.pc \in {"next", "starting"} /\ Began
  BY <1>1, <1>3, BeganKeeps DEF Began
<1>4. CASE run.pc \in {"sleep", "stopping"} /\ Ended
  BY <1>1, <1>4, EndedKeeps DEF Ended
<1>5. CASE \E e \in {"fault", "detached"} : FaultFails(e)
  <2>1. PICK e \in {"fault", "detached"} : run' = [run EXCEPT !.pc = "drain", !.err = e, !.canceled = TRUE]
    BY <1>5 DEF FaultFails
  <2>2. /\ run' \in Runs /\ run'.pc = "drain" /\ run'.canceled = TRUE
        /\ UNCHANGED <<run.scenario, run.step, run.began, run.ended, run.checks>>
    BY <1>2, <2>1, FailedRun
  <2> QED
    BY <1>1, <1>2, <2>2, PhaseKeeps DEF Canceled
<1>6. CASE \/ run.pc = "next" /\ Kind \in Cluster /\ Do("start", "starting")
           \/ run.pc = "sleep" /\ Kind = "outage" /\ Do("stop", "stopping")
  <2>1. PICK pc \in {"starting", "stopping"} :
           /\ run' = [run EXCEPT !.pc = pc]
           /\ pc = "starting" => Kind \in Cluster
           /\ pc = "stopping" => run.pc = "sleep" /\ Kind = "outage"
    BY <1>6 DEF Do
  <2>2. pc \in Phases /\ run' = [run EXCEPT !.pc = pc]
    BY <2>1 DEF Phases
  <2>3. /\ run' \in Runs /\ run'.pc = pc
        /\ UNCHANGED <<run.scenario, run.step, run.canceled, run.began, run.ended, run.checks>>
    BY <1>2, <2>2, MovedRun
  <2>4. CASE pc = "starting"
    BY <1>1, <1>2, <2>1, <2>3, <2>4, PhaseKeeps DEF Canceled
  <2>5. CASE pc = "stopping"
    BY <1>1, <1>2, <2>1, <2>3, <2>5, PhaseKeeps DEF Canceled
  <2> QED
    BY <2>4, <2>5
<1> QED
  BY <1>3, <1>4, <1>5, <1>6, FaultSteps

LEMMA VerdictType == ASSUME NEW j PROVE /\ Verdict \in States
                                        /\ (IF j.broken /\ run.err = "none" THEN "error" ELSE Verdict) \in States
BY DEF Verdict, States

\* The run's end.
LEMMA LastStepsKeep == ASSUME RunInv, StepsOver \/ Drain \/ Judge \/ Release PROVE RunInv'
<1>1. run \in Runs
  BY DEF RunInv, RunTypeOK
<1>2. CASE StepsOver \/ Drain
  <2>1. PICK pc \in {"drain", "judge"} : run' = [run EXCEPT !.pc = pc]
    BY <1>2 DEF StepsOver, Drain
  <2>2. run.pc \in {"next", "drain"} /\ UNCHANGED <<process, current>> /\ process' \in {"up", "ending"}
    BY <1>2 DEF StepsOver, Drain, RunInv, RunTypeOK, Alive
  <2>3. pc \in Phases
    BY DEF Phases
  <2>4. /\ run' \in Runs /\ run'.pc = pc
        /\ UNCHANGED <<run.scenario, run.step, run.canceled, run.began, run.ended, run.checks>>
    BY <1>1, <2>1, <2>3, MovedRun
  <2> QED
    BY <2>2, <2>4, PhaseKeeps DEF Canceled
<1>3. CASE Judge
  <2>1. PICK s \in States : run' = [run EXCEPT !.pc = "ended", !.state = s]
    <3>1. PICK j : j = journal'
      OBVIOUS
    <3>2. PICK s : s = IF j.broken /\ run.err = "none" THEN "error" ELSE Verdict
      OBVIOUS
    <3>3. s \in States
      BY <3>2, VerdictType
    <3>4. run' = [run EXCEPT !.pc = "ended", !.state = s]
      BY <1>3, <3>1, <3>2 DEF Judge
    <3> QED
      BY <3>3, <3>4
  <2>2. run.pc = "judge" /\ UNCHANGED <<process, current>> /\ process' \in {"up", "ending"}
    BY <1>3 DEF Judge, RunInv, RunTypeOK, Alive
  <2>3. /\ run' \in Runs /\ run'.pc = "ended"
        /\ UNCHANGED <<run.scenario, run.step, run.canceled, run.began, run.ended, run.checks>>
    BY <1>1, <2>1, JudgedRun
  <2> QED
    BY <2>2, <2>3, PhaseKeeps DEF Canceled
<1>4. CASE Release
  <2>1. /\ run' = [Idle EXCEPT !.id = run.id, !.state = run.state] /\ current' = FALSE /\ UNCHANGED process
    BY <1>4 DEF Release
  <2>2. run.id \in Nat /\ run.state \in States
    BY <1>1 DEF Runs
  <2>3. PICK n \in Nat : n = run.id
    BY <2>2
  <2>4. PICK s \in States : s = run.state
    BY <2>2
  <2>5. run' = [Idle EXCEPT !.id = n, !.state = s]
    BY <2>1, <2>3, <2>4
  <2>6. /\ run' \in Runs /\ run'.scenario = NoScenario /\ run'.pc = "off"
        /\ run'.checks = <<>> /\ run'.checks \in [Signals(NoScenario) -> Checking]
    BY <2>5, ReleasedRun
  <2> QED
    BY <2>1, <2>6, NoRunKeeps DEF RunInv, RunTypeOK
<1> QED
  BY <1>2, <1>3, <1>4

\* A run is stopped, at its endpoint or by the agent that leaves.
LEMMA StopKeeps ==
  ASSUME RunInv, run' = [run EXCEPT !.stopped = TRUE, !.canceled = TRUE], UNCHANGED <<process, current>>, current
  PROVE  RunInv'
<1>1. run \in Runs /\ run.pc # "off" /\ process' \in {"up", "ending"}
  BY DEF RunInv, RunTypeOK
<1>2. /\ run' \in Runs /\ run'.canceled = TRUE
      /\ UNCHANGED <<run.scenario, run.pc, run.step, run.began, run.ended, run.checks>>
  BY <1>1, StoppedRun
<1> QED
  BY <1>1, <1>2, PhaseKeeps DEF Canceled

LEMMA ProcessKeeps == ASSUME RunInv, Terminate \/ Exit \/ Crash PROVE RunInv'
<1>1. run \in Runs
  BY DEF RunInv, RunTypeOK
<1>2. CASE Crash
  <2>1. /\ run' = [Idle EXCEPT !.id = run.id] /\ current' = FALSE /\ process' = "gone"
    BY <1>2 DEF Crash
  <2>2. PICK n \in Nat : n = run.id
    BY <1>1 DEF Runs
  <2>3. run' = [Idle EXCEPT !.id = n]
    BY <2>1, <2>2
  <2>4. /\ run' \in Runs /\ run'.scenario = NoScenario /\ run'.pc = "off"
        /\ run'.checks = <<>> /\ run'.checks \in [Signals(NoScenario) -> Checking]
    BY <2>3, CrashedRun
  <2> QED
    BY <2>1, <2>4, NoRunKeeps
<1>3. CASE Terminate \/ Exit
  <2>1. /\ UNCHANGED <<run, current>> /\ process' \in {"up", "ending", "gone"}
        /\ process' = "gone" => ~current
    BY <1>3 DEF Terminate, Exit
  <2>2. RunTypeOK' /\ StepsSound'
    BY <2>1 DEF RunInv, RunTypeOK, StepsSound, Signals, Kind
  <2>3. Canceled => Canceled' \/ run.pc = "off"
    BY <1>3 DEF Terminate, Exit, Canceled, RunInv, RunTypeOK
  <2>4. \A i \in DOMAIN run'.checks : CheckSound(i)'
    <3>1. CASE run.pc = "off"
      <4>1. run.checks \in [Signals(NoScenario) -> Checking]
        BY <3>1 DEF RunInv, RunTypeOK
      <4>2. Signals(NoScenario) = {}
        BY DEF Signals, NoScenario
      <4> QED
        BY <2>1, <4>1, <4>2
    <3>2. CASE run.pc # "off"
      BY <2>1, <2>3, <3>2, ChecksKept
    <3> QED
      BY <3>1, <3>2
  <2> QED
    BY <2>2, <2>4 DEF RunInv
<1> QED
  BY <1>2, <1>3

LEMMA RunUnchanged == ASSUME RunInv, UNCHANGED <<process, current, run>> PROVE RunInv'
BY DEF RunInv, RunTypeOK, StepsSound, Signals, Kind, CheckSound, Opened, Canceled

LEMMA RunNext == RunInv /\ [RunnerNext]_runner => RunInv'
<1> SUFFICES ASSUME RunInv, [RunnerNext]_runner PROVE RunInv'
  OBVIOUS
<1>1. CASE \E s \in LoadDir : OperatorStarts(s) \/ AgentStarts(s)
  BY <1>1, StartKeeps DEF OperatorStarts, AgentStarts
<1>2. CASE FaultStart \/ FaultStop \/ DoReturns
  BY <1>2, FaultStepsKeep
<1>3. CASE StepsOver \/ Drain \/ Judge \/ Release
  BY <1>3, LastStepsKeep
<1>4. CASE \E i \in DOMAIN run.checks : CheckStep(i)
  BY <1>4, CheckStepKeeps
<1>5. CASE OperatorStops
  BY <1>5, StopKeeps DEF OperatorStops
<1>6. CASE Terminate \/ Exit \/ Crash
  BY <1>6, ProcessKeeps
<1>7. CASE AgentStops
  BY <1>7, StopKeeps, RunUnchanged DEF AgentStops
<1>8. CASE \/ Complete \/ AgentPolls \/ AgentApplies \/ AgentAnswers \/ AgentInterrupted
           \/ AgentDetaches \/ AgentStopped \/ AgentRestores \/ UNCHANGED runner
  <2>1. UNCHANGED <<process, current, run>>
    BY <1>8 DEF Complete, AgentPolls, AgentApplies, AgentAnswers, AgentInterrupted,
                AgentDetaches, AgentStopped, AgentRestores, runner, inProcess
  <2> QED
    BY <2>1, RunUnchanged
<1> QED
  BY <1>1, <1>2, <1>3, <1>4, <1>5, <1>6, <1>7, <1>8 DEF RunnerNext, RunStep, AgentStep

\* A run's steps in their order, and the checks that wait for them.
THEOREM RunInvariant == RunnerSpec => []RunInv
<1>1. RunnerInit => RunInv
  BY RunInit
<1>2. RunInv /\ [RunnerNext]_runner => RunInv'
  BY RunNext
<1> QED
  BY <1>1, <1>2, PTL DEF RunnerSpec

\* A check is evaluated only once the fault it watches was really switched on, or
\* off, and a delivery check only once both ends of its rows' window are known:
\* what validateDelivery accepts is enough for every order in which the steps and
\* the checks of execute come.
THEOREM ChecksStayInWindow == RunnerSpec => []ChecksInWindow
<1>1. RunInv => ChecksInWindow
  <2> SUFFICES ASSUME RunInv, NEW i \in DOMAIN run.checks,
                      run.checks[i].at = "eval" \/ run.checks[i].result \in {"pass", "fail"}
               PROVE  LET sig == run.scenario.signals[i] IN
                      /\ Opened(sig)
                      /\ sig.rows # None => /\ sig.rows.from \in run.began \cup run.ended
                                            /\ sig.rows.to \in run.ended
    BY DEF ChecksInWindow
  <2>1. PICK sig : sig = run.scenario.signals[i]
    OBVIOUS
  <2>2. Opened(sig)
    BY <2>1 DEF RunInv, CheckSound
  <2>3. run.pc # "off"
    <3>1. Signals(NoScenario) = {}
      BY DEF Signals, NoScenario
    <3>2. i \in Signals(run.scenario)
      BY DEF RunInv, RunTypeOK
    <3> QED
      BY <3>1, <3>2 DEF RunInv, RunTypeOK
  <2>4. /\ run.scenario \in LoadDir /\ i \in Signals(run.scenario) /\ run.step \in Nat
        /\ Steps(run.scenario) = 1 .. Len(run.scenario.steps) /\ Len(run.scenario.steps) \in Nat
    BY <2>3, RunNumbers
  <2>5. run.ended = 1 .. (run.step - 1) /\ run.began \subseteq 1 .. run.step
    BY <2>3 DEF RunInv, StepsSound
  <2>6. ASSUME sig.rows # None
        PROVE  /\ sig.rows.from \in run.began \cup run.ended
               /\ sig.rows.to \in run.ended
    <3>1. /\ sig.step \in Steps(run.scenario)
          /\ sig.rows.from \in Steps(run.scenario) /\ sig.rows.to \in Steps(run.scenario)
          /\ sig.rows.from <= sig.rows.to
          /\ IF sig.from = "end" THEN sig.step >= sig.rows.to ELSE sig.step > sig.rows.to
      BY <2>1, <2>4, <2>6 DEF LoadDir, Validate, ValidateDelivery
    <3>2. IF sig.from = "end" THEN sig.step \in run.ended ELSE sig.step \in run.began
      BY <2>2 DEF Opened
    <3>3. sig.rows.to <= run.step - 1
      BY <2>4, <2>5, <3>1, <3>2
    <3> QED
      BY <2>4, <2>5, <3>1, <3>3
  <2> QED
    BY <2>1, <2>2, <2>6
<1> QED
  BY <1>1, RunInvariant, PTL

-----------------------------------------------------------------------------
(* How a run ends.                                                         *)

LEMMA EndInit == RunnerInit => EndSound
BY IdleRun DEF RunnerInit, EndSound

\* A run that goes on, with the reasons it may have to end.
LEMMA EndKept ==
  ASSUME EndSound, run'.canceled => run'.stopped \/ run'.err # "none", run'.pc \notin {"drain", "judge", "ended"}
  PROVE  EndSound'
BY DEF EndSound

LEMMA EndNext == RunInv /\ EndSound /\ [RunnerNext]_runner => EndSound'
<1> SUFFICES ASSUME RunInv, EndSound, [RunnerNext]_runner PROVE EndSound'
  OBVIOUS
<1>1. run \in Runs
  BY DEF RunInv, RunTypeOK
<1>2. CASE \E s \in LoadDir : OperatorStarts(s) \/ AgentStarts(s)
  <2>1. PICK s \in LoadDir, agent \in BOOLEAN : StartWith(s, agent)
    BY <1>2 DEF OperatorStarts, AgentStarts
  <2>2. PICK n \in Nat : n = run.id + 1
    BY <1>1 DEF Runs
  <2>3. run' = [Idle EXCEPT !.id = n, !.scenario = s, !.pc = "next", !.step = 1,
                             !.checks = [i \in Signals(s) |-> Pending]]
    BY <2>1, <2>2 DEF StartWith
  <2>4. run'.canceled = FALSE /\ run'.pc = "next"
    BY <2>3, StartedRun
  <2> QED
    BY <2>4, EndKept
<1>3. CASE FaultStart \/ FaultStop \/ DoReturns
  <2>1. CASE Began
    <3>1. run'.pc = "sleep" /\ UNCHANGED <<run.stopped, run.canceled, run.err>>
      BY <1>1, <2>1, BeganRun DEF Began
    <3> QED
      BY <3>1, EndKept DEF EndSound
  <2>2. CASE Ended
    <3>1. run'.pc = "next" /\ UNCHANGED <<run.stopped, run.canceled, run.err>>
      BY <1>1, <2>2, EndedRun DEF Ended
    <3> QED
      BY <3>1, EndKept DEF EndSound
  <2>3. CASE \E e \in {"fault", "detached"} : FaultFails(e)
    <3>1. PICK e \in {"fault", "detached"} : FaultFails(e)
      BY <2>3
    <3>2. run'.pc = "drain" /\ run'.err = e /\ run'.canceled = TRUE
      BY <1>1, <3>1, FailedRun DEF FaultFails
    <3> QED
      BY <3>2 DEF EndSound, Canceled
  <2>4. CASE Do("start", "starting") \/ Do("stop", "stopping")
    <3>1. PICK pc \in {"starting", "stopping"} : run' = [run EXCEPT !.pc = pc]
      BY <2>4 DEF Do
    <3>2. pc \in Phases
      BY DEF Phases
    <3>3. run'.pc = pc /\ UNCHANGED <<run.stopped, run.canceled, run.err>>
      BY <1>1, <3>1, <3>2, MovedRun
    <3> QED
      BY <3>3, EndKept DEF EndSound
  <2> QED
    BY <1>3, <2>1, <2>2, <2>3, <2>4, FaultSteps
<1>4. CASE StepsOver \/ Drain
  <2>1. PICK pc \in {"drain", "judge"} : run' = [run EXCEPT !.pc = pc]
    BY <1>4 DEF StepsOver, Drain
  <2>2. pc \in Phases
    BY DEF Phases
  <2>3. /\ run'.pc = pc
        /\ UNCHANGED <<run.scenario, run.step, run.stopped, run.canceled, run.err, run.checks>>
    BY <1>1, <2>1, <2>2, MovedRun
  <2>4. UNCHANGED process /\ (run.step > Len(run.scenario.steps) \/ Canceled)
    BY <1>4 DEF StepsOver, Drain, EndSound
  <2>5. pc = "judge" => ChecksDone
    <3>1. CASE StepsOver
      <4>1. run' = [run EXCEPT !.pc = "drain"] /\ "drain" \in Phases
        BY <3>1 DEF StepsOver, Phases
      <4>2. run'.pc = "drain"
        BY <1>1, <4>1, MovedRun
      <4> QED
        BY <2>3, <4>2
    <3>2. CASE Drain
      BY <3>2 DEF Drain
    <3> QED
      BY <1>4, <3>1, <3>2
  <2> QED
    BY <2>3, <2>4, <2>5 DEF EndSound, Canceled, ChecksDone
<1>5. CASE Judge
  <2>1. PICK j : j = journal'
    OBVIOUS
  <2>2. PICK s : s = IF j.broken /\ run.err = "none" THEN "error" ELSE Verdict
    OBVIOUS
  <2>3. s \in States
    BY <2>2, VerdictType
  <2>4. run' = [run EXCEPT !.pc = "ended", !.state = s] /\ run.pc = "judge" /\ UNCHANGED process
    BY <1>5, <2>1, <2>2 DEF Judge
  <2>5. /\ run'.pc = "ended" /\ run'.state = s
        /\ UNCHANGED <<run.scenario, run.step, run.stopped, run.canceled, run.err, run.checks>>
    BY <1>1, <2>3, <2>4, JudgedRun
  <2>6. ASSUME s = "passed"
        PROVE  /\ run.step > Len(run.scenario.steps)
               /\ \A i \in DOMAIN run.checks : run.checks[i].result = "pass"
    <3>1. Verdict = "passed"
      BY <2>2, <2>6
    <3>2. /\ ~run.stopped /\ process # "ending" /\ run.err = "none"
          /\ ~\E i \in DOMAIN run.checks : run.checks[i].result = "fail"
      BY <3>1 DEF Verdict
    <3>3. ~Canceled
      BY <3>2 DEF EndSound, Canceled
    <3>4. run.step > Len(run.scenario.steps) /\ ChecksDone
      BY <2>4, <3>3 DEF EndSound
    <3>5. ASSUME NEW i \in DOMAIN run.checks PROVE run.checks[i].result = "pass"
      <4>1. CheckSound(i) /\ run.checks[i] \in Checking
        BY DEF RunInv, RunTypeOK
      <4> QED
        BY <3>2, <3>3, <3>4, <4>1 DEF CheckSound, ChecksDone, Checking
    <3> QED
      BY <3>4, <3>5
  <2> QED
    BY <2>4, <2>5, <2>6 DEF EndSound, Canceled, ChecksDone
<1>6. CASE Release \/ Crash
  <2>1. run'.pc = "off" /\ run'.canceled = FALSE
    <3>1. PICK n \in Nat : n = run.id
      BY <1>1 DEF Runs
    <3>2. PICK s \in States : s = run.state
      BY <1>1 DEF Runs
    <3>3. run' = [Idle EXCEPT !.id = n] \/ run' = [Idle EXCEPT !.id = n, !.state = s]
      BY <1>6, <3>1, <3>2 DEF Release, Crash
    <3> QED
      BY <3>3, CrashedRun, ReleasedRun
  <2> QED
    BY <2>1, EndKept
<1>7. CASE \E i \in DOMAIN run.checks : CheckStep(i)
  <2>1. PICK i \in DOMAIN run.checks : CheckStep(i)
    BY <1>7
  <2>2. PICK c \in Checking : /\ Check(i, c) /\ i \in Signals(run.scenario) /\ run.checks[i].at # "done"
                              /\ UNCHANGED process
    BY <2>1, CheckStepIs
  <2>3. UNCHANGED <<run.scenario, run.pc, run.step, run.stopped, run.canceled, run.err>>
    BY <1>1, <2>2, CheckedRun DEF RunInv, RunTypeOK
  <2>4. run.pc \notin {"judge", "ended"}
    BY <2>2 DEF EndSound, ChecksDone
  <2> QED
    BY <2>2, <2>3, <2>4 DEF EndSound, Canceled
<1>8. CASE run' = [run EXCEPT !.stopped = TRUE, !.canceled = TRUE] /\ UNCHANGED process
  <2>1. /\ run'.stopped = TRUE /\ run'.canceled = TRUE
        /\ UNCHANGED <<run.scenario, run.pc, run.step, run.err, run.state, run.checks>>
    BY <1>1, <1>8, StoppedRun
  <2> QED
    BY <2>1 DEF EndSound, Canceled, ChecksDone
<1>9. CASE UNCHANGED run /\ (UNCHANGED process \/ process' = "ending" \/ run.pc = "off")
  BY <1>9 DEF EndSound, Canceled, ChecksDone
<1>10. CASE OperatorStops
  BY <1>8, <1>10 DEF OperatorStops
<1>11. CASE AgentStops
  BY <1>8, <1>9, <1>11 DEF AgentStops
<1>12. CASE Terminate \/ Exit
  BY <1>9, <1>12 DEF Terminate, Exit, RunInv, RunTypeOK
<1>13. CASE \/ Complete \/ AgentPolls \/ AgentApplies \/ AgentAnswers \/ AgentInterrupted
           \/ AgentDetaches \/ AgentStopped \/ AgentRestores \/ UNCHANGED runner
  <2>1. UNCHANGED <<process, run>>
    BY <1>13 DEF Complete, AgentPolls, AgentApplies, AgentAnswers, AgentInterrupted,
                AgentDetaches, AgentStopped, AgentRestores, runner, inProcess
  <2> QED
    BY <1>9, <2>1
<1> QED
  BY <1>2, <1>3, <1>4, <1>5, <1>6, <1>7, <1>10, <1>11, <1>12, <1>13 DEF RunnerNext, RunStep, AgentStep

-----------------------------------------------------------------------------
(* The lines of the journal.                                               *)

\* An entry of a table is replaced, if there is one.
LEMMA TableEntry ==
  ASSUME NEW S, NEW f \in Tables(S), NEW k, NEW v \in S
  PROVE  [f EXCEPT ![k] = v] \in Tables(S)
<1>1. PICK n \in Nat : f \in [1 .. n -> S]
  BY DEF Tables
<1>2. [f EXCEPT ![k] = v] \in [1 .. n -> S]
  BY <1>1
<1> QED
  BY <1>2, TableIs

LEMMA EmptyJournals ==
    /\ NoJournal \in Journals /\ BrokenJournal \in Journals
    /\ BrokenJournal.broken = TRUE
<1>1. \A S : <<>> \in Tables(S)
  <2> SUFFICES ASSUME NEW S PROVE <<>> \in Tables(S)
    OBVIOUS
  <2>1. <<>> \in [1 .. 0 -> S]
    OBVIOUS
  <2> QED
    BY <2>1, TableIs
<1>2. NoJournal \in Journals
  BY <1>1 DEF NoJournal, Journals
<1>3. BrokenJournal \in Journals
  BY <1>2 DEF BrokenJournal, Journals
<1>4. BrokenJournal.broken = TRUE
  BY <1>2 DEF BrokenJournal, Journals
<1> QED
  BY <1>2, <1>3, <1>4

\* A line is written only after lines that were.
LEMMA WriteIs ==
  ASSUME journal \in Journals, NEW written \in Journals, journal' \in Write(written)
  PROVE  /\ journal' \in Journals
         /\ ~journal'.broken =>
               /\ ~journal.broken /\ journal'.start = written.start /\ journal'.faults = written.faults
               /\ journal'.checks = written.checks /\ journal'.end = written.end
               /\ journal'.late = (journal.end # None)
<1>1. CASE journal.broken
  BY <1>1 DEF Write
<1>2. CASE ~journal.broken /\ journal' = BrokenJournal
  BY <1>2, EmptyJournals
<1>3. CASE ~journal.broken /\ journal' = [written EXCEPT !.late = (journal.end # None)]
  <2>1. PICK b : b = (journal.end # None)
    OBVIOUS
  <2>2. b \in BOOLEAN
    BY <2>1
  <2>3. journal' = [written EXCEPT !.late = b]
    BY <1>3, <2>1
  <2>4. journal' \in Journals
    BY <2>2, <2>3 DEF Journals
  <2>5. /\ journal'.start = written.start /\ journal'.faults = written.faults
        /\ journal'.checks = written.checks /\ journal'.end = written.end /\ journal'.late = b
    BY <2>3 DEF Journals
  <2> QED
    BY <1>3, <2>1, <2>4, <2>5
<1> QED
  BY <1>1, <1>2, <1>3 DEF Write

LEMMA FaultLineIs ==
  ASSUME journal \in Journals, NEW what \in FaultSaid, journal' \in Write(FaultLine(what))
  PROVE  /\ journal' \in Journals
         /\ ~journal'.broken =>
               /\ ~journal.broken /\ journal'.faults = [journal.faults EXCEPT ![run.step] = what]
               /\ UNCHANGED <<journal.start, journal.checks, journal.end>>
               /\ journal'.late = (journal.end # None)
<1>1. PICK f : f = [journal.faults EXCEPT ![run.step] = what]
  OBVIOUS
<1>2. f \in Tables(FaultSaid)
  BY <1>1, TableEntry DEF Journals
<1>3. PICK written : written = [journal EXCEPT !.faults = f]
  OBVIOUS
<1>4. written \in Journals
  BY <1>2, <1>3 DEF Journals
<1>5. written.faults = f /\ written.start = journal.start /\ written.checks = journal.checks /\ written.end = journal.end
  BY <1>3 DEF Journals
<1>6. FaultLine(what) = written
  BY <1>1, <1>3 DEF FaultLine, Journals
<1>7. journal' \in Write(written)
  BY <1>6
<1> QED
  BY <1>1, <1>4, <1>5, <1>7, WriteIs

LEMMA CheckLineIs ==
  ASSUME journal \in Journals, NEW i, NEW result \in CheckSaid, journal' \in Write([journal EXCEPT !.checks[i] = result])
  PROVE  /\ journal' \in Journals
         /\ ~journal'.broken =>
               /\ ~journal.broken /\ journal'.checks = [journal.checks EXCEPT ![i] = result]
               /\ UNCHANGED <<journal.start, journal.faults, journal.end>>
               /\ journal'.late = (journal.end # None)
<1>1. PICK f : f = [journal.checks EXCEPT ![i] = result]
  OBVIOUS
<1>2. f \in Tables(CheckSaid)
  BY <1>1, TableEntry DEF Journals
<1>3. PICK written : written = [journal EXCEPT !.checks = f]
  OBVIOUS
<1>4. written \in Journals
  BY <1>2, <1>3 DEF Journals
<1>5. written.checks = f /\ written.start = journal.start /\ written.faults = journal.faults /\ written.end = journal.end
  BY <1>3 DEF Journals
<1>6. [journal EXCEPT !.checks[i] = result] = written
  BY <1>1, <1>3 DEF Journals
<1>7. journal' \in Write(written)
  BY <1>6
<1> QED
  BY <1>1, <1>4, <1>5, <1>7, WriteIs

LEMMA EndLineIs ==
  ASSUME journal \in Journals, NEW s \in States, journal' \in Write([journal EXCEPT !.end = s])
  PROVE  /\ journal' \in Journals
         /\ ~journal'.broken =>
               /\ ~journal.broken /\ journal'.end = s
               /\ UNCHANGED <<journal.start, journal.faults, journal.checks>>
               /\ journal'.late = (journal.end # None)
<1>1. PICK written : written = [journal EXCEPT !.end = s]
  OBVIOUS
<1>2. written \in Journals
  BY <1>1 DEF Journals
<1>3. written.end = s /\ written.start = journal.start /\ written.faults = journal.faults /\ written.checks = journal.checks
  BY <1>1 DEF Journals
<1> QED
  BY <1>1, <1>2, <1>3, WriteIs

-----------------------------------------------------------------------------
(* What the journal says, while a run goes on.                             *)

\* The run's own line of a fault, or no line: what stays as it is.
LEMMA StepSays ==
  ASSUME RunInv, run.pc \notin {"off", "ended"}, run'.pc \notin {"off", "ended"}, JournalSays,
         UNCHANGED <<run.scenario, run.checks, journal.start, journal.checks, journal.end>>, ~journal'.late,
         journal'.faults \in [Steps(run.scenario) -> FaultSaid],
         \A i \in Steps(run.scenario) : SaysOfStep(i)'
  PROVE  JournalSays'
BY DEF JournalSays, Steps, Signals

\* The line of the run's step, or none when the step has no fault.
LEMMA FaultSays ==
  ASSUME RunInv, JournalSound, run.pc \notin {"off", "ended"}, NEW what \in FaultSaid,
         \/ Kind = "none" /\ UNCHANGED journal
         \/ Kind # "none" /\ journal' \in Write(FaultLine(what))
  PROVE  /\ journal' \in Journals
         /\ ~journal'.broken =>
               /\ ~journal.broken /\ JournalSays /\ ~journal'.late
               /\ UNCHANGED <<journal.start, journal.checks, journal.end>>
               /\ journal'.faults \in [Steps(run.scenario) -> FaultSaid]
               /\ \A i \in Steps(run.scenario) :
                     journal'.faults[i] = IF i = run.step /\ Kind # "none" THEN what ELSE journal.faults[i]
<1>1. journal \in Journals /\ (~journal.broken => JournalSays)
  BY DEF JournalSound
<1>2. JournalSays => /\ journal.end = None /\ ~journal.late
                     /\ journal.faults \in [Steps(run.scenario) -> FaultSaid]
  BY DEF JournalSays
<1>3. CASE Kind = "none" /\ UNCHANGED journal
  BY <1>1, <1>2, <1>3
<1>4. CASE Kind # "none" /\ journal' \in Write(FaultLine(what))
  <2>1. /\ journal' \in Journals
        /\ ~journal'.broken =>
               /\ ~journal.broken /\ journal'.faults = [journal.faults EXCEPT ![run.step] = what]
               /\ UNCHANGED <<journal.start, journal.checks, journal.end>>
               /\ journal'.late = (journal.end # None)
    BY <1>1, <1>4, FaultLineIs
  <2> QED
    BY <1>1, <1>2, <1>4, <2>1
<1> QED
  BY <1>3, <1>4

LEMMA BeganSays ==
  ASSUME RunInv, JournalSound, run.pc \in {"next", "starting"}, run.step <= Len(run.scenario.steps), Began, UNCHANGED files
  PROVE  JournalSound'
<1>1. run \in Runs /\ run.pc \notin {"off", "ended"} /\ run.step \in Nat /\ Steps(run.scenario) \subseteq Nat
  BY RunNumbers DEF RunInv, RunTypeOK
<1>2. /\ run'.pc = "sleep" /\ UNCHANGED <<run.id, run.scenario, run.step, run.checks>>
  BY <1>1, BeganRun DEF Began
<1>3. /\ journal' \in Journals
      /\ ~journal'.broken =>
               /\ ~journal.broken /\ JournalSays /\ ~journal'.late
               /\ UNCHANGED <<journal.start, journal.checks, journal.end>>
               /\ journal'.faults \in [Steps(run.scenario) -> FaultSaid]
               /\ \A i \in Steps(run.scenario) :
                     journal'.faults[i] = IF i = run.step /\ Kind # "none" THEN "on" ELSE journal.faults[i]
  BY <1>1, FaultSays DEF Began, FaultSaid
<1>4. ASSUME ~journal'.broken PROVE JournalSays'
  <2>1. ASSUME NEW i \in Steps(run.scenario) PROVE SaysOfStep(i)'
    <3>1. SaysOfStep(i)
      BY <1>3, <1>4 DEF JournalSays
    <3>2. journal'.faults[i] = IF i = run.step /\ Kind # "none" THEN "on" ELSE journal.faults[i]
      BY <1>3, <1>4
    <3> QED
      BY <1>2, <3>1, <3>2 DEF SaysOfStep, Kind
  <2> QED
    BY <1>1, <1>2, <1>3, <1>4, <2>1, StepSays
<1> QED
  BY <1>1, <1>2, <1>3, <1>4 DEF JournalSound

LEMMA EndedSays ==
  ASSUME RunInv, JournalSound, run.pc \in {"sleep", "stopping"}, Ended, UNCHANGED files
  PROVE  JournalSound'
<1>1. run \in Runs /\ run.pc \notin {"off", "ended"} /\ run.step \in Nat /\ Steps(run.scenario) \subseteq Nat
  BY RunNumbers DEF RunInv, RunTypeOK
<1>2. /\ run'.pc = "next" /\ run'.step = run.step + 1 /\ UNCHANGED <<run.id, run.scenario, run.checks>>
  BY <1>1, EndedRun DEF Ended
<1>3. /\ journal' \in Journals
      /\ ~journal'.broken =>
               /\ ~journal.broken /\ JournalSays /\ ~journal'.late
               /\ UNCHANGED <<journal.start, journal.checks, journal.end>>
               /\ journal'.faults \in [Steps(run.scenario) -> FaultSaid]
               /\ \A i \in Steps(run.scenario) :
                     journal'.faults[i] = IF i = run.step /\ Kind # "none" THEN "off" ELSE journal.faults[i]
  BY <1>1, FaultSays DEF Ended, FaultSaid
<1>4. ASSUME ~journal'.broken PROVE JournalSays'
  <2>1. ASSUME NEW i \in Steps(run.scenario) PROVE SaysOfStep(i)'
    <3>1. SaysOfStep(i)
      BY <1>3, <1>4 DEF JournalSays
    <3>2. journal'.faults[i] = IF i = run.step /\ Kind # "none" THEN "off" ELSE journal.faults[i]
      BY <1>3, <1>4
    <3>3. /\ (i < run.step + 1) <=> (i < run.step \/ i = run.step)
          /\ (i > run.step + 1) => (i > run.step) /\ i # run.step
          /\ (i = run.step + 1) => (i > run.step) /\ i # run.step
          /\ i < run.step => i # run.step
      BY <1>1
    <3> QED
      BY <1>2, <3>1, <3>2, <3>3 DEF SaysOfStep, Kind
  <2> QED
    BY <1>1, <1>2, <1>3, <1>4, <2>1, StepSays
<1> QED
  BY <1>1, <1>2, <1>3, <1>4 DEF JournalSound

LEMMA FailedSays ==
  ASSUME RunInv, JournalSound, run.pc \in {"next", "starting", "sleep", "stopping"}, Kind # "none",
         NEW e \in {"fault", "detached"}, FaultFails(e), UNCHANGED files
  PROVE  JournalSound'
<1>1. run \in Runs /\ run.pc \notin {"off", "ended"} /\ run.step \in Nat /\ Steps(run.scenario) \subseteq Nat
  BY RunNumbers DEF RunInv, RunTypeOK
<1>2. /\ run'.pc = "drain" /\ UNCHANGED <<run.id, run.scenario, run.step, run.checks>>
  BY <1>1, FailedRun DEF FaultFails
<1>3. /\ journal' \in Journals
      /\ ~journal'.broken =>
               /\ ~journal.broken /\ JournalSays /\ ~journal'.late
               /\ UNCHANGED <<journal.start, journal.checks, journal.end>>
               /\ journal'.faults \in [Steps(run.scenario) -> FaultSaid]
               /\ \A i \in Steps(run.scenario) :
                     journal'.faults[i] = IF i = run.step /\ Kind # "none" THEN "error" ELSE journal.faults[i]
  BY <1>1, FaultSays DEF FaultFails, FaultSaid
<1>4. ASSUME ~journal'.broken PROVE JournalSays'
  <2>1. ASSUME NEW i \in Steps(run.scenario) PROVE SaysOfStep(i)'
    <3>1. SaysOfStep(i)
      BY <1>3, <1>4 DEF JournalSays
    <3>2. journal'.faults[i] = IF i = run.step THEN "error" ELSE journal.faults[i]
      BY <1>3, <1>4
    <3>3. i < run.step \/ i > run.step => i # run.step
      BY <1>1
    <3> QED
      BY <1>2, <3>1, <3>2, <3>3 DEF SaysOfStep
  <2> QED
    BY <1>1, <1>2, <1>3, <1>4, <2>1, StepSays
<1> QED
  BY <1>1, <1>2, <1>3, <1>4 DEF JournalSound

\* The run goes on without a line.
LEMMA QuietSays ==
  ASSUME RunInv, JournalSound, run.pc # "off", UNCHANGED <<journal, files, run.id, run.scenario, run.step, run.checks, run.state>>,
         \/ UNCHANGED run.pc
         \/ run.pc = "next" /\ run'.pc \in {"starting", "drain"}
         \/ run.pc = "sleep" /\ run'.pc = "stopping"
         \/ run.pc = "drain" /\ run'.pc = "judge"
  PROVE  JournalSound'
<1>1. JournalSays => JournalSays'
  <2> SUFFICES ASSUME JournalSays PROVE JournalSays'
    OBVIOUS
  <2>1. ASSUME NEW i \in Steps(run.scenario) PROVE SaysOfStep(i)'
    BY DEF JournalSays, SaysOfStep
  <2> QED
    BY <2>1 DEF JournalSays, Steps, Signals
<1> QED
  BY <1>1 DEF JournalSound

LEMMA JudgeSays ==
  ASSUME RunInv, JournalSound, Judge
  PROVE  JournalSound'
<1>1. run \in Runs /\ journal \in Journals /\ run.pc = "judge" /\ UNCHANGED files
  BY DEF RunInv, RunTypeOK, JournalSound, Judge
<1>2. PICK v \in States : v = Verdict
  BY VerdictType
<1>3. journal' \in Write([journal EXCEPT !.end = v])
  BY <1>2 DEF Judge
<1>4. PICK j : j = journal'
  OBVIOUS
<1>5. PICK s : s = IF j.broken /\ run.err = "none" THEN "error" ELSE v
  OBVIOUS
<1>6. s \in States
  BY <1>5 DEF States
<1>7. run' = [run EXCEPT !.pc = "ended", !.state = s]
  BY <1>2, <1>4, <1>5 DEF Judge
<1>8. /\ run'.pc = "ended" /\ run'.state = s /\ UNCHANGED <<run.id, run.scenario, run.step, run.checks>>
  BY <1>1, <1>6, <1>7, JudgedRun
<1>9. /\ journal' \in Journals
      /\ ~journal'.broken =>
               /\ ~journal.broken /\ journal'.end = v
               /\ UNCHANGED <<journal.start, journal.faults, journal.checks>>
               /\ journal'.late = (journal.end # None)
  BY <1>1, <1>3, EndLineIs
<1>10. ASSUME ~journal'.broken PROVE JournalSays'
  <2>1. JournalSays /\ journal.end = None /\ s = v
    BY <1>1, <1>4, <1>5, <1>9, <1>10 DEF JournalSound, JournalSays
  <2>2. ASSUME NEW i \in Steps(run.scenario) PROVE SaysOfStep(i)'
    BY <1>1, <1>8, <1>9, <1>10, <2>1 DEF JournalSays, SaysOfStep
  <2> QED
    BY <1>8, <1>9, <1>10, <2>1, <2>2 DEF JournalSays, Steps, Signals
<1> QED
  BY <1>1, <1>8, <1>9, <1>10 DEF JournalSound

LEMMA CheckSays ==
  ASSUME RunInv, EndSound, JournalSound, NEW i \in DOMAIN run.checks, CheckStep(i)
  PROVE  JournalSound'
<1>1. run \in Runs /\ journal \in Journals /\ run.checks \in [Signals(run.scenario) -> Checking]
  BY DEF RunInv, RunTypeOK, JournalSound
<1>2. PICK c \in Checking :
            /\ Check(i, c) /\ i \in Signals(run.scenario) /\ run.checks[i].at # "done" /\ run.pc # "off"
            /\ c.at = "done" <=> c.result # "pending"
            /\ \/ c.at # "done" /\ UNCHANGED journal
               \/ c.at = "done" /\ journal' \in Write([journal EXCEPT !.checks[i] = c.result])
            /\ UNCHANGED files
  BY CheckStepIs
<1>3. /\ run'.checks = [run.checks EXCEPT ![i] = c]
      /\ UNCHANGED <<run.id, run.scenario, run.pc, run.step, run.state>>
  BY <1>1, <1>2, CheckedRun
<1>4. run.pc # "ended"
  BY <1>2 DEF EndSound, ChecksDone
<1>5. /\ journal' \in Journals
      /\ ~journal'.broken =>
            /\ ~journal.broken /\ UNCHANGED <<journal.start, journal.faults, journal.end>>
            /\ JournalSays => ~journal'.late
            /\ journal'.checks = IF c.at = "done" THEN [journal.checks EXCEPT ![i] = c.result] ELSE journal.checks
  <2>1. CASE c.at # "done" /\ UNCHANGED journal
    BY <1>1, <2>1 DEF JournalSays
  <2>2. CASE c.at = "done" /\ journal' \in Write([journal EXCEPT !.checks[i] = c.result])
    <3>1. c.result \in CheckSaid
      BY <1>2, <2>2 DEF Checking, CheckSaid
    <3>2. /\ journal' \in Journals
          /\ ~journal'.broken =>
               /\ ~journal.broken /\ journal'.checks = [journal.checks EXCEPT ![i] = c.result]
               /\ UNCHANGED <<journal.start, journal.faults, journal.end>>
               /\ journal'.late = (journal.end # None)
      BY <1>1, <2>2, <3>1, CheckLineIs
    <3> QED
      BY <1>4, <2>2, <3>2 DEF JournalSays
  <2> QED
    BY <1>2, <2>1, <2>2
<1>6. ASSUME ~journal'.broken PROVE JournalSays'
  <2>1. JournalSays
    BY <1>2, <1>5, <1>6 DEF JournalSound
  <2>2. ASSUME NEW k \in Steps(run.scenario) PROVE SaysOfStep(k)'
    <3>1. SaysOfStep(k)
      BY <2>1 DEF JournalSays
    <3> QED
      BY <1>3, <1>5, <1>6, <3>1 DEF SaysOfStep
  <2>3. journal.checks \in [Signals(run.scenario) -> CheckSaid]
    BY <2>1 DEF JournalSays
  <2>4. journal'.checks \in [Signals(run.scenario) -> CheckSaid]
    <3>1. c.at = "done" => c.result \in CheckSaid
      BY <1>2 DEF Checking, CheckSaid
    <3> QED
      BY <1>5, <1>6, <2>3, <3>1
  <2>5. ASSUME NEW k \in Signals(run.scenario)
        PROVE  journal'.checks[k] = IF run'.checks[k].at = "done" THEN run'.checks[k].result ELSE "none"
    <3>1. journal.checks[k] = IF run.checks[k].at = "done" THEN run.checks[k].result ELSE "none"
      BY <2>1 DEF JournalSays
    <3>2. run'.checks[k] = IF k = i THEN c ELSE run.checks[k]
      BY <1>1, <1>3
    <3>3. journal'.checks[k] = IF k = i /\ c.at = "done" THEN c.result ELSE journal.checks[k]
      BY <1>5, <1>6, <2>3
    <3> QED
      BY <1>2, <3>1, <3>2, <3>3
  <2>6. /\ journal'.start /\ ~journal'.late /\ journal'.end = IF run'.pc = "ended" THEN run'.state ELSE None
        /\ journal'.faults \in [Steps(run.scenario) -> FaultSaid]
    BY <1>3, <1>5, <1>6, <2>1 DEF JournalSays
  <2> QED
    BY <1>3, <2>2, <2>4, <2>5, <2>6 DEF JournalSays, Steps, Signals
<1> QED
  BY <1>2, <1>3, <1>5, <1>6 DEF JournalSound

LEMMA StartSays ==
  ASSUME RunInv, JournalSound, NEW s \in LoadDir, NEW agent \in BOOLEAN, StartWith(s, agent)
  PROVE  JournalSound'
<1>1. PICK n \in Nat : n = run.id + 1
  BY DEF RunInv, RunTypeOK, Runs
<1>2. run' = [Idle EXCEPT !.id = n, !.scenario = s, !.pc = "next", !.step = 1,
                             !.checks = [i \in Signals(s) |-> Pending]]
  BY <1>1 DEF StartWith
<1>3. /\ run'.id = n /\ run'.scenario = s /\ run'.pc = "next" /\ run'.step = 1
      /\ run'.checks = [i \in Signals(s) |-> Pending]
  BY <1>2, StartedRun
<1>4. PICK f : f = [i \in Steps(s) |-> "none"]
  OBVIOUS
<1>5. PICK g : g = [i \in Signals(s) |-> "none"]
  OBVIOUS
<1>6. f \in [Steps(s) -> FaultSaid] /\ g \in [Signals(s) -> CheckSaid]
  BY <1>4, <1>5 DEF FaultSaid, CheckSaid
<1>7. f \in Tables(FaultSaid) /\ g \in Tables(CheckSaid)
  <2>1. Len(s.steps) \in Nat /\ Len(s.signals) \in Nat
    BY ScenarioShape DEF Scenarios
  <2> QED
    BY <1>6, <2>1, TableIs DEF Steps, Signals
<1>8. PICK new : new = [[NoJournal EXCEPT !.faults = f, !.checks = g] EXCEPT !.start = TRUE]
  OBVIOUS
<1>9. /\ new \in Journals /\ new.start = TRUE /\ new.faults = f /\ new.checks = g /\ new.end = None /\ new.late = FALSE
  <2>1. PICK a : a = [NoJournal EXCEPT !.faults = f, !.checks = g]
    OBVIOUS
  <2>2. a \in Journals /\ a.faults = f /\ a.checks = g /\ a.end = None /\ a.late = FALSE
    <3>1. NoJournal.end = None /\ NoJournal.late = FALSE
      BY DEF NoJournal
    <3> QED
      BY <1>7, <2>1, <3>1, EmptyJournals DEF Journals
  <2>3. new = [a EXCEPT !.start = TRUE]
    BY <1>8, <2>1
  <2>4. new \in Journals
    BY <2>2, <2>3 DEF Journals
  <2> QED
    BY <2>2, <2>3, <2>4 DEF Journals
<1>10. journal' = new \/ journal' = BrokenJournal
  BY <1>4, <1>5, <1>8 DEF StartWith, Create
<1>11. files' \subseteq 0 .. n /\ n \in files'
  <2>1. PICK old : old = files \cup {n}
    OBVIOUS
  <2>2. old \subseteq 0 .. n
    <3>1. files \subseteq 0 .. run.id /\ run.id \in Nat
      BY DEF JournalSound, RunInv, RunTypeOK, Runs
    <3>2. 0 .. run.id \subseteq 0 .. n /\ n \in 0 .. n
      BY <1>1, <3>1
    <3> QED
      BY <2>1, <3>1, <3>2
  <2>3. files' = Prune(old)
    BY <1>1, <2>1 DEF StartWith
  <2>4. {q \in old : q > n} = {}
    <3>1. \A q \in 0 .. n : ~(q > n)
      OBVIOUS
    <3> QED
      BY <2>2, <3>1
  <2>5. Cardinality({q \in old : q > n}) < KeepJournals
    BY <2>4, FS_EmptySet, RunnerAssumptions
  <2>6. n \in Prune(old)
    BY <2>1, <2>5 DEF Prune
  <2> QED
    BY <2>2, <2>3, <2>6 DEF Prune
<1>12. ASSUME ~journal'.broken PROVE JournalSays'
  <2>1. journal' = new
    BY <1>10, <1>12, EmptyJournals
  <2>2. Steps(s) \subseteq Nat \ {0}
    BY ScenarioShape DEF Scenarios, Steps
  <2>3. ASSUME NEW i \in Steps(s) PROVE SaysOfStep(i)'
    <3>1. journal'.faults[i] = "none" /\ ~(i < 1)
      BY <1>4, <1>9, <2>1, <2>2
    <3> QED
      BY <1>3, <3>1 DEF SaysOfStep
  <2>4. ASSUME NEW i \in Signals(s)
        PROVE  journal'.checks[i] = IF run'.checks[i].at = "done" THEN run'.checks[i].result ELSE "none"
    <3>1. run'.checks[i] = Pending /\ Pending.at = "anchor"
      BY <1>3 DEF Pending
    <3> QED
      BY <1>5, <1>9, <2>1, <3>1
  <2> QED
    BY <1>3, <1>6, <1>9, <2>1, <2>3, <2>4 DEF JournalSays, Steps, Signals
<1> QED
  BY <1>3, <1>9, <1>10, <1>11, <1>12, EmptyJournals DEF JournalSound

LEMMA OverSays ==
  ASSUME RunInv, JournalSound, Release \/ Crash
  PROVE  JournalSound'
<1>1. PICK n \in Nat : n = run.id
  BY DEF RunInv, RunTypeOK, Runs
<1>2. PICK s \in States : s = run.state
  BY DEF RunInv, RunTypeOK, Runs
<1>3. run' = [Idle EXCEPT !.id = n] \/ run' = [Idle EXCEPT !.id = n, !.state = s]
  BY <1>1, <1>2 DEF Release, Crash
<1>4. run'.id = n /\ run'.pc = "off"
  BY <1>3, CrashedRun, ReleasedRun
<1>5. journal' = NoJournal /\ UNCHANGED files
  BY DEF Release, Crash
<1> QED
  BY <1>1, <1>4, <1>5, EmptyJournals DEF JournalSound

LEMMA JournalInit == RunnerInit => JournalSound
BY IdleRun, EmptyJournals DEF RunnerInit, JournalSound

LEMMA JournalNext == RunInv /\ EndSound /\ JournalSound /\ [RunnerNext]_runner => JournalSound'
<1> SUFFICES ASSUME RunInv, EndSound, JournalSound, [RunnerNext]_runner PROVE JournalSound'
  OBVIOUS
<1>1. run \in Runs
  BY DEF RunInv, RunTypeOK
<1>2. CASE \E s \in LoadDir : OperatorStarts(s) \/ AgentStarts(s)
  BY <1>2, StartSays DEF OperatorStarts, AgentStarts
<1>3. CASE FaultStart \/ FaultStop \/ DoReturns
  <2>1. run.pc # "off" /\ run.step <= Len(run.scenario.steps) /\ UNCHANGED files
    BY <1>3, FaultSteps
  <2>2. CASE run.pc \in {"next", "starting"} /\ Began
    BY <2>1, <2>2, BeganSays
  <2>3. CASE run.pc \in {"sleep", "stopping"} /\ Ended
    BY <2>1, <2>3, EndedSays
  <2>4. CASE /\ run.pc \in {"next", "starting", "sleep", "stopping"} /\ Kind # "none"
             /\ \E e \in {"fault", "detached"} : FaultFails(e)
    BY <2>1, <2>4, FailedSays
  <2>5. CASE \/ run.pc = "next" /\ Kind \in Cluster /\ Do("start", "starting")
             \/ run.pc = "sleep" /\ Kind = "outage" /\ Do("stop", "stopping")
    <3>1. PICK pc \in {"starting", "stopping"} :
             /\ run' = [run EXCEPT !.pc = pc] /\ UNCHANGED journal
             /\ IF pc = "starting" THEN run.pc = "next" ELSE run.pc = "sleep"
      BY <2>5 DEF Do
    <3>2. pc \in Phases
      BY DEF Phases
    <3>3. run'.pc = pc /\ UNCHANGED <<run.id, run.scenario, run.step, run.checks, run.state>>
      BY <1>1, <3>1, <3>2, MovedRun
    <3> QED
      BY <2>1, <3>1, <3>3, QuietSays
  <2> QED
    BY <1>3, <2>2, <2>3, <2>4, <2>5, FaultSteps
<1>4. CASE StepsOver \/ Drain
  <2>1. PICK pc \in {"drain", "judge"} :
             /\ run' = [run EXCEPT !.pc = pc] /\ UNCHANGED <<journal, files>>
             /\ IF pc = "drain" THEN run.pc = "next" ELSE run.pc = "drain"
    BY <1>4 DEF StepsOver, Drain
  <2>2. pc \in Phases
    BY DEF Phases
  <2>3. run'.pc = pc /\ UNCHANGED <<run.id, run.scenario, run.step, run.checks, run.state>>
    BY <1>1, <2>1, <2>2, MovedRun
  <2> QED
    BY <2>1, <2>3, QuietSays
<1>5. CASE Judge
  BY <1>5, JudgeSays
<1>6. CASE Release \/ Crash
  BY <1>6, OverSays
<1>7. CASE \E i \in DOMAIN run.checks : CheckStep(i)
  BY <1>7, CheckSays
<1>8. CASE run' = [run EXCEPT !.stopped = TRUE, !.canceled = TRUE] /\ current /\ UNCHANGED <<journal, files>>
  <2>1. UNCHANGED <<run.id, run.scenario, run.pc, run.step, run.checks, run.state>>
    BY <1>1, <1>8, StoppedRun
  <2>2. run.pc # "off"
    BY <1>8 DEF RunInv, RunTypeOK
  <2> QED
    BY <1>8, <2>1, <2>2, QuietSays
<1>9. CASE UNCHANGED <<run, journal, files>>
  <2>1. CASE run.pc = "off"
    BY <1>9, <2>1 DEF JournalSound
  <2>2. CASE run.pc # "off"
    BY <1>9, <2>2, QuietSays
  <2> QED
    BY <2>1, <2>2
<1>10. CASE OperatorStops
  BY <1>8, <1>10 DEF OperatorStops
<1>11. CASE AgentStops
  BY <1>8, <1>9, <1>11 DEF AgentStops
<1>12. CASE \/ Terminate \/ Exit \/ Complete \/ AgentPolls \/ AgentApplies \/ AgentAnswers \/ AgentInterrupted
           \/ AgentDetaches \/ AgentStopped \/ AgentRestores \/ UNCHANGED runner
  <2>1. UNCHANGED <<run, journal, files>>
    BY <1>12 DEF Terminate, Exit, Complete, AgentPolls, AgentApplies, AgentAnswers, AgentInterrupted,
                AgentDetaches, AgentStopped, AgentRestores, runner, inProcess
  <2> QED
    BY <1>9, <2>1
<1> QED
  BY <1>2, <1>3, <1>4, <1>5, <1>6, <1>7, <1>10, <1>11, <1>12 DEF RunnerNext, RunStep, AgentStep

-----------------------------------------------------------------------------
(* The in-process faults.                                                  *)

LEMMA InjectorInit == RunnerInit => InjectorSound
BY IdleRun DEF RunnerInit, InjectorSound, NoFaults, Injectors, Sleeping

LEMMA InjectorKept ==
  ASSUME InjectorSound, UNCHANGED <<injector, run.pc, run.scenario, run.step>>
  PROVE  InjectorSound'
BY DEF InjectorSound, Sleeping, Kind

LEMMA InjectorIdle ==
  ASSUME InjectorSound, UNCHANGED injector, ~Sleeping(Rules), ~Sleeping(Rules)'
  PROVE  InjectorSound'
BY DEF InjectorSound, Sleeping, Rules

LEMMA InjectorStart ==
  ASSUME RunInv, InjectorSound, FaultStart
  PROVE  InjectorSound'
<1>1. run \in Runs /\ run.pc = "next" /\ run.step \in Nat
  BY DEF RunInv, RunTypeOK, Runs, FaultStart
<1>2. ~Sleeping(Rules) /\ ~Sleeping({"deploy"})
  BY <1>1 DEF Sleeping
<1>3. /\ injector.rules = {} /\ injector.running = 1 /\ injector \in Injectors
  BY <1>2 DEF InjectorSound
<1>4. CASE Kind \in Rules /\ Began
  <2>1. run'.pc = "sleep" /\ UNCHANGED <<run.scenario, run.step>>
    BY <1>1, <1>4, BeganRun DEF Began
  <2>2. Kind' = Kind
    BY <2>1 DEF Kind
  <2>3. /\ Kind = "rule" => injector' = [injector EXCEPT !.rules = injector.rules \cup {run.step}]
        /\ Kind = "deploy" => injector' = [rules |-> injector.rules \cup {run.step},
                               published |-> injector.published + 1,
                               running |-> injector.published + 1,
                               previous |-> injector.running]
    BY <1>4 DEF FaultStart, Rules, Cluster
  <2>4. PICK r : r = injector.rules \cup {run.step}
    OBVIOUS
  <2>5. r = {run.step} /\ r \in SUBSET Nat
    BY <1>1, <1>3, <2>4
  <2>6. injector' \in Injectors /\ injector'.rules = r
    BY <1>3, <1>4, <2>3, <2>4, <2>5 DEF Injectors, Rules
  <2>7. IF Kind = "deploy" THEN injector'.previous = 1 ELSE injector'.running = 1
    BY <1>3, <1>4, <2>3 DEF Injectors, Rules
  <2> QED
    BY <1>4, <2>1, <2>2, <2>5, <2>6, <2>7 DEF InjectorSound, Sleeping
<1>5. CASE ~(Kind \in Rules /\ Began)
  <2>1. UNCHANGED injector
    BY <1>5 DEF FaultStart
  <2>2. Kind \notin Rules \/ run'.pc # "sleep"
    <3>1. CASE Kind \in Rules
      BY <1>5, <3>1 DEF FaultStart, Rules, Cluster
    <3> QED
      BY <3>1
  <2>3. UNCHANGED <<run.scenario, run.step>>
    <3>1. CASE Began
      BY <1>1, <3>1, BeganRun DEF Began
    <3>2. CASE FaultFails("fault") \/ FaultFails("detached")
      BY <1>1, <3>2, FailedRun DEF FaultFails
    <3>3. CASE Do("start", "starting")
      <4>1. run' = [run EXCEPT !.pc = "starting"] /\ "starting" \in Phases
        BY <3>3 DEF Do, Phases
      <4> QED
        BY <1>1, <4>1, MovedRun
    <3> QED
      BY <3>1, <3>2, <3>3 DEF FaultStart, ErrNoAgent
  <2>4. ~Sleeping(Rules)'
    BY <2>2, <2>3 DEF Sleeping, Kind
  <2> QED
    BY <1>2, <2>1, <2>4, InjectorIdle
<1> QED
  BY <1>4, <1>5

LEMMA InjectorStop ==
  ASSUME RunInv, InjectorSound, FaultStop
  PROVE  InjectorSound'
<1>1. run \in Runs /\ run.pc = "sleep" /\ run.step \in Nat
  BY DEF RunInv, RunTypeOK, Runs, FaultStop
<1>2. run'.pc # "sleep"
  <2>1. CASE Ended
    BY <1>1, <2>1, EndedRun DEF Ended
  <2>2. CASE FaultFails("detached")
    BY <1>1, <2>2, FailedRun DEF FaultFails
  <2>3. CASE Do("stop", "stopping")
    <3>1. run' = [run EXCEPT !.pc = "stopping"] /\ "stopping" \in Phases
      BY <2>3 DEF Do, Phases
    <3>2. run'.pc = "stopping"
      BY <1>1, <3>1, MovedRun
    <3> QED
      BY <3>2
  <2> QED
    BY <2>1, <2>2, <2>3 DEF FaultStop, ErrNoAgent
<1>3. ~Sleeping(Rules)' /\ ~Sleeping({"deploy"})'
  BY <1>2 DEF Sleeping
<1>4. CASE Kind \in Rules
  <2>1. /\ injector.rules = {run.step} /\ injector \in Injectors
        /\ IF Kind = "deploy" THEN injector.previous = 1 ELSE injector.running = 1
    BY <1>1, <1>4 DEF InjectorSound, Sleeping
  <2>2. injector' = [injector EXCEPT !.rules = @ \ {run.step},
                             !.running = IF Kind = "deploy" THEN injector.previous ELSE @,
                             !.previous = 1]
    BY <1>4 DEF FaultStop, Rules
  <2>3. PICK r : r = injector.rules \ {run.step}
    OBVIOUS
  <2>4. r = {}
    BY <2>1, <2>3
  <2>5. injector' = [injector EXCEPT !.rules = r, !.running = 1, !.previous = 1]
    BY <2>1, <2>2, <2>3 DEF Injectors
  <2>6. injector' \in Injectors
    BY <2>1, <2>4, <2>5 DEF Injectors
  <2>7. injector'.rules = {} /\ injector'.running = 1
    BY <2>1, <2>4, <2>5 DEF Injectors
  <2> QED
    BY <1>3, <2>6, <2>7 DEF InjectorSound
<1>5. CASE Kind \notin Rules
  <2>1. UNCHANGED injector
    BY <1>5 DEF FaultStop
  <2>2. ~Sleeping(Rules)
    BY <1>5 DEF Sleeping
  <2> QED
    BY <1>3, <2>1, <2>2, InjectorIdle
<1> QED
  BY <1>4, <1>5

LEMMA InjectorWaits ==
  ASSUME RunInv, InjectorSound, DoReturns
  PROVE  InjectorSound'
<1>1. run \in Runs /\ run.pc \in {"starting", "stopping"} /\ Kind \in Cluster /\ UNCHANGED injector
  BY DEF RunInv, RunTypeOK, StepsSound, DoReturns
<1>2. ~Sleeping(Rules)
  BY <1>1 DEF Sleeping
<1>3. ~Sleeping(Rules)'
  <2>1. CASE Began
    <3>1. UNCHANGED <<run.scenario, run.step>>
      BY <1>1, <2>1, BeganRun DEF Began
    <3>2. Kind' = Kind
      BY <3>1 DEF Kind
    <3> QED
      BY <1>1, <3>2 DEF Sleeping, Cluster, Rules
  <2>2. CASE Ended
    <3>1. run'.pc = "next"
      BY <1>1, <2>2, EndedRun DEF Ended
    <3> QED
      BY <3>1 DEF Sleeping
  <2>3. CASE \E e \in {"fault", "detached"} : FaultFails(e)
    <3>1. run'.pc = "drain"
      BY <1>1, <2>3, FailedRun DEF FaultFails
    <3> QED
      BY <3>1 DEF Sleeping
  <2> QED
    BY <2>1, <2>2, <2>3 DEF DoReturns
<1> QED
  BY <1>1, <1>2, <1>3, InjectorIdle

LEMMA InjectorNext == RunInv /\ InjectorSound /\ [RunnerNext]_runner => InjectorSound'
<1> SUFFICES ASSUME RunInv, InjectorSound, [RunnerNext]_runner PROVE InjectorSound'
  OBVIOUS
<1>1. run \in Runs /\ (current <=> run.pc # "off")
  BY DEF RunInv, RunTypeOK
<1>2. CASE \E s \in LoadDir : OperatorStarts(s) \/ AgentStarts(s)
  <2>1. PICK s \in LoadDir, agent \in BOOLEAN : StartWith(s, agent)
    BY <1>2 DEF OperatorStarts, AgentStarts
  <2>2. PICK n \in Nat : n = run.id + 1
    BY <1>1 DEF Runs
  <2>3. /\ run' = [Idle EXCEPT !.id = n, !.scenario = s, !.pc = "next", !.step = 1,
                             !.checks = [i \in Signals(s) |-> Pending]]
        /\ UNCHANGED injector /\ ~current
    BY <2>1, <2>2 DEF StartWith
  <2>4. run'.pc = "next"
    BY <2>3, StartedRun
  <2> QED
    BY <1>1, <2>3, <2>4, InjectorIdle DEF Sleeping
<1>3. CASE FaultStart \/ FaultStop \/ DoReturns
  BY <1>3, InjectorStart, InjectorStop, InjectorWaits
<1>4. CASE StepsOver \/ Drain \/ Judge \/ Release
  <2>1. run.pc # "sleep" /\ UNCHANGED injector
    BY <1>4 DEF StepsOver, Drain, Judge, Release
  <2>2. run'.pc # "sleep"
    <3>1. CASE StepsOver \/ Drain \/ Judge
      BY <1>1, <3>1 DEF StepsOver, Drain, Judge, Runs
    <3>2. CASE Release
      <4>1. PICK n \in Nat : n = run.id
        BY <1>1 DEF Runs
      <4>2. PICK s \in States : s = run.state
        BY <1>1 DEF Runs
      <4>3. run' = [Idle EXCEPT !.id = n, !.state = s]
        BY <3>2, <4>1, <4>2 DEF Release
      <4>4. run'.pc = "off"
        BY <4>3, ReleasedRun
      <4> QED
        BY <4>4
    <3> QED
      BY <1>4, <3>1, <3>2
  <2> QED
    BY <2>1, <2>2, InjectorIdle DEF Sleeping
<1>5. CASE Crash
  <2>1. run' = [Idle EXCEPT !.id = run.id] /\ injector' = NoFaults
    BY <1>5 DEF Crash
  <2>2. PICK n \in Nat : n = run.id
    BY <1>1 DEF Runs
  <2>3. run'.pc = "off"
    BY <2>1, <2>2, CrashedRun
  <2> QED
    BY <2>1, <2>3 DEF InjectorSound, NoFaults, Injectors, Sleeping
<1>6. CASE \E i \in DOMAIN run.checks : CheckStep(i)
  <2>1. PICK i \in DOMAIN run.checks : CheckStep(i)
    BY <1>6
  <2>2. PICK c \in Checking : Check(i, c) /\ i \in Signals(run.scenario) /\ UNCHANGED injector
    BY <2>1, CheckStepIs
  <2>3. UNCHANGED <<run.scenario, run.pc, run.step>>
    BY <1>1, <2>2, CheckedRun DEF RunInv, RunTypeOK
  <2> QED
    BY <2>2, <2>3, InjectorKept
<1>7. CASE run' = [run EXCEPT !.stopped = TRUE, !.canceled = TRUE] /\ UNCHANGED injector
  <2>1. UNCHANGED <<run.scenario, run.pc, run.step>>
    BY <1>1, <1>7, StoppedRun
  <2> QED
    BY <1>7, <2>1, InjectorKept
<1>8. CASE UNCHANGED <<run, injector>>
  BY <1>8, InjectorKept
<1>9. CASE OperatorStops
  BY <1>7, <1>9 DEF OperatorStops
<1>10. CASE AgentStops
  BY <1>7, <1>8, <1>10 DEF AgentStops
<1>11. CASE \/ Terminate \/ Exit \/ Complete \/ AgentPolls \/ AgentApplies \/ AgentAnswers \/ AgentInterrupted
           \/ AgentDetaches \/ AgentStopped \/ AgentRestores \/ UNCHANGED runner
  <2>1. UNCHANGED <<run, injector>>
    BY <1>11 DEF Terminate, Exit, Complete, AgentPolls, AgentApplies, AgentAnswers, AgentInterrupted,
                AgentDetaches, AgentStopped, AgentRestores, runner, inProcess
  <2> QED
    BY <1>8, <2>1
<1> QED
  BY <1>2, <1>3, <1>4, <1>5, <1>6, <1>9, <1>10, <1>11 DEF RunnerNext, RunStep, AgentStep

-----------------------------------------------------------------------------
(* The delegate, the host agent and the workload.                          *)

Over == {"drain", "judge", "ended"}

\* The agent is busy with a request of the run.
Serving == current /\ host.run = run.id /\ host.pc \in {"apply", "answer"}

LEMMA NoRequestIs == NoRequest \in FaultRequests /\ NoRequest.id = 0
BY DEF NoRequest, FaultRequests, Kinds

LEMMA AgentInit == RunnerInit => AgentInv
<1> SUFFICES ASSUME RunnerInit PROVE AgentInv
  OBVIOUS
<1>1. /\ run = Idle /\ delegate = NoAgent /\ host = NoHost /\ mail = [id |-> 0, ok |-> FALSE]
      /\ workload = "up" /\ current = FALSE
  BY DEF RunnerInit
<1>2. NoAgent \in Delegates /\ NoAgent.pending = NoRequest /\ NoAgent.done = "none" /\ NoAgent.seq = 0
  BY NoRequestIs DEF NoAgent, Delegates
<1>3. NoHost \in Hosts /\ NoHost.pc = "off" /\ NoHost.run = 0 /\ NoHost.answered = 0 /\ NoHost.req = NoRequest
  BY NoRequestIs DEF NoHost, Hosts
<1>4. run.pc = "off" /\ run.id = 0
  BY <1>1, IdleRun
<1>5. DelegateSound
  BY <1>1, <1>2 DEF DelegateSound
<1>6. HostSound
  BY <1>1, <1>2, <1>3, <1>4, NoRequestIs DEF HostSound
<1>7. WorkloadSound
  BY <1>1, <1>4 DEF WorkloadSound, Sleeping
<1> QED
  BY <1>5, <1>6, <1>7 DEF AgentInv

\* While nothing waits, the agent is not busy with the run.
LEMMA HostFree ==
  ASSUME HostSound, run.pc \notin Over, delegate.pending = NoRequest
  PROVE  ~Serving
<1> SUFFICES ASSUME Serving PROVE FALSE
  OBVIOUS
<1>1. delegate.pending = host.req
  BY DEF Serving, HostSound, Over
<1>2. host.req.id > 0
  BY DEF Serving, HostSound
<1> QED
  BY <1>1, <1>2, NoRequestIs

\* A step that needs the agent has the agent of its run.
LEMMA OutageHasHost ==
  ASSUME HostSound, NEW i \in Steps(run.scenario), run.scenario.steps[i] \in Cluster, host.pc # "off"
  PROVE  host.run = run.id
BY DEF HostSound, NeedsAgent

LEMMA WaitingHasHost ==
  ASSUME RunInv, HostSound, run.pc \in {"starting", "stopping"}, host.pc # "off"
  PROVE  host.run = run.id
<1>1. run.step \in Steps(run.scenario)
  BY RunNumbers DEF RunInv, StepsSound
<1>2. run.scenario.steps[run.step] \in Cluster
  BY DEF RunInv, StepsSound, Kind
<1> QED
  BY <1>1, <1>2, OutageHasHost

LEMMA AgentKept ==
  ASSUME AgentInv, UNCHANGED <<current, delegate, host, mail, workload, run.id, run.pc, run.scenario, run.step>>,
         Alive' => Alive
  PROVE  AgentInv'
<1>1. Kind' = Kind /\ AgentAttends' = AgentAttends
  BY DEF Kind, AgentAttends
<1>2. AsAsked' = AsAsked
  BY <1>1 DEF AsAsked
<1>3. DelegateSound'
  BY <1>1, <1>2 DEF AgentInv, DelegateSound
<1>4. HostSound'
  BY <1>1, <1>2 DEF AgentInv, HostSound, NeedsAgent, Steps
<1>5. WorkloadSound'
  BY <1>1 DEF AgentInv, WorkloadSound, Sleeping, Again, Steps
<1> QED
  BY <1>3, <1>4, <1>5 DEF AgentInv

\* The run goes on and nothing waits for the agent.
LEMMA NothingWaits ==
  ASSUME DelegateSound, HostSound, delegate' \in Delegates, delegate'.pending = NoRequest, delegate'.done = "none",
         delegate'.seq = delegate.seq, UNCHANGED <<process, current, host, mail, workload, run.id, run.scenario>>,
         Serving => run'.pc \in Over /\ UNCHANGED run.step
  PROVE  DelegateSound' /\ HostSound'
<1>1. DelegateSound'
  BY DEF DelegateSound
<1>2. /\ host' \in Hosts /\ mail' \in [id : Nat, ok : BOOLEAN] /\ workload' \in {"up", "down"}
      /\ Alive' => mail'.id <= delegate'.seq /\ host'.answered <= delegate'.seq /\ host'.req.id <= delegate'.seq
      /\ host'.run <= run'.id
      /\ host'.pc \in {"apply", "answer"} => host'.req.id > 0
      /\ NeedsAgent(run'.scenario) => host'.run = run'.id \/ host'.pc = "off"
  BY DEF HostSound, Alive, NeedsAgent, Steps
<1>3. host'.pc \in {"apply", "answer"} => delegate'.pending # host'.req
  BY <1>2, NoRequestIs
<1>4. Serving' => /\ run'.step <= Len(run'.scenario.steps) /\ host'.req.type = Kind'
                  /\ mail'.id # host'.req.id /\ run'.pc \in Over
  BY DEF Serving, HostSound, Kind
<1> QED
  BY <1>1, <1>2, <1>3, <1>4 DEF HostSound, Serving, Over

\* A request is made: of a step that waits for nothing yet.
LEMMA RequestWaits ==
  ASSUME RunInv, DelegateSound, HostSound, Alive, NEW action \in {"start", "stop"}, NEW pc, Do(action, pc),
         pc = IF action = "start" THEN "starting" ELSE "stopping", run.pc \in {"next", "sleep"},
         run.step <= Len(run.scenario.steps), UNCHANGED <<process, current, host, mail, workload>>
  PROVE  /\ DelegateSound' /\ HostSound'
         /\ run'.pc = pc /\ UNCHANGED <<run.id, run.scenario, run.step>>
<1>1. run \in Runs /\ delegate \in Delegates /\ Kind \in Kinds
  <2>1. run.step \in Steps(run.scenario)
    BY RunNumbers
  <2>2. run.scenario.steps[run.step] \in Kinds
    BY <2>1, RunNumbers
  <2> QED
    BY <2>2 DEF RunInv, RunTypeOK, DelegateSound, Kind
<1>2. /\ run'.pc = pc /\ UNCHANGED <<run.id, run.scenario, run.step>>
  <2>1. run' = [run EXCEPT !.pc = pc] /\ pc \in Phases
    BY DEF Do, Phases
  <2> QED
    BY <1>1, <2>1, MovedRun
<1>3. PICK n \in Nat : n = delegate.seq + 1
  BY <1>1 DEF Delegates
<1>4. PICK k \in Kinds : k = Kind
  BY <1>1
<1>5. PICK r : r = [id |-> n, action |-> action, type |-> k]
  OBVIOUS
<1>6. r \in FaultRequests /\ r.id = n /\ r.action = action /\ r.type = k
  BY <1>5 DEF FaultRequests
<1>7. delegate' = [delegate EXCEPT !.seq = n, !.done = "none", !.pending = r]
  BY <1>1, <1>3, <1>4, <1>5 DEF Do, Delegates
<1>8. /\ delegate' \in Delegates
  BY <1>1, <1>6, <1>7 DEF Delegates
<1>9. delegate'.seq = n /\ delegate'.done = "none" /\ delegate'.pending = r
  BY <1>1, <1>7 DEF Delegates
<1>10. Kind' = Kind
  BY <1>2 DEF Kind
<1>11. delegate.pending = NoRequest /\ delegate.seq \in Nat
  BY <1>1 DEF DelegateSound, Delegates
<1>12. ~Serving
  BY <1>11, HostFree DEF Over
<1>13. ~Serving'
  BY <1>2, <1>12 DEF Serving
<1>14. DelegateSound'
  BY <1>2, <1>3, <1>4, <1>6, <1>8, <1>9, <1>10, <1>11 DEF DelegateSound
<1>15. mail.id # n
  BY <1>3, <1>11 DEF HostSound
<1>16. /\ host' \in Hosts /\ mail' \in [id : Nat, ok : BOOLEAN] /\ workload' \in {"up", "down"}
       /\ host'.run <= run'.id
       /\ host'.pc \in {"apply", "answer"} => host'.req.id > 0
       /\ NeedsAgent(run'.scenario) => host'.run = run'.id \/ host'.pc = "off"
  BY <1>2 DEF HostSound, NeedsAgent, Steps
<1>17. mail'.id <= delegate'.seq /\ host'.answered <= delegate'.seq /\ host'.req.id <= delegate'.seq
  <2>1. mail.id \in Nat /\ host.answered \in Nat /\ host.req.id \in Nat
    BY DEF HostSound, Hosts, FaultRequests
  <2>2. mail.id <= delegate.seq /\ host.answered <= delegate.seq /\ host.req.id <= delegate.seq
    BY DEF HostSound
  <2> QED
    BY <1>3, <1>9, <1>11, <2>1, <2>2
<1>18. HostSound'
  BY <1>6, <1>9, <1>13, <1>15, <1>16, <1>17 DEF HostSound, Serving
<1> QED
  BY <1>2, <1>14, <1>18

\* What an outage that has ended says while the run goes on.
LEMMA WorkloadKept ==
  ASSUME RunInv, WorkloadSound, UNCHANGED <<workload, run.scenario>>, run.pc # "off", ~Sleeping({"outage"})',
         \/ UNCHANGED run.step
         \/ run'.step = run.step + 1 /\ Kind # "outage"
  PROVE  WorkloadSound'
<1>1. run.step \in Nat /\ Steps(run.scenario) \subseteq Nat
  BY RunNumbers
<1>2. ASSUME NEW i \in Steps(run.scenario), run.scenario.steps[i] = "outage", i < run'.step, ~Again(i)'
      PROVE  workload = "up"
  <2>1. i < run.step
    BY <1>1, <1>2 DEF Kind
  <2>2. ~Again(i)
    <3>1. ASSUME NEW k \in Steps(run.scenario), k <= run.step PROVE k <= run'.step
      BY <1>1, <3>1
    <3> QED
      BY <1>2, <3>1 DEF Again, Steps
  <2> QED
    BY <1>2, <2>1, <2>2 DEF WorkloadSound
<1> QED
  BY <1>2 DEF WorkloadSound, Steps

LEMMA AgentFaultStart ==
  ASSUME RunInv, AgentInv, FaultStart
  PROVE  AgentInv'
<1>1. /\ run \in Runs /\ run.pc = "next" /\ run.step <= Len(run.scenario.steps) /\ Alive
      /\ UNCHANGED <<process, current, host, mail, workload>>
  BY DEF RunInv, RunTypeOK, FaultStart, outside
<1>2. /\ DelegateSound /\ HostSound /\ WorkloadSound
      /\ delegate \in Delegates /\ delegate.pending = NoRequest /\ delegate.done = "none"
  BY <1>1 DEF AgentInv, DelegateSound
<1>3. ~Serving
  BY <1>1, <1>2, HostFree DEF Over
<1>4. CASE Began /\ Kind # "outage" /\ UNCHANGED delegate
  <2>1. UNCHANGED <<run.id, run.scenario, run.step>>
    BY <1>1, <1>4, BeganRun DEF Began
  <2>2. DelegateSound' /\ HostSound'
    BY <1>1, <1>2, <1>3, <1>4, <2>1, NothingWaits
  <2>3. ~Sleeping({"outage"})'
    BY <1>4, <2>1 DEF Sleeping, Kind
  <2>4. WorkloadSound'
    BY <1>1, <1>2, <2>1, <2>3, WorkloadKept
  <2> QED
    BY <2>2, <2>4 DEF AgentInv
<1>5. CASE (\E e \in {"fault", "detached"} : FaultFails(e)) /\ UNCHANGED delegate
  <2>1. run'.pc = "drain" /\ UNCHANGED <<run.id, run.scenario, run.step>>
    BY <1>1, <1>5, FailedRun DEF FaultFails
  <2>2. DelegateSound' /\ HostSound'
    BY <1>1, <1>2, <1>3, <1>5, <2>1, NothingWaits
  <2>3. ~Sleeping({"outage"})'
    BY <2>1 DEF Sleeping
  <2>4. WorkloadSound'
    BY <1>1, <1>2, <2>1, <2>3, WorkloadKept
  <2> QED
    BY <2>2, <2>4 DEF AgentInv
<1>6. CASE Do("start", "starting")
  <2>1. /\ DelegateSound' /\ HostSound'
        /\ run'.pc = "starting" /\ UNCHANGED <<run.id, run.scenario, run.step>>
    BY <1>1, <1>2, <1>6, RequestWaits
  <2>2. ~Sleeping({"outage"})'
    BY <2>1 DEF Sleeping
  <2>3. WorkloadSound'
    BY <1>1, <1>2, <2>1, <2>2, WorkloadKept
  <2> QED
    BY <2>1, <2>3 DEF AgentInv
<1> QED
  BY <1>4, <1>5, <1>6 DEF FaultStart, ErrNoAgent, Rules, Cluster

LEMMA AgentFaultStop ==
  ASSUME RunInv, AgentInv, FaultStop
  PROVE  AgentInv'
<1>1. /\ run \in Runs /\ run.pc = "sleep" /\ run.step <= Len(run.scenario.steps) /\ Alive
      /\ UNCHANGED <<process, current, host, mail, workload>>
  BY DEF RunInv, RunTypeOK, StepsSound, FaultStop, outside
<1>2. /\ DelegateSound /\ HostSound /\ WorkloadSound
      /\ delegate \in Delegates /\ delegate.pending = NoRequest /\ delegate.done = "none"
  BY <1>1 DEF AgentInv, DelegateSound
<1>3. ~Serving
  BY <1>1, <1>2, HostFree DEF Over
<1>4. CASE Ended /\ Kind # "outage" /\ UNCHANGED delegate
  <2>1. run'.pc = "next" /\ run'.step = run.step + 1 /\ UNCHANGED <<run.id, run.scenario>>
    BY <1>1, <1>4, EndedRun DEF Ended
  <2>2. DelegateSound' /\ HostSound'
    BY <1>1, <1>2, <1>3, <1>4, <2>1, NothingWaits
  <2>3. ~Sleeping({"outage"})'
    BY <2>1 DEF Sleeping
  <2>4. WorkloadSound'
    BY <1>1, <1>2, <1>4, <2>1, <2>3, WorkloadKept
  <2> QED
    BY <2>2, <2>4 DEF AgentInv
<1>5. CASE FaultFails("detached") /\ UNCHANGED delegate
  <2>1. run'.pc = "drain" /\ UNCHANGED <<run.id, run.scenario, run.step>>
    BY <1>1, <1>5, FailedRun DEF FaultFails
  <2>2. DelegateSound' /\ HostSound'
    BY <1>1, <1>2, <1>3, <1>5, <2>1, NothingWaits
  <2>3. ~Sleeping({"outage"})'
    BY <2>1 DEF Sleeping
  <2>4. WorkloadSound'
    BY <1>1, <1>2, <2>1, <2>3, WorkloadKept
  <2> QED
    BY <2>2, <2>4 DEF AgentInv
<1>6. CASE Do("stop", "stopping")
  <2>1. /\ DelegateSound' /\ HostSound'
        /\ run'.pc = "stopping" /\ UNCHANGED <<run.id, run.scenario, run.step>>
    BY <1>1, <1>2, <1>6, RequestWaits
  <2>2. ~Sleeping({"outage"})'
    BY <2>1 DEF Sleeping
  <2>3. WorkloadSound'
    BY <1>1, <1>2, <2>1, <2>2, WorkloadKept
  <2> QED
    BY <2>1, <2>3 DEF AgentInv
<1> QED
  BY <1>4, <1>5, <1>6 DEF FaultStop, ErrNoAgent, Rules

\* Do returns, with the agent's answer or without.
LEMMA AgentDoReturns ==
  ASSUME RunInv, AgentInv, DoReturns
  PROVE  AgentInv'
<1>1. /\ run \in Runs /\ run.pc \in {"starting", "stopping"}
      /\ UNCHANGED <<process, current, host, mail, workload>>
      /\ Kind \in Cluster /\ (run.pc = "stopping" => Kind = "outage")
  BY DEF RunInv, RunTypeOK, StepsSound, DoReturns, outside
<1>2. DelegateSound /\ HostSound /\ WorkloadSound /\ delegate \in Delegates
  BY DEF AgentInv, DelegateSound
<1>3. /\ delegate' \in Delegates /\ delegate'.pending = NoRequest /\ delegate'.done = "none"
      /\ delegate'.seq = delegate.seq
  <2>1. CASE delegate.done # "none" /\ delegate' = [delegate EXCEPT !.done = "none"]
    <3>1. delegate.pending = NoRequest
      BY <1>2, <2>1 DEF DelegateSound
    <3> QED
      BY <1>2, <2>1, <3>1 DEF Delegates
  <2>2. CASE delegate' = [delegate EXCEPT !.done = "none", !.pending = NoRequest]
    <3>1. delegate' \in Delegates
      BY <1>2, <2>2, NoRequestIs DEF Delegates
    <3> QED
      BY <1>2, <2>2, <3>1 DEF Delegates
  <2> QED
    BY <2>1, <2>2 DEF DoReturns
<1>4. CASE \E e \in {"fault", "detached"} : FaultFails(e)
  <2>1. run'.pc = "drain" /\ UNCHANGED <<run.id, run.scenario, run.step>>
    BY <1>1, <1>4, FailedRun DEF FaultFails
  <2>2. DelegateSound' /\ HostSound'
    BY <1>1, <1>2, <1>3, <2>1, NothingWaits DEF Over
  <2>3. ~Sleeping({"outage"})'
    BY <2>1 DEF Sleeping
  <2>4. WorkloadSound'
    BY <1>1, <1>2, <2>1, <2>3, WorkloadKept
  <2> QED
    BY <2>2, <2>4 DEF AgentInv
<1>5. ASSUME delegate.done = "ok" PROVE ~Serving /\ AsAsked
  <2>1. delegate.pending = NoRequest /\ AsAsked
    BY <1>2, <1>5 DEF DelegateSound
  <2> QED
    BY <1>1, <1>2, <2>1, HostFree DEF Over
<1>6. CASE delegate.done = "ok" /\ run.pc = "starting" /\ Began
  <2>1. run'.pc = "sleep" /\ UNCHANGED <<run.id, run.scenario, run.step>>
    BY <1>1, <1>6, BeganRun DEF Began
  <2>2. DelegateSound' /\ HostSound'
    BY <1>1, <1>2, <1>3, <1>5, <1>6, <2>1, NothingWaits
  <2>3. Sleeping({"outage"})' /\ AgentAttends' => workload' = "down"
    BY <1>1, <1>5, <1>6, <2>1 DEF Sleeping, AgentAttends, AsAsked, Kind
  <2>4. WorkloadSound'
    BY <1>1, <1>2, <2>1, <2>3 DEF WorkloadSound, Again, Steps
  <2> QED
    BY <2>2, <2>4 DEF AgentInv
<1>7. CASE delegate.done = "ok" /\ run.pc = "stopping" /\ Ended
  <2>1. run'.pc = "next" /\ UNCHANGED <<run.id, run.scenario>>
    BY <1>1, <1>7, EndedRun DEF Ended
  <2>2. DelegateSound' /\ HostSound'
    BY <1>1, <1>2, <1>3, <1>5, <1>7, <2>1, NothingWaits
  <2>3. workload' = "up"
    BY <1>1, <1>5, <1>7 DEF AsAsked
  <2>4. WorkloadSound'
    BY <2>1, <2>3 DEF WorkloadSound, Sleeping
  <2> QED
    BY <2>2, <2>4 DEF AgentInv
<1> QED
  BY <1>1, <1>4, <1>6, <1>7 DEF DoReturns

\* The end of a run.
LEMMA AgentLastSteps ==
  ASSUME RunInv, AgentInv, StepsOver \/ Drain \/ Judge
  PROVE  AgentInv'
<1>1. /\ run \in Runs /\ run.pc \in {"next", "drain", "judge"}
      /\ UNCHANGED <<process, current, delegate, host, mail, workload>>
  BY DEF RunInv, RunTypeOK, StepsOver, Drain, Judge, outside
<1>2. /\ DelegateSound /\ HostSound /\ WorkloadSound
      /\ delegate \in Delegates /\ delegate.pending = NoRequest /\ delegate.done = "none"
  BY <1>1 DEF AgentInv, DelegateSound
<1>3. run'.pc \in Over /\ UNCHANGED <<run.id, run.scenario, run.step>>
  <2>1. CASE StepsOver \/ Drain
    <3>1. PICK pc \in {"drain", "judge"} : run' = [run EXCEPT !.pc = pc]
      BY <2>1 DEF StepsOver, Drain
    <3>2. pc \in Phases
      BY DEF Phases
    <3> QED
      BY <1>1, <3>1, <3>2, MovedRun DEF Over
  <2>2. CASE Judge
    <3>1. PICK j : j = journal'
      OBVIOUS
    <3>2. PICK s : s = IF j.broken /\ run.err = "none" THEN "error" ELSE Verdict
      OBVIOUS
    <3>3. s \in States
      BY <3>2, VerdictType
    <3>4. run' = [run EXCEPT !.pc = "ended", !.state = s]
      BY <2>2, <3>1, <3>2 DEF Judge
    <3> QED
      BY <1>1, <3>3, <3>4, JudgedRun DEF Over
  <2> QED
    BY <2>1, <2>2
<1>4. DelegateSound' /\ HostSound'
  BY <1>1, <1>2, <1>3, NothingWaits
<1>5. ~Sleeping({"outage"})'
  BY <1>3 DEF Sleeping, Over
<1>6. WorkloadSound'
  BY <1>1, <1>2, <1>3, <1>5, WorkloadKept
<1> QED
  BY <1>4, <1>6 DEF AgentInv

\* No run: it is over, or its process is gone.
LEMMA NoRunAgent ==
  ASSUME HostSound, run'.pc = "off", run'.scenario = NoScenario, UNCHANGED <<run.id, host, mail, workload>>, current' = FALSE,
         delegate' \in Delegates, delegate'.pending = NoRequest, delegate'.done = "none",
         Alive' => Alive /\ delegate'.seq = delegate.seq
  PROVE  AgentInv'
<1>1. Steps(NoScenario) = {}
  BY DEF Steps, NoScenario
<1>2. DelegateSound'
  BY DEF DelegateSound
<1>3. HostSound'
  BY <1>1 DEF HostSound, NeedsAgent
<1>4. WorkloadSound'
  BY DEF WorkloadSound, Sleeping
<1> QED
  BY <1>2, <1>3, <1>4 DEF AgentInv

LEMMA AgentOver ==
  ASSUME RunInv, AgentInv, Release \/ Crash
  PROVE  AgentInv'
<1>1. run \in Runs /\ delegate \in Delegates /\ HostSound
  BY DEF RunInv, RunTypeOK, AgentInv, DelegateSound
<1>2. PICK n \in Nat : n = run.id
  BY <1>1 DEF Runs
<1>3. PICK s \in States : s = run.state
  BY <1>1 DEF Runs
<1>4. /\ run' = [Idle EXCEPT !.id = n] \/ run' = [Idle EXCEPT !.id = n, !.state = s]
      /\ current' = FALSE /\ UNCHANGED <<host, mail, workload>>
  BY <1>2, <1>3 DEF Release, Crash, outside
<1>5. run'.id = n /\ run'.pc = "off" /\ run'.scenario = NoScenario
  BY <1>4, CrashedRun, ReleasedRun
<1>6. CASE Release
  <2>1. run.pc = "ended" /\ UNCHANGED process
        /\ delegate' = [delegate EXCEPT !.attached = FALSE, !.pending = NoRequest]
    BY <1>6 DEF Release
  <2>2. delegate.done = "none"
    BY <2>1 DEF AgentInv, DelegateSound
  <2>3. delegate' \in Delegates
    BY <1>1, <2>1, NoRequestIs DEF Delegates
  <2>4. delegate'.pending = NoRequest /\ delegate'.done = "none" /\ delegate'.seq = delegate.seq
    BY <1>1, <2>1, <2>2 DEF Delegates
  <2> QED
    BY <1>1, <1>2, <1>4, <1>5, <2>1, <2>3, <2>4, NoRunAgent DEF Alive
<1>7. CASE Crash
  <2>1. delegate' = NoAgent /\ process' = "gone"
    BY <1>7 DEF Crash
  <2>2. NoAgent \in Delegates /\ NoAgent.pending = NoRequest /\ NoAgent.done = "none"
    BY NoRequestIs DEF NoAgent, Delegates
  <2> QED
    BY <1>1, <1>2, <1>4, <1>5, <2>1, <2>2, NoRunAgent DEF Alive
<1> QED
  BY <1>6, <1>7

\* A run starts, with its agent or without one.
LEMMA AgentRunStarts ==
  ASSUME RunInv, AgentInv, NEW s \in LoadDir, OperatorStarts(s) \/ AgentStarts(s)
  PROVE  AgentInv'
<1>1. PICK agent \in BOOLEAN : /\ StartWith(s, agent) /\ UNCHANGED <<mail, workload>>
                               /\ \/ ~agent /\ UNCHANGED host
                                  \/ agent /\ host.pc = "off"
                                     /\ host' = [NoHost EXCEPT !.pc = "poll", !.run = run.id + 1, !.byHand = host.byHand]
  BY DEF OperatorStarts, AgentStarts, outside
<1>2. PICK n \in Nat : n = run.id + 1
  BY DEF RunInv, RunTypeOK, Runs
<1>3. /\ run' = [Idle EXCEPT !.id = n, !.scenario = s, !.pc = "next", !.step = 1,
                             !.checks = [i \in Signals(s) |-> Pending]]
      /\ process = "up" /\ UNCHANGED process /\ ~current
      /\ delegate' = IF agent THEN [delegate EXCEPT !.attached = TRUE] ELSE delegate
  BY <1>1, <1>2 DEF StartWith
<1>4. run'.id = n /\ run'.scenario = s /\ run'.pc = "next" /\ run'.step = 1
  BY <1>3, StartedRun
<1>5. run.pc = "off" /\ run.id \in Nat
  BY <1>3 DEF RunInv, RunTypeOK, Runs
<1>6. delegate \in Delegates /\ delegate.pending = NoRequest /\ delegate.done = "none" /\ HostSound
  BY <1>5 DEF AgentInv, DelegateSound
<1>7. /\ delegate' \in Delegates /\ delegate'.pending = NoRequest /\ delegate'.done = "none"
      /\ delegate'.seq = delegate.seq
  BY <1>3, <1>6 DEF Delegates
<1>8. DelegateSound'
  BY <1>7 DEF DelegateSound
<1>9. WorkloadSound'
  <2>1. \A i \in Steps(s) : ~(i < 1)
    BY ScenarioShape DEF Scenarios, Steps
  <2> QED
    BY <1>4, <2>1 DEF WorkloadSound, Sleeping
<1>10. CASE ~agent /\ UNCHANGED host
  <2>1. ~NeedsAgent(s)
    BY <1>1, <1>10 DEF StartWith
  <2>2. host.run <= run.id /\ host.run \in Nat
    BY <1>6 DEF HostSound, Hosts
  <2>3. host'.run <= run'.id /\ host'.run # run'.id
    BY <1>2, <1>4, <1>5, <1>10, <2>2
  <2>4. /\ host' \in Hosts /\ mail' \in [id : Nat, ok : BOOLEAN] /\ workload' \in {"up", "down"}
        /\ Alive' => mail'.id <= delegate'.seq /\ host'.answered <= delegate'.seq /\ host'.req.id <= delegate'.seq
        /\ host'.pc \in {"apply", "answer"} => host'.req.id > 0
    BY <1>1, <1>3, <1>6, <1>7, <1>10 DEF HostSound, Alive
  <2>5. HostSound'
    BY <1>4, <1>7, <2>1, <2>3, <2>4 DEF HostSound
  <2> QED
    BY <1>8, <1>9, <2>5 DEF AgentInv
<1>11. CASE agent /\ host.pc = "off" /\ host' = [NoHost EXCEPT !.pc = "poll", !.run = run.id + 1, !.byHand = host.byHand]
  <2>1. PICK b : b = host.byHand
    OBVIOUS
  <2>2. b \in BOOLEAN
    BY <1>6, <2>1 DEF HostSound, Hosts
  <2>3. host' = [NoHost EXCEPT !.pc = "poll", !.run = n, !.byHand = b]
    BY <1>2, <1>11, <2>1
  <2>4. NoHost \in Hosts /\ NoHost.answered = 0 /\ NoHost.req = NoRequest
    BY NoRequestIs DEF NoHost, Hosts
  <2>5. host' \in Hosts
    BY <2>2, <2>3, <2>4 DEF Hosts
  <2>6. host'.pc = "poll" /\ host'.run = n /\ host'.answered = 0 /\ host'.req = NoRequest
    BY <2>3, <2>4 DEF Hosts
  <2>7. delegate'.seq \in Nat /\ n <= n
    BY <1>7 DEF Delegates
  <2>8. /\ mail' \in [id : Nat, ok : BOOLEAN] /\ workload' \in {"up", "down"}
        /\ Alive' => mail'.id <= delegate'.seq
    BY <1>1, <1>3, <1>6, <1>7 DEF HostSound, Alive
  <2>9. host'.answered <= delegate'.seq /\ host'.req.id <= delegate'.seq
    BY <2>6, <2>7, NoRequestIs
  <2>10. HostSound'
    BY <1>4, <1>7, <2>5, <2>6, <2>7, <2>8, <2>9 DEF HostSound
  <2> QED
    BY <1>8, <1>9, <2>10 DEF AgentInv
<1> QED
  BY <1>1, <1>10, <1>11

\* An answer that is delivered, perhaps late or once more.
LEMMA AgentComplete ==
  ASSUME RunInv, AgentInv, Complete
  PROVE  AgentInv'
<1>1. /\ mail.id # 0 /\ delegate.pending.id = mail.id
      /\ UNCHANGED <<process, current, run, host, mail, workload>>
      /\ delegate' = [delegate EXCEPT !.done = IF mail.ok THEN "ok" ELSE "fault", !.pending = NoRequest]
  BY DEF Complete, Answers, outside
<1>2. delegate.pending # NoRequest
  BY <1>1, NoRequestIs
<1>3. /\ delegate \in Delegates /\ run.pc \in {"starting", "stopping"} /\ HostSound /\ WorkloadSound
  BY <1>2 DEF AgentInv, DelegateSound
<1>4. PICK d \in {"ok", "fault"} : d = IF mail.ok THEN "ok" ELSE "fault"
  OBVIOUS
<1>5. delegate' = [delegate EXCEPT !.done = d, !.pending = NoRequest]
  BY <1>1, <1>4
<1>6. delegate' \in Delegates
  BY <1>3, <1>5, NoRequestIs DEF Delegates
<1>7. delegate'.done = d /\ delegate'.pending = NoRequest /\ delegate'.seq = delegate.seq
  BY <1>3, <1>5 DEF Delegates
<1>8. AsAsked' = AsAsked /\ Kind' = Kind /\ AgentAttends' = AgentAttends
  BY <1>1 DEF AsAsked, Kind, AgentAttends
<1>9. d = "ok" => AsAsked
  BY <1>1, <1>2, <1>3, <1>4 DEF HostSound
<1>10. DelegateSound'
  BY <1>1, <1>3, <1>6, <1>7, <1>8, <1>9 DEF DelegateSound
<1>11. ~Serving
  BY <1>1, <1>3 DEF Serving, HostSound
<1>12. ~Serving'
  BY <1>1, <1>11 DEF Serving
<1>13. HostSound'
  <2>1. /\ host' \in Hosts /\ mail' \in [id : Nat, ok : BOOLEAN] /\ workload' \in {"up", "down"}
        /\ Alive' => mail'.id <= delegate'.seq /\ host'.answered <= delegate'.seq /\ host'.req.id <= delegate'.seq
        /\ host'.run <= run'.id
        /\ host'.pc \in {"apply", "answer"} => host'.req.id > 0
        /\ NeedsAgent(run'.scenario) => host'.run = run'.id \/ host'.pc = "off"
    BY <1>1, <1>3, <1>7 DEF HostSound, Alive
  <2> QED
    BY <1>7, <1>12, <2>1 DEF HostSound, Serving
<1>14. WorkloadSound'
  BY <1>1, <1>3, <1>8 DEF WorkloadSound, Sleeping, Again, Steps
<1> QED
  BY <1>10, <1>13, <1>14 DEF AgentInv

\* The agent leaves, or is gone: it serves no run, and what it did stays or is undone.
LEMMA HostLeaves ==
  ASSUME AgentInv, UNCHANGED <<process, current, mail, run.id, run.pc, run.scenario, run.step>>,
         host' \in Hosts, host'.pc \notin {"poll", "apply", "answer"}, host'.run = host.run \/ host'.pc = "off",
         host'.run <= run.id, host'.answered \in {0, host.answered}, host'.req \in {NoRequest, host.req},
         workload' = workload \/ workload' = "up", delegate' \in Delegates, delegate'.seq = delegate.seq,
         host.pc # "off",
         \/ UNCHANGED delegate
         \/ delegate'.pending = NoRequest /\ delegate'.done = IF delegate.pending # NoRequest THEN "detached" ELSE delegate.done
  PROVE  AgentInv'
<1>1. Kind' = Kind /\ ~AgentAttends'
  BY DEF Kind, AgentAttends
<1>2. AsAsked => AsAsked'
  BY <1>1 DEF AsAsked
<1>3. DelegateSound'
  BY <1>1, <1>2 DEF AgentInv, DelegateSound
<1>4. Alive' => mail'.id <= delegate'.seq /\ host'.answered <= delegate'.seq /\ host'.req.id <= delegate'.seq
  <2>1. delegate.seq \in Nat
    BY DEF AgentInv, DelegateSound, Delegates
  <2> QED
    BY <2>1, NoRequestIs DEF AgentInv, HostSound, Alive
<1>5. /\ mail' \in [id : Nat, ok : BOOLEAN] /\ workload' \in {"up", "down"}
      /\ NeedsAgent(run'.scenario) => host'.run = run'.id \/ host'.pc = "off"
  BY DEF AgentInv, HostSound, NeedsAgent, Steps
<1>6. delegate'.pending # NoRequest => UNCHANGED delegate
  OBVIOUS
<1>7. HostSound'
  BY <1>2, <1>4, <1>5, <1>6 DEF AgentInv, HostSound
<1>8. WorkloadSound'
  BY <1>1 DEF AgentInv, WorkloadSound, Sleeping, Again, Steps
<1> QED
  BY <1>3, <1>7, <1>8 DEF AgentInv

\* The agent takes up a request it has not answered.
LEMMA AgentTakesUp ==
  ASSUME RunInv, AgentInv, host.pc = "poll", Alive, run.id = host.run, delegate.pending.id \notin {0, host.answered},
         host' = [host EXCEPT !.pc = "apply", !.req = delegate.pending], UNCHANGED <<inProcess, mail, workload>>
  PROVE  AgentInv'
<1>1. UNCHANGED <<process, current, run, delegate, mail, workload>> /\ UNCHANGED run.id
  BY DEF inProcess
<1>2. delegate.pending # NoRequest
  BY NoRequestIs
<1>3. /\ DelegateSound /\ HostSound /\ WorkloadSound /\ delegate \in Delegates /\ host \in Hosts
      /\ run.pc \in {"starting", "stopping"} /\ delegate.pending.type = Kind /\ delegate.pending.id = delegate.seq
  BY <1>2 DEF AgentInv, DelegateSound, HostSound
<1>4. current /\ run.step <= Len(run.scenario.steps)
  BY <1>3 DEF RunInv, RunTypeOK, StepsSound
<1>5. PICK r \in FaultRequests : r = delegate.pending
  BY <1>3 DEF Delegates
<1>6. host' = [host EXCEPT !.pc = "apply", !.req = r]
  BY <1>5
<1>7. host' \in Hosts
  BY <1>3, <1>6 DEF Hosts
<1>8. host'.pc = "apply" /\ host'.req = r /\ UNCHANGED <<host.run, host.answered>>
  BY <1>3, <1>6 DEF Hosts
<1>9. mail.id # r.id
  BY <1>2, <1>3, <1>4, <1>5 DEF HostSound
<1>10. r.id \in Nat /\ r.id # 0
  BY <1>5 DEF FaultRequests
<1>11. Kind' = Kind /\ AgentAttends' = AgentAttends
  BY <1>1, <1>8 DEF Kind, AgentAttends
<1>12. AsAsked' = AsAsked
  BY <1>1, <1>11 DEF AsAsked
<1>13. DelegateSound'
  BY <1>1, <1>3, <1>11, <1>12 DEF DelegateSound
<1>14. r.id <= delegate.seq /\ r.id > 0
  BY <1>3, <1>5, <1>10
<1>15. /\ mail' \in [id : Nat, ok : BOOLEAN] /\ workload' \in {"up", "down"}
       /\ Alive' => mail'.id <= delegate'.seq /\ host'.answered <= delegate'.seq
       /\ host'.run <= run'.id
       /\ NeedsAgent(run'.scenario) => host'.run = run'.id \/ host'.pc = "off"
  BY <1>1, <1>3, <1>8 DEF HostSound, Alive
<1>16. HostSound'
  <2>1. delegate'.pending # NoRequest /\ mail'.id = delegate'.pending.id /\ mail'.ok => AsAsked'
    BY <1>1, <1>5, <1>9
  <2> QED
    BY <1>1, <1>3, <1>4, <1>5, <1>7, <1>8, <1>9, <1>11, <1>14, <1>15, <2>1 DEF HostSound
<1>17. WorkloadSound'
  BY <1>1, <1>3, <1>11 DEF WorkloadSound, Sleeping, Again, Steps
<1> QED
  BY <1>13, <1>16, <1>17 DEF AgentInv

\* The agent acts: nobody but the request it acts for depends on the workload.
LEMMA AgentActs ==
  ASSUME RunInv, AgentInv, AgentApplies
  PROVE  AgentInv'
<1>1. /\ host.pc = "apply" /\ UNCHANGED <<process, current, run, delegate, mail>> /\ UNCHANGED run.id
      /\ DelegateSound /\ HostSound /\ WorkloadSound /\ host \in Hosts
  BY DEF AgentApplies, inProcess, AgentInv, HostSound
<1>2. PICK ok \in BOOLEAN :
          IF host.req.type = "outage"
             THEN /\ workload' \in IF ~ok THEN {"up", "down"}
                                   ELSE {IF host.req.action = "start" THEN "down" ELSE "up"}
                  /\ host' = [host EXCEPT !.pc = "answer", !.ok = ok,
                                 !.outage = (host.req.action = "start" \/ ~ok)]
             ELSE UNCHANGED workload /\ host' = [host EXCEPT !.pc = "answer", !.ok = ok]
  BY DEF AgentApplies
<1>3. /\ host' \in Hosts /\ host'.pc = "answer" /\ host'.ok = ok /\ workload' \in {"up", "down"}
      /\ UNCHANGED <<host.run, host.answered, host.req>>
  <2>1. CASE host.req.type = "outage"
    <3>1. PICK o : o = (host.req.action = "start" \/ ~ok)
      OBVIOUS
    <3>2. o \in BOOLEAN
      BY <3>1
    <3>3. host' = [host EXCEPT !.pc = "answer", !.ok = ok, !.outage = o]
      BY <1>2, <2>1, <3>1
    <3>4. host' \in Hosts
      BY <1>1, <3>2, <3>3 DEF Hosts
    <3>5. host'.pc = "answer" /\ host'.ok = ok /\ UNCHANGED <<host.run, host.answered, host.req>>
      BY <1>1, <3>3 DEF Hosts
    <3> QED
      BY <1>2, <2>1, <3>4, <3>5
  <2>2. CASE host.req.type # "outage"
    <3>1. host' = [host EXCEPT !.pc = "answer", !.ok = ok] /\ UNCHANGED workload
      BY <1>2, <2>2
    <3>2. host' \in Hosts
      BY <1>1, <3>1 DEF Hosts
    <3>3. host'.pc = "answer" /\ host'.ok = ok /\ UNCHANGED <<host.run, host.answered, host.req>>
      BY <1>1, <3>1 DEF Hosts
    <3> QED
      BY <1>1, <3>1, <3>2, <3>3 DEF HostSound
  <2> QED
    BY <2>1, <2>2
<1>4. Kind' = Kind /\ AgentAttends' = AgentAttends
  BY <1>1, <1>3 DEF Kind, AgentAttends
<1>5. ASSUME run.pc \in {"starting", "stopping"}
      PROVE  /\ Serving /\ delegate.pending = host.req /\ delegate.pending # NoRequest
             /\ delegate.done = "none" /\ mail.id # delegate.pending.id
  <2>1. host.run = run.id /\ current
    BY <1>1, <1>5, WaitingHasHost DEF RunInv, RunTypeOK
  <2>2. Serving
    BY <1>1, <2>1 DEF Serving
  <2>3. delegate.pending = host.req /\ mail.id # host.req.id
    BY <1>1, <1>5, <2>2 DEF HostSound, Serving
  <2>4. delegate.pending # NoRequest
    BY <1>1, <2>3, NoRequestIs DEF HostSound
  <2> QED
    BY <1>1, <2>2, <2>3, <2>4 DEF DelegateSound
<1>6. DelegateSound'
  BY <1>1, <1>4, <1>5 DEF DelegateSound
<1>7. Serving' => Serving
  BY <1>1, <1>3 DEF Serving
<1>8. ASSUME Serving, ok, delegate.pending = host.req PROVE AsAsked'
  <2>1. host.req.type = Kind /\ host.req.id > 0
    BY <1>1, <1>8 DEF HostSound, Serving
  <2>2. delegate.pending # NoRequest
    BY <1>8, <2>1, NoRequestIs
  <2>3. host.req.action = IF run.pc = "starting" THEN "start" ELSE "stop"
    BY <1>1, <1>8, <2>2 DEF DelegateSound
  <2>4. Kind = "outage" => workload' = IF run.pc = "starting" THEN "down" ELSE "up"
    BY <1>2, <1>8, <2>1, <2>3
  <2> QED
    BY <1>1, <1>4, <2>4 DEF AsAsked
<1>9. HostSound'
  <2>1. /\ mail' \in [id : Nat, ok : BOOLEAN]
        /\ Alive' => mail'.id <= delegate'.seq /\ host'.answered <= delegate'.seq /\ host'.req.id <= delegate'.seq
        /\ host'.run <= run'.id /\ host'.req.id > 0
        /\ NeedsAgent(run'.scenario) => host'.run = run'.id \/ host'.pc = "off"
    BY <1>1, <1>3 DEF HostSound, Alive
  <2>2. Serving => /\ run.step <= Len(run.scenario.steps) /\ host.req.type = Kind
                   /\ mail.id # host.req.id
                   /\ delegate.pending = host.req \/ run.pc \in {"drain", "judge", "ended"}
    BY <1>1 DEF HostSound, Serving
  <2>3. Serving' => /\ run'.step <= Len(run'.scenario.steps) /\ host'.req.type = Kind'
                    /\ mail'.id # host'.req.id
                    /\ delegate'.pending = host'.req \/ run'.pc \in {"drain", "judge", "ended"}
    BY <1>1, <1>3, <1>4, <1>7, <2>2
  <2>4. Serving' /\ host'.ok /\ delegate'.pending = host'.req => AsAsked'
    BY <1>1, <1>3, <1>7, <1>8
  <2>5. delegate'.pending # NoRequest => mail'.id # delegate'.pending.id
    BY <1>1, <1>5 DEF DelegateSound
  <2> QED
    BY <1>3, <2>1, <2>3, <2>4, <2>5 DEF HostSound, Serving
<1>10. WorkloadSound'
  <2>1. ASSUME Sleeping({"outage"}) PROVE FALSE
    <3>1. run.pc = "sleep" /\ Kind = "outage" /\ run.step \in Steps(run.scenario) /\ current
      BY <2>1, RunNumbers DEF Sleeping, RunInv, RunTypeOK, StepsSound
    <3>2. host.run = run.id
      BY <1>1, <3>1, OutageHasHost DEF Kind, Cluster
    <3>3. delegate.pending = NoRequest
      BY <1>1, <3>1 DEF DelegateSound
    <3> QED
      BY <1>1, <3>1, <3>2, <3>3, HostFree DEF Serving, Over
  <2>2. ASSUME NEW i \in Steps(run.scenario), run.pc # "off", run.scenario.steps[i] = "outage", i < run.step, ~Again(i)
        PROVE  workload' = "up"
    <3>1. workload = "up"
      BY <1>1, <2>2 DEF WorkloadSound
    <3>2. host.run = run.id /\ current
      BY <1>1, <2>2, OutageHasHost DEF Cluster, RunInv, RunTypeOK
    <3>3. run.step <= Len(run.scenario.steps) /\ host.req.type = Kind
      BY <1>1, <3>2 DEF HostSound
    <3>4. run.step \in Steps(run.scenario) /\ run.step \in Nat /\ i \in Nat
      BY <2>2, <3>3, RunNumbers
    <3>5. Kind # "outage"
      BY <2>2, <3>4 DEF Again, Kind
    <3> QED
      BY <1>2, <3>1, <3>3, <3>5
  <2> QED
    BY <1>1, <2>1, <2>2 DEF WorkloadSound, Sleeping, Again, Steps, Kind
<1> QED
  BY <1>6, <1>9, <1>10 DEF AgentInv

LEMMA AgentReports ==
  ASSUME RunInv, AgentInv, AgentAnswers
  PROVE  AgentInv'
<1>1. /\ host.pc = "answer" /\ UNCHANGED <<process, current, run, delegate, workload>> /\ UNCHANGED run.id
      /\ DelegateSound /\ HostSound /\ WorkloadSound /\ host \in Hosts
      /\ host' = [host EXCEPT !.pc = "poll", !.answered = host.req.id]
      /\ mail' = [id |-> host.req.id, ok |-> host.ok]
  BY DEF AgentAnswers, inProcess, AgentInv, HostSound
<1>2. PICK n \in Nat : n = host.req.id
  BY <1>1 DEF Hosts, FaultRequests
<1>3. PICK ok : ok = host.ok
  OBVIOUS
<1>4. ok \in BOOLEAN
  BY <1>1, <1>3 DEF Hosts
<1>5. /\ mail' \in [id : Nat, ok : BOOLEAN] /\ mail'.id = n /\ mail'.ok = ok
  BY <1>1, <1>2, <1>3, <1>4
<1>6. host' = [host EXCEPT !.pc = "poll", !.answered = n]
  BY <1>1, <1>2
<1>7. host' \in Hosts
  BY <1>1, <1>6 DEF Hosts
<1>8. host'.pc = "poll" /\ host'.answered = n /\ UNCHANGED <<host.run, host.req>>
  BY <1>1, <1>6 DEF Hosts
<1>9. Kind' = Kind /\ AgentAttends' = AgentAttends
  BY <1>1, <1>8 DEF Kind, AgentAttends
<1>10. AsAsked' = AsAsked
  BY <1>1, <1>9 DEF AsAsked
<1>11. DelegateSound'
  BY <1>1, <1>9, <1>10 DEF DelegateSound
<1>12. ASSUME delegate.pending # NoRequest, delegate.pending.id = n, ok PROVE AsAsked
  <2>1. run.pc \in {"starting", "stopping"}
    BY <1>1, <1>12 DEF DelegateSound
  <2>2. host.run = run.id /\ current
    BY <1>1, <2>1, WaitingHasHost DEF RunInv, RunTypeOK
  <2>3. delegate.pending = host.req
    BY <1>1, <2>1, <2>2 DEF HostSound
  <2> QED
    BY <1>1, <1>3, <1>12, <2>2, <2>3 DEF HostSound
<1>13. /\ Alive' => mail'.id <= delegate'.seq /\ host'.answered <= delegate'.seq /\ host'.req.id <= delegate'.seq
       /\ host'.run <= run'.id /\ workload' \in {"up", "down"}
       /\ NeedsAgent(run'.scenario) => host'.run = run'.id \/ host'.pc = "off"
  BY <1>1, <1>2, <1>5, <1>8 DEF HostSound, Alive
<1>14. HostSound'
  BY <1>1, <1>5, <1>7, <1>8, <1>10, <1>12, <1>13 DEF HostSound
<1>15. WorkloadSound'
  BY <1>1, <1>9 DEF WorkloadSound, Sleeping, Again, Steps
<1> QED
  BY <1>11, <1>14, <1>15 DEF AgentInv

\* The agent's other steps.
LEMMA AgentLeaves ==
  ASSUME RunInv, AgentInv,
         \/ AgentPolls /\ host'.pc # "apply"
         \/ AgentInterrupted \/ AgentDetaches \/ AgentStops \/ AgentStopped
  PROVE  AgentInv'
<1>1. /\ run \in Runs /\ host \in Hosts /\ delegate \in Delegates /\ host.run <= run.id /\ host.run \in Nat /\ host.pc # "off"
      /\ UNCHANGED <<process, current, mail, workload>>
  BY DEF RunInv, RunTypeOK, AgentInv, HostSound, DelegateSound, Hosts, AgentPolls, AgentInterrupted, AgentDetaches,
         AgentStops, AgentStopped, inProcess
<1>2. PICK pc \in {"detach", "stop", "waits", "restore"} : host' = [host EXCEPT !.pc = pc]
  <2>1. CASE AgentPolls /\ host'.pc # "apply"
    <3>1. host' = [host EXCEPT !.pc = "apply", !.req = delegate.pending] => host'.pc = "apply"
      BY <1>1 DEF Hosts
    <3> QED
      BY <2>1, <3>1 DEF AgentPolls
  <2>2. CASE AgentInterrupted \/ AgentDetaches \/ AgentStops \/ AgentStopped
    BY <2>2 DEF AgentInterrupted, AgentDetaches, AgentStops, AgentStopped
  <2> QED
    BY <2>1, <2>2
<1>3. host' \in Hosts
  BY <1>1, <1>2 DEF Hosts
<1>4. host'.pc = pc /\ UNCHANGED <<host.run, host.answered, host.req>>
  BY <1>1, <1>2 DEF Hosts
<1>5. UNCHANGED <<run.id, run.pc, run.scenario, run.step>>
  <2>1. UNCHANGED run \/ run' = [run EXCEPT !.stopped = TRUE, !.canceled = TRUE]
    BY DEF AgentPolls, AgentInterrupted, AgentDetaches, AgentStops, AgentStopped, inProcess
  <2> QED
    BY <1>1, <2>1, StoppedRun
<1>6. /\ delegate' \in Delegates /\ delegate'.seq = delegate.seq
      /\ \/ UNCHANGED delegate
         \/ delegate'.pending = NoRequest /\ delegate'.done = IF delegate.pending # NoRequest THEN "detached" ELSE delegate.done
  <2>1. CASE UNCHANGED delegate
    BY <1>1, <2>1
  <2>2. CASE delegate' = [delegate EXCEPT !.attached = FALSE, !.pending = NoRequest,
                             !.done = IF delegate.pending # NoRequest THEN "detached" ELSE @]
    <3>1. PICK d : d = IF delegate.pending # NoRequest THEN "detached" ELSE delegate.done
      OBVIOUS
    <3>2. d \in {"none", "ok", "fault", "detached"}
      BY <1>1, <3>1 DEF Delegates
    <3>3. delegate' = [delegate EXCEPT !.attached = FALSE, !.pending = NoRequest, !.done = d]
      BY <1>1, <2>2, <3>1 DEF Delegates
    <3>4. delegate' \in Delegates
      BY <1>1, <3>2, <3>3, NoRequestIs DEF Delegates
    <3>5. delegate'.pending = NoRequest /\ delegate'.done = d /\ delegate'.seq = delegate.seq
      BY <1>1, <3>3 DEF Delegates
    <3> QED
      BY <3>1, <3>4, <3>5
  <2> QED
    BY <2>1, <2>2 DEF AgentPolls, AgentInterrupted, AgentDetaches, AgentStops, AgentStopped, inProcess
<1> QED
  BY <1>1, <1>3, <1>4, <1>5, <1>6, HostLeaves

LEMMA AgentUndoes ==
  ASSUME RunInv, AgentInv, AgentRestores
  PROVE  AgentInv'
<1>1. /\ run.id \in Nat /\ delegate \in Delegates /\ host \in Hosts /\ host.pc = "restore"
      /\ UNCHANGED <<process, current, mail, run, delegate>>
  BY DEF RunInv, RunTypeOK, Runs, AgentInv, HostSound, DelegateSound, AgentRestores, inProcess
<1>2. PICK b : (b = TRUE \/ b = host.byHand) /\ host' = [NoHost EXCEPT !.byHand = b]
  BY DEF AgentRestores
<1>3. b \in BOOLEAN
  BY <1>1, <1>2 DEF Hosts
<1>4. NoHost \in Hosts /\ NoHost.pc = "off" /\ NoHost.run = 0 /\ NoHost.answered = 0 /\ NoHost.req = NoRequest
  BY NoRequestIs DEF NoHost, Hosts
<1>5. host' \in Hosts
  BY <1>2, <1>3, <1>4 DEF Hosts
<1>6. host'.pc = "off" /\ host'.run = 0 /\ host'.answered = 0 /\ host'.req = NoRequest
  BY <1>2, <1>4 DEF Hosts
<1>7. workload' = workload \/ workload' = "up"
  BY DEF AgentRestores
<1>8. host'.run <= run.id
  BY <1>1, <1>6
<1> QED
  BY <1>1, <1>5, <1>6, <1>7, <1>8, HostLeaves

LEMMA AgentNext == RunInv /\ AgentInv /\ [RunnerNext]_runner => AgentInv'
<1> SUFFICES ASSUME RunInv, AgentInv, [RunnerNext]_runner PROVE AgentInv'
  OBVIOUS
<1>1. run \in Runs
  BY DEF RunInv, RunTypeOK
<1>2. CASE \E s \in LoadDir : OperatorStarts(s) \/ AgentStarts(s)
  BY <1>2, AgentRunStarts
<1>3. CASE FaultStart \/ FaultStop \/ DoReturns
  BY <1>3, AgentFaultStart, AgentFaultStop, AgentDoReturns
<1>4. CASE StepsOver \/ Drain \/ Judge
  BY <1>4, AgentLastSteps
<1>5. CASE Release \/ Crash
  BY <1>5, AgentOver
<1>6. CASE \E i \in DOMAIN run.checks : CheckStep(i)
  <2>1. PICK i \in DOMAIN run.checks : CheckStep(i)
    BY <1>6
  <2>2. PICK c \in Checking : /\ Check(i, c) /\ i \in Signals(run.scenario)
                              /\ UNCHANGED <<process, current, delegate, outside>>
    BY <2>1, CheckStepIs
  <2>3. UNCHANGED <<run.id, run.scenario, run.pc, run.step>>
    BY <1>1, <2>2, CheckedRun DEF RunInv, RunTypeOK
  <2> QED
    BY <2>2, <2>3, AgentKept DEF outside, Alive
<1>7. CASE OperatorStops
  <2>1. run' = [run EXCEPT !.stopped = TRUE, !.canceled = TRUE] /\ UNCHANGED <<process, current, delegate, outside>>
    BY <1>7 DEF OperatorStops
  <2>2. UNCHANGED <<run.id, run.scenario, run.pc, run.step>>
    BY <1>1, <2>1, StoppedRun
  <2> QED
    BY <2>1, <2>2, AgentKept DEF outside, Alive
<1>8. CASE Terminate \/ Exit \/ UNCHANGED runner
  <2>1. UNCHANGED <<run, current, delegate, host, mail, workload>> /\ (Alive' => Alive)
    BY <1>8 DEF Terminate, Exit, runner, inProcess, outside, Alive
  <2> QED
    BY <2>1, AgentKept
<1>9. CASE Complete
  BY <1>9, AgentComplete
<1>10. CASE AgentPolls
  <2>1. CASE host'.pc = "apply"
    <3>1. host \in Hosts
      BY DEF AgentInv, HostSound
    <3>2. /\ host.pc = "poll" /\ Alive /\ run.id = host.run /\ delegate.pending.id \notin {0, host.answered}
          /\ host' = [host EXCEPT !.pc = "apply", !.req = delegate.pending] /\ UNCHANGED <<inProcess, mail, workload>>
      BY <1>10, <2>1, <3>1 DEF AgentPolls, Hosts
    <3> QED
      BY <3>2, AgentTakesUp
  <2>2. CASE host'.pc # "apply"
    BY <1>10, <2>2, AgentLeaves
  <2> QED
    BY <2>1, <2>2
<1>11. CASE AgentApplies
  BY <1>11, AgentActs
<1>12. CASE AgentAnswers
  BY <1>12, AgentReports
<1>13. CASE AgentInterrupted \/ AgentDetaches \/ AgentStops \/ AgentStopped
  BY <1>13, AgentLeaves
<1>14. CASE AgentRestores
  BY <1>14, AgentUndoes
<1> QED
  BY <1>2, <1>3, <1>4, <1>5, <1>6, <1>7, <1>8, <1>9, <1>10, <1>11, <1>12, <1>13, <1>14
     DEF RunnerNext, RunStep, AgentStep

\* What the journal says and what the agent has done, in every state.
THEOREM JournalInvariant == RunnerSpec => [](JournalInv /\ AgentInv)
<1>1. RunnerInit => RunInv /\ JournalInv /\ AgentInv
  BY RunInit, EndInit, JournalInit, InjectorInit, AgentInit DEF JournalInv
<1>2. RunInv /\ JournalInv /\ AgentInv /\ [RunnerNext]_runner => RunInv' /\ JournalInv' /\ AgentInv'
  BY RunNext, EndNext, JournalNext, InjectorNext, AgentNext DEF JournalInv
<1> QED
  BY <1>1, <1>2, PTL DEF RunnerSpec

\* The journal is the known answer of ADR 0010: for every scenario directory, every
\* order of the run's goroutines and every late, repeated or missing answer of the
\* agent, a fault it says is on is on, one it says was removed is off, and the
\* journal of an ended run is complete and ends with run_end.
THEOREM JournalStaysFaithful == RunnerSpec => []JournalFaithful
<1>1. RunInv /\ JournalInv /\ AgentInv => FaultsAsJournaled
  <2> SUFFICES ASSUME RunInv, JournalInv, AgentInv PROVE FaultsAsJournaled
    OBVIOUS
  <2>1. ASSUME ~current PROVE injector.rules = {} /\ injector.running = 1
    BY <2>1 DEF JournalInv, InjectorSound, Sleeping, RunInv, RunTypeOK
  <2>2. ASSUME ~journal.broken, NEW i \in Steps(run.scenario)
        PROVE  /\ run.scenario.steps[i] \in Rules => (journal.faults[i] = "on" <=> i \in injector.rules)
               /\ run.scenario.steps[i] = "outage" /\ journal.faults[i] = "on" /\ run.pc = "sleep" /\ AgentAttends
                     => workload = "down"
               /\ run.scenario.steps[i] = "outage" /\ journal.faults[i] = "off" /\ ~Again(i) => workload = "up"
    <3>1. run.pc # "off"
      <4>1. Steps(NoScenario) = {}
        BY DEF Steps, NoScenario
      <4> QED
        BY <2>2, <4>1 DEF RunInv, RunTypeOK
    <3>2. SaysOfStep(i)
      BY <2>2, <3>1 DEF JournalInv, JournalSound, JournalSays
    <3>3. i \in Nat /\ run.step \in Nat
      BY <2>2, <3>1, RunNumbers
    <3>4. i < run.step \/ i > run.step \/ i = run.step
      BY <3>3
    <3>5. ~(i < i)
      BY <3>3
    <3>6. run.pc \in Phases
      BY DEF RunInv, RunTypeOK, Runs
    <3>7. injector.rules = IF Sleeping(Rules) THEN {run.step} ELSE {}
      BY DEF JournalInv, InjectorSound
    <3>8. run.scenario.steps[i] \in Rules => (journal.faults[i] = "on" <=> i \in injector.rules)
      <4> SUFFICES ASSUME run.scenario.steps[i] \in Rules PROVE journal.faults[i] = "on" <=> i \in injector.rules
        OBVIOUS
      <4>1. run.scenario.steps[i] # "none"
        BY DEF Rules
      <4>2. CASE i # run.step
        BY <3>2, <3>4, <3>7, <4>1, <4>2 DEF SaysOfStep
      <4>3. CASE i = run.step
        <5>1. Kind \in Rules
          BY <4>3 DEF Kind
        <5>2. run.pc \notin {"starting", "stopping"}
          BY <3>1, <5>1 DEF RunInv, StepsSound, Rules, Cluster
        <5>3. run.pc = "sleep" <=> i \in injector.rules
          BY <3>7, <4>3, <5>1 DEF Sleeping
        <5> QED
          BY <3>1, <3>2, <3>6, <4>1, <4>3, <5>2, <5>3 DEF SaysOfStep, Phases
      <4> QED
        BY <4>2, <4>3
    <3>9. ASSUME run.scenario.steps[i] = "outage", journal.faults[i] = "on", run.pc = "sleep", AgentAttends
          PROVE  workload = "down"
      <4>1. i = run.step
        BY <3>2, <3>4, <3>9 DEF SaysOfStep
      <4> QED
        BY <3>9, <4>1 DEF AgentInv, WorkloadSound, Sleeping, Kind
    <3>10. ASSUME run.scenario.steps[i] = "outage", journal.faults[i] = "off", ~Again(i) PROVE workload = "up"
      <4>1. i < run.step
        BY <3>1, <3>2, <3>4, <3>6, <3>10 DEF SaysOfStep, Phases
      <4> QED
        BY <3>1, <3>10, <4>1 DEF AgentInv, WorkloadSound
    <3> QED
      BY <3>8, <3>9, <3>10
  <2> QED
    BY <2>1, <2>2 DEF FaultsAsJournaled
<1>2. RunInv /\ JournalInv => JournalComplete
  <2> SUFFICES ASSUME RunInv, JournalInv, run.pc = "ended", ~journal.broken
               PROVE  /\ journal.start /\ journal.end = run.state /\ ~journal.late /\ run.id \in files
                      /\ \A i \in Signals(run.scenario) : journal.checks[i] = run.checks[i].result
                      /\ \A i \in Steps(run.scenario) : journal.faults[i] # "on"
                      /\ run.state = "passed" =>
                            /\ \A i \in Signals(run.scenario) : journal.checks[i] = "pass"
                            /\ \A i \in Steps(run.scenario) :
                                  journal.faults[i] = IF run.scenario.steps[i] = "none" THEN "none" ELSE "off"
    BY DEF JournalComplete
  <2>1. JournalSays /\ run.id \in files /\ EndSound
    BY DEF JournalInv, JournalSound
  <2>2. DOMAIN run.checks = Signals(run.scenario) /\ ChecksDone
    BY <2>1 DEF RunInv, RunTypeOK, EndSound
  <2>3. \A i \in Signals(run.scenario) : journal.checks[i] = run.checks[i].result
    BY <2>1, <2>2 DEF JournalSays, ChecksDone
  <2>4. ASSUME NEW i \in Steps(run.scenario)
        PROVE  /\ journal.faults[i] # "on"
               /\ run.state = "passed" => journal.faults[i] = IF run.scenario.steps[i] = "none" THEN "none" ELSE "off"
    <3>1. SaysOfStep(i)
      BY <2>1 DEF JournalSays
    <3>2. i \in Nat /\ run.step \in Nat /\ i <= Len(run.scenario.steps) /\ Len(run.scenario.steps) \in Nat
      BY RunNumbers
    <3>3. i < run.step \/ i > run.step \/ i = run.step
      BY <3>2
    <3>4. run.state = "passed" => i < run.step
      BY <2>1, <3>2 DEF EndSound
    <3> QED
      BY <3>1, <3>3, <3>4 DEF SaysOfStep
  <2>5. run.state = "passed" => \A i \in Signals(run.scenario) : journal.checks[i] = "pass"
    BY <2>1, <2>2, <2>3 DEF EndSound
  <2> QED
    BY <2>1, <2>3, <2>4, <2>5 DEF JournalSays
<1>3. RunInv /\ JournalInv /\ AgentInv => JournalFaithful
  BY <1>1, <1>2 DEF JournalFaithful
<1> QED
  BY <1>3, RunInvariant, JournalInvariant, PTL
=============================================================================
