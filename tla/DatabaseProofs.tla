---------------------------- MODULE DatabaseProofs --------------------------
(***************************************************************************)
(* What the db-collector keeps of the databases it reads: LogExtraction's  *)
(* watermark and recount, the bytes and series of BackgroundExports, and   *)
(* the handles of ConnectionPool.                                          *)
(***************************************************************************)
EXTENDS LogExtraction, BackgroundExports, ConnectionPool, SetSums

-----------------------------------------------------------------------------
(***************************************************************************)
(* NoRowPassed, NoRowTwice and RecountTruthful of LogExtraction, for any   *)
(* rows, lag, lookback, batch limit and recount window.                    *)
(*                                                                         *)
(* What the watermarks in memory and on disk have passed was delivered, and*)
(* no row still to be committed in time will be behind them (MarksSound).  *)
(* Saving the next one keeps this because an export has every row between  *)
(* the watermark in memory and the one it will save (ExportSound), and a   *)
(* call reads on only after an export that was saved (CallSound).  The     *)
(* recount rests on its counts of the minutes it still compares            *)
(* (RecountSound).                                                         *)
(***************************************************************************)

-----------------------------------------------------------------------------
(* The inductive invariant.                                                *)

RecountType ==
  [on : BOOLEAN, floor : Int, high : Times,
   delivered : [Minutes -> Nat], late : [Minutes -> Nat], duplicate : [Minutes -> Nat]]

ExtractionTypeOK ==
  /\ now \in 0 .. MaxTime
  /\ db \subseteq Rows
  /\ late \subseteq db
  /\ mem \in Times \cup {NoMark}
  /\ disk \in Times \cup {NoMark}
  /\ call \in Call
  /\ export \in Export
  /\ scope \in {"none", "live", "orphaned"}
  /\ up \in BOOLEAN
  /\ accepted \in [Rows -> 0 .. 2]
  /\ recount \in RecountType
  /\ crashes \in Nat
  /\ lost \in BOOLEAN
  /\ waived \in Times

\* Every row up to mark that was committed in time, and not waived, is delivered.
Passed(mark) ==
  \A r \in db \ late : waived < r[1] /\ r[1] <= mark => accepted[r] > 0

\* No row that is still to be committed in time will be behind mark.
Behind(mark) == waived <= mark /\ (mark <= now - Lag \/ mark <= waived)

MarksSound ==
  \A mark \in {mem, disk} \ {NoMark} : Passed(mark) /\ Behind(mark)

AcceptedCommitted == \A r \in Rows : accepted[r] > 0 => r \in db

Exporting == export.pc \in {"sending", "accepted"}

\* One export at a time, from where the watermark is; and a call that reads on
\* after its export is gone knows that it was saved: the export of a call whose
\* context is not done is dropped by nobody.
CallSound ==
  /\ call.pc # "idle" => mem # NoMark
  /\ call.pc \in {"batch", "query"} => export.pc = "none" /\ mem = call.mark
  /\ call.pc = "query" => call.mark < call.to /\ call.to <= now - Lag
  /\ call.pc = "recount" => export.pc = "none"
  /\ call.pc # "idle" /\ ~call.done => up
  /\ call.pc = "await" /\ ~call.done /\ export.pc # "none" => scope = "live" /\ export.next = call.mark
  /\ call.pc = "await" /\ ~call.done /\ export.pc = "none" /\ call.full => mem = call.mark

ScopeSound == up => scope # "orphaned"

\* A start without a watermark never waives less than one before it.
WaivedSound == waived <= now - InitialLookback

\* An export in progress has every row between the watermark in memory and the
\* one it will save, but those committed late since.
ExportSound ==
  /\ Exporting =>
       /\ mem # NoMark /\ mem < export.next /\ export.next <= now - Lag
       /\ export.rows # {}
       /\ \A r \in export.rows : r \in db /\ mem < r[1] /\ r[1] <= export.next
       /\ \A r \in db : mem < r[1] /\ r[1] <= export.next => r \in export.rows \/ (r \in late /\ accepted[r] = 0)
  /\ export.pc = "accepted" => \A r \in export.rows : accepted[r] > 0
  /\ export.pc = "ending" /\ ~export.err => mem = export.next

\* Without a restart or a lost answer, what was delivered is behind the watermark,
\* or will be in the next step of the export.
OnceOnly ==
  crashes = 0 /\ ~lost =>
    \A r \in Rows :
      /\ accepted[r] < 2
      /\ accepted[r] > 0 => \/ mem # NoMark /\ r[1] <= mem
                            \/ export.pc = "accepted" /\ r \in export.rows

\* The rows of a minute that were delivered and are behind mark.
DeliveredIn(m, mark) == {r \in Rows : minuteEnd(r[1]) = m /\ r[1] <= mark /\ accepted[r] > 0}

\* The counts of the minutes that are still compared are of all rows delivered in
\* them, and what was found late is behind the watermark.
RecountSound ==
  /\ recount.on =>
       /\ mem # NoMark /\ waived <= recount.floor * Minute
       /\ \A m \in Minutes : m > recount.floor /\ m > (mem \div Minute) - Window =>
            recount.delivered[m] = Cardinality(DeliveredIn(m, mem))
  /\ \A m \in Minutes : recount.late[m] > 0 => mem # NoMark /\ m * Minute <= mem

ExtractionInv ==
  /\ ExtractionTypeOK /\ MarksSound /\ AcceptedCommitted /\ CallSound /\ ScopeSound /\ WaivedSound
  /\ ExportSound /\ OnceOnly /\ RecountSound /\ RecountTruthful

-----------------------------------------------------------------------------
(* Lemmas about the operators of the model.                                *)

LEMMA Numbers ==
  /\ MaxTime \in Nat /\ Lag \in Nat /\ InitialLookback \in Nat /\ Window \in Nat
  /\ BatchLimit \in Nat /\ BatchLimit # 0 /\ MaxBatches \in Nat /\ MaxBatches # 0
  /\ Minute \in Nat /\ Minute # 0
  /\ \A r \in Rows : r[1] \in Nat /\ 1 <= r[1] /\ r[1] <= MaxTime
BY ExtractionAssumption

LEMMA TimesAreInts == /\ \A t \in Times : t \in Int /\ t # NoMark /\ t <= MaxTime
                      /\ \A t \in Int : 0 - InitialLookback <= t /\ t <= MaxTime => t \in Times
                      /\ NoMark \in Int
BY Numbers DEF Times, NoMark

\* A set of naturals with an upper bound has a greatest element.
LEMMA Greatest ==
  ASSUME NEW n \in Nat, NEW S \in SUBSET (0 .. n), S # {}
  PROVE  \E x \in S : \A y \in S : x >= y
<1> DEFINE T == {n - x : x \in S}
<1>1. T \in SUBSET Nat /\ T # {}
  <2>1. \A x \in S : n - x \in Nat
    OBVIOUS
  <2> QED
    BY <2>1
<1>2. IsWellFoundedOn(OpToRel(<, Nat), Nat)
  BY NatLessThanWellFounded
<1>3. \E i \in T : \A j \in T : ~(<<j, i>> \in OpToRel(<, Nat))
  BY <1>1, <1>2, WFMin
<1>4. PICK i \in T : \A j \in T : ~(<<j, i>> \in OpToRel(<, Nat))
  BY <1>3
<1>5. \A j \in T : ~(j < i)
  BY <1>1, <1>4 DEF OpToRel
<1>6. PICK x \in S : i = n - x
  OBVIOUS
<1>7. ASSUME NEW y \in S PROVE x >= y
  <2>1. n - y \in T
    OBVIOUS
  <2>2. ~(n - y < n - x)
    BY <1>5, <1>6, <2>1
  <2> QED
    BY <2>2
<1> QED
  BY <1>7

LEMMA LastOfRows ==
  ASSUME NEW rows \in SUBSET Rows, rows # {}
  PROVE  /\ \E r \in rows : r[1] = LastOf(rows)
         /\ \A r \in rows : r[1] <= LastOf(rows)
         /\ LastOf(rows) \in Nat /\ 1 <= LastOf(rows) /\ LastOf(rows) <= MaxTime
<1> DEFINE S == {r[1] : r \in rows}
<1>1. S \in SUBSET (0 .. MaxTime) /\ S # {}
  BY Numbers
<1>2. \E x \in S : \A y \in S : x >= y
  BY <1>1, Greatest, Numbers
<1>3. Max(S) \in S /\ \A y \in S : Max(S) >= y
  BY <1>2 DEF Max
<1>4. LastOf(rows) = Max(S)
  BY DEF LastOf
<1>5. \A r \in rows : r[1] \in S
  OBVIOUS
<1>6. LastOf(rows) \in S /\ \A y \in S : y <= LastOf(rows)
  BY <1>1, <1>3, <1>4, Numbers
<1>7. \E r \in rows : r[1] = LastOf(rows)
  BY <1>6
<1> QED
  BY <1>5, <1>6, <1>7, Numbers

\* What is read of the log: a first part of what is there between the bounds.
LEMMA ResultShape ==
  ASSUME NEW result \in Results
  PROVE  /\ result.full \in BOOLEAN
         /\ result.rows \subseteq {r \in db : call.mark < r[1] /\ r[1] <= call.to}
         /\ \A x \in result.rows, y \in {r \in db : call.mark < r[1] /\ r[1] <= call.to} \ result.rows : x[1] <= y[1]
         /\ ~result.full => result.rows = {r \in db : call.mark < r[1] /\ r[1] <= call.to}
         /\ result.rows = {} => ~result.full
<1> DEFINE found == {r \in db : call.mark < r[1] /\ r[1] <= call.to}
           prefix(b) == \A x \in b, y \in found \ b : x[1] <= y[1]
           partial(b) == /\ Cardinality({r \in b : r[1] = LastOf(b)}) = 1
                         /\ Cardinality({r[1] : r \in b}) > 1
           whole == {x \in SUBSET found : prefix(x) /\
                       (Cardinality(x) = BatchLimit \/ (x = found /\ Cardinality(x) < BatchLimit))}
           parts == {x \in SUBSET found : x # {} /\ prefix(x) /\ partial(x) /\ Cardinality(x) <= BatchLimit}
<1>1. \/ \E b \in whole : result = [rows |-> b, full |-> Cardinality(b) = BatchLimit]
      \/ \E b \in parts : result = [rows |-> b, full |-> TRUE]
  BY DEF Results
<1>2. CASE \E b \in whole : result = [rows |-> b, full |-> Cardinality(b) = BatchLimit]
  <2>1. PICK b \in whole : result = [rows |-> b, full |-> Cardinality(b) = BatchLimit]
    BY <1>2
  <2>2. result.rows = b /\ result.full = (Cardinality(b) = BatchLimit)
    BY <2>1
  <2>3. b \subseteq found /\ prefix(b) /\ (Cardinality(b) = BatchLimit \/ b = found)
    OBVIOUS
  <2>4. b = {} => Cardinality(b) = 0
    BY FS_EmptySet
  <2> QED
    BY <2>2, <2>3, <2>4, Numbers
<1>3. CASE \E b \in parts : result = [rows |-> b, full |-> TRUE]
  <2>1. PICK b \in parts : result = [rows |-> b, full |-> TRUE]
    BY <1>3
  <2>2. result.rows = b /\ result.full
    BY <2>1
  <2> QED
    BY <2>2
<1> QED
  BY <1>1, <1>2, <1>3

\* A batch has every row there is up to the watermark that it brings.
LEMMA BatchComplete ==
  ASSUME ExtractionTypeOK, NEW result \in Results, Delivered(result) # {}, call.mark < call.to
  PROVE  /\ Delivered(result) \subseteq db
         /\ NextMark(result) \in Times /\ call.mark < NextMark(result) /\ NextMark(result) <= call.to
         /\ \A r \in Delivered(result) : call.mark < r[1] /\ r[1] <= NextMark(result)
         /\ \A r \in db : call.mark < r[1] /\ r[1] <= NextMark(result) => r \in Delivered(result)
<1> DEFINE found == {r \in db : call.mark < r[1] /\ r[1] <= call.to}
           rows == result.rows
<1>1. /\ rows \subseteq found
      /\ \A x \in rows, y \in found \ rows : x[1] <= y[1]
      /\ ~result.full => rows = found
  BY ResultShape
<1>2. call.mark \in Times /\ call.to \in Times
  BY DEF ExtractionTypeOK, Call
<1>3. found \subseteq Rows /\ rows \subseteq Rows
  BY <1>1 DEF ExtractionTypeOK
<1>4. CASE ~result.full
  <2>1. Delivered(result) = found /\ NextMark(result) = call.to
    BY <1>1, <1>4 DEF Delivered, NextMark
  <2> QED
    BY <1>2, <2>1, TimesAreInts
<1>5. CASE result.full
  <2>1. Delivered(result) = {r \in rows : r[1] < LastOf(rows)}
    BY <1>5 DEF Delivered
  <2>2. rows # {} /\ Delivered(result) \subseteq rows
    BY <2>1
  <2>3. /\ \E r \in rows : r[1] = LastOf(rows)
        /\ \A r \in rows : r[1] <= LastOf(rows)
        /\ LastOf(rows) \in Nat
    BY <1>3, <2>2, LastOfRows
  <2> DEFINE D == Delivered(result)
             last == LastOf(D)
  <2>4. D \in SUBSET Rows /\ D # {}
    BY <1>3, <2>2
  <2>5. /\ \E r \in D : r[1] = last
        /\ \A r \in D : r[1] <= last
        /\ last \in Nat
    BY <2>4, LastOfRows
  <2>6. NextMark(result) = last
    BY <1>5 DEF NextMark
  <2>7. last < LastOf(rows)
    BY <2>1, <2>5
  <2>8. \A r \in rows : call.mark < r[1] /\ r[1] <= call.to /\ r \in db
    BY <1>1
  <2>9. call.mark < last /\ last <= call.to /\ LastOf(rows) <= call.to
    BY <2>2, <2>3, <2>5, <2>8
  <2>10. last \in Times
    <3> HIDE DEF last
    <3>1. last <= MaxTime /\ 0 - InitialLookback <= last
      BY <1>2, <2>5, <2>9, TimesAreInts, Numbers
    <3> QED
      BY <2>5, <3>1, TimesAreInts
  <2>11. ASSUME NEW r \in db, call.mark < r[1], r[1] <= last
         PROVE  r \in D
    <3>1. r \in Rows /\ r[1] \in Nat
      BY Numbers DEF ExtractionTypeOK
    <3>2. r[1] < LastOf(rows) /\ r[1] <= call.to
      BY <1>2, <2>3, <2>5, <2>7, <2>9, <2>11, <3>1, TimesAreInts
    <3>3. r \in found
      BY <2>11, <3>2
    <3>4. PICK x \in rows : x[1] = LastOf(rows)
      BY <2>3
    <3>5. r \in rows
      <4>1. r \notin rows => LastOf(rows) <= r[1]
        BY <1>1, <3>3, <3>4
      <4> QED
        BY <2>3, <3>1, <3>2, <4>1
    <3> QED
      BY <2>1, <3>2, <3>5
  <2> QED
    BY <2>2, <2>5, <2>6, <2>8, <2>9, <2>10, <2>11
<1> QED
  BY <1>4, <1>5 DEF ExtractionTypeOK, Call

\* Without rows there is nothing between the bounds.
LEMMA EmptyResult ==
  ASSUME NEW result \in Results, result.rows = {}
  PROVE  \A r \in db : ~(call.mark < r[1] /\ r[1] <= call.to)
BY ResultShape

-----------------------------------------------------------------------------
(* The first states, and steps that touch neither rows nor watermarks.     *)

LEMMA IdleCallType == /\ IdleCall \in Call /\ IdleCall.pc = "idle" /\ ~IdleCall.done
BY Numbers, TimesAreInts DEF IdleCall, Call

LEMMA NoExportType == /\ NoExport \in Export /\ NoExport.pc = "none" /\ NoExport.rows = {}
BY Numbers, TimesAreInts DEF NoExport, Export

LEMMA NoRecountType == /\ NoRecount \in RecountType /\ ~NoRecount.on /\ NoRecount.floor = 0 /\ NoRecount.high = 0
                       /\ \A m \in Minutes : /\ NoRecount.late[m] = 0 /\ NoRecount.duplicate[m] = 0
                                             /\ NoRecount.delivered[m] = 0
BY Numbers, TimesAreInts DEF NoRecount, RecountType, Zero

LEMMA ExtractionInit == Init => ExtractionInv
<1> SUFFICES ASSUME Init PROVE ExtractionInv
  OBVIOUS
<1> USE DEF Init
<1>1. 0 - InitialLookback \in Times /\ waived \in Times
  BY Numbers, TimesAreInts
<1>2. ExtractionTypeOK
  <2>1. call \in Call /\ export \in Export /\ recount \in RecountType
    BY IdleCallType, NoExportType, NoRecountType
  <2>2. now \in 0 .. MaxTime /\ accepted \in [Rows -> 0 .. 2]
    BY Numbers
  <2> QED
    BY <1>1, <2>1, <2>2 DEF ExtractionTypeOK
<1>3. MarksSound /\ AcceptedCommitted /\ OnceOnly /\ ScopeSound /\ WaivedSound
  BY Numbers DEF MarksSound, AcceptedCommitted, OnceOnly, ScopeSound, WaivedSound
<1>4. CallSound /\ ExportSound
  BY IdleCallType, NoExportType DEF CallSound, ExportSound, Exporting
<1>5. RecountSound
  BY NoRecountType DEF RecountSound
<1>6. RecountTruthful
  <2>1. \A m \in Minutes : {r \in late : minuteEnd(r[1]) = m /\ accepted[r] = 0} = {}
    OBVIOUS
  <2> QED
    BY <2>1, NoRecountType, FS_EmptySet DEF RecountTruthful
<1> QED
  BY <1>2, <1>3, <1>4, <1>5, <1>6 DEF ExtractionInv

LEMMA QuietKeeps ==
  ASSUME ExtractionInv, UNCHANGED <<now, db, late, store, accepted, recount, history>>,
         call' \in Call, export' \in Export, scope' \in {"none", "live", "orphaned"}, up' \in BOOLEAN,
         CallSound', ScopeSound', ExportSound',
         export'.pc = "accepted" <=> export.pc = "accepted",
         export.pc = "accepted" => export'.rows = export.rows
  PROVE  ExtractionInv'
<1> USE DEF ExtractionInv, store, history
<1>1. ExtractionTypeOK'
  BY DEF ExtractionTypeOK
<1>2. MarksSound' /\ AcceptedCommitted' /\ WaivedSound'
  BY DEF MarksSound, AcceptedCommitted, WaivedSound, Passed, Behind
<1>3. OnceOnly'
  BY DEF OnceOnly
<1>4. RecountSound' /\ RecountTruthful'
  BY DEF RecountSound, RecountTruthful, DeliveredIn
<1> QED
  BY <1>1, <1>2, <1>3, <1>4

\* The export does not change but to be canceled, or ends.
LEMMA ExportKept ==
  ASSUME ExtractionInv, UNCHANGED <<now, db, late, mem, accepted>>,
         \/ /\ export'.pc = export.pc /\ export'.rows = export.rows
            /\ export'.next = export.next /\ export'.err = export.err
         \/ export'.pc \in {"none", "failed"}
  PROVE  ExportSound'
BY DEF ExtractionInv, ExportSound, Exporting

LEMMA ExtractionStutters == ExtractionInv /\ UNCHANGED vars => ExtractionInv'
<1> SUFFICES ASSUME ExtractionInv, UNCHANGED vars PROVE ExtractionInv'
  OBVIOUS
<1> USE DEF vars, store, history
<1>1. ExportSound'
  BY ExportKept
<1>2. CallSound' /\ ScopeSound'
  BY DEF ExtractionInv, CallSound, ScopeSound
<1> QED
  BY <1>1, <1>2, QuietKeeps DEF ExtractionInv, ExtractionTypeOK

LEMMA ForgetCollectorKeeps == ExtractionInv /\ ForgetCollector => ExtractionInv'
<1> SUFFICES ASSUME ExtractionInv, ForgetCollector PROVE ExtractionInv'
  OBVIOUS
<1>1. /\ up /\ (call.pc = "idle" \/ call.done) /\ up' = FALSE
      /\ scope' = IF scope = "none" THEN scope ELSE "orphaned"
      /\ UNCHANGED <<now, db, late, store, call, export, accepted, recount, history>>
  BY DEF ForgetCollector
<1>2. ExportSound'
  BY <1>1, ExportKept DEF store
<1>3. CallSound' /\ ScopeSound'
  BY <1>1 DEF ExtractionInv, CallSound, ScopeSound, store
<1> QED
  BY <1>1, <1>2, <1>3, QuietKeeps DEF ExtractionInv, ExtractionTypeOK

LEMMA InitCollectorKeeps == ExtractionInv /\ InitCollector => ExtractionInv'
<1> SUFFICES ASSUME ExtractionInv, InitCollector PROVE ExtractionInv'
  OBVIOUS
<1>1. /\ ~up /\ up' = TRUE
      /\ scope' = IF scope = "orphaned" THEN "live" ELSE scope
      /\ UNCHANGED <<now, db, late, store, call, export, accepted, recount, history>>
  BY DEF InitCollector
<1>2. ExportSound'
  BY <1>1, ExportKept DEF store
<1>3. CallSound' /\ ScopeSound'
  BY <1>1 DEF ExtractionInv, CallSound, ScopeSound, store
<1> QED
  BY <1>1, <1>2, <1>3, QuietKeeps DEF ExtractionInv, ExtractionTypeOK

LEMMA OrphanFiresKeeps == ExtractionInv /\ OrphanFires => ExtractionInv'
<1> SUFFICES ASSUME ExtractionInv, OrphanFires PROVE ExtractionInv'
  OBVIOUS
<1>1. /\ scope = "orphaned" /\ scope' = "none"
      /\ export' = IF export.pc = "failed" THEN NoExport
                   ELSE IF export.pc = "none" THEN export
                   ELSE [export EXCEPT !.canceled = TRUE]
      /\ UNCHANGED <<now, db, late, store, call, up, accepted, recount, history>>
  BY DEF OrphanFires
<1>2. export \in Export /\ ~up
  BY <1>1 DEF ExtractionInv, ExtractionTypeOK, ScopeSound
<1>3. /\ export' \in Export
      /\ \/ /\ export'.pc = export.pc /\ export'.rows = export.rows
            /\ export'.next = export.next /\ export'.err = export.err
         \/ export.pc = "failed" /\ export'.pc = "none"
  BY <1>1, <1>2, NoExportType DEF Export
<1>4. ExportSound'
  BY <1>1, <1>3, ExportKept DEF store
<1>5. CallSound' /\ ScopeSound'
  BY <1>1, <1>2, <1>3 DEF ExtractionInv, CallSound, ScopeSound, store
<1> QED
  BY <1>1, <1>3, <1>4, <1>5, QuietKeeps DEF ExtractionInv, ExtractionTypeOK

LEMMA ReportFailureKeeps == ExtractionInv /\ ReportFailure => ExtractionInv'
<1> SUFFICES ASSUME ExtractionInv, ReportFailure PROVE ExtractionInv'
  OBVIOUS
<1>1. /\ call.pc = "idle" /\ export.pc = "failed" /\ export' = NoExport
      /\ UNCHANGED <<now, db, late, store, call, scope, up, accepted, recount, history>>
  BY DEF ReportFailure
<1>2. ExportSound'
  BY <1>1, NoExportType, ExportKept DEF store
<1>3. CallSound' /\ ScopeSound'
  BY <1>1 DEF ExtractionInv, CallSound, ScopeSound, store
<1> QED
  BY <1>1, <1>2, <1>3, NoExportType, QuietKeeps DEF ExtractionInv, ExtractionTypeOK

LEMMA CallDeadlineKeeps == ExtractionInv /\ CallDeadline => ExtractionInv'
<1> SUFFICES ASSUME ExtractionInv, CallDeadline PROVE ExtractionInv'
  OBVIOUS
<1>1. /\ call' = [call EXCEPT !.done = TRUE]
      /\ UNCHANGED <<now, db, late, store, export, scope, up, accepted, recount, history>>
  BY DEF CallDeadline
<1>2. /\ call' \in Call /\ call'.done /\ call'.pc = call.pc
      /\ call'.mark = call.mark /\ call'.to = call.to
  BY <1>1 DEF ExtractionInv, ExtractionTypeOK, Call
<1>3. ExportSound'
  BY <1>1, ExportKept DEF store
<1>4. CallSound' /\ ScopeSound'
  BY <1>1, <1>2 DEF ExtractionInv, CallSound, ScopeSound, store
<1> QED
  BY <1>1, <1>2, <1>3, <1>4, QuietKeeps DEF ExtractionInv, ExtractionTypeOK

LEMMA ChooseBoundsKeeps == ExtractionInv /\ ChooseBounds => ExtractionInv'
<1> SUFFICES ASSUME ExtractionInv, ChooseBounds PROVE ExtractionInv'
  OBVIOUS
<1>1. /\ call.pc = "batch"
      /\ call' = IF now - Lag <= call.mark THEN [call EXCEPT !.pc = "await", !.full = FALSE]
                                           ELSE [call EXCEPT !.pc = "query", !.to = now - Lag]
      /\ UNCHANGED <<now, db, late, store, export, scope, up, accepted, recount, history>>
  BY DEF ChooseBounds
<1>2. call \in Call /\ call.mark \in Times /\ now \in Nat /\ now <= MaxTime
  BY Numbers DEF ExtractionInv, ExtractionTypeOK, Call
<1>3. now - Lag \in Int /\ now - Lag <= MaxTime /\ call.mark \in Int /\ 0 - InitialLookback <= call.mark
  BY <1>2, Numbers DEF Times
<1>4. ~(now - Lag <= call.mark) => now - Lag \in Times
  BY <1>3, Numbers, TimesAreInts
<1>5. /\ call' \in Call /\ call'.mark = call.mark /\ call'.done = call.done
      /\ \/ call'.pc = "await" /\ ~call'.full
         \/ call'.pc = "query" /\ call'.to = now - Lag /\ ~(now - Lag <= call.mark)
  BY <1>1, <1>2, <1>4 DEF Call
<1>6. ExportSound'
  BY <1>1, ExportKept DEF store
<1>7. CallSound' /\ ScopeSound'
  BY <1>1, <1>3, <1>5 DEF ExtractionInv, CallSound, ScopeSound, store
<1> QED
  BY <1>1, <1>5, <1>6, <1>7, QuietKeeps DEF ExtractionInv, ExtractionTypeOK

\* The call ends and leaves the export as it is, or drops one that failed.
LEMMA CallEndsKeeps ==
  ASSUME ExtractionInv, call' = IdleCall,
         UNCHANGED export \/ (export.pc = "failed" /\ export' = NoExport),
         UNCHANGED <<now, db, late, store, scope, up, accepted, recount, history>>
  PROVE  ExtractionInv'
<1>1. ExportSound'
  BY NoExportType, ExportKept DEF store
<1>2. CallSound' /\ ScopeSound'
  BY IdleCallType DEF ExtractionInv, CallSound, ScopeSound, store
<1> QED
  BY <1>1, <1>2, IdleCallType, NoExportType, QuietKeeps DEF ExtractionInv, ExtractionTypeOK

LEMMA NoBatchKeeps == ExtractionInv /\ NoBatch => ExtractionInv'
BY CallEndsKeeps DEF NoBatch

LEMMA BatchFailedKeeps == ExtractionInv /\ BatchFailed => ExtractionInv'
BY CallEndsKeeps DEF BatchFailed

LEMMA BatchBlockedKeeps == ExtractionInv /\ BatchBlocked => ExtractionInv'
BY CallEndsKeeps DEF BatchBlocked

LEMMA BatchDoneKeeps == ExtractionInv /\ BatchDone => ExtractionInv'
<1> SUFFICES ASSUME ExtractionInv, BatchDone PROVE ExtractionInv'
  OBVIOUS
<1>1. /\ call.pc = "await" /\ export.pc = "none"
      /\ \/ MoreToRead /\ call' = [call EXCEPT !.pc = "batch", !.n = call.n + 1]
         \/ call' = [call EXCEPT !.pc = "recount"]
      /\ UNCHANGED <<now, db, late, store, export, scope, up, accepted, recount, history>>
  BY DEF BatchDone
<1>2. call \in Call
  BY DEF ExtractionInv, ExtractionTypeOK
<1>3. /\ call' \in Call /\ call'.mark = call.mark /\ call'.done = call.done
      /\ \/ call'.pc = "batch" /\ call.full /\ ~call.done
         \/ call'.pc = "recount"
  <2>1. CASE call' = [call EXCEPT !.pc = "recount"]
    BY <1>2, <2>1 DEF Call
  <2>2. CASE MoreToRead /\ call' = [call EXCEPT !.pc = "batch", !.n = call.n + 1]
    <3>1. call.n + 1 \in 1 .. MaxBatches /\ call.full /\ ~call.done
      BY <1>2, <2>2, Numbers DEF Call, MoreToRead
    <3> QED
      BY <1>2, <2>2, <3>1 DEF Call
  <2> QED
    BY <1>1, <2>1, <2>2
<1>4. ExportSound'
  BY <1>1, ExportKept DEF store
<1>5. CallSound' /\ ScopeSound'
  BY <1>1, <1>3 DEF ExtractionInv, CallSound, ScopeSound, store
<1> QED
  BY <1>1, <1>3, <1>4, <1>5, QuietKeeps DEF ExtractionInv, ExtractionTypeOK

LEMMA ExportEndsKeeps == ExtractionInv /\ ExportEnds => ExtractionInv'
<1> SUFFICES ASSUME ExtractionInv, ExportEnds PROVE ExtractionInv'
  OBVIOUS
<1>1. /\ export.pc = "ending"
      /\ export' = IF export.err /\ scope = "live" THEN [export EXCEPT !.pc = "failed"] ELSE NoExport
      /\ UNCHANGED <<now, db, late, store, call, scope, up, accepted, recount, history>>
  BY DEF ExportEnds
<1>2. export \in Export
  BY DEF ExtractionInv, ExtractionTypeOK
<1>3. /\ export' \in Export
      /\ \/ export'.pc = "failed" /\ export'.next = export.next
         \/ export'.pc = "none" /\ ~(export.err /\ scope = "live")
  BY <1>1, <1>2, NoExportType DEF Export
<1>4. ExportSound'
  BY <1>1, <1>3, ExportKept DEF store
<1>5. CallSound' /\ ScopeSound'
  BY <1>1, <1>3 DEF ExtractionInv, CallSound, ScopeSound, ExportSound, store
<1> QED
  BY <1>1, <1>3, <1>4, <1>5, QuietKeeps DEF ExtractionInv, ExtractionTypeOK

LEMMA StartExportKeeps == ExtractionInv /\ StartExport => ExtractionInv'
<1> SUFFICES ASSUME ExtractionInv, StartExport PROVE ExtractionInv'
  OBVIOUS
<1>1. call.pc = "query" /\ scope' = IF scope = "none" THEN "live" ELSE scope
  BY DEF StartExport
<1>2. UNCHANGED <<now, db, late, store, up, accepted, recount, history>>
  BY DEF StartExport, history
<1>3. PICK result \in Results :
        /\ Delivered(result) # {}
        /\ export' = [NoExport EXCEPT !.pc = "sending", !.rows = Delivered(result), !.next = NextMark(result)]
        /\ call' = [call EXCEPT !.pc = "await", !.full = result.full, !.mark = NextMark(result)]
  BY DEF StartExport
<1>4. PICK rows : rows = Delivered(result)
  OBVIOUS
<1>5. PICK next : next = NextMark(result)
  OBVIOUS
<1>6. /\ export.pc = "none" /\ mem = call.mark /\ mem # NoMark
      /\ call.mark < call.to /\ call.to <= now - Lag
  BY <1>1 DEF ExtractionInv, CallSound
<1>7. /\ rows \subseteq db /\ next \in Times /\ call.mark < next /\ next <= call.to
      /\ \A r \in rows : call.mark < r[1] /\ r[1] <= next
      /\ \A r \in db : call.mark < r[1] /\ r[1] <= next => r \in rows
  BY <1>3, <1>4, <1>5, <1>6, BatchComplete DEF ExtractionInv
<1>8. rows \in SUBSET Rows /\ rows # {}
  BY <1>3, <1>4, <1>7 DEF ExtractionInv, ExtractionTypeOK
<1>9. /\ export' \in Export /\ export'.pc = "sending" /\ export'.rows = rows /\ export'.next = next
  BY <1>3, <1>4, <1>5, <1>7, <1>8, NoExportType DEF Export
<1>10. result.full \in BOOLEAN
  BY ResultShape
<1>11. /\ call' \in Call /\ call'.pc = "await" /\ call'.mark = next /\ call'.done = call.done
  BY <1>3, <1>5, <1>7, <1>10 DEF ExtractionInv, ExtractionTypeOK, Call
<1>12. next <= now - Lag
  <2>1. next \in Int /\ call.to \in Int /\ now - Lag \in Int
    BY <1>7, Numbers, TimesAreInts DEF ExtractionInv, ExtractionTypeOK, Call
  <2> QED
    BY <1>6, <1>7, <2>1
<1>13. ExportSound'
  BY <1>2, <1>6, <1>7, <1>8, <1>9, <1>12 DEF ExportSound, Exporting, store
<1>14. ScopeSound' /\ (~call.done => scope' = "live")
  BY <1>1, <1>2 DEF ExtractionInv, ScopeSound, CallSound, ExtractionTypeOK
<1>15. CallSound'
  BY <1>1, <1>2, <1>6, <1>9, <1>11, <1>14 DEF ExtractionInv, CallSound, store
<1> QED
  BY <1>1, <1>2, <1>6, <1>9, <1>11, <1>13, <1>14, <1>15, QuietKeeps DEF ExtractionInv, ExtractionTypeOK

-----------------------------------------------------------------------------
(* Minutes and counts.                                                     *)

LEMMA MinuteBounds ==
  ASSUME NEW t \in Int
  PROVE  /\ minuteEnd(t) \in Int /\ t <= minuteEnd(t) * Minute /\ (minuteEnd(t) - 1) * Minute < t
         /\ t \div Minute \in Int /\ (t \div Minute) * Minute <= t /\ t < ((t \div Minute) + 1) * Minute
<1>1. \A x \in Int : x \div Minute \in Int /\ (x \div Minute) * Minute <= x /\ x < (x \div Minute) * Minute + Minute
  BY Numbers
<1>2. PICK q \in Int : q = (-t) \div Minute
  BY <1>1
<1>3. q * Minute <= -t /\ -t < q * Minute + Minute
  BY <1>1, <1>2
<1>4. minuteEnd(t) = -q
  BY <1>2 DEF minuteEnd
<1>5. (-q) * Minute = -(q * Minute) /\ (-q - 1) * Minute = -(q * Minute) - Minute /\ q * Minute \in Int
  BY Numbers
<1>6. t <= minuteEnd(t) * Minute /\ (minuteEnd(t) - 1) * Minute < t
  BY <1>3, <1>4, <1>5, Numbers
<1>7. \A x \in Int : (x + 1) * Minute = x * Minute + Minute
  BY Numbers
<1> QED
  BY <1>1, <1>4, <1>6, <1>7

LEMMA MinuteOrder ==
  ASSUME NEW a \in Int, NEW b \in Int
  PROVE  /\ a <= b => a * Minute <= b * Minute
         /\ a * Minute < b * Minute => a < b
         /\ a * Minute \in Int
BY Numbers

\* A whole minute behind a mark, a minute that ends at it or later.
LEMMA MinuteOfMark ==
  ASSUME NEW r \in Rows, NEW mark \in Int, NEW m \in Int, minuteEnd(r[1]) = m
  PROVE  /\ m <= mark \div Minute => r[1] <= mark
         /\ minuteEnd(mark) < m => mark < r[1]
         /\ m * Minute <= mark => r[1] <= mark
         /\ r[1] <= mark => m <= (mark \div Minute) + 1
<1> DEFINE q == mark \div Minute
           e == minuteEnd(mark)
<1>1. r[1] \in Int
  BY Numbers
<1>2. r[1] <= m * Minute /\ (m - 1) * Minute < r[1]
  BY <1>1, MinuteBounds
<1>3. q \in Int /\ q * Minute <= mark /\ mark < (q + 1) * Minute
  BY MinuteBounds
<1>4. e \in Int /\ mark <= e * Minute
  BY MinuteBounds
<1>5. m * Minute \in Int /\ (m - 1) * Minute \in Int /\ q * Minute \in Int /\ (q + 1) * Minute \in Int /\ e * Minute \in Int
  BY <1>3, <1>4, MinuteOrder
<1> HIDE DEF q, e
<1>6. m <= q => r[1] <= mark
  <2>1. m <= q => m * Minute <= q * Minute
    BY <1>3, MinuteOrder
  <2> QED
    BY <1>1, <1>2, <1>3, <1>5, <2>1
<1>7. e < m => mark < r[1]
  <2>1. e < m => e * Minute <= (m - 1) * Minute
    BY <1>4, MinuteOrder
  <2> QED
    BY <1>1, <1>2, <1>4, <1>5, <2>1
<1>8. m * Minute <= mark => r[1] <= mark
  BY <1>1, <1>2, <1>5
<1>9. r[1] <= mark => m <= q + 1
  <2>1. r[1] <= mark => (m - 1) * Minute < (q + 1) * Minute
    BY <1>1, <1>2, <1>3, <1>5
  <2>2. (m - 1) * Minute < (q + 1) * Minute => m - 1 < q + 1
    BY <1>3, MinuteOrder
  <2> QED
    BY <1>3, <2>1, <2>2
<1> QED
  BY <1>6, <1>7, <1>8, <1>9 DEF q, e

LEMMA MinuteMonotone ==
  ASSUME NEW a \in Int, NEW b \in Int, a <= b
  PROVE  a \div Minute <= b \div Minute /\ minuteEnd(a) <= (b \div Minute) + 1
<1> DEFINE p == a \div Minute
           q == b \div Minute
           e == minuteEnd(a)
<1>1. /\ p \in Int /\ p * Minute <= a
      /\ q \in Int /\ b < (q + 1) * Minute
      /\ e \in Int /\ (e - 1) * Minute < a
  BY MinuteBounds
<1>2. p * Minute \in Int /\ (q + 1) * Minute \in Int /\ (e - 1) * Minute \in Int
  BY <1>1, MinuteOrder
<1> HIDE DEF p, q, e
<1>3. p < q + 1
  BY <1>1, <1>2, MinuteOrder
<1>4. e - 1 < q + 1
  BY <1>1, <1>2, MinuteOrder
<1> QED
  BY <1>1, <1>3, <1>4 DEF p, q, e

LEMMA RowsFinite ==
  ASSUME NEW S \in SUBSET Rows
  PROVE  /\ IsFiniteSet(S) /\ Cardinality(S) \in Nat
         /\ \A T \in SUBSET S : Cardinality(T) <= Cardinality(S) /\ Cardinality(T) \in Nat
BY FS_Subset, FS_CardinalityType, ExtractionAssumption

\* The rows of a minute committed late and not delivered.
LateIn(m) == {r \in late : minuteEnd(r[1]) = m /\ accepted[r] = 0}

\* More late rows, and none of those found delivered, keep the report true.
LEMMA ReportKept ==
  ASSUME ExtractionInv, UNCHANGED recount, late \subseteq late', late' \subseteq Rows,
         \A r \in late : accepted[r] = 0 /\ mem # NoMark /\ r[1] <= mem => accepted'[r] = 0
  PROVE  RecountTruthful'
<1> SUFFICES ASSUME NEW m \in Minutes
             PROVE  recount.duplicate[m] = 0 /\ recount.late[m] <= Cardinality(LateIn(m))'
  BY DEF RecountTruthful, LateIn
<1>1. recount.duplicate[m] = 0 /\ recount.late[m] <= Cardinality(LateIn(m)) /\ recount.late[m] \in Nat
  BY DEF ExtractionInv, RecountTruthful, LateIn, ExtractionTypeOK, RecountType
<1>2. LateIn(m)' \in SUBSET Rows /\ Cardinality(LateIn(m)') \in Nat /\ Cardinality(LateIn(m)') = Cardinality(LateIn(m))'
  <2>1. LateIn(m)' \in SUBSET Rows
    BY DEF LateIn
  <2> QED
    BY <2>1, RowsFinite
<1>3. CASE recount.late[m] = 0
  BY <1>1, <1>2, <1>3
<1>4. CASE recount.late[m] > 0
  <2>1. mem # NoMark /\ m * Minute <= mem /\ mem \in Int /\ m \in Int
    BY <1>4, TimesAreInts, Numbers DEF ExtractionInv, RecountSound, Minutes, ExtractionTypeOK
  <2>2. LateIn(m) \subseteq LateIn(m)'
    <3> SUFFICES ASSUME NEW r \in LateIn(m) PROVE r \in LateIn(m)'
      OBVIOUS
    <3>1. r \in late /\ minuteEnd(r[1]) = m /\ accepted[r] = 0 /\ r \in Rows
      BY DEF LateIn, ExtractionInv, ExtractionTypeOK
    <3>2. r[1] <= mem
      BY <2>1, <3>1, MinuteOfMark
    <3> QED
      BY <2>1, <3>1, <3>2 DEF LateIn
  <2>3. Cardinality(LateIn(m)) <= Cardinality(LateIn(m)') /\ Cardinality(LateIn(m)) \in Nat
    BY <1>2, <2>2, RowsFinite
  <2> QED
    BY <1>1, <1>2, <2>3
<1> QED
  BY <1>1, <1>3, <1>4

-----------------------------------------------------------------------------
(* The clock, commits and restarts.                                        *)

LEMMA TickKeeps == ExtractionInv /\ Tick => ExtractionInv'
<1> SUFFICES ASSUME ExtractionInv, Tick PROVE ExtractionInv'
  OBVIOUS
<1>1. now < MaxTime /\ now' = now + 1
  BY DEF Tick
<1>2. UNCHANGED <<db, late, store, call, export, scope, up, accepted, recount, history>>
  BY DEF Tick
<1> USE DEF store, history
<1>3. now \in Nat /\ now' \in 0 .. MaxTime /\ now - Lag \in Int /\ now' - Lag = (now - Lag) + 1
  BY <1>1, Numbers DEF ExtractionInv, ExtractionTypeOK
<1>4. \A t \in Times : t <= now - Lag => t <= now' - Lag
  BY <1>3, TimesAreInts
<1>5. ExtractionTypeOK'
  BY <1>2, <1>3 DEF ExtractionInv, ExtractionTypeOK
<1>6. MarksSound'
  BY <1>2, <1>4 DEF ExtractionInv, ExtractionTypeOK, MarksSound, Passed, Behind
<1>7. CallSound'
  <2>1. call.to \in Times
    BY DEF ExtractionInv, ExtractionTypeOK, Call
  <2> QED
    BY <1>2, <1>4, <2>1 DEF ExtractionInv, CallSound
<1>8. ExportSound'
  <2>1. export.next \in Times
    BY DEF ExtractionInv, ExtractionTypeOK, Export
  <2> QED
    BY <1>2, <1>4, <2>1 DEF ExtractionInv, ExportSound, Exporting
<1>9. AcceptedCommitted' /\ ScopeSound' /\ OnceOnly' /\ WaivedSound'
  <2>1. waived \in Int /\ now' - InitialLookback = (now - InitialLookback) + 1 /\ now - InitialLookback \in Int
    BY <1>1, <1>3, TimesAreInts, Numbers DEF ExtractionInv, ExtractionTypeOK
  <2> QED
    BY <1>2, <2>1 DEF ExtractionInv, AcceptedCommitted, ScopeSound, OnceOnly, WaivedSound
<1>10. RecountSound' /\ RecountTruthful'
  BY <1>2 DEF ExtractionInv, RecountSound, RecountTruthful, DeliveredIn
<1> QED
  BY <1>5, <1>6, <1>7, <1>8, <1>9, <1>10 DEF ExtractionInv

LEMMA CommitKeeps == ASSUME ExtractionInv, NEW r \in Rows, Commit(r) PROVE ExtractionInv'
<1>1. /\ r \notin db /\ r[1] <= now /\ db' = db \cup {r}
      /\ late' = IF r[1] <= now - Lag THEN late \cup {r} ELSE late
  BY DEF Commit
<1>2. UNCHANGED <<now, store, call, export, scope, up, accepted, recount, history>>
  BY DEF Commit
<1> USE DEF store, history
<1>3. accepted[r] = 0 /\ r \notin late
  BY <1>1, Numbers DEF ExtractionInv, AcceptedCommitted, ExtractionTypeOK
<1>4. now \in Nat /\ now - Lag \in Int /\ r[1] \in Nat
  BY Numbers DEF ExtractionInv, ExtractionTypeOK
<1>5. ExtractionTypeOK'
  BY <1>1, <1>2 DEF ExtractionInv, ExtractionTypeOK
<1>6. MarksSound'
  <2> SUFFICES ASSUME NEW mark \in {mem, disk} \ {NoMark}
               PROVE  Passed(mark)' /\ Behind(mark)'
    BY <1>2 DEF MarksSound
  <2>1. Passed(mark) /\ Behind(mark) /\ mark \in Int /\ waived \in Int
    BY TimesAreInts DEF ExtractionInv, MarksSound, ExtractionTypeOK
  <2>2. ASSUME NEW x \in db' \ late', waived < x[1], x[1] <= mark
        PROVE  accepted[x] > 0
    <3>1. x # r
      BY <1>1, <1>4, <2>1, <2>2 DEF Behind
    <3> QED
      BY <1>1, <2>1, <2>2, <3>1 DEF Passed
  <2> QED
    BY <1>2, <2>1, <2>2 DEF Passed, Behind
<1>7. ExportSound'
  <2>1. export.next \in Int /\ (export.next <= now - Lag /\ r[1] <= export.next => r \in late')
    BY <1>1, <1>4, TimesAreInts DEF ExtractionInv, ExtractionTypeOK, Export
  <2> QED
    BY <1>1, <1>2, <1>3, <2>1 DEF ExtractionInv, ExportSound, Exporting
<1>8. AcceptedCommitted' /\ ScopeSound' /\ OnceOnly' /\ CallSound' /\ WaivedSound'
  BY <1>1, <1>2 DEF ExtractionInv, AcceptedCommitted, ScopeSound, OnceOnly, CallSound, WaivedSound
<1>9. RecountSound'
  BY <1>2 DEF ExtractionInv, RecountSound, DeliveredIn
<1>10. RecountTruthful'
  BY <1>1, <1>2, ReportKept DEF ExtractionInv, ExtractionTypeOK
<1> QED
  BY <1>5, <1>6, <1>7, <1>8, <1>9, <1>10 DEF ExtractionInv

LEMMA RestartKeeps == ExtractionInv /\ Restart => ExtractionInv'
<1> SUFFICES ASSUME ExtractionInv, Restart PROVE ExtractionInv'
  OBVIOUS
<1>1. /\ crashes' = crashes + 1 /\ mem' = NoMark /\ call' = IdleCall /\ export' = NoExport
      /\ scope' = "none" /\ up' = TRUE /\ recount' = NoRecount
      /\ UNCHANGED <<now, db, late, disk, accepted, lost, waived>>
  BY DEF Restart
<1>2. crashes' \in Nat /\ crashes' # 0
  BY <1>1 DEF ExtractionInv, ExtractionTypeOK
<1>3. ExtractionTypeOK'
  BY <1>1, <1>2, IdleCallType, NoExportType, NoRecountType DEF ExtractionInv, ExtractionTypeOK
<1>4. MarksSound'
  BY <1>1 DEF ExtractionInv, MarksSound, Passed, Behind
<1>5. CallSound' /\ ScopeSound' /\ ExportSound'
  BY <1>1, IdleCallType, NoExportType DEF CallSound, ScopeSound, ExportSound, Exporting
<1>6. AcceptedCommitted' /\ OnceOnly' /\ WaivedSound'
  BY <1>1, <1>2 DEF ExtractionInv, AcceptedCommitted, OnceOnly, WaivedSound
<1>7. RecountSound'
  BY <1>1, NoRecountType DEF RecountSound
<1>8. RecountTruthful'
  <2>1. \A m \in Minutes : Cardinality({r \in late' : minuteEnd(r[1]) = m /\ accepted'[r] = 0}) \in Nat
    <3>1. late' \in SUBSET Rows
      BY <1>1 DEF ExtractionInv, ExtractionTypeOK
    <3> QED
      BY <3>1, RowsFinite
  <2> QED
    BY <1>1, <2>1, NoRecountType DEF RecountTruthful
<1> QED
  BY <1>3, <1>4, <1>5, <1>6, <1>7, <1>8 DEF ExtractionInv

-----------------------------------------------------------------------------
(* Steps that move the watermark or deliver rows.                          *)

LEMMA BeginCallKeeps == ExtractionInv /\ BeginCall => ExtractionInv'
<1> SUFFICES ASSUME ExtractionInv, BeginCall PROVE ExtractionInv'
  OBVIOUS
<1>1. PICK mark : mark = IF Loaded = NoMark THEN Start ELSE Loaded
  OBVIOUS
<1>2. /\ up /\ call.pc = "idle" /\ export.pc = "none"
      /\ mem' = mark
      /\ waived' = IF Loaded = NoMark /\ mark > waived THEN mark ELSE waived
      /\ recount' = RecountStart(mark)
      /\ call' = [IdleCall EXCEPT !.pc = "batch", !.mark = mark]
      /\ UNCHANGED <<now, db, late, disk, export, scope, up, accepted, crashes, lost>>
  BY <1>1 DEF BeginCall
<1>3. mark \in Times /\ mark \in Int /\ waived \in Int /\ mark # NoMark
  <2>1. now - InitialLookback \in Times
    BY Numbers, TimesAreInts DEF ExtractionInv, ExtractionTypeOK
  <2> QED
    BY <1>1, <2>1, TimesAreInts DEF Loaded, Start, ExtractionInv, ExtractionTypeOK
<1>4. \/ mem = NoMark /\ disk = NoMark /\ waived' = mark /\ waived <= mark /\ mark = now - InitialLookback
      \/ mark \in {mem, disk} \ {NoMark} /\ waived' = waived /\ (mem # NoMark => mark = mem)
  BY <1>1, <1>2, <1>3 DEF Loaded, Start, ExtractionInv, WaivedSound
<1>5. waived' \in Times /\ waived <= waived' /\ waived' \in Int /\ waived' <= mark
  <2>1. CASE mark \in {mem, disk} \ {NoMark} /\ waived' = waived
    BY <1>3, <2>1 DEF ExtractionInv, MarksSound, Behind, ExtractionTypeOK
  <2> QED
    BY <1>3, <1>4, <2>1
<1>6. /\ call' \in Call /\ call'.pc = "batch" /\ call'.mark = mark
  BY <1>2, <1>3, IdleCallType DEF Call
<1>7. MarksSound'
  <2>1. Passed(mark)' /\ Behind(mark)'
    <3>1. CASE waived' = mark
      BY <1>2, <1>3, <3>1, Numbers DEF Passed, Behind, ExtractionInv, ExtractionTypeOK
    <3>2. CASE mark \in {mem, disk} \ {NoMark} /\ waived' = waived
      BY <1>2, <3>2 DEF Passed, Behind, ExtractionInv, MarksSound
    <3> QED
      BY <1>4, <3>1, <3>2
  <2>2. disk # NoMark => Passed(disk)' /\ Behind(disk)'
    BY <1>2, <1>4 DEF Passed, Behind, ExtractionInv, MarksSound
  <2> QED
    BY <1>2, <2>1, <2>2 DEF MarksSound
<1>8. recount' \in RecountType
  <2>1. minuteEnd(mark) \in Int
    BY <1>3, MinuteBounds
  <2>2. recount \in RecountType
    BY DEF ExtractionInv, ExtractionTypeOK
  <2> QED
    BY <1>2, <1>3, <2>1, <2>2, NoRecountType DEF RecountStart, RecountType
<1>9. \/ /\ recount.on /\ recount'.floor = recount.floor /\ recount'.delivered = recount.delivered
         /\ recount'.late = recount.late /\ recount'.duplicate = recount.duplicate
      \/ /\ recount'.on => recount'.floor = minuteEnd(mark)
         /\ \A m \in Minutes : recount'.late[m] = 0 /\ recount'.duplicate[m] = 0 /\ recount'.delivered[m] = 0
  <2>1. CASE Window # 0 /\ recount.on /\ mark >= recount.high
    BY <1>2, <2>1 DEF RecountStart, ExtractionInv, ExtractionTypeOK, RecountType
  <2>2. CASE Window = 0
    BY <1>2, <2>2, NoRecountType DEF RecountStart
  <2>3. CASE Window # 0 /\ ~(recount.on /\ mark >= recount.high)
    <3>1. recount' = [NoRecount EXCEPT !.on = TRUE, !.floor = minuteEnd(mark), !.high = mark]
      BY <1>2, <2>3 DEF RecountStart
    <3> QED
      BY <3>1, NoRecountType DEF RecountType
  <2> QED
    BY <2>1, <2>2, <2>3
<1>10. recount.on => mem # NoMark /\ mark = mem /\ waived' = waived
  BY <1>4 DEF ExtractionInv, RecountSound
<1>11. RecountSound' /\ RecountTruthful'
  <2>1. CASE /\ recount.on /\ recount'.floor = recount.floor /\ recount'.delivered = recount.delivered
             /\ recount'.late = recount.late /\ recount'.duplicate = recount.duplicate
    BY <1>2, <1>10, <2>1 DEF ExtractionInv, RecountSound, RecountTruthful, DeliveredIn
  <2>2. CASE /\ recount'.on => recount'.floor = minuteEnd(mark)
             /\ \A m \in Minutes : recount'.late[m] = 0 /\ recount'.duplicate[m] = 0 /\ recount'.delivered[m] = 0
    <3>1. RecountTruthful'
      <4>1. late' \in SUBSET Rows
        BY <1>2 DEF ExtractionInv, ExtractionTypeOK
      <4>2. \A m \in Minutes : Cardinality({r \in late' : minuteEnd(r[1]) = m /\ accepted'[r] = 0}) \in Nat
        BY <4>1, RowsFinite
      <4> QED
        BY <2>2, <4>2 DEF RecountTruthful
    <3>2. waived' <= minuteEnd(mark) * Minute
      <4>1. mark <= minuteEnd(mark) * Minute /\ minuteEnd(mark) * Minute \in Int
        BY <1>3, MinuteBounds, MinuteOrder
      <4> QED
        BY <1>3, <1>5, <4>1
    <3>3. ASSUME NEW m \in Minutes, m > minuteEnd(mark)
          PROVE  recount'.delivered[m] = Cardinality(DeliveredIn(m, mem)')
      <4>1. m \in Int /\ minuteEnd(mark) \in Int /\ minuteEnd(mark) < m
        BY <1>3, <3>3, MinuteBounds, Numbers DEF Minutes
      <4>2. \A r \in Rows : minuteEnd(r[1]) = m => ~(r[1] <= mark)
        BY <1>3, <4>1, MinuteOfMark, Numbers
      <4>3. DeliveredIn(m, mem)' = {}
        BY <1>2, <4>2 DEF DeliveredIn
      <4> QED
        BY <2>2, <4>3, FS_EmptySet
    <3> QED
      BY <1>2, <1>3, <2>2, <3>1, <3>2, <3>3 DEF RecountSound
  <2> QED
    BY <1>9, <2>1, <2>2
<1>12. ExtractionTypeOK'
  BY <1>2, <1>3, <1>5, <1>6, <1>8 DEF ExtractionInv, ExtractionTypeOK
<1>13. CallSound' /\ ScopeSound' /\ ExportSound'
  BY <1>2, <1>3, <1>6 DEF ExtractionInv, CallSound, ScopeSound, ExportSound, Exporting
<1>14. AcceptedCommitted' /\ WaivedSound'
  BY <1>2, <1>3, <1>4 DEF ExtractionInv, AcceptedCommitted, WaivedSound
<1>15. OnceOnly'
  BY <1>2, <1>3, <1>4 DEF ExtractionInv, OnceOnly
<1> QED
  BY <1>7, <1>11, <1>12, <1>13, <1>14, <1>15 DEF ExtractionInv

LEMMA EmptyBatchKeeps == ExtractionInv /\ EmptyBatch => ExtractionInv'
<1> SUFFICES ASSUME ExtractionInv, EmptyBatch PROVE ExtractionInv'
  OBVIOUS
<1>1. /\ call.pc = "query" /\ mem' = call.to
      /\ UNCHANGED <<now, db, late, export, scope, up, accepted, recount, history>>
  BY DEF EmptyBatch
<1>2. PICK result \in Results : result.rows = {}
  BY DEF EmptyBatch
<1>3. \A r \in db : ~(call.mark < r[1] /\ r[1] <= call.to)
  BY <1>2, EmptyResult
<1>4. /\ export.pc = "none" /\ mem = call.mark /\ mem # NoMark
      /\ call.mark < call.to /\ call.to <= now - Lag
  BY <1>1 DEF ExtractionInv, CallSound
<1>5. /\ call.mark \in Int /\ call.to \in Times /\ call.to \in Int /\ call.to # NoMark
      /\ waived \in Int /\ \A r \in Rows : r[1] \in Int
  BY TimesAreInts, Numbers DEF ExtractionInv, ExtractionTypeOK, Call
<1>6. \A r \in db : r[1] <= call.to <=> r[1] <= mem
  BY <1>3, <1>4, <1>5 DEF ExtractionInv, ExtractionTypeOK
<1>7. \/ /\ disk' = call.to /\ call' \in Call /\ call'.pc = "await" /\ ~call'.full
         /\ call'.done = call.done
      \/ disk' = disk /\ call' = IdleCall
  BY DEF EmptyBatch, ExtractionInv, ExtractionTypeOK, Call
<1>8. call' \in Call /\ disk' \in {call.to, disk}
  BY <1>7, IdleCallType
<1> USE DEF store, history
<1>9. ExtractionTypeOK'
  BY <1>1, <1>5, <1>8 DEF ExtractionInv, ExtractionTypeOK
<1>10. MarksSound'
  <2>1. Passed(call.to) /\ Behind(call.to)
    BY <1>4, <1>5, <1>6 DEF ExtractionInv, MarksSound, Passed, Behind
  <2> QED
    BY <1>1, <1>8, <2>1 DEF ExtractionInv, MarksSound, Passed, Behind
<1>11. CallSound'
  BY <1>1, <1>4, <1>5, <1>7, IdleCallType DEF ExtractionInv, CallSound
<1>12. AcceptedCommitted' /\ ScopeSound' /\ WaivedSound' /\ ExportSound'
  BY <1>1, <1>4 DEF ExtractionInv, AcceptedCommitted, ScopeSound, WaivedSound, ExportSound, Exporting
<1>13. OnceOnly'
  BY <1>1, <1>4, <1>5, <1>6 DEF ExtractionInv, OnceOnly, AcceptedCommitted
<1>14. RecountTruthful'
  BY <1>1 DEF ExtractionInv, RecountTruthful
<1>15. RecountSound'
  <2>1. \A m : DeliveredIn(m, mem)' = DeliveredIn(m, mem)
    BY <1>1, <1>6 DEF DeliveredIn, ExtractionInv, AcceptedCommitted
  <2>2. mem \div Minute \in Int /\ call.to \div Minute \in Int /\ mem \div Minute <= call.to \div Minute
    BY <1>4, <1>5, MinuteMonotone, MinuteBounds
  <2>3. \A m \in Minutes : m \in Int /\ m * Minute \in Int
    BY MinuteOrder, Numbers DEF Minutes
  <2>4. ASSUME recount.on PROVE mem # NoMark /\ waived <= recount.floor * Minute
    BY <2>4 DEF ExtractionInv, RecountSound
  <2>5. ASSUME recount.on, NEW m \in Minutes, m > recount.floor, m > (call.to \div Minute) - Window
        PROVE  recount.delivered[m] = Cardinality(DeliveredIn(m, mem)')
    <3>1. m > (mem \div Minute) - Window
      BY <2>2, <2>3, <2>5, Numbers
    <3> QED
      BY <2>1, <2>5, <3>1 DEF ExtractionInv, RecountSound
  <2>6. ASSUME NEW m \in Minutes, recount.late[m] > 0 PROVE m * Minute <= call.to
    <3>1. m * Minute <= mem
      BY <2>6 DEF ExtractionInv, RecountSound
    <3> QED
      BY <1>4, <1>5, <2>3, <3>1
  <2> QED
    BY <1>1, <1>5, <2>4, <2>5, <2>6 DEF RecountSound
<1> QED
  BY <1>9, <1>10, <1>11, <1>12, <1>13, <1>14, <1>15 DEF ExtractionInv

\* The Collector takes the batch: only rows ahead of the watermark.
LEMMA AcceptMoves ==
  ASSUME ExtractionInv, export.pc = "sending", Accept
  PROVE  /\ accepted' \in [Rows -> 0 .. 2]
         /\ \A r \in Rows : r \notin export.rows => accepted'[r] = accepted[r]
         /\ \A r \in export.rows : /\ r \in Rows /\ r \in db /\ mem < r[1] /\ ~(r[1] <= mem)
                                   /\ accepted'[r] > 0
                                   /\ accepted[r] = 0 => accepted'[r] < 2
         /\ \A r \in Rows : accepted[r] > 0 => accepted'[r] > 0
         /\ mem # NoMark
<1>1. accepted \in [Rows -> 0 .. 2] /\ export.rows \subseteq Rows
  BY DEF ExtractionInv, ExtractionTypeOK, Export
<1>2. \A n \in 0 .. 2 : OneMore(n) \in 0 .. 2 /\ OneMore(n) > 0 /\ (n = 0 => OneMore(n) < 2)
  BY DEF OneMore
<1>3. /\ mem # NoMark
      /\ \A r \in export.rows : r \in db /\ mem < r[1]
  BY DEF ExtractionInv, ExportSound, Exporting
<1>4. \A r \in export.rows : ~(r[1] <= mem)
  BY <1>1, <1>3, TimesAreInts, Numbers DEF ExtractionInv, ExtractionTypeOK
<1>5. \A r \in Rows : accepted[r] \in 0 .. 2
  BY <1>1
<1>6. \A r \in Rows : accepted'[r] = IF r \in export.rows THEN OneMore(accepted[r]) ELSE accepted[r]
  BY DEF Accept
<1>7. accepted' \in [Rows -> 0 .. 2]
  BY <1>2, <1>5 DEF Accept
<1> QED
  BY <1>1, <1>2, <1>3, <1>4, <1>5, <1>6, <1>7

\* What follows from that whatever the export does next: nothing behind the
\* watermark changes.
LEMMA AcceptKeeps ==
  ASSUME ExtractionInv, export.pc = "sending", Accept,
         UNCHANGED <<now, db, late, store, recount, waived>>
  PROVE  /\ MarksSound' /\ AcceptedCommitted' /\ RecountSound' /\ RecountTruthful' /\ WaivedSound'
<1> USE DEF store
<1>1. /\ \A r \in Rows : r \notin export.rows => accepted'[r] = accepted[r]
      /\ \A r \in export.rows : r \in Rows /\ r \in db /\ ~(r[1] <= mem) /\ accepted'[r] > 0
      /\ \A r \in Rows : accepted[r] > 0 => accepted'[r] > 0
  BY AcceptMoves
<1>2. MarksSound'
  BY <1>1 DEF ExtractionInv, ExtractionTypeOK, MarksSound, Passed, Behind
<1>3. AcceptedCommitted' /\ WaivedSound'
  BY <1>1 DEF ExtractionInv, AcceptedCommitted, WaivedSound
<1>4. \A m : DeliveredIn(m, mem)' = DeliveredIn(m, mem)
  BY <1>1 DEF DeliveredIn
<1>5. RecountSound'
  BY <1>4 DEF ExtractionInv, RecountSound
<1>6. RecountTruthful'
  <2>1. \A r \in late : accepted[r] = 0 /\ mem # NoMark /\ r[1] <= mem => accepted'[r] = 0
    BY <1>1 DEF ExtractionInv, ExtractionTypeOK
  <2> QED
    BY <2>1, ReportKept DEF ExtractionInv, ExtractionTypeOK
<1> QED
  BY <1>2, <1>3, <1>5, <1>6

LEMMA ExportAcceptedKeeps == ExtractionInv /\ ExportAccepted => ExtractionInv'
<1> SUFFICES ASSUME ExtractionInv, ExportAccepted PROVE ExtractionInv'
  OBVIOUS
<1>1. /\ export.pc = "sending" /\ Accept /\ export' = [export EXCEPT !.pc = "accepted"]
      /\ UNCHANGED <<now, db, late, store, call, scope, up, recount, history>>
  BY DEF ExportAccepted
<1>2. /\ export' \in Export /\ export'.pc = "accepted" /\ export'.rows = export.rows
      /\ export'.next = export.next
  BY <1>1 DEF ExtractionInv, ExtractionTypeOK, Export
<1>3. /\ accepted' \in [Rows -> 0 .. 2]
      /\ \A r \in Rows : r \notin export.rows => accepted'[r] = accepted[r]
      /\ \A r \in export.rows : /\ r \in Rows /\ r \in db /\ ~(r[1] <= mem) /\ accepted'[r] > 0
                                /\ accepted[r] = 0 => accepted'[r] < 2
  BY <1>1, AcceptMoves
<1> USE DEF store, history
<1>4. ExtractionTypeOK'
  BY <1>1, <1>2, <1>3 DEF ExtractionInv, ExtractionTypeOK
<1>5. MarksSound' /\ AcceptedCommitted' /\ RecountSound' /\ RecountTruthful' /\ WaivedSound'
  BY <1>1, AcceptKeeps
<1>6. CallSound' /\ ScopeSound'
  BY <1>1, <1>2 DEF ExtractionInv, CallSound, ScopeSound
<1>7. ExportSound'
  BY <1>1, <1>2, <1>3 DEF ExtractionInv, ExtractionTypeOK, ExportSound, Exporting
<1>8. OnceOnly'
  <2> SUFFICES ASSUME crashes = 0, ~lost, NEW r \in Rows
               PROVE  /\ accepted'[r] < 2
                      /\ accepted'[r] > 0 => \/ mem # NoMark /\ r[1] <= mem
                                             \/ r \in export.rows
    BY <1>1, <1>2 DEF OnceOnly
  <2>1. accepted[r] < 2 /\ (accepted[r] > 0 => mem # NoMark /\ r[1] <= mem) /\ accepted[r] \in 0 .. 2
    BY <1>1 DEF ExtractionInv, OnceOnly, ExtractionTypeOK
  <2> QED
    BY <1>3, <2>1
<1> QED
  BY <1>4, <1>5, <1>6, <1>7, <1>8 DEF ExtractionInv

LEMMA ExportRejectedKeeps == ExtractionInv /\ ExportRejected => ExtractionInv'
<1> SUFFICES ASSUME ExtractionInv, ExportRejected PROVE ExtractionInv'
  OBVIOUS
<1>1. /\ export.pc = "sending" /\ export' = [export EXCEPT !.pc = "ending", !.err = TRUE]
      /\ UNCHANGED <<now, db, late, store, call, scope, up, recount, crashes, waived>>
  BY DEF ExportRejected
<1>2. /\ export' \in Export /\ export'.pc = "ending" /\ export'.err
      /\ export'.next = export.next
  BY <1>1 DEF ExtractionInv, ExtractionTypeOK, Export
<1> USE DEF store, history
<1>3. CallSound' /\ ScopeSound' /\ ExportSound'
  BY <1>1, <1>2 DEF ExtractionInv, CallSound, ScopeSound, ExportSound, Exporting
<1>4. CASE UNCHANGED <<accepted, lost>>
  <2>1. ExtractionTypeOK' /\ OnceOnly'
    BY <1>1, <1>2, <1>4 DEF ExtractionInv, ExtractionTypeOK, OnceOnly
  <2>2. MarksSound' /\ AcceptedCommitted' /\ WaivedSound'
    BY <1>1, <1>4 DEF ExtractionInv, MarksSound, Passed, Behind, AcceptedCommitted, WaivedSound
  <2>3. RecountSound' /\ RecountTruthful'
    BY <1>1, <1>4 DEF ExtractionInv, RecountSound, RecountTruthful, DeliveredIn
  <2> QED
    BY <1>3, <2>1, <2>2, <2>3 DEF ExtractionInv
<1>5. CASE Accept /\ lost' = TRUE
  <2>1. accepted' \in [Rows -> 0 .. 2]
    BY <1>1, <1>5, AcceptMoves
  <2>2. ExtractionTypeOK' /\ OnceOnly'
    BY <1>1, <1>2, <1>5, <2>1 DEF ExtractionInv, ExtractionTypeOK, OnceOnly
  <2>3. MarksSound' /\ AcceptedCommitted' /\ RecountSound' /\ RecountTruthful' /\ WaivedSound'
    BY <1>1, <1>5, AcceptKeeps
  <2> QED
    BY <1>3, <2>2, <2>3 DEF ExtractionInv
<1> QED
  BY <1>4, <1>5 DEF ExportRejected

\* recountState.delivered, minute by minute.
LEMMA CountDeliveredShape ==
  ASSUME NEW log \in RecountType, NEW rows \in SUBSET Rows, rows # {}
  PROVE  LET new == CountDelivered(log, rows)
             oldest == minuteEnd(LastOf(rows)) - Window - 1
         IN /\ new \in RecountType /\ new.on = log.on /\ new.floor = log.floor
            /\ \A m \in Minutes :
                 /\ new.late[m] \in {0, log.late[m]} /\ new.duplicate[m] \in {0, log.duplicate[m]}
                 /\ log.on /\ m > oldest =>
                      new.delivered[m] = log.delivered[m] + Cardinality({r \in rows : minuteEnd(r[1]) = m})
<1> DEFINE oldest == minuteEnd(LastOf(rows)) - Window - 1
           kept(counts) == [m \in Minutes |-> IF m <= oldest THEN 0 ELSE counts[m]]
           counted == [m \in Minutes |->
                         log.delivered[m] + Cardinality({r \in rows : minuteEnd(r[1]) = m})]
           new == CountDelivered(log, rows)
<1>1. oldest \in Int
  <2>1. LastOf(rows) \in Int
    BY LastOfRows
  <2> QED
    BY <2>1, MinuteBounds, Numbers
<1>2. CASE ~log.on
  BY <1>2 DEF CountDelivered
<1>3. CASE log.on
  <2>1. new = [log EXCEPT !.delivered = kept(counted), !.late = kept(log.late), !.duplicate = kept(log.duplicate)]
    BY <1>3 DEF CountDelivered
  <2>2. \A m \in Minutes : Cardinality({r \in rows : minuteEnd(r[1]) = m}) \in Nat
    BY RowsFinite
  <2>3. log.delivered \in [Minutes -> Nat] /\ log.late \in [Minutes -> Nat] /\ log.duplicate \in [Minutes -> Nat]
    BY DEF RecountType
  <2>4. counted \in [Minutes -> Nat]
    BY <2>2, <2>3
  <2>5. \A c \in [Minutes -> Nat] : kept(c) \in [Minutes -> Nat]
    OBVIOUS
  <2>6. \A m \in Minutes : m \in Int
    BY Numbers DEF Minutes
  <2> HIDE DEF counted, kept, new, oldest
  <2>7. kept(counted) \in [Minutes -> Nat] /\ kept(log.late) \in [Minutes -> Nat] /\ kept(log.duplicate) \in [Minutes -> Nat]
    BY <2>3, <2>4, <2>5
  <2>8. new \in RecountType
    BY <2>1, <2>7 DEF RecountType
  <2>9. /\ new.on = log.on /\ new.floor = log.floor /\ new.delivered = kept(counted)
        /\ new.late = kept(log.late) /\ new.duplicate = kept(log.duplicate)
    BY <2>1 DEF RecountType
  <2>10. ASSUME NEW m \in Minutes
         PROVE  /\ new.late[m] \in {0, log.late[m]} /\ new.duplicate[m] \in {0, log.duplicate[m]}
                /\ m > oldest =>
                      new.delivered[m] = log.delivered[m] + Cardinality({r \in rows : minuteEnd(r[1]) = m})
    BY <1>1, <2>6, <2>9 DEF kept, counted
  <2> QED
    BY <2>8, <2>9, <2>10 DEF new, oldest
<1> QED
  BY <1>2, <1>3

LEMMA SaveWatermarkKeeps == ExtractionInv /\ SaveWatermark => ExtractionInv'
<1> SUFFICES ASSUME ExtractionInv, SaveWatermark PROVE ExtractionInv'
  OBVIOUS
<1>1. PICK rows : rows = export.rows
  OBVIOUS
<1>2. PICK next : next = export.next
  OBVIOUS
<1>3. /\ export.pc = "accepted" /\ mem' = next /\ recount' = CountDelivered(recount, rows)
      /\ disk' \in {next, disk}
      /\ UNCHANGED <<now, db, late, call, scope, up, accepted, history>>
  BY <1>1, <1>2 DEF SaveWatermark
<1>4. \/ disk' = next /\ export' = [export EXCEPT !.pc = "ending"]
      \/ export' = [export EXCEPT !.pc = "ending", !.err = TRUE]
  BY <1>2 DEF SaveWatermark
<1>5. export' \in Export /\ export'.pc = "ending" /\ export'.next = next
  BY <1>2, <1>4 DEF ExtractionInv, ExtractionTypeOK, Export
<1>6. /\ mem # NoMark /\ mem < next /\ next <= now - Lag /\ rows # {}
      /\ \A r \in rows : r \in db /\ mem < r[1] /\ r[1] <= next /\ accepted[r] > 0
      /\ \A r \in db : mem < r[1] /\ r[1] <= next => r \in rows \/ (r \in late /\ accepted[r] = 0)
  BY <1>1, <1>2, <1>3 DEF ExtractionInv, ExportSound, Exporting
<1>7. /\ next \in Times /\ next \in Int /\ next # NoMark /\ mem \in Int /\ waived \in Int
      /\ rows \in SUBSET Rows /\ recount \in RecountType /\ \A r \in Rows : r[1] \in Int
  BY <1>1, <1>2, <1>6, TimesAreInts, Numbers DEF ExtractionInv, ExtractionTypeOK, Export
<1> USE DEF store, history
<1>8. MarksSound'
  <2>1. Passed(mem) /\ Behind(mem)
    BY <1>6 DEF ExtractionInv, MarksSound
  <2>2. Passed(next)
    BY <1>6, <1>7, <2>1 DEF Passed, ExtractionInv, ExtractionTypeOK
  <2>3. Behind(next)
    BY <1>6, <1>7, <2>1 DEF Behind
  <2> QED
    BY <1>3, <2>2, <2>3 DEF ExtractionInv, MarksSound, Passed, Behind
<1>9. AcceptedCommitted' /\ ScopeSound' /\ WaivedSound'
  BY <1>3 DEF ExtractionInv, AcceptedCommitted, ScopeSound, WaivedSound
<1>10. CallSound'
  BY <1>2, <1>3, <1>5, <1>7 DEF ExtractionInv, CallSound
<1>11. ExportSound'
  BY <1>3, <1>5 DEF ExportSound, Exporting
<1>12. OnceOnly'
  <2> SUFFICES ASSUME crashes = 0, ~lost, NEW r \in Rows
               PROVE  accepted[r] < 2 /\ (accepted[r] > 0 => r[1] <= next)
    BY <1>3, <1>7 DEF OnceOnly
  <2>1. accepted[r] < 2 /\ (accepted[r] > 0 => r[1] <= mem \/ r \in rows)
    BY <1>1 DEF ExtractionInv, OnceOnly
  <2> QED
    BY <1>6, <1>7, <2>1
<1> DEFINE oldest == minuteEnd(LastOf(rows)) - Window - 1
           at(m) == {r \in rows : minuteEnd(r[1]) = m}
<1>13. /\ recount' \in RecountType /\ recount'.on = recount.on /\ recount'.floor = recount.floor
       /\ \A m \in Minutes :
            /\ recount'.late[m] \in {0, recount.late[m]} /\ recount'.duplicate[m] \in {0, recount.duplicate[m]}
            /\ recount.on /\ m > oldest => recount'.delivered[m] = recount.delivered[m] + Cardinality(at(m))
  BY <1>3, <1>6, <1>7, CountDeliveredShape
<1>14. ExtractionTypeOK'
  BY <1>3, <1>5, <1>7, <1>13 DEF ExtractionInv, ExtractionTypeOK
<1>15. RecountTruthful'
  <2> SUFFICES ASSUME NEW m \in Minutes
               PROVE  recount'.duplicate[m] = 0 /\ recount'.late[m] <= Cardinality(LateIn(m))
    BY <1>3 DEF RecountTruthful, LateIn
  <2>1. recount.duplicate[m] = 0 /\ recount.late[m] <= Cardinality(LateIn(m))
    BY DEF ExtractionInv, RecountTruthful, LateIn
  <2>2. Cardinality(LateIn(m)) \in Nat
    <3>1. LateIn(m) \in SUBSET Rows
      BY DEF LateIn, ExtractionInv, ExtractionTypeOK
    <3> QED
      BY <3>1, RowsFinite
  <2>3. recount'.late[m] \in {0, recount.late[m]} /\ recount'.duplicate[m] \in {0, recount.duplicate[m]}
    BY <1>13
  <2> QED
    BY <2>1, <2>2, <2>3
<1>16. RecountSound'
  <2>1. /\ next \div Minute \in Int /\ mem \div Minute \in Int /\ mem \div Minute <= next \div Minute
        /\ oldest \in Int /\ oldest <= (next \div Minute) - Window
    <3>1. /\ LastOf(rows) \in Int /\ LastOf(rows) <= next
      <4>1. PICK r \in rows : r[1] = LastOf(rows)
        BY <1>6, <1>7, LastOfRows
      <4> QED
        BY <1>6, <1>7, <4>1
    <3>2. minuteEnd(LastOf(rows)) \in Int /\ minuteEnd(LastOf(rows)) <= (next \div Minute) + 1
      BY <1>7, <3>1, MinuteMonotone, MinuteBounds
    <3>3. next \div Minute \in Int /\ mem \div Minute \in Int /\ mem \div Minute <= next \div Minute
      BY <1>6, <1>7, MinuteMonotone, MinuteBounds
    <3> QED
      BY <3>2, <3>3, Numbers
  <2> HIDE DEF oldest
  <2>2. \A m \in Minutes : m \in Int /\ m * Minute \in Int
    BY MinuteOrder, Numbers DEF Minutes
  <2>3. ASSUME recount.on, NEW m \in Minutes, m > recount.floor, m > (next \div Minute) - Window
        PROVE  recount'.delivered[m] = Cardinality(DeliveredIn(m, mem)')
    <3>1. m > oldest /\ m > (mem \div Minute) - Window
      BY <2>1, <2>2, <2>3, Numbers
    <3>2. recount.delivered[m] = Cardinality(DeliveredIn(m, mem))
      BY <2>3, <3>1 DEF ExtractionInv, RecountSound
    <3>3. recount'.delivered[m] = Cardinality(DeliveredIn(m, mem)) + Cardinality(at(m))
      BY <1>13, <2>3, <3>1, <3>2
    <3>4. DeliveredIn(m, mem)' = DeliveredIn(m, mem) \cup at(m)
      <4>1. \A r \in Rows : accepted[r] > 0 => (r[1] <= next <=> (r[1] <= mem \/ r \in rows))
        <5> SUFFICES ASSUME NEW r \in Rows, accepted[r] > 0
                     PROVE  r[1] <= next <=> (r[1] <= mem \/ r \in rows)
          OBVIOUS
        <5>1. r \in db
          BY DEF ExtractionInv, AcceptedCommitted
        <5> QED
          BY <1>6, <1>7, <5>1
      <4>2. \A r \in rows : r \in Rows /\ accepted[r] > 0
        BY <1>6, <1>7
      <4> QED
        BY <1>3, <4>1, <4>2 DEF DeliveredIn
    <3>5. DeliveredIn(m, mem) \cap at(m) = {}
      <4>1. \A r \in rows : ~(r[1] <= mem)
        BY <1>6, <1>7
      <4> QED
        BY <4>1 DEF DeliveredIn
    <3>6. IsFiniteSet(DeliveredIn(m, mem)) /\ IsFiniteSet(at(m))
      <4>1. DeliveredIn(m, mem) \in SUBSET Rows /\ at(m) \in SUBSET Rows
        BY <1>7 DEF DeliveredIn
      <4> QED
        BY <4>1, RowsFinite
    <3> HIDE DEF at
    <3>7. Cardinality(DeliveredIn(m, mem) \cup at(m)) = Cardinality(DeliveredIn(m, mem)) + Cardinality(at(m))
      <4>1. Cardinality(DeliveredIn(m, mem) \cup at(m)) = Cardinality(DeliveredIn(m, mem)) + Cardinality(at(m)) - Cardinality(DeliveredIn(m, mem) \cap at(m))
        BY <3>6, FS_Union
      <4>2. Cardinality(DeliveredIn(m, mem) \cap at(m)) = 0
        BY <3>5, FS_EmptySet
      <4>3. Cardinality(DeliveredIn(m, mem)) \in Nat /\ Cardinality(at(m)) \in Nat
        BY <3>6, FS_CardinalityType
      <4> QED
        BY <4>1, <4>2, <4>3
    <3> QED
      BY <3>3, <3>4, <3>7
  <2>4. ASSUME NEW m \in Minutes, recount'.late[m] > 0 PROVE m * Minute <= next
    <3>1. recount.late[m] > 0
      <4>1. recount'.late[m] \in {0, recount.late[m]}
        BY <1>13
      <4> QED
        BY <2>4, <4>1
    <3>2. m * Minute <= mem
      BY <3>1 DEF ExtractionInv, RecountSound
    <3> QED
      BY <1>6, <1>7, <2>2, <3>2
  <2>5. recount.on => waived <= recount.floor * Minute
    BY DEF ExtractionInv, RecountSound
  <2> QED
    BY <1>3, <1>7, <1>13, <2>3, <2>4, <2>5 DEF RecountSound
<1> QED
  BY <1>8, <1>9, <1>10, <1>11, <1>12, <1>14, <1>15, <1>16 DEF ExtractionInv

-----------------------------------------------------------------------------
(* The recount.                                                            *)

\* In a minute that is compared, what the database holds more than was delivered
\* was committed late.
LEMMA ExtraIsLate ==
  ASSUME ExtractionInv, recount.on, mem # NoMark, NEW m \in Minutes,
         m > recount.floor, m > (mem \div Minute) - Window, m <= mem \div Minute
  PROVE  LET extra == Cardinality({r \in db : minuteEnd(r[1]) = m}) - recount.delivered[m]
         IN extra \in Nat /\ extra <= Cardinality(LateIn(m))
<1> DEFINE there == {r \in db : minuteEnd(r[1]) = m}
           out == DeliveredIn(m, mem)
<1>1. /\ mem \in Int /\ m \in Int /\ waived \in Int /\ recount.floor \in Int
      /\ db \subseteq Rows /\ late \subseteq db /\ \A r \in Rows : accepted[r] \in 0 .. 2
  BY TimesAreInts, Numbers DEF ExtractionInv, ExtractionTypeOK, Minutes, RecountType
<1>2. recount.delivered[m] = Cardinality(out)
  BY DEF ExtractionInv, RecountSound
<1>3. ASSUME NEW r \in there
      PROVE  /\ r \in Rows /\ r[1] <= mem
             /\ r \in out \/ r \in LateIn(m)
  <2>1. r \in Rows /\ r[1] \in Int /\ minuteEnd(r[1]) = m /\ r \in db
    BY <1>1, Numbers
  <2>2. r[1] <= mem
    BY <1>1, <2>1, MinuteOfMark
  <2>3. waived < r[1]
    <3>1. (m - 1) * Minute < r[1]
      BY <2>1, MinuteBounds
    <3>2. recount.floor * Minute <= (m - 1) * Minute /\ recount.floor * Minute \in Int /\ (m - 1) * Minute \in Int
      BY <1>1, MinuteOrder
    <3>3. waived <= recount.floor * Minute
      BY DEF ExtractionInv, RecountSound
    <3> QED
      BY <1>1, <2>1, <3>1, <3>2, <3>3
  <2>4. CASE accepted[r] > 0
    BY <2>1, <2>2, <2>4 DEF DeliveredIn
  <2>5. CASE ~(accepted[r] > 0)
    <3>1. Passed(mem)
      BY DEF ExtractionInv, MarksSound
    <3>2. r \in late
      BY <2>1, <2>2, <2>3, <2>5, <3>1 DEF Passed
    <3>3. accepted[r] = 0
      BY <1>1, <2>1, <2>5
    <3> QED
      BY <2>1, <2>2, <3>2, <3>3 DEF LateIn
  <2> QED
    BY <2>1, <2>2, <2>4, <2>5
<1>4. out \subseteq there
  BY DEF DeliveredIn, ExtractionInv, AcceptedCommitted
<1>5. there \ out \subseteq LateIn(m)
  BY <1>3
<1>6. there \in SUBSET Rows /\ out \in SUBSET Rows /\ LateIn(m) \in SUBSET Rows /\ there \cap out = out
  BY <1>1, <1>4 DEF LateIn
<1>7. /\ IsFiniteSet(there) /\ Cardinality(there) \in Nat /\ Cardinality(out) \in Nat
      /\ Cardinality(there \ out) \in Nat /\ Cardinality(LateIn(m)) \in Nat
      /\ Cardinality(there \ out) <= Cardinality(LateIn(m))
  <2>1. there \ out \in SUBSET Rows
    BY <1>6
  <2> HIDE DEF there, out
  <2> QED
    BY <1>5, <1>6, <2>1, RowsFinite
<1>8. Cardinality(there \ out) = Cardinality(there) - Cardinality(out)
  <2> HIDE DEF there, out
  <2> QED
    BY <1>6, <1>7, FS_Difference
<1> HIDE DEF there, out
<1>9. Cardinality(there) - recount.delivered[m] = Cardinality(there \ out)
  BY <1>2, <1>8
<1> QED
  BY <1>7, <1>9 DEF there

LEMMA MoreIs == \A a, b \in Int : More(a, b) \in {a, b} /\ a <= More(a, b) /\ b <= More(a, b)
BY DEF More

\* recountState.compare, minute by minute.
LEMMA ComparedShape ==
  ASSUME NEW log \in RecountType, NEW mark \in Int, db \subseteq Rows
  PROVE  LET new == Compared(log, mark)
             hi == mark \div Minute
             extra(m) == Cardinality({r \in db : minuteEnd(r[1]) = m}) - log.delivered[m]
         IN /\ new \in RecountType /\ new.on = log.on /\ new.floor = log.floor
            /\ \A m \in Minutes : m > log.floor /\ m > hi - Window => new.delivered[m] = log.delivered[m]
            /\ \A m \in Minutes :
                 \/ new.late[m] \in {0, log.late[m]} /\ new.duplicate[m] \in {0, log.duplicate[m]}
                 \/ /\ m > log.floor /\ m > hi - Window /\ m <= hi
                    /\ new.late[m] = More(log.late[m], extra(m))
                    /\ new.duplicate[m] = More(log.duplicate[m], -extra(m))
<1> DEFINE new == Compared(log, mark)
           hi == mark \div Minute
           lo == More(hi - Window, log.floor)
           extra(m) == Cardinality({r \in db : minuteEnd(r[1]) = m}) - log.delivered[m]
           kept(counts) == [m \in Minutes |-> IF m <= lo THEN 0 ELSE counts[m]]
           inside(m) == lo < m /\ m <= hi
           newLate == [m \in Minutes |-> IF inside(m) THEN More(log.late[m], extra(m)) ELSE log.late[m]]
           newDup == [m \in Minutes |-> IF inside(m) THEN More(log.duplicate[m], -extra(m)) ELSE log.duplicate[m]]
<1>1. /\ log.delivered \in [Minutes -> Nat] /\ log.late \in [Minutes -> Nat] /\ log.duplicate \in [Minutes -> Nat]
      /\ log.floor \in Int
  BY DEF RecountType
<1>2. hi \in Int /\ lo \in Int /\ lo >= hi - Window /\ lo >= log.floor /\ (lo = hi - Window \/ lo = log.floor)
  <2>1. hi \in Int /\ hi - Window \in Int
    BY MinuteBounds, Numbers
  <2> HIDE DEF hi
  <2> QED
    BY <1>1, <2>1, MoreIs
<1>3. \A m \in Minutes : m \in Int
  BY Numbers DEF Minutes
<1>4. \A m \in Minutes : extra(m) \in Int /\ -extra(m) \in Int
  <2>1. \A m \in Minutes : Cardinality({r \in db : minuteEnd(r[1]) = m}) \in Nat
    BY RowsFinite
  <2> QED
    BY <1>1, <2>1
<1>5. CASE hi <= lo
  <2>1. new = log
    BY <1>5 DEF Compared
  <2> HIDE DEF hi, extra, new
  <2> QED
    BY <2>1 DEF new, hi, extra
<1>6. CASE ~(hi <= lo)
  <2>1. new = [log EXCEPT !.delivered = kept(log.delivered), !.late = kept(newLate), !.duplicate = kept(newDup)]
    BY <1>6 DEF Compared
  <2>2. \A c \in [Minutes -> Nat] : kept(c) \in [Minutes -> Nat]
    OBVIOUS
  <2>3. \A a \in Nat, b \in Int : More(a, b) \in Nat
    BY DEF More
  <2>4. newLate \in [Minutes -> Nat] /\ newDup \in [Minutes -> Nat]
    <3> HIDE DEF extra, inside
    <3> QED
      BY <1>1, <1>4, <2>3
  <2> HIDE DEF new, kept, newLate, newDup
  <2>5. kept(log.delivered) \in [Minutes -> Nat] /\ kept(newLate) \in [Minutes -> Nat] /\ kept(newDup) \in [Minutes -> Nat]
    BY <1>1, <2>2, <2>4
  <2>6. new \in RecountType
    BY <2>1, <2>5 DEF RecountType
  <2>7. /\ new.on = log.on /\ new.floor = log.floor /\ new.delivered = kept(log.delivered)
        /\ new.late = kept(newLate) /\ new.duplicate = kept(newDup)
    BY <2>1 DEF RecountType
  <2>8. ASSUME NEW m \in Minutes
        PROVE  /\ new.delivered[m] = IF m <= lo THEN 0 ELSE log.delivered[m]
               /\ m <= lo \/ ~inside(m) => new.late[m] \in {0, log.late[m]} /\ new.duplicate[m] \in {0, log.duplicate[m]}
               /\ ~(m <= lo) /\ inside(m) => /\ new.late[m] = More(log.late[m], extra(m))
                                             /\ new.duplicate[m] = More(log.duplicate[m], -extra(m))
    <3> HIDE DEF lo, inside, extra
    <3> QED
      BY <2>7 DEF kept, newLate, newDup
  <2> HIDE DEF lo, hi, extra
  <2>9. ASSUME NEW m \in Minutes PROVE m > log.floor /\ m > hi - Window => new.delivered[m] = log.delivered[m]
    BY <1>1, <1>2, <1>3, <2>8, Numbers
  <2>10. ASSUME NEW m \in Minutes
         PROVE  inside(m) /\ ~(m <= lo) => m > log.floor /\ m > hi - Window /\ m <= hi
    BY <1>1, <1>2, <1>3, Numbers
  <2> QED
    BY <2>6, <2>7, <2>8, <2>9, <2>10 DEF new, hi, extra
<1> QED
  BY <1>5, <1>6

LEMMA RunRecountKeeps == ExtractionInv /\ RunRecount => ExtractionInv'
<1> SUFFICES ASSUME ExtractionInv, RunRecount PROVE ExtractionInv'
  OBVIOUS
<1>1. /\ call.pc = "recount" /\ call' = IdleCall
      /\ recount' = recount \/ (recount.on /\ recount' = Compared(recount, Loaded))
      /\ UNCHANGED <<now, db, late, store, export, scope, up, accepted, history>>
  BY DEF RunRecount
<1>2. mem # NoMark /\ Loaded = mem /\ mem \in Int /\ recount \in RecountType /\ db \subseteq Rows
  BY <1>1, TimesAreInts DEF ExtractionInv, CallSound, Loaded, ExtractionTypeOK
<1> USE DEF store, history
<1>3. CallSound' /\ ScopeSound'
  BY <1>1, IdleCallType DEF ExtractionInv, CallSound, ScopeSound
<1>4. ExportSound'
  BY <1>1, ExportKept
<1>5. CASE recount' = recount
  BY <1>1, <1>3, <1>4, <1>5, IdleCallType, QuietKeeps DEF ExtractionInv, ExtractionTypeOK
<1>6. CASE recount.on /\ recount' = Compared(recount, mem)
  <2> DEFINE hi == mem \div Minute
             extra(m) == Cardinality({r \in db : minuteEnd(r[1]) = m}) - recount.delivered[m]
  <2>1. /\ recount' \in RecountType /\ recount'.on = recount.on /\ recount'.floor = recount.floor
        /\ \A m \in Minutes : m > recount.floor /\ m > hi - Window => recount'.delivered[m] = recount.delivered[m]
        /\ \A m \in Minutes :
             \/ recount'.late[m] \in {0, recount.late[m]} /\ recount'.duplicate[m] \in {0, recount.duplicate[m]}
             \/ /\ m > recount.floor /\ m > hi - Window /\ m <= hi
                /\ recount'.late[m] = More(recount.late[m], extra(m))
                /\ recount'.duplicate[m] = More(recount.duplicate[m], -extra(m))
    BY <1>2, <1>6, ComparedShape
  <2>2. \A m \in Minutes : m > recount.floor /\ m > hi - Window /\ m <= hi =>
          extra(m) \in Nat /\ extra(m) <= Cardinality(LateIn(m))
    BY <1>2, <1>6, ExtraIsLate
  <2>3. ExtractionTypeOK'
    BY <1>1, <2>1, IdleCallType DEF ExtractionInv, ExtractionTypeOK
  <2>4. MarksSound' /\ AcceptedCommitted' /\ WaivedSound' /\ OnceOnly'
    BY <1>1 DEF ExtractionInv, MarksSound, AcceptedCommitted, WaivedSound, Passed, Behind, OnceOnly
  <2> HIDE DEF extra
  <2>5. RecountTruthful'
    <3> SUFFICES ASSUME NEW m \in Minutes
                 PROVE  recount'.duplicate[m] = 0 /\ recount'.late[m] <= Cardinality(LateIn(m))
      BY <1>1 DEF RecountTruthful, LateIn
    <3>1. /\ recount.duplicate[m] = 0 /\ recount.late[m] <= Cardinality(LateIn(m)) /\ recount.late[m] \in Nat
      BY <1>2 DEF ExtractionInv, RecountTruthful, LateIn, RecountType
    <3>2. Cardinality(LateIn(m)) \in Nat
      <4>1. LateIn(m) \in SUBSET Rows
        BY DEF LateIn, ExtractionInv, ExtractionTypeOK
      <4> QED
        BY <4>1, RowsFinite
    <3>3. CASE recount'.late[m] \in {0, recount.late[m]} /\ recount'.duplicate[m] \in {0, recount.duplicate[m]}
      BY <3>1, <3>2, <3>3
    <3>4. CASE /\ m > recount.floor /\ m > hi - Window /\ m <= hi
               /\ recount'.late[m] = More(recount.late[m], extra(m))
               /\ recount'.duplicate[m] = More(recount.duplicate[m], -extra(m))
      <4>1. extra(m) \in Nat /\ extra(m) <= Cardinality(LateIn(m))
        BY <2>2, <3>4
      <4>2. recount'.late[m] \in {recount.late[m], extra(m)}
        BY <3>1, <3>4, <4>1, MoreIs
      <4>3. recount'.duplicate[m] = 0
        BY <3>1, <3>4, <4>1 DEF More
      <4> QED
        BY <3>1, <4>1, <4>2, <4>3
    <3> QED
      BY <2>1, <3>3, <3>4
  <2>6. RecountSound'
    <3>1. recount.on => waived <= recount.floor * Minute
      BY DEF ExtractionInv, RecountSound
    <3>2. ASSUME NEW m \in Minutes, m > recount.floor, m > hi - Window
          PROVE  recount'.delivered[m] = Cardinality(DeliveredIn(m, mem))
      BY <1>6, <2>1, <3>2 DEF ExtractionInv, RecountSound
    <3>3. ASSUME NEW m \in Minutes, recount'.late[m] > 0
          PROVE  m * Minute <= mem
      <4>1. recount'.late[m] \in {0, recount.late[m]} \/ m <= hi
        BY <2>1
      <4>2. CASE recount'.late[m] \in {0, recount.late[m]}
        BY <3>3, <4>2 DEF ExtractionInv, RecountSound
      <4>3. CASE m <= hi
        <5>1. hi \in Int /\ hi * Minute <= mem /\ m \in Int
          BY <1>2, MinuteBounds, Numbers DEF Minutes
        <5>2. m * Minute <= hi * Minute /\ m * Minute \in Int /\ hi * Minute \in Int
          BY <4>3, <5>1, MinuteOrder
        <5> QED
          BY <1>2, <5>1, <5>2
      <4> QED
        BY <4>1, <4>2, <4>3
    <3>4. \A m : DeliveredIn(m, mem)' = DeliveredIn(m, mem)
      BY <1>1 DEF DeliveredIn
    <3> QED
      BY <1>1, <1>2, <2>1, <3>1, <3>2, <3>3, <3>4 DEF RecountSound
  <2> QED
    BY <1>3, <1>4, <2>3, <2>4, <2>5, <2>6 DEF ExtractionInv
<1> QED
  BY <1>1, <1>2, <1>5, <1>6

-----------------------------------------------------------------------------
(* The theorems.                                                           *)

LEMMA ExtractionNext == ExtractionInv /\ [Next]_vars => ExtractionInv'
<1> SUFFICES ASSUME ExtractionInv, [Next]_vars PROVE ExtractionInv'
  OBVIOUS
<1>1. CASE CallStep
  BY <1>1, BeginCallKeeps, ReportFailureKeeps, ChooseBoundsKeeps, StartExportKeeps, EmptyBatchKeeps,
     BatchDoneKeeps, BatchFailedKeeps, RunRecountKeeps DEF CallStep
<1>2. CASE ExportStep
  BY <1>2, SaveWatermarkKeeps, ExportEndsKeeps DEF ExportStep
<1>3. CASE \E r \in Rows : Commit(r)
  BY <1>3, CommitKeeps
<1>4. CASE Tick \/ Restart \/ ForgetCollector \/ InitCollector \/ OrphanFires
  BY <1>4, TickKeeps, RestartKeeps, ForgetCollectorKeeps, InitCollectorKeeps, OrphanFiresKeeps
<1>5. CASE CallDeadline \/ NoBatch \/ BatchBlocked \/ ExportAccepted \/ ExportRejected
  BY <1>5, CallDeadlineKeeps, NoBatchKeeps, BatchBlockedKeeps, ExportAcceptedKeeps, ExportRejectedKeeps
<1>6. CASE UNCHANGED vars
  BY <1>6, ExtractionStutters
<1> QED
  BY <1>1, <1>2, <1>3, <1>4, <1>5, <1>6 DEF Next

\* The invariant of the extraction: one export at a time from the watermark in
\* memory, nothing between the watermarks but what it carries or what was committed
\* late, and counts that agree with what was delivered, in every reachable state and
\* for every set of rows, lag, lookback, batch limit and recount window.
THEOREM ExtractionInvariant == Spec => []ExtractionInv
<1>1. Init => ExtractionInv
  BY ExtractionInit
<1>2. ExtractionInv /\ [Next]_vars => ExtractionInv'
  BY ExtractionNext
<1> QED
  BY <1>1, <1>2, PTL DEF Spec

\* No watermark, in memory or in its file, ever passes a row that was committed
\* within the lag and not delivered (SaveWatermark after an accepted export, an
\* empty batch, a start without a watermark, and any restart between them).
THEOREM WatermarkPassesNoRow == Spec => []NoRowPassed
<1>1. ExtractionInv => NoRowPassed
  BY DEF ExtractionInv, MarksSound, Passed, NoRowPassed
<1> QED
  BY <1>1, ExtractionInvariant, PTL

\* Without a restart and without a lost answer no row is delivered twice: failed
\* saves of the file, blocked exports and abandoned calls read nothing again.
THEOREM RowsDeliveredOnce == Spec => []NoRowTwice
<1>1. ExtractionInv => NoRowTwice
  BY DEF ExtractionInv, OnceOnly, NoRowTwice
<1> QED
  BY <1>1, ExtractionInvariant, PTL

\* The recount reports no duplicate, and as late in a minute at most the rows that
\* were committed past the lag there and never delivered.
THEOREM RecountIsTruthful == Spec => []RecountTruthful
<1>1. ExtractionInv => RecountTruthful
  BY DEF ExtractionInv
<1> QED
  BY <1>1, ExtractionInvariant, PTL

-----------------------------------------------------------------------------
(***************************************************************************)
(* HeldBytesExact and SeriesWithinBudget of BackgroundExports, for any log *)
(* types, applications and budget.                                         *)
(*                                                                         *)
(* The bytes held are a sum over the log types of which a step changes one *)
(* summand.  The bound has to hold of every set of log types: the batch    *)
(* that ends first need not be the one that read past its grant            *)
(* (HeldSound).  The series need that the budget and the gauge say what    *)
(* series there are (BudgetTrue), and that a row between its label and its *)
(* series has a label of this run, or is stale (LabelsSound).              *)
(***************************************************************************)

-----------------------------------------------------------------------------
(* The bytes that are held: HeldBytesExact.                                *)

Labels == Applications \cup {Other, Unset}
BatchType == [at : {"idle", "read", "build"}, bytes : Nat]
SendingType ==
    [at : {"none", "send", "label", "count", "observe", "end", "failed"}, bytes : Nat,
     ok : BOOLEAN, canceled : BOOLEAN, stale : BOOLEAN, row : Labels]

SharedTypeOK ==
    /\ poller \in {"off", "starting", "on", "stopping"}
    /\ own \in {"none", "live", "orphaned"}
    /\ batch \in [LogTypes -> BatchType]
    /\ sending \in [LogTypes -> SendingType]
    /\ held \in Int

\* A log type reads or exports, never both; and an idle call holds nothing.
OneBatch ==
    \A l \in LogTypes : /\ batch[l].at = "idle" => batch[l].bytes = 0
                        /\ batch[l].at # "idle" => sending[l].at = "none"

\* The batches that may be past their grant, and what remains without that.
Past == {l \in LogTypes : batch[l].at = "build" \/ sending[l].at \notin {"none", "failed"}}
Granted == [l \in LogTypes |-> Bytes[l] - (IF l \in Past THEN Overshoot ELSE 0)]

\* What is held, and the bound for every set of log types: the one that ends first
\* need not be the one that read past its grant.
HeldSound ==
    /\ held = Sum(Bytes, LogTypes)
    /\ \A T \in SUBSET LogTypes : Sum(Granted, T) <= MaxHeldBytes

BytesInv == SharedTypeOK /\ OneBatch /\ HeldSound

LEMMA ExportNumbers ==
    /\ IsFiniteSet(LogTypes) /\ MaxBatchBytes \in Nat /\ MinBatchBytes \in Nat
    /\ MaxBatchBytes # 0 /\ MinBatchBytes # 0
    /\ MaxHeldBytes \in Nat /\ Overshoot \in Nat /\ MaxApplications \in Nat /\ DefaultLimit \in Nat
    /\ HistogramSeries \in Nat /\ HistogramSeries # 0 /\ Unset \notin Nat
    /\ Cardinality(LogTypes) \in Nat
BY ExportsAssumptions, FS_CardinalityType

BytesBounds ==
    \A l \in LogTypes : /\ Bytes[l] \in Nat /\ Granted[l] \in Int /\ Granted[l] <= Bytes[l]
                        /\ Bytes[l] <= Granted[l] + Overshoot

LEMMA BytesTypes == SharedTypeOK => BytesBounds
<1> SUFFICES ASSUME SharedTypeOK, NEW l \in LogTypes
             PROVE  Bytes[l] \in Nat /\ Granted[l] \in Int /\ Granted[l] <= Bytes[l]
                    /\ Bytes[l] <= Granted[l] + Overshoot
  BY DEF BytesBounds
<1>1. batch[l].bytes \in Nat /\ sending[l].bytes \in Nat
  BY DEF SharedTypeOK, BatchType, SendingType
<1>2. Bytes[l] \in Nat
  BY <1>1 DEF Bytes
<1>3. Granted[l] = Bytes[l] - (IF l \in Past THEN Overshoot ELSE 0)
  BY DEF Granted
<1> QED
  BY <1>2, <1>3, ExportNumbers

LEMMA BytesInit == ExportsInit => BytesInv
<1> SUFFICES ASSUME ExportsInit PROVE BytesInv
  OBVIOUS
<1>1. SharedTypeOK /\ OneBatch
  <2>1. Unread \in BatchType /\ Unsent \in SendingType /\ Unread.bytes = 0 /\ Unread.at = "idle"
    BY DEF Unread, Unsent, BatchType, SendingType, Labels
  <2> QED
    BY <2>1 DEF ExportsInit, SharedTypeOK, OneBatch
<1>2. \A l \in LogTypes : Bytes[l] = 0 /\ Granted[l] = 0
  BY DEF ExportsInit, Bytes, Granted, Past, Unread, Unsent
<1>3. \A T \in SUBSET LogTypes : Sum(Bytes, T) = 0 /\ Sum(Granted, T) = 0
  <2> SUFFICES ASSUME NEW T \in SUBSET LogTypes PROVE Sum(Bytes, T) = 0 /\ Sum(Granted, T) = 0
    OBVIOUS
  <2>1. IsFiniteSet({}) /\ IsFiniteSet(T) /\ {} \cap T = {} /\ {} \cup T = T
    BY FS_EmptySet, FS_Subset, ExportNumbers
  <2>2. \A x \in T : Bytes[x] = 0 /\ Granted[x] = 0
    BY <1>2
  <2>3. /\ Sum(Bytes, {} \cup T) = Sum(Bytes, {}) + 0 * Cardinality(T)
        /\ Sum(Granted, {} \cup T) = Sum(Granted, {}) + 0 * Cardinality(T)
    BY <2>1, <2>2, SumConstant
  <2>4. Cardinality(T) \in Nat
    BY <2>1, FS_CardinalityType
  <2>5. Sum(Bytes, {}) = 0 /\ Sum(Granted, {}) = 0
    BY SumEmpty
  <2>6. 0 * Cardinality(T) = 0
    BY <2>4
  <2> QED
    BY <2>1, <2>3, <2>5, <2>6
<1> QED
  BY <1>1, <1>3, ExportNumbers DEF BytesInv, HeldSound, ExportsInit

\* One log type's bytes change.
LEMMA BytesStep ==
  ASSUME BytesInv, SharedTypeOK', NEW l \in LogTypes,
         \A k \in LogTypes \ {l} : Bytes'[k] = Bytes[k] /\ Granted'[k] = Granted[k],
         held' = held + Bytes'[l] - Bytes[l],
         Granted'[l] <= Granted[l] \/ Granted'[l] <= 0 \/ held' <= MaxHeldBytes
  PROVE  HeldSound'
<1>1. PICK b : b = Bytes'
  OBVIOUS
<1>2. PICK g : g = Granted'
  OBVIOUS
<1>3. /\ \A k \in LogTypes : Bytes[k] \in Nat /\ Granted[k] \in Int
      /\ IsFiniteSet(LogTypes)
  BY BytesTypes, ExportNumbers DEF BytesInv, BytesBounds
<1>4. \A k \in LogTypes : b[k] \in Nat /\ g[k] \in Int /\ g[k] <= b[k]
  <2>1. BytesBounds'
    BY BytesTypes, PTL
  <2> QED
    BY <1>1, <1>2, <2>1 DEF BytesBounds
<1>5. held' = Sum(b, LogTypes) /\ Sum(b, LogTypes) \in Int
  <2>1. /\ Sum(b, LogTypes) = Sum(Bytes, LogTypes) + b[l] - Bytes[l]
        /\ Sum(b, LogTypes) \in Int
    BY <1>1, <1>3, <1>4, SumUpdate
  <2> QED
    BY <1>1, <2>1 DEF BytesInv, HeldSound
<1>6. ASSUME NEW T \in SUBSET LogTypes PROVE Sum(g, T) <= MaxHeldBytes
  <2>1. IsFiniteSet(T) /\ IsFiniteSet(T \ {l}) /\ T \ {l} \in SUBSET LogTypes
    BY <1>3, FS_Subset
  <2>2. /\ Sum(Granted, T) <= MaxHeldBytes /\ Sum(Granted, T \ {l}) <= MaxHeldBytes
        /\ Sum(Granted, T) \in Int /\ Sum(Granted, T \ {l}) \in Int
    <3>1. Sum(Granted, T) \in Int /\ Sum(Granted, T \ {l}) \in Int
      BY <1>3, <2>1, SumType
    <3> QED
      BY <2>1, <3>1 DEF BytesInv, HeldSound
  <2>3. CASE l \notin T
    <3>1. \A k \in T : g[k] = Granted[k]
      BY <1>2, <2>3
    <3>2. Sum(g, T) = Sum(Granted, T)
      BY <2>1, <3>1, SumSame
    <3> QED
      BY <2>2, <3>2
  <2>4. CASE l \in T /\ (g[l] <= Granted[l] \/ g[l] <= 0)
    <3>1. Sum(g, T \ {l}) = Sum(Granted, T \ {l})
      <4>1. \A k \in T \ {l} : g[k] = Granted[k]
        BY <1>2
      <4> QED
        BY <2>1, <4>1, SumSame
    <3>2. Sum(g, T) = g[l] + Sum(g, T \ {l})
      BY <1>4, <2>1, <2>4, SumRemove
    <3>3. Sum(Granted, T) = Granted[l] + Sum(Granted, T \ {l})
      BY <1>3, <2>1, <2>4, SumRemove
    <3>4. g[l] \in Int /\ Granted[l] \in Int
      BY <1>3, <1>4
    <3> QED
      BY <2>2, <2>4, <3>1, <3>2, <3>3, <3>4, ExportNumbers
  <2>5. CASE held' <= MaxHeldBytes
    <3>1. Sum(g, T) <= Sum(b, T) + 0 * Cardinality(T)
      <4>1. \A k \in LogTypes : g[k] \in Int /\ b[k] \in Int /\ g[k] <= b[k] + 0
        BY <1>4
      <4> QED
        BY <1>3, <4>1, SumWithin
    <3>2. Sum(b, T) <= Sum(b, LogTypes)
      BY <1>3, <1>4, SumPart
    <3>3. Cardinality(T) \in Nat /\ Sum(b, T) \in Int /\ Sum(g, T) \in Int
      BY <1>3, <1>4, <2>1, SumType, FS_CardinalityType
    <3>4. 0 * Cardinality(T) = 0
      BY <3>3
    <3> QED
      BY <1>5, <2>5, <3>1, <3>2, <3>3, <3>4, ExportNumbers
  <2> QED
    BY <1>2, <2>3, <2>4, <2>5
<1> QED
  BY <1>1, <1>2, <1>5, <1>6 DEF HeldSound

\* The bytes of a log type, by what its call and its export are.
LEMMA BytesAre ==
  ASSUME NEW l \in LogTypes
  PROVE  /\ Bytes[l] = batch[l].bytes + (IF sending[l].at \in {"none", "failed"} THEN 0 ELSE sending[l].bytes)
         /\ Granted[l] = Bytes[l] - (IF batch[l].at = "build" \/ sending[l].at \notin {"none", "failed"} THEN Overshoot ELSE 0)
         /\ Bytes'[l] = batch'[l].bytes + (IF sending'[l].at \in {"none", "failed"} THEN 0 ELSE sending'[l].bytes)
         /\ Granted'[l] = Bytes'[l] - (IF batch'[l].at = "build" \/ sending'[l].at \notin {"none", "failed"} THEN Overshoot ELSE 0)
BY DEF Bytes, Granted, Past

\* What the log types hold does not change.
LEMMA BytesSame ==
  ASSUME BytesInv, SharedTypeOK', OneBatch', UNCHANGED held,
         \A k \in LogTypes : Bytes'[k] = Bytes[k] /\ Granted'[k] = Granted[k]
  PROVE  BytesInv'
<1>1. Bytes' = Bytes /\ Granted' = Granted
  <2>1. Bytes' = [k \in LogTypes |-> Bytes'[k]] /\ Bytes = [k \in LogTypes |-> Bytes[k]]
    BY DEF Bytes
  <2>2. Granted' = [k \in LogTypes |-> Granted'[k]] /\ Granted = [k \in LogTypes |-> Granted[k]]
    BY DEF Granted
  <2> QED
    BY <2>1, <2>2
<1>2. HeldSound'
  BY <1>1 DEF BytesInv, HeldSound
<1> QED
  BY <1>2 DEF BytesInv

\* Steps that change neither calls nor exports.
LEMMA BytesQuiet ==
  ASSUME BytesInv, UNCHANGED <<batch, sending, held>>,
         poller' \in {"off", "starting", "on", "stopping"}, own' \in {"none", "live", "orphaned"}
  PROVE  BytesInv'
<1>1. SharedTypeOK' /\ OneBatch'
  BY DEF BytesInv, SharedTypeOK, OneBatch
<1>2. \A k \in LogTypes : Bytes'[k] = Bytes[k] /\ Granted'[k] = Granted[k]
  BY BytesAre
<1> QED
  BY <1>1, <1>2, BytesSame

\* The exports change, and stay what they are: running with the same bytes, or not.
LEMMA BytesSending ==
  ASSUME BytesInv, UNCHANGED <<batch, held>>, own' \in {"none", "live", "orphaned"},
         poller' \in {"off", "starting", "on", "stopping"},
         sending' \in [LogTypes -> SendingType],
         \A k \in LogTypes :
            \/ /\ sending[k].at \notin {"none", "failed"} /\ sending'[k].at \notin {"none", "failed"}
               /\ sending'[k].bytes = sending[k].bytes
            \/ sending[k].at = "failed" /\ sending'[k].at \in {"none", "failed"}
            \/ sending[k].at = "none" /\ sending'[k].at = "none"
  PROVE  BytesInv'
<1>1. SharedTypeOK'
  BY DEF BytesInv, SharedTypeOK
<1>2. OneBatch'
  BY DEF BytesInv, OneBatch
<1>3. \A k \in LogTypes : Bytes'[k] = Bytes[k] /\ Granted'[k] = Granted[k]
  BY BytesAre
<1> QED
  BY <1>1, <1>2, <1>3, BytesSame

\* One call or export changes, and what is held with it.
LEMMA BytesOne ==
  ASSUME BytesInv, SharedTypeOK', OneBatch', NEW l \in LogTypes,
         \A k \in LogTypes \ {l} : batch'[k] = batch[k] /\ sending'[k] = sending[k],
         held' = held + Bytes'[l] - Bytes[l],
         Granted'[l] <= Granted[l] \/ Granted'[l] <= 0 \/ held' <= MaxHeldBytes
  PROVE  BytesInv'
<1>1. \A k \in LogTypes \ {l} : Bytes'[k] = Bytes[k] /\ Granted'[k] = Granted[k]
  BY BytesAre
<1>2. HeldSound'
  BY <1>1, BytesStep
<1> QED
  BY <1>2 DEF BytesInv

\* reserve gives at most what is free.
LEMMA GrantFits ==
  ASSUME held \in Int, Grant > 0
  PROVE  Grant \in Nat /\ held + Grant <= MaxHeldBytes
<1> DEFINE free == MaxHeldBytes - held
           m == Min({MaxBatchBytes, free})
<1>1. MaxBatchBytes \in Int /\ free \in Int
  BY ExportNumbers
<1> HIDE DEF free
<1>2. m \in {MaxBatchBytes, free} /\ m <= MaxBatchBytes /\ m <= free
  <2>1. \E x \in {MaxBatchBytes, free} : \A y \in {MaxBatchBytes, free} : x <= y
    BY <1>1
  <2> QED
    BY <2>1 DEF Min
<1>3. Grant = IF m < Min({MaxBatchBytes, MinBatchBytes}) THEN 0 ELSE m
  BY DEF Grant, free
<1>4. Grant = m
  BY <1>3
<1> HIDE DEF m
<1>5. m \in Int /\ m > 0
  BY <1>1, <1>2, <1>4
<1>6. held + m <= MaxHeldBytes
  BY <1>2, <1>5, ExportNumbers DEF free
<1> QED
  BY <1>4, <1>5, <1>6

LEMMA ReserveKeepsBytes == ASSUME BytesInv, NEW l \in LogTypes, Reserve(l) PROVE BytesInv'
<1>1. /\ batch[l] = Unread /\ sending[l].at = "none" /\ Grant > 0 /\ held' = held + Grant
      /\ batch' = [batch EXCEPT ![l] = [at |-> "read", bytes |-> Grant]]
      /\ UNCHANGED <<poller, own, sending>>
  BY DEF Reserve
<1>2. held \in Int /\ batch \in [LogTypes -> BatchType]
  BY DEF BytesInv, SharedTypeOK
<1>3. Grant \in Nat /\ held + Grant <= MaxHeldBytes
  BY <1>1, <1>2, GrantFits
<1>4. PICK n \in Nat : n = Grant
  BY <1>3
<1>5. batch'[l].at = "read" /\ batch'[l].bytes = n /\ \A k \in LogTypes \ {l} : batch'[k] = batch[k]
  BY <1>1, <1>2, <1>4
<1>6. batch' \in [LogTypes -> BatchType]
  BY <1>1, <1>2, <1>3 DEF BatchType
<1>7. SharedTypeOK' /\ OneBatch'
  BY <1>1, <1>2, <1>4, <1>5, <1>6 DEF BytesInv, SharedTypeOK, OneBatch
<1>8. Bytes[l] = 0 /\ Bytes'[l] = n
  BY <1>1, <1>5, BytesAre DEF Unread
<1> QED
  BY <1>1, <1>2, <1>3, <1>4, <1>5, <1>7, <1>8, BytesOne

LEMMA ReadBatchKeepsBytes ==
  ASSUME BytesInv, NEW l \in LogTypes, NEW bytes \in 1 .. (batch[l].bytes + Overshoot), ReadBatch(l, bytes)
  PROVE  BytesInv'
<1>1. /\ batch[l].at = "read" /\ held' = held - (batch[l].bytes - bytes)
      /\ batch' = [batch EXCEPT ![l] = [at |-> "build", bytes |-> bytes]]
      /\ UNCHANGED <<poller, own, sending>>
  BY DEF ReadBatch
<1>2. held \in Int /\ batch \in [LogTypes -> BatchType] /\ batch[l].bytes \in Nat /\ sending[l].at = "none"
  BY <1>1 DEF BytesInv, SharedTypeOK, BatchType, OneBatch
<1>3. bytes \in Nat /\ bytes <= batch[l].bytes + Overshoot
  BY <1>2, ExportNumbers
<1>4. batch'[l].at = "build" /\ batch'[l].bytes = bytes /\ \A k \in LogTypes \ {l} : batch'[k] = batch[k]
  BY <1>1, <1>2
<1>5. batch' \in [LogTypes -> BatchType]
  BY <1>1, <1>2, <1>3 DEF BatchType
<1>6. SharedTypeOK' /\ OneBatch'
  BY <1>1, <1>2, <1>3, <1>4, <1>5 DEF BytesInv, SharedTypeOK, OneBatch
<1>7. Bytes[l] = batch[l].bytes /\ Bytes'[l] = bytes /\ Granted[l] = batch[l].bytes /\ Granted'[l] = bytes - Overshoot
  <2>1. Bytes[l] = batch[l].bytes + 0 /\ Bytes'[l] = bytes + 0
    BY <1>1, <1>2, <1>4, BytesAre
  <2>2. Granted[l] = Bytes[l] - 0 /\ Granted'[l] = Bytes'[l] - Overshoot
    BY <1>1, <1>2, <1>4, BytesAre
  <2> QED
    BY <1>2, <1>3, <2>1, <2>2
<1>8. held' = held + Bytes'[l] - Bytes[l] /\ Granted'[l] <= Granted[l]
  BY <1>1, <1>2, <1>3, <1>7, ExportNumbers
<1> QED
  BY <1>1, <1>4, <1>6, <1>8, BytesOne

LEMMA BatchFailsKeepsBytes == ASSUME BytesInv, NEW l \in LogTypes, BatchFails(l) PROVE BytesInv'
<1>1. /\ batch[l].at \in {"read", "build"} /\ held' = held - batch[l].bytes
      /\ batch' = [batch EXCEPT ![l] = Unread]
      /\ UNCHANGED <<poller, own, sending>>
  BY DEF BatchFails
<1>2. held \in Int /\ batch \in [LogTypes -> BatchType] /\ batch[l].bytes \in Nat /\ sending[l].at = "none"
  BY <1>1 DEF BytesInv, SharedTypeOK, BatchType, OneBatch
<1>3. batch'[l].at = "idle" /\ batch'[l].bytes = 0 /\ \A k \in LogTypes \ {l} : batch'[k] = batch[k]
  BY <1>1, <1>2 DEF Unread
<1>4. batch' \in [LogTypes -> BatchType]
  BY <1>1, <1>2 DEF BatchType, Unread
<1>5. SharedTypeOK' /\ OneBatch'
  BY <1>1, <1>2, <1>3, <1>4 DEF BytesInv, SharedTypeOK, OneBatch
<1>6. Bytes[l] = batch[l].bytes /\ Bytes'[l] = 0 /\ Granted'[l] = 0
  <2>1. Bytes[l] = batch[l].bytes + 0 /\ Bytes'[l] = 0 + 0
    BY <1>1, <1>2, <1>3, BytesAre
  <2>2. Granted'[l] = Bytes'[l] - 0
    BY <1>1, <1>2, <1>3, BytesAre
  <2> QED
    BY <1>2, <2>1, <2>2
<1>7. held' = held + Bytes'[l] - Bytes[l] /\ Granted'[l] <= 0
  BY <1>1, <1>2, <1>6
<1> QED
  BY <1>1, <1>3, <1>5, <1>7, BytesOne

LEMMA BeginExportKeepsBytes ==
  ASSUME BytesInv, NEW l \in LogTypes, NEW row \in Applications, BeginExport(l, row)
  PROVE  BytesInv'
<1>1. /\ batch[l].at = "build" /\ batch' = [batch EXCEPT ![l] = Unread]
      /\ sending' = [sending EXCEPT ![l] = [Unsent EXCEPT !.at = "send", !.bytes = batch[l].bytes, !.row = row]]
      /\ own' = IF own = "none" THEN "live" ELSE own
      /\ UNCHANGED <<poller, held>>
  BY DEF BeginExport
<1>2. /\ batch \in [LogTypes -> BatchType] /\ batch[l].bytes \in Nat /\ sending \in [LogTypes -> SendingType]
      /\ sending[l].at = "none" /\ held \in Int
  BY <1>1 DEF BytesInv, SharedTypeOK, BatchType, OneBatch
<1>3. /\ batch'[l].at = "idle" /\ batch'[l].bytes = 0
      /\ sending'[l].at = "send" /\ sending'[l].bytes = batch[l].bytes
      /\ \A k \in LogTypes \ {l} : batch'[k] = batch[k] /\ sending'[k] = sending[k]
  BY <1>1, <1>2 DEF Unread, Unsent
<1>4. batch' \in [LogTypes -> BatchType]
  BY <1>1, <1>2 DEF BatchType, Unread
<1>5. sending' \in [LogTypes -> SendingType]
  <2>1. [Unsent EXCEPT !.at = "send", !.bytes = batch[l].bytes, !.row = row] \in SendingType
    BY <1>2 DEF Unsent, SendingType, Labels
  <2> QED
    BY <1>1, <1>2, <2>1
<1>6. SharedTypeOK' /\ OneBatch'
  BY <1>1, <1>2, <1>3, <1>4, <1>5 DEF BytesInv, SharedTypeOK, OneBatch
<1>7. Bytes[l] = batch[l].bytes + 0 /\ Bytes'[l] = 0 + batch[l].bytes
  BY <1>1, <1>2, <1>3, BytesAre
<1>8. Granted[l] = Bytes[l] - Overshoot /\ Granted'[l] = Bytes'[l] - Overshoot
  BY <1>1, <1>2, <1>3, BytesAre
<1>9. held' = held + Bytes'[l] - Bytes[l] /\ Granted'[l] <= Granted[l]
  BY <1>1, <1>2, <1>7, <1>8, ExportNumbers
<1> QED
  BY <1>3, <1>6, <1>9, BytesOne

LEMMA EndExportKeepsBytes == ASSUME BytesInv, NEW l \in LogTypes, EndExport(l) PROVE BytesInv'
<1>1. PICK x : x = IF ~sending[l].ok /\ own = "live" THEN [Unsent EXCEPT !.at = "failed", !.ok = FALSE] ELSE Unsent
  OBVIOUS
<1>2. /\ sending[l].at = "end" /\ held' = held - sending[l].bytes
      /\ sending' = [sending EXCEPT ![l] = x]
      /\ UNCHANGED <<poller, own, batch>>
  BY <1>1 DEF EndExport
<1>3. /\ batch \in [LogTypes -> BatchType] /\ batch[l].at = "idle" /\ batch[l].bytes = 0
      /\ sending \in [LogTypes -> SendingType] /\ held \in Int /\ sending[l].bytes \in Nat
  BY <1>2 DEF BytesInv, SharedTypeOK, BatchType, OneBatch, SendingType
<1>4. x \in SendingType /\ x.at \in {"none", "failed"}
  BY <1>1 DEF Unsent, SendingType, Labels
<1>5. sending' \in [LogTypes -> SendingType] /\ sending'[l] = x /\ \A k \in LogTypes \ {l} : sending'[k] = sending[k]
  BY <1>2, <1>3, <1>4
<1>6. SharedTypeOK' /\ OneBatch'
  BY <1>2, <1>3, <1>5 DEF BytesInv, SharedTypeOK, OneBatch
<1>7. Bytes[l] = 0 + sending[l].bytes /\ Bytes'[l] = 0 + 0
  BY <1>2, <1>3, <1>4, <1>5, BytesAre
<1>8. Granted'[l] = Bytes'[l] - 0
  BY <1>2, <1>3, <1>4, <1>5, BytesAre
<1>9. held' = held + Bytes'[l] - Bytes[l] /\ Granted'[l] <= 0
  BY <1>2, <1>3, <1>7, <1>8
<1> QED
  BY <1>2, <1>5, <1>6, <1>9, BytesOne

\* The steps of an export that keep its bytes.
LEMMA ExportMoves ==
  ASSUME BytesInv, NEW l \in LogTypes, Exported(l) \/ Label(l) \/ CountOutcome(l) \/ ObserveValue(l)
  PROVE  /\ sending' \in [LogTypes -> SendingType]
         /\ sending[l].at \notin {"none", "failed"} /\ sending'[l].at \notin {"none", "failed"}
         /\ sending'[l].bytes = sending[l].bytes /\ sending'[l].stale = sending[l].stale
         /\ \A k \in LogTypes \ {l} : sending'[k] = sending[k]
         /\ UNCHANGED <<poller, own, batch, held>>
<1>1. sending \in [LogTypes -> SendingType] /\ sending[l] \in SendingType
  BY DEF BytesInv, SharedTypeOK
<1>2. ASSUME NEW x \in SendingType, sending' = [sending EXCEPT ![l] = x], x.bytes = sending[l].bytes,
             x.at \notin {"none", "failed"}, x.stale = sending[l].stale
      PROVE  /\ sending' \in [LogTypes -> SendingType]
             /\ sending'[l].at \notin {"none", "failed"} /\ sending'[l].bytes = sending[l].bytes
             /\ sending'[l].stale = sending[l].stale
             /\ \A k \in LogTypes \ {l} : sending'[k] = sending[k]
  BY <1>1, <1>2
<1>3. CASE Exported(l)
  <2>1. PICK ok \in BOOLEAN :
          sending' = [sending EXCEPT ![l] = [@ EXCEPT !.at = IF ok /\ own = "live" THEN "label" ELSE "end", !.ok = ok]]
    BY <1>3 DEF Exported
  <2>2. PICK at : at = IF ok /\ own = "live" THEN "label" ELSE "end"
    OBVIOUS
  <2>3. at \in {"label", "end"} /\ sending' = [sending EXCEPT ![l] = [sending[l] EXCEPT !.at = at, !.ok = ok]]
    BY <1>1, <2>1, <2>2
  <2>4. PICK x : x = [sending[l] EXCEPT !.at = at, !.ok = ok]
    OBVIOUS
  <2>5. x.bytes = sending[l].bytes /\ x.at = at /\ x.stale = sending[l].stale
    BY <1>1, <2>4 DEF SendingType
  <2>6. x \in SendingType
    BY <1>1, <2>3, <2>4 DEF SendingType
  <2>7. sending[l].at = "send" /\ UNCHANGED <<poller, own, batch, held>>
    BY <1>3 DEF Exported
  <2> QED
    BY <1>2, <2>3, <2>4, <2>5, <2>6, <2>7
<1>4. CASE Label(l)
  <2>1. PICK v : v = Value(sending[l].row)
    OBVIOUS
  <2>2. /\ sending[l].at = "label" /\ UNCHANGED <<poller, own, batch, held>>
        /\ sending' = [sending EXCEPT ![l] = [sending[l] EXCEPT !.at = "count", !.row = v]]
    BY <1>1, <1>4, <2>1 DEF Label
  <2>3. v \in Labels
    BY <1>1, <2>1 DEF Value, SendingType, Labels
  <2>4. PICK x : x = [sending[l] EXCEPT !.at = "count", !.row = v]
    OBVIOUS
  <2>5. x.bytes = sending[l].bytes /\ x.at = "count" /\ x.stale = sending[l].stale
    BY <1>1, <2>4 DEF SendingType
  <2>6. x \in SendingType
    BY <1>1, <2>3, <2>4 DEF SendingType
  <2> QED
    BY <1>2, <2>2, <2>4, <2>5, <2>6
<1>5. CASE CountOutcome(l) \/ ObserveValue(l)
  <2>1. PICK at \in {"observe", "end"} : sending' = [sending EXCEPT ![l] = [sending[l] EXCEPT !.at = at]]
    BY <1>1, <1>5 DEF CountOutcome, ObserveValue
  <2>2. PICK x : x = [sending[l] EXCEPT !.at = at]
    OBVIOUS
  <2>3. x.bytes = sending[l].bytes /\ x.at = at /\ x.stale = sending[l].stale
    BY <1>1, <2>2 DEF SendingType
  <2>4. x \in SendingType
    BY <1>1, <2>2 DEF SendingType
  <2>5. sending[l].at \in {"count", "observe"} /\ UNCHANGED <<poller, own, batch, held>>
    BY <1>5 DEF CountOutcome, ObserveValue
  <2> QED
    BY <1>2, <2>1, <2>2, <2>3, <2>4, <2>5
<1> QED
  BY <1>3, <1>4, <1>5

\* The steps of the collector and of the reports that change exports.
LEMMA CollectorMoves ==
  ASSUME BytesInv, ForgetDerived \/ OrphanExpires \/ \E l \in LogTypes : AwaitExport(l)
  PROVE  /\ UNCHANGED <<batch, held>> /\ sending' \in [LogTypes -> SendingType]
         /\ own' \in {"none", "live", "orphaned"} /\ poller' \in {"off", "starting", "on", "stopping"}
         /\ \A k \in LogTypes :
              \/ /\ sending'[k].at = sending[k].at /\ sending'[k].bytes = sending[k].bytes
                 /\ sending'[k].row = sending[k].row
              \/ sending[k].at = "failed" /\ sending'[k].at = "none"
<1>1. sending \in [LogTypes -> SendingType] /\ \A k \in LogTypes : sending[k] \in SendingType
  BY DEF BytesInv, SharedTypeOK
<1>2. Unsent \in SendingType /\ Unsent.at = "none"
  BY DEF Unsent, SendingType, Labels
<1>3. /\ UNCHANGED <<batch, held>>
      /\ own' \in {"none", "live", "orphaned"} /\ poller' \in {"off", "starting", "on", "stopping"}
  BY DEF ForgetDerived, OrphanExpires, AwaitExport, BytesInv, SharedTypeOK
<1>4. ASSUME NEW k \in LogTypes, NEW b \in BOOLEAN
      PROVE  /\ [sending[k] EXCEPT !.stale = b] \in SendingType
             /\ [sending[k] EXCEPT !.stale = b].at = sending[k].at
             /\ [sending[k] EXCEPT !.stale = b].bytes = sending[k].bytes
             /\ [sending[k] EXCEPT !.stale = b].row = sending[k].row
             /\ [sending[k] EXCEPT !.canceled = b] \in SendingType
             /\ [sending[k] EXCEPT !.canceled = b].at = sending[k].at
             /\ [sending[k] EXCEPT !.canceled = b].bytes = sending[k].bytes
             /\ [sending[k] EXCEPT !.canceled = b].row = sending[k].row
  <2>1. sending[k] \in SendingType
    BY <1>1
  <2> QED
    BY <2>1 DEF SendingType
<1>5. CASE ForgetDerived
  <2>1. sending' = [k \in LogTypes |-> [sending[k] EXCEPT !.stale = (sending[k].at \in {"count", "observe"})]]
    BY <1>5 DEF ForgetDerived
  <2>2. ASSUME NEW k \in LogTypes
        PROVE  /\ sending'[k] \in SendingType /\ sending'[k].at = sending[k].at
               /\ sending'[k].bytes = sending[k].bytes /\ sending'[k].row = sending[k].row
    <3>1. PICK b : b = (sending[k].at \in {"count", "observe"})
      OBVIOUS
    <3>2. sending'[k] = [sending[k] EXCEPT !.stale = b] /\ b \in BOOLEAN /\ sending[k] \in SendingType
      BY <1>1, <2>1, <3>1
    <3> QED
      BY <3>2 DEF SendingType
  <2>3. sending' \in [LogTypes -> SendingType]
    BY <2>1, <2>2
  <2> QED
    BY <1>3, <2>2, <2>3
<1>6. CASE OrphanExpires
  <2>1. sending' = [k \in LogTypes |-> IF sending[k].at = "failed" THEN Unsent
                                       ELSE [sending[k] EXCEPT !.canceled = (sending[k].at = "send")]]
    BY <1>6 DEF OrphanExpires
  <2> QED
    BY <1>2, <1>3, <1>4, <2>1
<1>7. CASE \E l \in LogTypes : AwaitExport(l)
  <2>1. PICK l \in LogTypes : sending[l].at = "failed" /\ sending' = [sending EXCEPT ![l] = Unsent]
    BY <1>7 DEF AwaitExport
  <2>2. sending' \in [LogTypes -> SendingType]
    BY <1>1, <1>2, <2>1
  <2>3. \A k \in LogTypes : sending'[k] = IF k = l THEN Unsent ELSE sending[k]
    BY <1>1, <2>1
  <2> QED
    BY <1>2, <1>3, <2>1, <2>2, <2>3
<1> QED
  BY <1>5, <1>6, <1>7

LEMMA BytesNext == BytesInv /\ [ExportsNext]_exports => BytesInv'
<1> SUFFICES ASSUME BytesInv, [ExportsNext]_exports PROVE BytesInv'
  OBVIOUS
<1>1. CASE Adopt \/ Orphan \/ \E n \in Limits : InitDerived(n)
  BY <1>1, BytesQuiet DEF Adopt, Orphan, InitDerived, BytesInv, SharedTypeOK
<1>2. CASE ForgetDerived \/ OrphanExpires \/ \E l \in LogTypes : AwaitExport(l)
  <2>1. /\ UNCHANGED <<batch, held>> /\ sending' \in [LogTypes -> SendingType]
        /\ own' \in {"none", "live", "orphaned"} /\ poller' \in {"off", "starting", "on", "stopping"}
        /\ \A k \in LogTypes :
              \/ sending'[k].at = sending[k].at /\ sending'[k].bytes = sending[k].bytes
              \/ sending[k].at = "failed" /\ sending'[k].at = "none"
    BY <1>2, CollectorMoves
  <2> QED
    BY <2>1, BytesSending
<1>3. ASSUME NEW l \in LogTypes, Exported(l) \/ Label(l) \/ CountOutcome(l) \/ ObserveValue(l)
      PROVE  BytesInv'
  <2>1. /\ sending' \in [LogTypes -> SendingType] /\ UNCHANGED <<poller, own, batch, held>>
        /\ sending[l].at \notin {"none", "failed"} /\ sending'[l].at \notin {"none", "failed"}
        /\ sending'[l].bytes = sending[l].bytes
        /\ \A k \in LogTypes \ {l} : sending'[k] = sending[k]
    BY <1>3, ExportMoves
  <2>2. \A k \in LogTypes : sending[k].at \in {"none", "failed"} \/ sending[k].at \notin {"none", "failed"}
    OBVIOUS
  <2> QED
    BY <2>1, BytesSending DEF BytesInv, SharedTypeOK
<1>4. CASE \E l \in LogTypes : Reserve(l)
  BY <1>4, ReserveKeepsBytes
<1>5. CASE \E l \in LogTypes : BatchFails(l)
  BY <1>5, BatchFailsKeepsBytes
<1>6. CASE \E l \in LogTypes : \E bytes \in 1..(batch[l].bytes + Overshoot) : ReadBatch(l, bytes)
  BY <1>6, ReadBatchKeepsBytes
<1>7. CASE \E l \in LogTypes : \E row \in Applications : BeginExport(l, row)
  BY <1>7, BeginExportKeepsBytes
<1>8. CASE \E l \in LogTypes : EndExport(l)
  BY <1>8, EndExportKeepsBytes
<1>9. CASE UNCHANGED exports
  BY <1>9, BytesQuiet DEF exports, BytesInv, SharedTypeOK
<1> QED
  BY <1>1, <1>2, <1>3, <1>4, <1>5, <1>6, <1>7, <1>8, <1>9 DEF ExportsNext

\* What the log types of a collector hold: exactly the bytes of their batches, and
\* no set of them more than was granted, but for what was read past a grant.
THEOREM BytesInvariant == ExportsSpec => []BytesInv
<1>1. ExportsInit => BytesInv
  BY BytesInit
<1>2. BytesInv /\ [ExportsNext]_exports => BytesInv'
  BY BytesNext
<1> QED
  BY <1>1, <1>2, PTL DEF ExportsSpec

\* The bytes that count as held are those of the batches being read or exported,
\* whatever failed, was canceled or outlived its collector, and exceed
\* max_held_bytes by at most one overshoot per log type (reserve, adjust, release).
THEOREM HeldBytesAreExact == ExportsSpec => []HeldBytesExact
<1>1. BytesInv => HeldBytesExact
  <2> SUFFICES ASSUME BytesInv PROVE HeldBytesExact
    OBVIOUS
  <2>1. held = Sum(Bytes, LogTypes) /\ Sum(Granted, LogTypes) <= MaxHeldBytes
    BY DEF BytesInv, HeldSound
  <2>2. \A k \in LogTypes : Bytes[k] \in Int /\ Granted[k] \in Int /\ Bytes[k] <= Granted[k] + Overshoot
    BY BytesTypes DEF BytesInv, BytesBounds
  <2>3. LogTypes \in SUBSET LogTypes /\ Overshoot \in Int
    BY ExportNumbers
  <2>4. Sum(Bytes, LogTypes) <= Sum(Granted, LogTypes) + Overshoot * Cardinality(LogTypes)
    BY <2>2, <2>3, ExportNumbers, SumWithin
  <2>5. Sum(Bytes, LogTypes) \in Int /\ Sum(Granted, LogTypes) \in Int
    BY <2>2, <2>3, ExportNumbers, SumType
  <2>6. PICK over \in Int : over = Overshoot * Cardinality(LogTypes) /\ over = Cardinality(LogTypes) * Overshoot
    BY ExportNumbers
  <2>7. held <= MaxHeldBytes + Cardinality(LogTypes) * Overshoot
    BY <2>1, <2>4, <2>5, <2>6, ExportNumbers
  <2> QED
    BY <2>1, <2>7 DEF HeldBytesExact, Sum
<1> QED
  BY <1>1, BytesInvariant, PTL

-----------------------------------------------------------------------------
(* The derived series: SeriesWithinBudget.                                 *)

Key == {"operations", "duration"} \X Labels \X {"success", "error"}
CostOf(V) == [k \in V |-> IF k[1] = "duration" THEN HistogramSeries ELSE 1]
Shown == seen \cup {Other}

DerivedTypeOK ==
    /\ budget \in [limit : Limits \cup {Unset}, keys : SUBSET Key, series : Nat]
    /\ vectors \subseteq Key /\ IsFiniteSet(vectors)
    /\ IsFiniteSet(seen)
    /\ stray \in BOOLEAN

\* The budget and the gauge say what series there are.
BudgetTrue ==
    /\ budget.keys = vectors /\ budget.series = Sum(CostOf(vectors), vectors)
    /\ gauge # Unset => gauge = budget.series
    /\ vectors # {} => gauge # Unset
    /\ \A k \in vectors : k[2] # Garbled

\* The label values, and the rows that have one: an export that is between its
\* label and its series is of this run, or stale.
LabelsSound ==
    /\ Cardinality(seen) <= MaxApplications /\ Other \notin seen
    /\ \A l \in LogTypes : sending[l].at \in {"count", "observe"} /\ ~sending[l].stale => sending[l].row \in Shown

\* Unless an export wrote between two runs of the collector.
Bounded ==
    /\ ~stray => budget.series <= Limit /\ \A k \in vectors : k[2] \in Shown
    /\ poller \in {"off", "starting"} => budget.limit = Unset /\ (~stray => vectors = {})

SeriesInv == DerivedTypeOK /\ BudgetTrue /\ LabelsSound /\ Bounded

LEMMA CostTypes ==
  ASSUME NEW V \in SUBSET Key, IsFiniteSet(V)
  PROVE  /\ \A k \in V : CostOf(V)[k] \in Nat
         /\ Sum(CostOf(V), V) \in Nat
<1>1. \A k \in V : CostOf(V)[k] \in Nat
  BY ExportNumbers DEF CostOf
<1>2. PICK c : c = CostOf(V)
  OBVIOUS
<1>3. {} \in SUBSET V /\ V \in SUBSET V /\ \A k \in V : c[k] \in Int
  BY <1>1, <1>2
<1>4. Sum(c, {}) <= Sum(c, V) /\ Sum(c, {}) = 0
  BY <1>1, <1>2, <1>3, SumPart, SumEmpty
<1>5. Sum(c, V) \in Int
  BY <1>3, SumType
<1> QED
  BY <1>1, <1>2, <1>4, <1>5

LEMMA LimitType == DerivedTypeOK => Limit \in Nat
BY ExportsAssumptions DEF DerivedTypeOK, Limit

LEMMA SeriesInit == ExportsInit => SeriesInv
<1> SUFFICES ASSUME ExportsInit PROVE SeriesInv
  OBVIOUS
<1>1. /\ budget = NoBudget /\ vectors = {} /\ gauge = Unset /\ seen = {} /\ stray = FALSE
      /\ \A l \in LogTypes : sending[l].at = "none"
  BY DEF ExportsInit, Unsent
<1>2. NoBudget \in [limit : Limits \cup {Unset}, keys : SUBSET Key, series : Nat]
      /\ NoBudget.keys = {} /\ NoBudget.series = 0 /\ NoBudget.limit = Unset
  BY DEF NoBudget
<1>3. DerivedTypeOK
  BY <1>1, <1>2, FS_EmptySet DEF DerivedTypeOK
<1>4. BudgetTrue
  BY <1>1, <1>2, SumEmpty DEF BudgetTrue
<1>5. LabelsSound
  BY <1>1, FS_EmptySet, ExportNumbers DEF LabelsSound
<1>6. Bounded
  BY <1>1, <1>2, <1>3, LimitType DEF Bounded
<1> QED
  BY <1>3, <1>4, <1>5, <1>6 DEF SeriesInv

\* Steps that leave the derived metrics alone.
LEMMA SeriesQuiet ==
  ASSUME SeriesInv, UNCHANGED <<budget, vectors, gauge, seen, stray>>,
         \A l \in LogTypes : sending'[l].at \in {"count", "observe"} /\ ~sending'[l].stale =>
            sending[l].at \in {"count", "observe"} /\ ~sending[l].stale /\ sending'[l].row = sending[l].row,
         poller' \in {"off", "starting"} => poller \in {"off", "starting"}
  PROVE  SeriesInv'
<1>1. DerivedTypeOK' /\ BudgetTrue'
  BY DEF SeriesInv, DerivedTypeOK, BudgetTrue
<1>2. LabelsSound'
  BY DEF SeriesInv, LabelsSound, Shown
<1>3. Bounded'
  BY DEF SeriesInv, Bounded, Limit, Shown
<1> QED
  BY <1>1, <1>2, <1>3 DEF SeriesInv

\* admitLocked and releaseLocked: a set of series of one metric and row.
LEMMA WriteKeeps ==
  ASSUME SeriesInv, NEW l \in LogTypes, NEW cost \in Nat, NEW sets \in SUBSET Key,
         IsFiniteSet(sets), sets # {}, Write(l, cost, sets),
         \A k \in sets : k[2] = sending[l].row /\ cost = IF k[1] = "duration" THEN HistogramSeries ELSE 1,
         sending[l].at \in {"count", "observe"}, sending[l].stale \in BOOLEAN,
         UNCHANGED <<poller, seen>>
  PROVE  DerivedTypeOK' /\ BudgetTrue' /\ Bounded'
<1>1. PICK fresh : fresh = sets \ vectors
  OBVIOUS
<1>2. PICK rejected : rejected = IF sending[l].row = Garbled THEN sets ELSE {}
  OBVIOUS
<1>3. PICK keys : keys = (vectors \cup fresh) \ rejected
  OBVIOUS
<1>4. PICK series : series = budget.series + cost * (Cardinality(keys) - Cardinality(vectors))
  OBVIOUS
<1>5. /\ budget.keys = vectors /\ vectors \in SUBSET Key /\ IsFiniteSet(vectors) /\ budget.series \in Nat
      /\ budget.series = Sum(CostOf(vectors), vectors) /\ stray \in BOOLEAN
      /\ budget \in [limit : Limits \cup {Unset}, keys : SUBSET Key, series : Nat]
      /\ \A k \in vectors : k[2] # Garbled
  BY DEF SeriesInv, DerivedTypeOK, BudgetTrue
<1>6. \/ /\ fresh # {} /\ budget.series + cost * Cardinality(fresh) > Limit
         /\ UNCHANGED <<budget, vectors, gauge, stray>>
      \/ /\ fresh = {} \/ ~(budget.series + cost * Cardinality(fresh) > Limit)
         /\ budget' = [budget EXCEPT !.keys = keys, !.series = series]
         /\ vectors' = vectors \cup (sets \ rejected)
         /\ gauge' = IF fresh # {} THEN series ELSE gauge
         /\ stray' = (stray \/ sending[l].stale \/ poller # "on")
  BY <1>1, <1>2, <1>3, <1>4, <1>5 DEF Write, Held
<1>7. CASE UNCHANGED <<budget, vectors, gauge, stray>>
  BY <1>7 DEF SeriesInv, DerivedTypeOK, BudgetTrue, Bounded, Limit, Shown
<1>8. CASE /\ fresh = {} \/ ~(budget.series + cost * Cardinality(fresh) > Limit)
           /\ budget' = [budget EXCEPT !.keys = keys, !.series = series]
           /\ vectors' = vectors \cup (sets \ rejected)
           /\ gauge' = IF fresh # {} THEN series ELSE gauge
           /\ stray' = (stray \/ sending[l].stale \/ poller # "on")
  <2>1. IsFiniteSet(fresh) /\ Cardinality(fresh) \in Nat /\ Cardinality(vectors) \in Nat
    <3>1. fresh \subseteq sets
      BY <1>1
    <3> QED
      BY <1>5, <3>1, FS_Subset, FS_CardinalityType
  <2>2. keys = vectors \cup (sets \ rejected)
    <3>1. CASE sending[l].row = Garbled
      <4>1. rejected = sets /\ \A k \in sets : k \notin vectors
        BY <1>2, <1>5, <3>1
      <4> QED
        BY <1>1, <1>3, <4>1
    <3>2. CASE sending[l].row # Garbled
      <4>1. rejected = {}
        BY <1>2, <3>2
      <4> QED
        BY <1>1, <1>3, <4>1
    <3> QED
      BY <3>1, <3>2
  <2>3. keys = vectors \/ keys = vectors \cup fresh
    BY <1>1, <1>2, <2>2
  <2>4. keys \in SUBSET Key /\ IsFiniteSet(keys) /\ vectors \subseteq keys
    <3>1. vectors \cup fresh \in SUBSET Key /\ IsFiniteSet(vectors \cup fresh)
      BY <1>1, <1>5, <2>1, FS_Union
    <3> QED
      BY <1>5, <2>3, <3>1
  <2>5. /\ series \in Nat /\ series = Sum(CostOf(keys), keys)
        /\ series = budget.series \/ series = budget.series + cost * Cardinality(fresh)
    <3>1. CASE keys = vectors
      <4>1. Cardinality(keys) - Cardinality(vectors) = 0 /\ cost * 0 = 0
        BY <2>1, <3>1
      <4>2. series = budget.series
        BY <1>4, <1>5, <4>1
      <4> QED
        BY <1>5, <3>1, <4>2
    <3>2. CASE keys = vectors \cup fresh
      <4>1. vectors \cap fresh = {}
        BY <1>1
      <4>2. Cardinality(keys) = Cardinality(vectors) + Cardinality(fresh)
        <5>1. Cardinality(vectors \cup fresh) = Cardinality(vectors) + Cardinality(fresh) - Cardinality(vectors \cap fresh)
          BY <1>5, <2>1, FS_Union
        <5>2. Cardinality(vectors \cap fresh) = 0
          BY <4>1, FS_EmptySet
        <5> QED
          BY <2>1, <3>2, <5>1, <5>2
      <4>3. Cardinality(keys) - Cardinality(vectors) = Cardinality(fresh)
        BY <2>1, <4>2
      <4>4. series = budget.series + cost * Cardinality(fresh)
        BY <1>4, <4>3
      <4>5. PICK c : c = CostOf(keys)
        OBVIOUS
      <4>6. /\ \A k \in vectors : c[k] \in Int /\ c[k] = CostOf(vectors)[k]
            /\ \A k \in fresh : c[k] = cost
        BY <1>1, <2>4, <3>2, <4>5, ExportNumbers DEF CostOf
      <4>7. Sum(c, vectors \cup fresh) = Sum(c, vectors) + cost * Cardinality(fresh)
        BY <1>5, <2>1, <4>1, <4>6, SumConstant
      <4>8. Sum(c, vectors) = Sum(CostOf(vectors), vectors)
        BY <1>5, <4>6, SumSame
      <4>9. series = Sum(CostOf(keys), keys)
        BY <1>5, <3>2, <4>4, <4>5, <4>7, <4>8
      <4>10. Sum(CostOf(keys), keys) \in Nat
        BY <2>4, CostTypes
      <4> QED
        BY <4>4, <4>9, <4>10
    <3> QED
      BY <2>3, <3>1, <3>2
  <2>6. /\ budget' \in [limit : Limits \cup {Unset}, keys : SUBSET Key, series : Nat]
        /\ budget'.keys = keys /\ budget'.series = series /\ budget'.limit = budget.limit
    BY <1>5, <1>8, <2>4, <2>5
  <2>7. /\ stray' \in BOOLEAN
        /\ ~stray' => ~stray /\ ~sending[l].stale /\ poller = "on"
    BY <1>5, <1>8
  <2>8. DerivedTypeOK'
    BY <1>8, <2>2, <2>4, <2>6, <2>7 DEF SeriesInv, DerivedTypeOK
  <2>9. gauge' = series
    <3>1. CASE fresh # {}
      BY <1>8, <3>1
    <3>2. CASE fresh = {}
      <4>1. vectors # {} /\ gauge' = gauge
        BY <1>1, <1>8, <3>2
      <4>2. gauge = budget.series
        BY <4>1 DEF SeriesInv, BudgetTrue
      <4>3. Cardinality(fresh) = 0 /\ cost * 0 = 0
        BY <3>2, FS_EmptySet
      <4>4. series = budget.series
        BY <1>5, <2>5, <4>3
      <4> QED
        BY <4>1, <4>2, <4>4
    <3> QED
      BY <3>1, <3>2
  <2>10. \A k \in keys : k[2] # Garbled
    <3>1. \A k \in sets \ rejected : k[2] # Garbled
      BY <1>2
    <3> QED
      BY <1>5, <2>2, <3>1
  <2>11. BudgetTrue'
    BY <1>8, <2>2, <2>5, <2>6, <2>9, <2>10, ExportNumbers DEF BudgetTrue
  <2>12. ASSUME ~stray'
         PROVE  series <= Limit /\ \A k \in keys : k[2] \in Shown
    <3>1. ~stray /\ ~sending[l].stale
      BY <2>7, <2>12
    <3>2. budget.series <= Limit /\ \A k \in vectors : k[2] \in Shown
      BY <3>1 DEF SeriesInv, Bounded
    <3>3. sending[l].row \in Shown
      BY <3>1 DEF SeriesInv, LabelsSound
    <3>4. \A k \in keys : k[2] \in Shown
      BY <2>2, <3>2, <3>3
    <3>5. Limit \in Nat
      BY LimitType DEF SeriesInv
    <3>6. PICK more \in Nat : more = cost * Cardinality(fresh)
      BY <2>1
    <3>7. fresh = {} => more = 0
      <4>1. fresh = {} => Cardinality(fresh) = 0
        BY FS_EmptySet
      <4>2. cost * 0 = 0
        OBVIOUS
      <4> QED
        BY <3>6, <4>1, <4>2
    <3>8. series <= Limit
      BY <1>5, <1>8, <2>5, <3>2, <3>5, <3>6, <3>7
    <3> QED
      BY <3>4, <3>8
  <2>13. Bounded'
    <3>1. Limit' = Limit /\ Shown' = Shown
      BY <2>6 DEF Limit, Shown
    <3>2. poller \in {"off", "starting"} => stray' /\ budget.limit = Unset
      BY <2>7 DEF SeriesInv, Bounded
    <3> QED
      BY <1>8, <2>2, <2>6, <2>12, <3>1, <3>2 DEF Bounded
  <2> QED
    BY <2>8, <2>11, <2>13
<1> QED
  BY <1>6, <1>7, <1>8

\* Every step but those below moves no export between its label and its series.
LEMMA SeriesOthers ==
  ASSUME BytesInv, SeriesInv,
         \/ Adopt \/ Orphan \/ OrphanExpires
         \/ \E l \in LogTypes :
               \/ AwaitExport(l) \/ Reserve(l) \/ BatchFails(l)
               \/ \E bytes \in 1..(batch[l].bytes + Overshoot) : ReadBatch(l, bytes)
               \/ \E row \in Applications : BeginExport(l, row)
               \/ Exported(l) \/ EndExport(l)
         \/ UNCHANGED exports
  PROVE  SeriesInv'
<1>1. sending \in [LogTypes -> SendingType] /\ \A k \in LogTypes : sending[k] \in SendingType
  BY DEF BytesInv, SharedTypeOK
<1>2. UNCHANGED <<budget, vectors, gauge, seen, stray>>
  BY DEF Adopt, Orphan, OrphanExpires, AwaitExport, Reserve, BatchFails, ReadBatch, BeginExport, Exported,
         EndExport, exports, derived
<1>3. poller' \in {"off", "starting"} => poller \in {"off", "starting"}
  BY DEF Adopt, Orphan, OrphanExpires, AwaitExport, Reserve, BatchFails, ReadBatch, BeginExport, Exported,
         EndExport, exports, derived
<1>4. Unsent.at = "none"
  BY DEF Unsent
<1> DEFINE Stays(l) == sending'[l].at \in {"count", "observe"} /\ ~sending'[l].stale =>
            sending[l].at \in {"count", "observe"} /\ ~sending[l].stale /\ sending'[l].row = sending[l].row
<1>5. ASSUME NEW l \in LogTypes, NEW x, sending' = [sending EXCEPT ![l] = x], x.at \notin {"count", "observe"}
      PROVE  \A k \in LogTypes : Stays(k)
  BY <1>1, <1>5
<1>6. CASE UNCHANGED sending
  <2>1. \A k \in LogTypes : Stays(k)
    BY <1>6
  <2> QED
    BY <1>2, <1>3, <2>1, SeriesQuiet
<1>7. CASE OrphanExpires
  <2>1. sending' = [k \in LogTypes |-> IF sending[k].at = "failed" THEN Unsent
                                       ELSE [sending[k] EXCEPT !.canceled = (sending[k].at = "send")]]
    BY <1>7 DEF OrphanExpires
  <2>2. ASSUME NEW k \in LogTypes PROVE Stays(k)
    <3>1. PICK b : b = (sending[k].at = "send")
      OBVIOUS
    <3>2. sending'[k] = IF sending[k].at = "failed" THEN Unsent ELSE [sending[k] EXCEPT !.canceled = b]
      BY <2>1, <3>1
    <3>3. sending[k] \in SendingType
      BY <1>1
    <3>4. /\ [sending[k] EXCEPT !.canceled = b].at = sending[k].at
          /\ [sending[k] EXCEPT !.canceled = b].stale = sending[k].stale
          /\ [sending[k] EXCEPT !.canceled = b].row = sending[k].row
      BY <3>3 DEF SendingType
    <3> QED
      BY <1>4, <3>2, <3>4
  <2> QED
    BY <1>2, <1>3, <2>2, SeriesQuiet
<1>8. ASSUME NEW l \in LogTypes,
             \/ AwaitExport(l) \/ EndExport(l)
             \/ \E row \in Applications : BeginExport(l, row)
             \/ Exported(l)
      PROVE  \E x : sending' = [sending EXCEPT ![l] = x] /\ x.at \notin {"count", "observe"}
  <2>1. CASE AwaitExport(l)
    BY <1>4, <2>1 DEF AwaitExport
  <2>2. CASE EndExport(l)
    <3>1. PICK x : x = IF ~sending[l].ok /\ own = "live" THEN [Unsent EXCEPT !.at = "failed", !.ok = FALSE] ELSE Unsent
      OBVIOUS
    <3>2. x.at \in {"none", "failed"} /\ sending' = [sending EXCEPT ![l] = x]
      BY <2>2, <3>1 DEF EndExport, Unsent
    <3> QED
      BY <3>2
  <2>3. CASE \E row \in Applications : BeginExport(l, row)
    <3>1. PICK row \in Applications : BeginExport(l, row)
      BY <2>3
    <3>2. PICK x : x = [Unsent EXCEPT !.at = "send", !.bytes = batch[l].bytes, !.row = row]
      OBVIOUS
    <3>3. x.at = "send" /\ sending' = [sending EXCEPT ![l] = x]
      BY <3>1, <3>2 DEF BeginExport, Unsent
    <3> QED
      BY <3>3
  <2>4. CASE Exported(l)
    <3>1. PICK ok \in BOOLEAN :
            sending' = [sending EXCEPT ![l] = [@ EXCEPT !.at = IF ok /\ own = "live" THEN "label" ELSE "end", !.ok = ok]]
      BY <2>4 DEF Exported
    <3>2. PICK at : at = IF ok /\ own = "live" THEN "label" ELSE "end"
      OBVIOUS
    <3>3. PICK x : x = [sending[l] EXCEPT !.at = at, !.ok = ok]
      OBVIOUS
    <3>4. sending' = [sending EXCEPT ![l] = x]
      BY <1>1, <3>1, <3>2, <3>3
    <3>5. x.at = at /\ at \in {"label", "end"}
      BY <1>1, <3>2, <3>3 DEF SendingType
    <3> QED
      BY <3>4, <3>5
  <2> QED
    BY <1>8, <2>1, <2>2, <2>3, <2>4
<1>9. CASE \E l \in LogTypes : \/ AwaitExport(l) \/ EndExport(l)
                               \/ \E row \in Applications : BeginExport(l, row)
                               \/ Exported(l)
  <2>1. PICK l \in LogTypes : \E x : sending' = [sending EXCEPT ![l] = x] /\ x.at \notin {"count", "observe"}
    BY <1>8, <1>9
  <2>2. \A k \in LogTypes : Stays(k)
    BY <1>5, <2>1
  <2> QED
    BY <1>2, <1>3, <2>2, SeriesQuiet
<1>10. CASE \/ Adopt \/ Orphan \/ UNCHANGED exports
            \/ \E l \in LogTypes : \/ Reserve(l) \/ BatchFails(l)
                                   \/ \E bytes \in 1..(batch[l].bytes + Overshoot) : ReadBatch(l, bytes)
  <2>1. UNCHANGED sending
    BY <1>10 DEF Adopt, Orphan, Reserve, BatchFails, ReadBatch, exports
  <2> QED
    BY <1>6, <2>1
<1> QED
  BY <1>7, <1>9, <1>10

\* derived.init: what a stray export left behind is announced, not forgotten.
LEMMA InitDerivedKeeps == ASSUME SeriesInv, NEW n \in Limits, InitDerived(n) PROVE SeriesInv'
<1>1. /\ poller = "starting" /\ poller' = "on" /\ budget' = [budget EXCEPT !.limit = n]
      /\ gauge' = budget.series /\ UNCHANGED <<sending, vectors, seen, stray>>
  BY DEF InitDerived
<1>2. budget \in [limit : Limits \cup {Unset}, keys : SUBSET Key, series : Nat]
  BY DEF SeriesInv, DerivedTypeOK
<1>3. /\ budget' \in [limit : Limits \cup {Unset}, keys : SUBSET Key, series : Nat]
      /\ budget'.limit = n /\ budget'.keys = budget.keys /\ budget'.series = budget.series
  BY <1>1, <1>2
<1>4. DerivedTypeOK'
  BY <1>1, <1>3 DEF SeriesInv, DerivedTypeOK
<1>5. BudgetTrue'
  BY <1>1, <1>2, <1>3, ExportNumbers DEF SeriesInv, BudgetTrue
<1>6. LabelsSound'
  BY <1>1 DEF SeriesInv, LabelsSound, Shown
<1>7. Limit' \in Nat
  BY <1>4, ExportsAssumptions DEF DerivedTypeOK, Limit
<1>8. ~stray => vectors = {}
  BY <1>1 DEF SeriesInv, Bounded
<1>9. ~stray => budget.series = 0
  BY <1>8, SumEmpty DEF SeriesInv, BudgetTrue
<1>10. Bounded'
  BY <1>1, <1>3, <1>7, <1>8, <1>9 DEF Bounded
<1> QED
  BY <1>4, <1>5, <1>6, <1>10 DEF SeriesInv

\* derived.forget: an export between its label and its series is of an earlier run.
LEMMA ForgetDerivedKeeps == ASSUME BytesInv, SeriesInv, ForgetDerived PROVE SeriesInv'
<1>1. /\ poller' = "off" /\ budget' = NoBudget /\ vectors' = {} /\ gauge' = Unset /\ seen' = {} /\ stray' = FALSE
      /\ sending' = [l \in LogTypes |-> [sending[l] EXCEPT !.stale = (sending[l].at \in {"count", "observe"})]]
  BY DEF ForgetDerived
<1>2. ASSUME NEW l \in LogTypes PROVE sending'[l].at \in {"count", "observe"} => sending'[l].stale
  <2>1. PICK b : b = (sending[l].at \in {"count", "observe"})
    OBVIOUS
  <2>2. sending'[l] = [sending[l] EXCEPT !.stale = b] /\ sending[l] \in SendingType
    BY <1>1, <2>1 DEF BytesInv, SharedTypeOK
  <2>3. sending'[l].at = sending[l].at /\ sending'[l].stale = b
    BY <2>2 DEF SendingType
  <2> QED
    BY <2>1, <2>3
<1>3. NoBudget \in [limit : Limits \cup {Unset}, keys : SUBSET Key, series : Nat]
      /\ NoBudget.keys = {} /\ NoBudget.series = 0 /\ NoBudget.limit = Unset
  BY DEF NoBudget
<1>4. DerivedTypeOK'
  BY <1>1, <1>3, FS_EmptySet DEF DerivedTypeOK
<1>5. BudgetTrue'
  BY <1>1, <1>3, SumEmpty DEF BudgetTrue
<1>6. LabelsSound'
  BY <1>1, <1>2, FS_EmptySet, ExportNumbers DEF LabelsSound
<1>7. Limit' \in Nat
  BY <1>4, ExportsAssumptions DEF DerivedTypeOK, Limit
<1>8. Bounded'
  BY <1>1, <1>3, <1>7 DEF Bounded
<1> QED
  BY <1>4, <1>5, <1>6, <1>8 DEF SeriesInv

\* labelCaps.value: a value past the cap is counted as another's.
LEMMA LabelKeeps == ASSUME BytesInv, SeriesInv, NEW l \in LogTypes, Label(l) PROVE SeriesInv'
<1>1. PICK v : v = Value(sending[l].row)
  OBVIOUS
<1>2. sending[l] \in SendingType /\ sending \in [LogTypes -> SendingType]
  BY DEF BytesInv, SharedTypeOK
<1>3. /\ seen' = seen \cup ({v} \ {Other})
      /\ sending' = [sending EXCEPT ![l] = [sending[l] EXCEPT !.at = "count", !.row = v]]
      /\ UNCHANGED <<poller, budget, vectors, gauge, stray>>
  BY <1>1, <1>2 DEF Label
<1>4. /\ sending'[l].row = v /\ \A k \in LogTypes \ {l} : sending'[k] = sending[k]
  <2>1. PICK x : x = [sending[l] EXCEPT !.at = "count", !.row = v]
    OBVIOUS
  <2>2. x.row = v
    BY <1>2, <2>1 DEF SendingType
  <2> QED
    BY <1>2, <1>3, <2>1, <2>2
<1>5. IsFiniteSet(seen) /\ Cardinality(seen) <= MaxApplications /\ Other \notin seen
  BY DEF SeriesInv, DerivedTypeOK, LabelsSound
<1>6. v = Other \/ v \in seen \/ Cardinality(seen) < MaxApplications
  BY <1>1 DEF Value
<1>7. IsFiniteSet(seen') /\ Cardinality(seen') <= MaxApplications
  <2>1. CASE v = Other \/ v \in seen
    <3>1. seen' = seen
      BY <1>3, <1>5, <2>1
    <3> QED
      BY <1>5, <3>1
  <2>2. CASE v # Other /\ v \notin seen
    <3>1. seen' = seen \cup {v}
      BY <1>3, <2>2
    <3>2. IsFiniteSet(seen \cup {v}) /\ Cardinality(seen \cup {v}) = Cardinality(seen) + 1
      BY <1>5, <2>2, FS_AddElement
    <3>3. Cardinality(seen) \in Nat
      BY <1>5, FS_CardinalityType
    <3> QED
      BY <1>6, <2>2, <3>1, <3>2, <3>3, ExportNumbers
  <2> QED
    BY <2>1, <2>2
<1>8. v \in Shown' /\ Shown \subseteq Shown'
  BY <1>3 DEF Shown
<1>9. DerivedTypeOK' /\ BudgetTrue'
  BY <1>3, <1>7 DEF SeriesInv, DerivedTypeOK, BudgetTrue
<1>10. LabelsSound'
  <2>1. Other \notin seen'
    BY <1>3, <1>5
  <2>2. \A k \in LogTypes : sending'[k].at \in {"count", "observe"} /\ ~sending'[k].stale => sending'[k].row \in Shown'
    BY <1>4, <1>8 DEF SeriesInv, LabelsSound
  <2> QED
    BY <1>7, <2>1, <2>2 DEF LabelsSound
<1>11. Bounded'
  BY <1>3, <1>8 DEF SeriesInv, Bounded, Limit
<1> QED
  BY <1>9, <1>10, <1>11 DEF SeriesInv

\* countOutcome and observeValue: both outcomes of an operation, or one histogram.
LEMMA CountKeeps ==
  ASSUME BytesInv, SeriesInv, NEW l \in LogTypes, CountOutcome(l) \/ ObserveValue(l)
  PROVE  SeriesInv'
<1>1. PICK row : row = sending[l].row
  OBVIOUS
<1>2. /\ sending[l] \in SendingType /\ sending \in [LogTypes -> SendingType]
      /\ row \in Labels /\ sending[l].stale \in BOOLEAN
  BY <1>1 DEF BytesInv, SharedTypeOK, SendingType
<1>3. /\ sending[l].at \in {"count", "observe"} /\ UNCHANGED <<poller, seen>>
  BY DEF CountOutcome, ObserveValue
<1>4. DerivedTypeOK' /\ BudgetTrue' /\ Bounded'
  <2>1. CASE CountOutcome(l)
    <3>1. PICK sets : sets = {<<"operations", row, outcome>> : outcome \in {"success", "error"}}
      OBVIOUS
    <3>2. sets = {<<"operations", row, "success">>, <<"operations", row, "error">>}
      BY <3>1
    <3>3. sets \in SUBSET Key /\ sets # {}
      BY <1>2, <3>2 DEF Key
    <3>4. IsFiniteSet(sets)
      <4>1. PICK a : a = <<"operations", row, "success">>
        OBVIOUS
      <4>2. PICK b : b = <<"operations", row, "error">>
        OBVIOUS
      <4>3. sets = {a} \cup {b} /\ IsFiniteSet({a}) /\ IsFiniteSet({b})
        BY <3>2, <4>1, <4>2, FS_Singleton
      <4> QED
        BY <4>3, FS_Union
    <3>5. Write(l, 1, sets)
      BY <1>1, <2>1, <3>1 DEF CountOutcome
    <3>6. \A k \in sets : k[2] = sending[l].row /\ 1 = IF k[1] = "duration" THEN HistogramSeries ELSE 1
      BY <1>1, <3>2
    <3> QED
      BY <1>2, <1>3, <3>3, <3>4, <3>5, <3>6, WriteKeeps
  <2>2. CASE ObserveValue(l)
    <3>1. PICK sets : sets = {<<"duration", row, "success">>}
      OBVIOUS
    <3>2. sets \in SUBSET Key /\ sets # {}
      BY <1>2, <3>1 DEF Key
    <3>3. IsFiniteSet(sets)
      BY <3>1, FS_Singleton
    <3>4. Write(l, HistogramSeries, sets)
      BY <1>1, <2>2, <3>1 DEF ObserveValue
    <3>5. \A k \in sets : k[2] = sending[l].row /\ HistogramSeries = IF k[1] = "duration" THEN HistogramSeries ELSE 1
      BY <1>1, <3>1
    <3> QED
      BY <1>2, <1>3, <3>2, <3>3, <3>4, <3>5, WriteKeeps, ExportNumbers
  <2> QED
    BY <2>1, <2>2
<1>5. LabelsSound'
  <2>1. PICK at \in {"observe", "end"} : sending' = [sending EXCEPT ![l] = [sending[l] EXCEPT !.at = at]]
    BY <1>2 DEF CountOutcome, ObserveValue
  <2>2. PICK x : x = [sending[l] EXCEPT !.at = at]
    OBVIOUS
  <2>3. x.row = sending[l].row /\ x.stale = sending[l].stale
    BY <1>2, <2>2 DEF SendingType
  <2>4. \A k \in LogTypes : sending'[k] = IF k = l THEN x ELSE sending[k]
    BY <1>2, <2>1, <2>2
  <2>5. Shown' = Shown
    BY <1>3 DEF Shown
  <2>6. \A k \in LogTypes : sending'[k].at \in {"count", "observe"} /\ ~sending'[k].stale => sending'[k].row \in Shown'
    BY <1>3, <2>3, <2>4, <2>5 DEF SeriesInv, LabelsSound
  <2> QED
    BY <1>3, <2>6 DEF SeriesInv, LabelsSound
<1> QED
  BY <1>4, <1>5 DEF SeriesInv

LEMMA SeriesNext == BytesInv /\ SeriesInv /\ [ExportsNext]_exports => SeriesInv'
<1> SUFFICES ASSUME BytesInv, SeriesInv, [ExportsNext]_exports PROVE SeriesInv'
  OBVIOUS
<1>1. CASE \E n \in Limits : InitDerived(n)
  BY <1>1, InitDerivedKeeps
<1>2. CASE ForgetDerived
  BY <1>2, ForgetDerivedKeeps
<1>3. CASE \E l \in LogTypes : Label(l)
  BY <1>3, LabelKeeps
<1>4. CASE \E l \in LogTypes : CountOutcome(l) \/ ObserveValue(l)
  BY <1>4, CountKeeps
<1>5. CASE \/ Adopt \/ Orphan \/ OrphanExpires
           \/ \E l \in LogTypes :
               \/ AwaitExport(l) \/ Reserve(l) \/ BatchFails(l)
               \/ \E bytes \in 1..(batch[l].bytes + Overshoot) : ReadBatch(l, bytes)
               \/ \E row \in Applications : BeginExport(l, row)
               \/ Exported(l) \/ EndExport(l)
           \/ UNCHANGED exports
  BY <1>5, SeriesOthers
<1> QED
  BY <1>1, <1>2, <1>3, <1>4, <1>5 DEF ExportsNext

\* What the budget, the gauge and the label caps know of the derived series.
THEOREM SeriesInvariant == ExportsSpec => []SeriesInv
<1>1. ExportsInit => SeriesInv
  BY SeriesInit
<1>2. BytesInv /\ SeriesInv /\ [ExportsNext]_exports => SeriesInv'
  BY SeriesNext
<1> QED
  BY <1>1, <1>2, BytesInvariant, PTL DEF ExportsSpec

\* The budget holds exactly the derived series there are, at what they cost, and the
\* gauge says so; unless an export wrote between two runs of its collector, they fit
\* max_derived_series and the cap on applications (admitLocked, releaseLocked, value).
THEOREM SeriesStayWithinBudget == ExportsSpec => []SeriesWithinBudget
<1>1. SeriesInv => SeriesWithinBudget
  <2> SUFFICES ASSUME SeriesInv PROVE SeriesWithinBudget
    OBVIOUS
  <2>1. budget.keys = vectors /\ budget.series = Sum(CostOf(vectors), vectors)
    BY DEF SeriesInv, BudgetTrue
  <2>2. CostOf(vectors) = Cost
    BY DEF CostOf, Cost
  <2>3. budget.series = MapThenSumSet(LAMBDA k : Cost[k], vectors)
    BY <2>1, <2>2 DEF Sum
  <2>4. ASSUME ~stray PROVE Cardinality({k[2] : k \in vectors} \ {Other}) <= MaxApplications
    <3>1. PICK named : named = {k[2] : k \in vectors} \ {Other}
      OBVIOUS
    <3>2. named \subseteq seen
      BY <2>4, <3>1 DEF SeriesInv, Bounded, Shown
    <3>3. IsFiniteSet(seen) /\ Cardinality(seen) <= MaxApplications
      BY DEF SeriesInv, DerivedTypeOK, LabelsSound
    <3>4. IsFiniteSet(named) /\ Cardinality(named) <= Cardinality(seen)
      BY <3>2, <3>3, FS_Subset
    <3>5. Cardinality(named) \in Nat /\ Cardinality(seen) \in Nat
      BY <3>3, <3>4, FS_CardinalityType
    <3> QED
      BY <3>1, <3>3, <3>4, <3>5, ExportNumbers
  <2>5. ~stray => budget.series <= Limit
    BY DEF SeriesInv, Bounded
  <2> QED
    BY <2>1, <2>3, <2>4, <2>5 DEF SeriesWithinBudget, SeriesInv, BudgetTrue
<1> QED
  BY <1>1, SeriesInvariant, PTL

-----------------------------------------------------------------------------
(***************************************************************************)
(* HandlesTracked of ConnectionPool, for any callers, targets, credentials *)
(* and entries.                                                            *)
(*                                                                         *)
(* A sweep closes what has no references, so the invariant has to say that *)
(* references are counted right (RefsCounted), and that what somebody took *)
(* out of the pool to close is neither held nor in the pool any more       *)
(* (ClosingIsOut).  A handle that is not in its entry yet is its           *)
(* initialiser's alone (OneInitialiser).                                   *)
(***************************************************************************)

-----------------------------------------------------------------------------
(* The inductive invariant.                                                *)

EntryType ==
    [ready : {"no", "db", "err"}, refs : Nat, idle : BOOLEAN,
     login : Logins \cup {None}, due : BOOLEAN, rechecking : BOOLEAN]

CallerType ==
    [at : {"out", "lock", "create", "made", "wait", "recheck", "hold"},
     key : Keys \cup {None}, id : Ids \cup {None}]

PoolTypeOK ==
    /\ entries \in [Keys -> Ids \cup {None}]
    /\ latest \in [Targets -> Ids \cup {None}]
    /\ closed \in BOOLEAN
    /\ entry \in [Ids -> EntryType]
    /\ handle \in [Ids -> {None, "open", "closed"}]
    /\ caller \in [Callers -> CallerType]
    /\ closing \in [Goroutines -> SUBSET Ids]

Inside(c) == caller[c].at \in {"create", "made", "wait", "recheck", "hold"}
Creating(c) == caller[c].at \in {"create", "made"}
Holds(c) == caller[c].at \in {"recheck", "hold"}
Holders(i) == {c \in Callers : Holds(c) /\ caller[c].id = i}

\* A caller past the lock has an entry and knows its key.
CallersPlaced ==
    \A c \in Callers :
        /\ Inside(c) => caller[c].id \in Ids
        /\ Inside(c) \/ caller[c].at = "lock" => caller[c].key \in Keys

\* refs is the number of callers that hold the entry's handle, and only a
\* finished entry is held.
RefsCounted ==
    /\ \A i \in Ids : entry[i].refs = Cardinality(Holders(i))
    /\ \A c \in Callers : Holds(c) => entry[caller[c].id].ready = "db"

\* An entry without a result has one initialiser at most, and until Close stays
\* in the pool; a handle its initialiser made is open.
OneInitialiser ==
    \A c \in Callers : Creating(c) =>
        /\ entry[caller[c].id].ready = "no"
        /\ \A d \in Callers : Creating(d) /\ caller[d].id = caller[c].id => d = c
        /\ ~closed => entries[caller[c].key] = caller[c].id
        /\ caller[c].at = "made" => handle[caller[c].id] = "open"

\* A goroutine closes what it took out before it goes on.
ClosesFirst ==
    /\ \A c \in Callers : caller[c].at \in {"out", "lock", "made"} => closing[c] = {}
    /\ ~closed => closing[Closer] = {}

\* What is about to be closed is finished, and, until Close, neither in the pool
\* nor held.
ClosingIsOut ==
    \A g \in Goroutines : \A i \in closing[g] :
        /\ entry[i].ready = "db"
        /\ ~closed => i \notin InPool /\ Holders(i) = {}

\* Until Close, what the pool offers is open, and so is what is held.
OfferedIsOpen ==
    ~closed =>
        /\ \A i \in InPool : entry[i].ready = "db" => handle[i] = "open"
        /\ \A c \in Callers : Holds(c) => handle[caller[c].id] = "open"

\* An open handle is its initialiser's, offered by the pool, or about to be closed.
OpenIsReachable ==
    \A i \in Ids : handle[i] = "open" =>
        \/ \E c \in Callers : caller[c].at = "made" /\ caller[c].id = i
        \/ i \in InPool /\ entry[i].ready = "db"
        \/ \E g \in Goroutines : i \in closing[g]

PoolInv ==
    /\ PoolTypeOK /\ CallersPlaced /\ RefsCounted /\ OneInitialiser
    /\ ClosesFirst /\ ClosingIsOut /\ OfferedIsOpen /\ OpenIsReachable

-----------------------------------------------------------------------------
(* References.                                                             *)

\* A caller that takes a reference adds itself to the holders of its entry, one
\* that gives it up removes itself, and the counts follow.
LEMMA HoldersCounted ==
    ASSUME NEW S, NEW c, IsFiniteSet(S)
    PROVE  /\ Cardinality(S) \in Nat
           /\ c \notin S => Cardinality(S \cup {c}) = Cardinality(S) + 1
           /\ c \in S => Cardinality(S) > 0 /\ Cardinality(S \ {c}) = Cardinality(S) - 1
<1>1. Cardinality(S) \in Nat /\ (Cardinality(S) = 0 <=> S = {})
    BY FS_CardinalityType, FS_EmptySet
<1>2. c \notin S => Cardinality(S \cup {c}) = Cardinality(S) + 1
    BY FS_AddElement
<1>3. c \in S => Cardinality(S \ {c}) = Cardinality(S) - 1
    BY FS_RemoveElement
<1> QED
    BY <1>1, <1>2, <1>3

\* Finitely many callers, so finitely many hold an entry.
LEMMA HoldersFinite == \A i : IsFiniteSet(Holders(i))
<1> SUFFICES ASSUME NEW i PROVE IsFiniteSet(Holders(i))
    OBVIOUS
<1>1. Holders(i) \in SUBSET Callers
    BY DEF Holders
<1> QED
    BY <1>1, FS_Subset, PoolAssumptions

-----------------------------------------------------------------------------
(* Steps of a caller that holds nothing.                                   *)

\* A caller that begins, is refused, stops waiting or waits on changes nothing but
\* its own place.
LEMMA MoveKeeps ==
    ASSUME PoolInv, NEW c \in Callers, NEW new \in CallerType,
           caller[c].at \in {"out", "lock", "wait"}, closing[c] = {},
           new.at \in {"out", "lock"}, new.at = "lock" => new.key \in Keys,
           caller' = [caller EXCEPT ![c] = new],
           UNCHANGED <<entries, latest, closed, entry, handle, closing>>
    PROVE  PoolInv'
<1>1. /\ caller' \in [Callers -> CallerType]
      /\ \A d \in Callers : caller'[d] = IF d = c THEN new ELSE caller[d]
    BY DEF PoolInv, PoolTypeOK
<1>2. /\ ~Inside(c) \/ caller[c].at = "wait"
      /\ ~Creating(c) /\ ~Holds(c) /\ caller[c].at # "made"
    BY DEF Inside, Creating, Holds
<1>3. \A d \in Callers : /\ Holds(d)' <=> Holds(d)
                         /\ Creating(d)' <=> Creating(d)
                         /\ Inside(d)' => Inside(d)
                         /\ (Holds(d) \/ Creating(d) \/ Inside(d)') => caller'[d] = caller[d]
    BY <1>1, <1>2 DEF Inside, Creating, Holds
<1>4. \A i : Holders(i)' = Holders(i)
    BY <1>3 DEF Holders
<1>5. PoolTypeOK'
    BY <1>1 DEF PoolInv, PoolTypeOK
<1>6. CallersPlaced'
    BY <1>1, <1>3 DEF PoolInv, CallersPlaced, CallerType
<1>7. RefsCounted'
    BY <1>3, <1>4 DEF PoolInv, RefsCounted
<1>8. OneInitialiser'
    BY <1>3 DEF PoolInv, OneInitialiser
<1>9. ClosesFirst'
    BY <1>1 DEF PoolInv, ClosesFirst
<1>10. ClosingIsOut' /\ OfferedIsOpen'
    BY <1>3, <1>4 DEF PoolInv, ClosingIsOut, OfferedIsOpen, InPool, Goroutines
<1>11. OpenIsReachable'
    BY <1>1, <1>2 DEF PoolInv, OpenIsReachable, InPool, Goroutines
<1> QED
    BY <1>5, <1>6, <1>7, <1>8, <1>9, <1>10, <1>11 DEF PoolInv

\* Callers that come, are refused, or stop waiting move no reference.
LEMMA MovesKeep ==
    ASSUME PoolInv, NEW c \in Callers,
           \/ Refuse(c) \/ WaitOver(c) \/ GiveUp(c)
           \/ \E k \in Keys : Open(c, k)
    PROVE  PoolInv'
<1>0. caller[c] \in CallerType /\ Out \in CallerType
    BY DEF PoolInv, PoolTypeOK, CallerType, Out
<1>1. CASE Refuse(c)
    BY <1>0, <1>1, MoveKeeps DEF Refuse, Out, PoolInv, ClosesFirst
<1>2. CASE WaitOver(c)
    <2> DEFINE new == IF entry[caller[c].id].ready = "err" THEN Out
                      ELSE [caller[c] EXCEPT !.at = "lock", !.id = None]
    <2>1. new \in CallerType /\ new.at \in {"out", "lock"} /\ (new.at = "lock" => new.key \in Keys)
        BY <1>0, <1>2 DEF WaitOver, CallerType, Out, PoolInv, CallersPlaced, Inside
    <2>2. caller' = [caller EXCEPT ![c] = new]
        BY <1>2 DEF WaitOver
    <2> HIDE DEF new
    <2> QED
        BY <1>2, <2>1, <2>2, MoveKeeps DEF WaitOver
<1>3. CASE GiveUp(c)
    BY <1>0, <1>3, MoveKeeps DEF GiveUp, Out
<1>4. CASE \E k \in Keys : Open(c, k)
    <2>1. PICK k \in Keys : Open(c, k)
        BY <1>4
    <2> DEFINE new == [at |-> "lock", key |-> k, id |-> None]
    <2>2. new \in CallerType /\ new.at = "lock" /\ new.key \in Keys
        BY DEF CallerType
    <2>3. caller' = [caller EXCEPT ![c] = new]
        BY <2>1 DEF Open
    <2> HIDE DEF new
    <2> QED
        BY <2>1, <2>2, <2>3, MoveKeeps DEF Open, PoolInv, ClosesFirst
<1> QED
    BY <1>1, <1>2, <1>3, <1>4

-----------------------------------------------------------------------------
(* The critical section of acquire, which begins with a sweep.             *)

\* What a sweep takes out was finished, was in the pool and is held by nobody.
LEMMA SweptIsFree ==
    ASSUME PoolInv, NEW i \in SweepLocked
    PROVE  i \in Ids /\ i \in InPool /\ entry[i].ready = "db" /\ Holders(i) = {}
<1>1. i \in Ids /\ i \in InPool /\ entry[i].ready = "db" /\ entry[i].refs = 0
    BY DEF SweepLocked, InPool, PoolInv, PoolTypeOK
<1>2. Holders(i) = {}
    BY <1>1, HoldersFinite, FS_EmptySet DEF PoolInv, RefsCounted
<1> QED
    BY <1>1, <1>2

\* addLocked: a new entry comes into the pool with one reference, its initialiser's.
LEMMA AddEntryKeeps ==
    ASSUME PoolInv, NEW c \in Callers, AddEntry(c)
    PROVE  PoolInv'
<1> DEFINE key == caller[c].key
           id == CHOOSE i \in Unused : TRUE
           out == SweepLocked
<1>1. /\ id \in Ids /\ id \notin InPool /\ handle[id] # "open"
      /\ \A d \in Callers : caller[d].id # id
      /\ \A g \in Goroutines : id \notin closing[g]
    BY DEF AddEntry, Unused
<1>2. /\ caller[c].at = "lock" /\ ~closed /\ key \in Keys /\ c \in Goroutines
      /\ closing[c] = {} /\ entries[key] \in out \cup {None} /\ None \notin Ids
    BY PoolAssumptions DEF AddEntry, Sweep, PoolInv, CallersPlaced, ClosesFirst, Goroutines
<1>3. /\ entry' = [entry EXCEPT ![id] = PoolEntry]
      /\ entries' = [EntriesWithout(out) EXCEPT ![key] = id]
      /\ caller' = [caller EXCEPT ![c].at = "create", ![c].id = id]
      /\ latest' = LatestWithout(out)
      /\ closing' = [closing EXCEPT ![c] = out]
      /\ closed' = closed /\ handle' = handle
    BY DEF AddEntry, Sweep
<1> HIDE DEF id, key
<1>4. \A i \in out : i \in Ids /\ i \in InPool /\ entry[i].ready = "db" /\ Holders(i) = {}
    BY SweptIsFree
<1> HIDE DEF out
<1>5. PoolEntry \in EntryType /\ PoolEntry.ready = "no" /\ PoolEntry.refs = 0
    BY DEF PoolEntry, EntryType
<1>6. /\ caller' \in [Callers -> CallerType]
      /\ \A d \in Callers : d # c => caller'[d] = caller[d]
      /\ caller'[c].at = "create" /\ caller'[c].id = id /\ caller'[c].key = key
    BY <1>1, <1>2, <1>3 DEF PoolInv, PoolTypeOK, CallerType, key
<1>7. /\ entry' \in [Ids -> EntryType]
      /\ \A i \in Ids : entry'[i] = IF i = id THEN PoolEntry ELSE entry[i]
    BY <1>1, <1>3, <1>5 DEF PoolInv, PoolTypeOK
<1>8. /\ entries' \in [Keys -> Ids \cup {None}]
      /\ \A k \in Keys : entries'[k] = IF k = key THEN id
                                       ELSE IF entries[k] \in out THEN None ELSE entries[k]
    BY <1>1, <1>2, <1>3 DEF PoolInv, PoolTypeOK, EntriesWithout
<1>9. /\ closing' \in [Goroutines -> SUBSET Ids]
      /\ \A g \in Goroutines : closing'[g] = IF g = c THEN out ELSE closing[g]
    BY <1>2, <1>3, <1>4 DEF PoolInv, PoolTypeOK
<1>10. \A i \in Ids : i \in InPool' <=> i = id \/ (i \in InPool /\ i \notin out)
    BY <1>1, <1>2, <1>4, <1>8 DEF InPool
<1>11. \A d \in Callers : /\ Holds(d)' <=> Holds(d)
                          /\ d # c => (Creating(d)' <=> Creating(d)) /\ (Inside(d)' <=> Inside(d))
                          /\ ~Creating(c) /\ ~Holds(c)
    BY <1>2, <1>6 DEF Holds, Creating, Inside
<1>12. \A i \in Ids : Holders(i)' = Holders(i) /\ Holders(id) = {}
    BY <1>1, <1>6, <1>11 DEF Holders
<1>13. PoolTypeOK'
    BY <1>3, <1>6, <1>7, <1>8, <1>9 DEF PoolInv, PoolTypeOK, LatestWithout
<1>14. CallersPlaced'
    BY <1>1, <1>2, <1>6, <1>11 DEF PoolInv, CallersPlaced
<1>15. RefsCounted'
    <2>1. Cardinality(Holders(id)) = 0
        BY <1>1, <1>12, FS_EmptySet
    <2> QED
        BY <1>1, <1>5, <1>6, <1>7, <1>11, <1>12, <2>1 DEF PoolInv, RefsCounted, CallersPlaced, Inside, Holds
<1>16. OneInitialiser'
    BY <1>1, <1>2, <1>3, <1>4, <1>5, <1>6, <1>7, <1>8, <1>11
       DEF PoolInv, OneInitialiser, CallersPlaced, Creating, Inside
<1>17. ClosesFirst'
    BY <1>3, <1>6, <1>9, PoolAssumptions DEF PoolInv, ClosesFirst, Goroutines
<1>18. ClosingIsOut'
    BY <1>1, <1>3, <1>4, <1>7, <1>9, <1>10, <1>12 DEF PoolInv, ClosingIsOut, PoolTypeOK
<1>19. OfferedIsOpen'
    <2>1. \A i \in InPool' : i \in Ids
        BY <1>8 DEF InPool
    <2> QED
        BY <1>3, <1>5, <1>6, <1>7, <1>10, <1>11, <2>1 DEF PoolInv, OfferedIsOpen, Holds
<1>20. OpenIsReachable'
    BY <1>1, <1>2, <1>3, <1>6, <1>7, <1>9, <1>10 DEF PoolInv, OpenIsReachable
<1> QED
    BY <1>13, <1>14, <1>15, <1>16, <1>17, <1>18, <1>19, <1>20 DEF PoolInv

\* The entry a caller takes a reference to.
LEMMA UsedEntry ==
    ASSUME NEW e \in EntryType, NEW due \in BOOLEAN
    PROVE  LET used == [UseLocked(e) EXCEPT !.rechecking = @ \/ due]
           IN used \in EntryType /\ used.ready = e.ready /\ used.refs = e.refs + 1
<1> DEFINE used == [UseLocked(e) EXCEPT !.rechecking = @ \/ due]
<1>1. PICK b \in BOOLEAN : b = (UseLocked(e).rechecking \/ due)
    OBVIOUS
<1>2. used = [UseLocked(e) EXCEPT !.rechecking = b]
    BY <1>1, Zenon
<1> HIDE DEF used
<1>0. UseLocked(e) \in EntryType /\ UseLocked(e).ready = e.ready /\ UseLocked(e).refs = e.refs + 1
    <2>1. e.refs + 1 \in Nat
        BY DEF EntryType
    <2>2. [e EXCEPT !.refs = e.refs + 1] \in EntryType
        BY <2>1 DEF EntryType
    <2>3. UseLocked(e) \in EntryType
        BY <2>2 DEF EntryType, UseLocked
    <2> QED
        BY <2>3 DEF UseLocked, EntryType
<1>3. used \in EntryType /\ used.ready = e.ready /\ used.refs = e.refs + 1
    BY <1>0, <1>2 DEF EntryType
<1> QED
    BY <1>3 DEF used

\* useLocked: an entry found in the pool gets one reference more.
LEMMA UseEntryKeeps ==
    ASSUME PoolInv, NEW c \in Callers, UseEntry(c)
    PROVE  PoolInv'
<1>1. PICK key \in Keys, id \in Ids :
        /\ key = caller[c].key /\ id = entries[key]
        /\ caller[c].at = "lock" /\ ~closed /\ c \in Goroutines
        /\ closing[c] = {} /\ id \notin SweepLocked /\ entry[id].ready = "db"
    BY DEF UseEntry, Sweep, PoolInv, PoolTypeOK, CallersPlaced, ClosesFirst, Goroutines
<1>2. id \in InPool
    BY <1>1, PoolAssumptions DEF InPool
<1>3. PICK out \in SUBSET Ids : out = SweepLocked
    BY SweptIsFree
<1>4. \A i \in out : i \in InPool /\ entry[i].ready = "db" /\ Holders(i) = {}
    BY <1>3, SweptIsFree
<1>5. PICK due \in BOOLEAN, used \in EntryType, place \in {"recheck", "hold"} :
        /\ used.ready = "db" /\ used.refs = entry[id].refs + 1
        /\ entry' = [entry EXCEPT ![id] = used]
        /\ caller' = [caller EXCEPT ![c].at = place, ![c].id = id]
    <2>1. PICK due \in BOOLEAN : due = ClaimRecheckLocked(entry[id])
        BY DEF ClaimRecheckLocked
    <2> DEFINE used == [UseLocked(entry[id]) EXCEPT !.rechecking = @ \/ due]
               place == IF due THEN "recheck" ELSE "hold"
    <2>2. used \in EntryType /\ used.ready = "db" /\ used.refs = entry[id].refs + 1
        BY <1>1, <2>1, UsedEntry DEF PoolInv, PoolTypeOK
    <2>3. entry' = [entry EXCEPT ![id] = used] /\ caller' = [caller EXCEPT ![c].at = place, ![c].id = id]
        BY <1>1, <2>1, Zenon DEF UseEntry
    <2>4. place \in {"recheck", "hold"}
        OBVIOUS
    <2> HIDE DEF used, place
    <2> QED
        BY <2>2, <2>3, <2>4
<1>0. /\ entries' = EntriesWithout(out)
      /\ latest' = [LatestWithout(out) EXCEPT ![TargetOf(key)] = id]
      /\ closing' = [closing EXCEPT ![c] = out]
      /\ closed' = closed /\ handle' = handle
    BY <1>1, <1>3 DEF UseEntry, Sweep
<1>6. /\ caller' \in [Callers -> CallerType]
      /\ \A d \in Callers : d # c => caller'[d] = caller[d]
      /\ caller'[c].at = place /\ caller'[c].id = id /\ caller'[c].key = key
    BY <1>1, <1>2, <1>0, <1>5 DEF PoolInv, PoolTypeOK, CallerType
<1>7. /\ entry' \in [Ids -> EntryType]
      /\ \A i \in Ids : entry'[i] = IF i = id THEN used ELSE entry[i]
    BY <1>2, <1>0, <1>5 DEF PoolInv, PoolTypeOK
<1>8. /\ entries' \in [Keys -> Ids \cup {None}]
      /\ \A k \in Keys : entries'[k] = IF entries[k] \in out THEN None ELSE entries[k]
    BY <1>0 DEF PoolInv, PoolTypeOK, EntriesWithout
<1>9. /\ closing' \in [Goroutines -> SUBSET Ids]
      /\ \A g \in Goroutines : closing'[g] = IF g = c THEN out ELSE closing[g]
    BY <1>1, <1>0, <1>4 DEF PoolInv, PoolTypeOK
<1>10. \A i \in Ids : i \in InPool' <=> (i \in InPool /\ i \notin out)
    BY <1>4, <1>8, PoolAssumptions DEF InPool
<1>11. /\ \A d \in Callers : d # c => /\ Holds(d)' <=> Holds(d)
                                      /\ Creating(d)' <=> Creating(d)
                                      /\ Inside(d)' <=> Inside(d)
       /\ ~Creating(c) /\ ~Holds(c) /\ Holds(c)' /\ ~Creating(c)'
    BY <1>1, <1>5, <1>6 DEF Holds, Creating, Inside
<1>12. /\ \A i \in Ids : i # id => Holders(i)' = Holders(i)
       /\ Holders(id)' = Holders(id) \cup {c} /\ c \notin Holders(id)
    BY <1>6, <1>11 DEF Holders
<1>13. PoolTypeOK'
    <2>1. latest' \in [Targets -> Ids \cup {None}]
        BY <1>1, <1>2, <1>0 DEF PoolInv, PoolTypeOK, LatestWithout, TargetOf, Keys
    <2> QED
        BY <1>0, <1>6, <1>7, <1>8, <1>9, <2>1 DEF PoolInv, PoolTypeOK
<1>14. CallersPlaced'
    BY <1>1, <1>2, <1>6, <1>11 DEF PoolInv, CallersPlaced
<1>15. RefsCounted'
    <2>1. Cardinality(Holders(id)') = Cardinality(Holders(id)) + 1
        BY <1>12, HoldersFinite, HoldersCounted
    <2>2. \A i \in Ids : entry'[i].refs = Cardinality(Holders(i)')
        BY <1>2, <1>5, <1>7, <1>12, <2>1 DEF PoolInv, RefsCounted
    <2>3. \A d \in Callers : Holds(d)' => entry'[caller'[d].id].ready = "db"
        BY <1>2, <1>5, <1>6, <1>7, <1>11 DEF PoolInv, RefsCounted, CallersPlaced, Inside, Holds
    <2> QED
        BY <2>2, <2>3 DEF RefsCounted
<1>16. OneInitialiser'
    BY <1>1, <1>2, <1>0, <1>4, <1>6, <1>7, <1>8, <1>11
       DEF PoolInv, OneInitialiser, CallersPlaced, Creating, Inside
<1>17. ClosesFirst'
    BY <1>0, <1>5, <1>6, <1>9, PoolAssumptions DEF PoolInv, ClosesFirst, Goroutines
<1>18. ClosingIsOut'
    BY <1>0, <1>1, <1>2, <1>3, <1>4, <1>5, <1>7, <1>9, <1>10, <1>12 DEF PoolInv, ClosingIsOut, PoolTypeOK
<1>19. OfferedIsOpen'
    <2>1. \A i \in InPool' : i \in Ids
        BY <1>8 DEF InPool
    <2> QED
        BY <1>1, <1>2, <1>0, <1>6, <1>7, <1>10, <1>11, <2>1 DEF PoolInv, OfferedIsOpen, Holds
<1>20. OpenIsReachable'
    BY <1>1, <1>2, <1>0, <1>5, <1>6, <1>7, <1>9, <1>10 DEF PoolInv, OpenIsReachable
<1> QED
    BY <1>13, <1>14, <1>15, <1>16, <1>17, <1>18, <1>19, <1>20 DEF PoolInv

\* A caller that finds its entry still being initialised waits for it.
LEMMA AwaitEntryKeeps ==
    ASSUME PoolInv, NEW c \in Callers, AwaitEntry(c)
    PROVE  PoolInv'
<1> DEFINE key == caller[c].key
           id == entries[key]
           out == SweepLocked
<1>1. /\ caller[c].at = "lock" /\ ~closed /\ key \in Keys /\ c \in Goroutines
      /\ closing[c] = {} /\ id \in Ids
    BY DEF AwaitEntry, Sweep, PoolInv, PoolTypeOK, CallersPlaced, ClosesFirst, Goroutines
<1>2. /\ entries' = EntriesWithout(out)
      /\ caller' = [caller EXCEPT ![c].at = "wait", ![c].id = id]
      /\ latest' = LatestWithout(out)
      /\ closing' = [closing EXCEPT ![c] = out]
      /\ closed' = closed /\ handle' = handle /\ entry' = entry
    BY DEF AwaitEntry, Sweep
<1>3. \A i \in out : i \in Ids /\ i \in InPool /\ entry[i].ready = "db" /\ Holders(i) = {}
    BY SweptIsFree
<1> HIDE DEF id, key, out
<1>4. /\ caller' \in [Callers -> CallerType]
      /\ \A d \in Callers : d # c => caller'[d] = caller[d]
      /\ caller'[c].at = "wait" /\ caller'[c].id = id /\ caller'[c].key = key
    BY <1>1, <1>2 DEF PoolInv, PoolTypeOK, CallerType, key
<1>5. /\ entries' \in [Keys -> Ids \cup {None}]
      /\ \A k \in Keys : entries'[k] = IF entries[k] \in out THEN None ELSE entries[k]
    BY <1>2 DEF PoolInv, PoolTypeOK, EntriesWithout
<1>6. /\ closing' \in [Goroutines -> SUBSET Ids]
      /\ \A g \in Goroutines : closing'[g] = IF g = c THEN out ELSE closing[g]
    BY <1>1, <1>2, <1>3 DEF PoolInv, PoolTypeOK
<1>7. \A i \in Ids : i \in InPool' <=> (i \in InPool /\ i \notin out)
    BY <1>3, <1>5, PoolAssumptions DEF InPool
<1>8. /\ \A d \in Callers : d # c => Inside(d)' = Inside(d)
      /\ \A d \in Callers : (Holds(d)' <=> Holds(d)) /\ (Creating(d)' <=> Creating(d))
      /\ ~Creating(c) /\ ~Holds(c)
    BY <1>1, <1>4 DEF Holds, Creating, Inside
<1>9. \A i \in Ids : Holders(i)' = Holders(i)
    BY <1>4, <1>8 DEF Holders
<1>10. PoolTypeOK'
    BY <1>2, <1>4, <1>5, <1>6 DEF PoolInv, PoolTypeOK, LatestWithout
<1>11. CallersPlaced'
    BY <1>1, <1>4, <1>8 DEF PoolInv, CallersPlaced
<1>12. RefsCounted'
    BY <1>2, <1>4, <1>8, <1>9 DEF PoolInv, RefsCounted
<1>13. OneInitialiser'
    BY <1>1, <1>2, <1>3, <1>4, <1>5, <1>8 DEF PoolInv, OneInitialiser, CallersPlaced, Creating, Inside
<1>14. ClosesFirst'
    BY <1>2, <1>4, <1>6, PoolAssumptions DEF PoolInv, ClosesFirst, Goroutines
<1>15. ClosingIsOut'
    BY <1>1, <1>2, <1>3, <1>6, <1>7, <1>9 DEF PoolInv, ClosingIsOut, PoolTypeOK
<1>16. OfferedIsOpen'
    <2>1. \A i \in InPool' : i \in Ids
        BY <1>5 DEF InPool
    <2> QED
        BY <1>2, <1>4, <1>7, <1>8, <2>1 DEF PoolInv, OfferedIsOpen
<1>17. OpenIsReachable'
    BY <1>1, <1>2, <1>4, <1>6, <1>7 DEF PoolInv, OpenIsReachable
<1> QED
    BY <1>10, <1>11, <1>12, <1>13, <1>14, <1>15, <1>16, <1>17 DEF PoolInv

-----------------------------------------------------------------------------
(* initialize and recheck.                                                 *)

\* initialize: the handle is opened, before anything else is known of it.
LEMMA ConnectKeeps ==
    ASSUME PoolInv, NEW c \in Callers, Connect(c)
    PROVE  PoolInv'
<1>1. PICK id \in Ids : /\ id = caller[c].id /\ caller[c].at = "create" /\ closing[c] = {}
                        /\ entry[id].ready = "no"
    BY DEF Connect, PoolInv, CallersPlaced, Inside, OneInitialiser, Creating
<1>2. /\ handle' \in [Ids -> {None, "open", "closed"}]
      /\ \A i \in Ids : handle'[i] = IF i = id THEN "open" ELSE handle[i]
    BY <1>1 DEF Connect, PoolInv, PoolTypeOK
<1>3. /\ caller' \in [Callers -> CallerType]
      /\ \A d \in Callers : d # c => caller'[d] = caller[d]
      /\ caller'[c].at = "made" /\ caller'[c].id = id /\ caller'[c].key = caller[c].key
    BY <1>1 DEF Connect, PoolInv, PoolTypeOK, CallerType
<1>4. \A d \in Callers : /\ Holds(d)' <=> Holds(d)
                         /\ Creating(d)' <=> Creating(d)
                         /\ Inside(d)' <=> Inside(d)
                         /\ caller'[d].id = caller[d].id /\ caller'[d].key = caller[d].key
                         /\ ~Holds(c) /\ Creating(c)
    BY <1>1, <1>3 DEF Holds, Creating, Inside
<1>5. \A i : Holders(i)' = Holders(i)
    BY <1>4 DEF Holders
<1>6. UNCHANGED <<entries, latest, closed, entry, closing>>
    BY DEF Connect
<1>7. PoolTypeOK'
    BY <1>2, <1>3, <1>6 DEF PoolInv, PoolTypeOK
<1>8. CallersPlaced'
    BY <1>1, <1>3, <1>4 DEF PoolInv, CallersPlaced, Inside
<1>9. RefsCounted'
    BY <1>4, <1>5, <1>6 DEF PoolInv, RefsCounted
<1>10. OneInitialiser'
    BY <1>1, <1>2, <1>3, <1>4, <1>6 DEF PoolInv, OneInitialiser, CallersPlaced, Creating, Inside
<1>11. ClosesFirst'
    BY <1>1, <1>3, <1>6 DEF PoolInv, ClosesFirst
<1>12. ClosingIsOut'
    BY <1>5, <1>6 DEF PoolInv, ClosingIsOut, InPool, Goroutines
<1>13. OfferedIsOpen'
    BY <1>1, <1>2, <1>4, <1>6
       DEF PoolInv, OfferedIsOpen, InPool, CallersPlaced, PoolTypeOK, Inside, Holds
<1>14. OpenIsReachable'
    BY <1>1, <1>2, <1>3, <1>6 DEF PoolInv, OpenIsReachable, InPool, Goroutines
<1> QED
    BY <1>7, <1>8, <1>9, <1>10, <1>11, <1>12, <1>13, <1>14 DEF PoolInv

\* The initialiser gives up, because it could not connect or because the manager
\* was closed: its entry leaves the pool and its handle is not open any more.
LEMMA FailKeeps ==
    ASSUME PoolInv, NEW c \in Callers, ConnectFails(c) \/ ClosedMeanwhile(c)
    PROVE  PoolInv'
<1>1. PICK id \in Ids : /\ id = caller[c].id /\ Creating(c) /\ closing[c] = {}
                        /\ entry[id].ready = "no"
    BY DEF ConnectFails, ClosedMeanwhile, PoolInv, CallersPlaced, Inside, OneInitialiser, Creating, ClosesFirst
<1>2. /\ entries' = EntriesWithout({id}) /\ latest' = LatestWithout({id})
      /\ entry' = [entry EXCEPT ![id].ready = "err"]
      /\ caller' = [caller EXCEPT ![c] = Out]
      /\ UNCHANGED <<closed, closing>>
    BY <1>1 DEF ConnectFails, ClosedMeanwhile, Fail
<1>3. /\ handle' \in [Ids -> {None, "open", "closed"}]
      /\ \A i \in Ids : i # id => handle'[i] = handle[i]
      /\ handle'[id] # "open"
    BY <1>1 DEF ConnectFails, ClosedMeanwhile, PoolInv, PoolTypeOK
<1>4. /\ caller' \in [Callers -> CallerType]
      /\ \A d \in Callers : caller'[d] = IF d = c THEN Out ELSE caller[d]
    BY <1>2 DEF PoolInv, PoolTypeOK, CallerType, Out
<1>5. /\ entry' \in [Ids -> EntryType]
      /\ \A i \in Ids : i # id => entry'[i] = entry[i]
      /\ entry'[id].refs = entry[id].refs
    <2> DEFINE new == [entry[id] EXCEPT !.ready = "err"]
    <2>1. new \in EntryType /\ new.refs = entry[id].refs
        BY DEF PoolInv, PoolTypeOK, EntryType
    <2>2. entry' = [entry EXCEPT ![id] = new]
        BY <1>2
    <2> HIDE DEF new
    <2> QED
        BY <2>1, <2>2 DEF PoolInv, PoolTypeOK
<1>6. /\ entries' \in [Keys -> Ids \cup {None}]
      /\ \A k \in Keys : entries'[k] = IF entries[k] = id THEN None ELSE entries[k]
    BY <1>1, <1>2 DEF PoolInv, PoolTypeOK, EntriesWithout
<1>7. \A i \in Ids : i \in InPool' <=> (i \in InPool /\ i # id)
    BY <1>6, PoolAssumptions DEF InPool
<1>8. \A d \in Callers : /\ Holds(d)' <=> Holds(d)
                         /\ Creating(d)' => Creating(d) /\ d # c /\ caller[d].id # id
                         /\ Inside(d)' => Inside(d) /\ d # c
                         /\ Holds(d) => d # c /\ caller[d].id # id
    BY <1>1, <1>4 DEF Holds, Creating, Inside, Out, PoolInv, OneInitialiser, RefsCounted
<1>9. \A i : Holders(i)' = Holders(i)
    BY <1>4, <1>8 DEF Holders
<1>10. PoolTypeOK'
    BY <1>2, <1>3, <1>4, <1>5, <1>6 DEF PoolInv, PoolTypeOK, LatestWithout
<1>11. CallersPlaced'
    BY <1>4, <1>8 DEF PoolInv, CallersPlaced, Out
<1>12. RefsCounted'
    BY <1>1, <1>4, <1>5, <1>8, <1>9 DEF PoolInv, RefsCounted, CallersPlaced, Inside, Holds
<1>13. OneInitialiser'
    <2>1. \A d \in Callers : Creating(d)' => /\ caller'[d] = caller[d] /\ Creating(d)
                                            /\ caller[d].id \in Ids \ {id} /\ caller[d].key \in Keys
        BY <1>4, <1>8 DEF PoolInv, CallersPlaced, Creating, Inside
    <2> SUFFICES ASSUME NEW d \in Callers, Creating(d)'
                 PROVE  /\ entry'[caller'[d].id].ready = "no"
                        /\ \A b \in Callers : Creating(b)' /\ caller'[b].id = caller'[d].id => b = d
                        /\ ~closed' => entries'[caller'[d].key] = caller'[d].id
                        /\ caller'[d].at = "made" => handle'[caller'[d].id] = "open"
        BY DEF OneInitialiser
    <2>2. closed' = closed
        BY <1>2
    <2> QED
        BY <1>3, <1>5, <1>6, <2>1, <2>2 DEF PoolInv, OneInitialiser
<1>14. ClosesFirst'
    BY <1>1, <1>2, <1>4 DEF PoolInv, ClosesFirst
<1>15. ClosingIsOut'
    BY <1>1, <1>2, <1>5, <1>7, <1>9 DEF PoolInv, ClosingIsOut, PoolTypeOK
<1>16. OfferedIsOpen'
    <2>1. \A i \in InPool' : i \in Ids
        BY <1>6 DEF InPool
    <2> QED
        BY <1>2, <1>3, <1>4, <1>5, <1>7, <1>8, <2>1 DEF PoolInv, OfferedIsOpen, CallersPlaced, Inside, Holds
<1>17. OpenIsReachable'
    BY <1>1, <1>2, <1>3, <1>4, <1>5, <1>7 DEF PoolInv, OpenIsReachable
<1> QED
    BY <1>10, <1>11, <1>12, <1>13, <1>14, <1>15, <1>16, <1>17 DEF PoolInv

\* The entry as its initialiser leaves it.
LEMMA PublishedEntry ==
    ASSUME NEW e \in EntryType, NEW l \in Logins
    PROVE  LET new == [UseLocked(e) EXCEPT !.ready = "db", !.login = l, !.due = FALSE]
           IN new \in EntryType /\ new.ready = "db" /\ new.refs = e.refs + 1
<1>1. e.refs + 1 \in Nat
    BY DEF EntryType
<1>2. [e EXCEPT !.refs = e.refs + 1] \in EntryType
    BY <1>1 DEF EntryType
<1>3. UseLocked(e) \in EntryType /\ UseLocked(e).refs = e.refs + 1
    BY <1>2 DEF EntryType, UseLocked
<1> QED
    BY <1>3 DEF EntryType

\* initialize: the entry gets its handle, and the initialiser is its first holder.
LEMMA PublishKeeps ==
    ASSUME PoolInv, NEW c \in Callers, NEW l \in Logins, Publish(c, l)
    PROVE  PoolInv'
<1>1. PICK id \in Ids : /\ id = caller[c].id /\ caller[c].at = "made" /\ ~closed
                        /\ entry[id].ready = "no" /\ handle[id] = "open"
                        /\ caller[c].key \in Keys /\ id \in InPool
    BY PoolAssumptions DEF Publish, MayPublish, PoolInv, CallersPlaced, Inside, OneInitialiser, Creating, InPool
<1>2. PICK new \in EntryType : /\ new.ready = "db" /\ new.refs = entry[id].refs + 1
                               /\ entry' = [entry EXCEPT ![id] = new]
    <2> DEFINE new == [UseLocked(entry[id]) EXCEPT !.ready = "db", !.login = l, !.due = FALSE]
    <2>1. new \in EntryType /\ new.ready = "db" /\ new.refs = entry[id].refs + 1
        BY PublishedEntry DEF PoolInv, PoolTypeOK
    <2>2. entry' = [entry EXCEPT ![id] = new]
        BY <1>1 DEF Publish
    <2> HIDE DEF new
    <2> QED
        BY <2>1, <2>2
<1>3. /\ latest' = [latest EXCEPT ![TargetOf(caller[c].key)] = id]
      /\ caller' = [caller EXCEPT ![c].at = "hold"]
      /\ UNCHANGED <<entries, closed, handle, closing>>
    BY <1>1 DEF Publish
<1>4. /\ caller' \in [Callers -> CallerType]
      /\ \A d \in Callers : d # c => caller'[d] = caller[d]
      /\ caller'[c].at = "hold" /\ caller'[c].id = id /\ caller'[c].key = caller[c].key
    BY <1>1, <1>3 DEF PoolInv, PoolTypeOK, CallerType
<1>5. /\ entry' \in [Ids -> EntryType]
      /\ \A i \in Ids : entry'[i] = IF i = id THEN new ELSE entry[i]
    BY <1>1, <1>2 DEF PoolInv, PoolTypeOK
<1>6. /\ \A d \in Callers : d # c => /\ Holds(d)' <=> Holds(d)
                                     /\ Creating(d)' <=> Creating(d)
                                     /\ Inside(d)' <=> Inside(d)
      /\ \A d \in Callers : d # c /\ (Holds(d) \/ Creating(d)) => caller[d].id # id
      /\ ~Holds(c) /\ Holds(c)' /\ ~Creating(c)' /\ Inside(c)
    BY <1>1, <1>4 DEF Holds, Creating, Inside, PoolInv, RefsCounted, OneInitialiser
<1>7. /\ \A i \in Ids : i # id => Holders(i)' = Holders(i)
      /\ Holders(id)' = Holders(id) \cup {c} /\ c \notin Holders(id)
    BY <1>4, <1>6 DEF Holders
<1>8. PoolTypeOK'
    <2>1. latest' \in [Targets -> Ids \cup {None}]
        BY <1>1, <1>3 DEF PoolInv, PoolTypeOK, TargetOf, Keys
    <2> QED
        BY <1>3, <1>4, <1>5, <2>1 DEF PoolInv, PoolTypeOK
<1>9. CallersPlaced'
    BY <1>1, <1>4, <1>6 DEF PoolInv, CallersPlaced
<1>10. RefsCounted'
    <2>1. Cardinality(Holders(id)') = Cardinality(Holders(id)) + 1
        BY <1>7, HoldersFinite, HoldersCounted
    <2>2. \A i \in Ids : entry'[i].refs = Cardinality(Holders(i)')
        BY <1>2, <1>5, <1>7, <2>1 DEF PoolInv, RefsCounted
    <2>3. \A d \in Callers : Holds(d)' => entry'[caller'[d].id].ready = "db"
        BY <1>2, <1>4, <1>5, <1>6 DEF PoolInv, RefsCounted, CallersPlaced, Inside, Holds
    <2> QED
        BY <2>2, <2>3 DEF RefsCounted
<1>11. OneInitialiser'
    BY <1>3, <1>4, <1>5, <1>6 DEF PoolInv, OneInitialiser, CallersPlaced, Creating, Inside
<1>12. ClosesFirst'
    BY <1>3, <1>4 DEF PoolInv, ClosesFirst
<1>13. ClosingIsOut'
    <2>1. \A g \in Goroutines : id \notin closing[g]
        BY <1>1 DEF PoolInv, ClosingIsOut
    <2> QED
        BY <1>3, <1>5, <1>7, <2>1 DEF PoolInv, ClosingIsOut, PoolTypeOK, InPool
<1>14. OfferedIsOpen'
    BY <1>1, <1>3, <1>4, <1>5, <1>6
       DEF PoolInv, OfferedIsOpen, PoolTypeOK, InPool, CallersPlaced, Inside, Holds
<1>15. OpenIsReachable'
    BY <1>1, <1>2, <1>3, <1>4, <1>5 DEF PoolInv, OpenIsReachable, InPool, Goroutines
<1> QED
    BY <1>8, <1>9, <1>10, <1>11, <1>12, <1>13, <1>14, <1>15 DEF PoolInv

\* A re-check leaves references, places and handles alone.
LEMMA RecheckKeeps ==
    ASSUME PoolInv, NEW c \in Callers, NEW l \in Logins, Recheck(c, l)
    PROVE  PoolInv'
<1>1. PICK id \in Ids : id = caller[c].id /\ caller[c].at = "recheck" /\ closing[c] = {}
    BY DEF Recheck, PoolInv, CallersPlaced, Inside
<1>2. PICK new \in EntryType : /\ new.ready = entry[id].ready /\ new.refs = entry[id].refs
                               /\ entry' = [entry EXCEPT ![id] = new]
    <2> DEFINE new == [entry[id] EXCEPT !.login = l, !.due = FALSE, !.rechecking = FALSE]
    <2>1. new \in EntryType /\ new.ready = entry[id].ready /\ new.refs = entry[id].refs
        BY DEF PoolInv, PoolTypeOK, EntryType
    <2>2. entry' = [entry EXCEPT ![id] = new]
        BY <1>1 DEF Recheck, PoolInv, PoolTypeOK
    <2> HIDE DEF new
    <2> QED
        BY <2>1, <2>2
<1>3. /\ caller' \in [Callers -> CallerType]
      /\ \A d \in Callers : d # c => caller'[d] = caller[d]
      /\ caller'[c].at = "hold" /\ caller'[c].id = id /\ caller'[c].key = caller[c].key
    BY <1>1 DEF Recheck, PoolInv, PoolTypeOK, CallerType
<1>4. /\ entry' \in [Ids -> EntryType]
      /\ \A i \in Ids : entry'[i].ready = entry[i].ready /\ entry'[i].refs = entry[i].refs
    BY <1>1, <1>2 DEF PoolInv, PoolTypeOK
<1>5. \A d \in Callers : /\ Holds(d)' <=> Holds(d)
                         /\ Creating(d)' <=> Creating(d)
                         /\ Inside(d)' <=> Inside(d)
                         /\ caller'[d].id = caller[d].id /\ caller'[d].key = caller[d].key
                         /\ caller'[d].at = caller[d].at \/ (d = c /\ ~Creating(d))
    BY <1>1, <1>3 DEF Holds, Creating, Inside
<1>6. \A i : Holders(i)' = Holders(i)
    BY <1>5 DEF Holders
<1>7. UNCHANGED <<entries, latest, closed, handle, closing>>
    BY DEF Recheck
<1>8. PoolTypeOK'
    BY <1>3, <1>4, <1>7 DEF PoolInv, PoolTypeOK
<1>9. CallersPlaced'
    BY <1>3, <1>5 DEF PoolInv, CallersPlaced, Inside
<1>10. RefsCounted'
    BY <1>4, <1>5, <1>6 DEF PoolInv, RefsCounted, CallersPlaced, Inside, Holds
<1>11. OneInitialiser'
    BY <1>4, <1>5, <1>7 DEF PoolInv, OneInitialiser, CallersPlaced, Creating, Inside
<1>12. ClosesFirst'
    BY <1>3, <1>7 DEF PoolInv, ClosesFirst
<1>13. ClosingIsOut'
    BY <1>4, <1>6, <1>7 DEF PoolInv, ClosingIsOut, PoolTypeOK, InPool
<1>14. OfferedIsOpen'
    BY <1>4, <1>5, <1>7 DEF PoolInv, OfferedIsOpen, PoolTypeOK, InPool
<1>15. OpenIsReachable'
    BY <1>1, <1>3, <1>4, <1>7 DEF PoolInv, OpenIsReachable, InPool, Goroutines
<1> QED
    BY <1>8, <1>9, <1>10, <1>11, <1>12, <1>13, <1>14, <1>15 DEF PoolInv

\* releaser: a holder gives its reference up.
LEMMA ReleaserKeeps ==
    ASSUME PoolInv, NEW c \in Callers, Releaser(c)
    PROVE  PoolInv'
<1>1. PICK id \in Ids : id = caller[c].id /\ caller[c].at = "hold" /\ closing[c] = {}
    BY DEF Releaser, PoolInv, CallersPlaced, Inside
<1>2. c \in Holders(id) /\ Holds(c)
    BY <1>1 DEF Holders, Holds
<1>3. /\ Cardinality(Holders(id)) \in Nat /\ Cardinality(Holders(id)) > 0
      /\ Cardinality(Holders(id) \ {c}) = Cardinality(Holders(id)) - 1
    BY <1>2, HoldersFinite, HoldersCounted
<1>4. PICK new \in EntryType : /\ new.ready = entry[id].ready /\ new.refs = entry[id].refs - 1
                               /\ entry' = [entry EXCEPT ![id] = new]
    <2> DEFINE new == Released(entry[id])
    <2>1. entry[id].refs - 1 \in Nat
        BY <1>3 DEF PoolInv, RefsCounted
    <2>2. [entry[id] EXCEPT !.refs = entry[id].refs - 1] \in EntryType
        BY <2>1 DEF PoolInv, PoolTypeOK, EntryType
    <2>3. new \in EntryType
        BY <2>2 DEF EntryType, Released
    <2>4. new.ready = entry[id].ready /\ new.refs = entry[id].refs - 1
        BY DEF Released, PoolInv, PoolTypeOK, EntryType
    <2>5. entry' = [entry EXCEPT ![id] = new]
        BY <1>1 DEF Releaser
    <2> HIDE DEF new
    <2> QED
        BY <2>3, <2>4, <2>5
<1>5. /\ caller' \in [Callers -> CallerType]
      /\ \A d \in Callers : caller'[d] = IF d = c THEN Out ELSE caller[d]
    BY DEF Releaser, PoolInv, PoolTypeOK, CallerType, Out
<1>6. /\ entry' \in [Ids -> EntryType]
      /\ \A i \in Ids : entry'[i].ready = entry[i].ready
      /\ \A i \in Ids : entry'[i].refs = IF i = id THEN entry[id].refs - 1 ELSE entry[i].refs
    BY <1>4 DEF PoolInv, PoolTypeOK
<1>7. \A d \in Callers : /\ Holds(d)' <=> Holds(d) /\ d # c
                         /\ Creating(d)' <=> Creating(d) /\ d # c
                         /\ Inside(d)' <=> Inside(d) /\ d # c
                         /\ ~Creating(c)
    BY <1>1, <1>5 DEF Holds, Creating, Inside, Out
<1>8. /\ \A i : Holders(i)' \subseteq Holders(i)
      /\ \A i : i # id => Holders(i)' = Holders(i)
      /\ Holders(id)' = Holders(id) \ {c}
    BY <1>1, <1>5, <1>7 DEF Holders
<1>9. UNCHANGED <<entries, latest, closed, handle, closing>>
    BY DEF Releaser
<1>10. PoolTypeOK'
    BY <1>5, <1>6, <1>9 DEF PoolInv, PoolTypeOK
<1>11. CallersPlaced'
    BY <1>5, <1>7 DEF PoolInv, CallersPlaced, Out
<1>12. RefsCounted'
    <2>1. \A i \in Ids : entry'[i].refs = Cardinality(Holders(i)')
        BY <1>3, <1>6, <1>8 DEF PoolInv, RefsCounted
    <2>2. \A d \in Callers : Holds(d)' => entry'[caller'[d].id].ready = "db"
        BY <1>5, <1>6, <1>7 DEF PoolInv, RefsCounted, CallersPlaced, Inside, Holds
    <2> QED
        BY <2>1, <2>2 DEF RefsCounted
<1>13. OneInitialiser'
    BY <1>5, <1>6, <1>7, <1>9 DEF PoolInv, OneInitialiser, CallersPlaced, Creating, Inside
<1>14. ClosesFirst'
    BY <1>1, <1>5, <1>9 DEF PoolInv, ClosesFirst
<1>15. ClosingIsOut'
    BY <1>6, <1>8, <1>9 DEF PoolInv, ClosingIsOut, PoolTypeOK, InPool
<1>16. OfferedIsOpen'
    BY <1>5, <1>6, <1>7, <1>9 DEF PoolInv, OfferedIsOpen, PoolTypeOK, InPool
<1>17. OpenIsReachable'
    BY <1>1, <1>5, <1>6, <1>9 DEF PoolInv, OpenIsReachable, InPool, Goroutines
<1> QED
    BY <1>10, <1>11, <1>12, <1>13, <1>14, <1>15, <1>16, <1>17 DEF PoolInv

-----------------------------------------------------------------------------
(* Close, closing handles, and time.                                       *)

\* A swept entry's handle is closed.
LEMMA CloseHandleKeeps ==
    ASSUME PoolInv, NEW g \in Goroutines, NEW id \in Ids, CloseHandle(g, id)
    PROVE  PoolInv'
<1>1. id \in closing[g] /\ entry[id].ready = "db" /\ (~closed => id \notin InPool /\ Holders(id) = {})
    BY DEF CloseHandle, PoolInv, ClosingIsOut
<1>2. /\ closing' \in [Goroutines -> SUBSET Ids]
      /\ \A h \in Goroutines : closing'[h] = IF h = g THEN closing[g] \ {id} ELSE closing[h]
    BY DEF CloseHandle, PoolInv, PoolTypeOK
<1>3. /\ handle' \in [Ids -> {None, "open", "closed"}]
      /\ \A i \in Ids : handle'[i] = IF i = id THEN "closed" ELSE handle[i]
    BY DEF CloseHandle, PoolInv, PoolTypeOK
<1>4. UNCHANGED <<entries, latest, closed, entry, caller>>
    BY DEF CloseHandle
<1>5. \A d \in Callers : /\ Creating(d) => caller[d].id # id /\ caller[d].id \in Ids
                         /\ ~closed /\ Holds(d) => caller[d].id # id /\ caller[d].id \in Ids
    BY <1>1 DEF PoolInv, OneInitialiser, Holders, CallersPlaced, Inside, Holds, Creating
<1>6. PoolTypeOK'
    BY <1>2, <1>3, <1>4 DEF PoolInv, PoolTypeOK
<1>7. CallersPlaced' /\ RefsCounted'
    BY <1>4 DEF PoolInv, CallersPlaced, RefsCounted, Inside, Holds, Holders
<1>8. OneInitialiser'
    BY <1>3, <1>4, <1>5 DEF PoolInv, OneInitialiser, Creating
<1>9. ClosesFirst' /\ ClosingIsOut'
    BY <1>2, <1>4 DEF PoolInv, ClosesFirst, ClosingIsOut, InPool, Holders, Holds, Goroutines
<1>10. OfferedIsOpen'
    BY <1>1, <1>3, <1>4, <1>5 DEF PoolInv, OfferedIsOpen, PoolTypeOK, InPool, Holds
<1>11. OpenIsReachable'
    BY <1>2, <1>3, <1>4 DEF PoolInv, OpenIsReachable, InPool
<1> QED
    BY <1>6, <1>7, <1>8, <1>9, <1>10, <1>11 DEF PoolInv

\* Close: the pool gives up its entries.
LEMMA CloseKeeps ==
    ASSUME PoolInv, Close
    PROVE  PoolInv'
<1>1. /\ ~closed /\ closed' /\ closed' \in BOOLEAN /\ Closer \in Goroutines /\ closing[Closer] = {}
      /\ UNCHANGED <<entry, handle, caller>>
    BY DEF Close, PoolInv, ClosesFirst, Goroutines
<1>2. /\ closing' \in [Goroutines -> SUBSET Ids]
      /\ \A g \in Goroutines : closing'[g] = IF g = Closer THEN {i \in InPool : entry[i].ready = "db"}
                                                           ELSE closing[g]
    BY <1>1 DEF Close, PoolInv, PoolTypeOK, InPool
<1>3. entries' \in [Keys -> Ids \cup {None}] /\ latest' \in [Targets -> Ids \cup {None}]
    BY DEF Close, PoolInv, PoolTypeOK, LatestWithout
<1>4. PoolTypeOK'
    BY <1>1, <1>2, <1>3 DEF PoolInv, PoolTypeOK
<1>5. CallersPlaced' /\ RefsCounted'
    BY <1>1 DEF PoolInv, CallersPlaced, RefsCounted, Inside, Holds, Holders
<1>6. OneInitialiser'
    BY <1>1 DEF PoolInv, OneInitialiser, Creating
<1>7. ClosesFirst'
    BY <1>1, <1>2, PoolAssumptions DEF PoolInv, ClosesFirst, Goroutines
<1>8. ClosingIsOut' /\ OfferedIsOpen'
    BY <1>1, <1>2 DEF PoolInv, ClosingIsOut, OfferedIsOpen
<1>9. OpenIsReachable'
    BY <1>1, <1>2 DEF PoolInv, OpenIsReachable
<1> QED
    BY <1>4, <1>5, <1>6, <1>7, <1>8, <1>9 DEF PoolInv

\* The clock moves no reference, place or handle.
LEMMA TimeKeeps ==
    ASSUME PoolInv, NEW id \in Ids, TimePasses(id)
    PROVE  PoolInv'
<1>1. PICK new \in EntryType : /\ new.ready = entry[id].ready /\ new.refs = entry[id].refs
                               /\ entry' = [entry EXCEPT ![id] = new]
    <2>1. CASE entry' = [entry EXCEPT ![id].due = TRUE]
        <3> DEFINE new == [entry[id] EXCEPT !.due = TRUE]
        <3>1. new \in EntryType /\ new.ready = entry[id].ready /\ new.refs = entry[id].refs
            BY DEF PoolInv, PoolTypeOK, EntryType
        <3> QED
            BY <2>1, <3>1
    <2>2. CASE entry' = [entry EXCEPT ![id].due = TRUE, ![id].idle = TRUE]
        <3> DEFINE new == [entry[id] EXCEPT !.due = TRUE, !.idle = TRUE]
        <3>1. new \in EntryType /\ new.ready = entry[id].ready /\ new.refs = entry[id].refs
            BY DEF PoolInv, PoolTypeOK, EntryType
        <3>2. entry' = [entry EXCEPT ![id] = new]
            BY <2>2 DEF PoolInv, PoolTypeOK
        <3> HIDE DEF new
        <3> QED
            BY <3>1, <3>2
    <2> QED
        BY <2>1, <2>2 DEF TimePasses
<1>2. /\ entry' \in [Ids -> EntryType]
      /\ \A i \in Ids : entry'[i].ready = entry[i].ready /\ entry'[i].refs = entry[i].refs
    BY <1>1 DEF PoolInv, PoolTypeOK
<1>3. UNCHANGED <<entries, latest, closed, handle, caller, closing>>
    BY DEF TimePasses
<1>4. PoolTypeOK' /\ CallersPlaced' /\ ClosesFirst'
    BY <1>2, <1>3 DEF PoolInv, PoolTypeOK, CallersPlaced, ClosesFirst, Inside
<1>5. RefsCounted'
    BY <1>2, <1>3 DEF PoolInv, RefsCounted, CallersPlaced, Inside, Holds, Holders
<1>6. OneInitialiser'
    BY <1>2, <1>3 DEF PoolInv, OneInitialiser, CallersPlaced, Inside, Creating
<1>7. ClosingIsOut'
    BY <1>2, <1>3 DEF PoolInv, ClosingIsOut, PoolTypeOK, InPool, Holders, Holds
<1>8. OfferedIsOpen' /\ OpenIsReachable'
    BY <1>2, <1>3 DEF PoolInv, OfferedIsOpen, OpenIsReachable, PoolTypeOK, InPool, Holds
<1> QED
    BY <1>4, <1>5, <1>6, <1>7, <1>8 DEF PoolInv

-----------------------------------------------------------------------------
(* The theorems.                                                           *)

\* References, initialisers and handles stay in step, whatever callers, sweeps,
\* the closer and the clock do.
THEOREM PoolInvariant == PoolSpec => []PoolInv
<1>1. PoolInit => PoolInv
    <2> SUFFICES ASSUME PoolInit PROVE PoolInv
        OBVIOUS
    <2>1. PoolEntry \in EntryType /\ Out \in CallerType /\ PoolEntry.refs = 0
        BY DEF PoolEntry, EntryType, Out, CallerType
    <2>2. PoolTypeOK
        BY <2>1 DEF PoolInit, PoolTypeOK
    <2>3. \A c \in Callers : caller[c].at = "out" /\ ~Inside(c) /\ ~Creating(c) /\ ~Holds(c)
        BY DEF PoolInit, Out, Inside, Creating, Holds
    <2>4. CallersPlaced /\ OneInitialiser /\ ClosesFirst
        BY <2>3 DEF PoolInit, CallersPlaced, OneInitialiser, ClosesFirst, Goroutines
    <2>5. \A i : Holders(i) = {}
        BY <2>3 DEF Holders
    <2>6. RefsCounted
        BY <2>1, <2>3, <2>5, FS_EmptySet DEF PoolInit, RefsCounted
    <2>7. ClosingIsOut /\ OfferedIsOpen /\ OpenIsReachable
        BY <2>3, PoolAssumptions DEF PoolInit, ClosingIsOut, OfferedIsOpen, OpenIsReachable, InPool
    <2> QED
        BY <2>2, <2>4, <2>6, <2>7 DEF PoolInv
<1>2. PoolInv /\ [PoolNext]_pool => PoolInv'
    <2> SUFFICES ASSUME PoolInv, [PoolNext]_pool PROVE PoolInv'
        OBVIOUS
    <2>1. CASE \E c \in Callers : Acquire(c)
        <3>1. PICK c \in Callers : Acquire(c)
            BY <2>1
        <3>2. CASE Refuse(c) \/ WaitOver(c)
            BY <3>2, MovesKeep
        <3>3. CASE AddEntry(c)
            BY <3>3, AddEntryKeeps
        <3>4. CASE UseEntry(c)
            BY <3>4, UseEntryKeeps
        <3>5. CASE AwaitEntry(c)
            BY <3>5, AwaitEntryKeeps
        <3>6. CASE Connect(c)
            BY <3>6, ConnectKeeps
        <3>7. CASE ConnectFails(c) \/ ClosedMeanwhile(c)
            BY <3>7, FailKeeps
        <3>8. CASE \E l \in Logins : Publish(c, l) \/ Recheck(c, l)
            BY <3>8, PublishKeeps, RecheckKeeps
        <3>9. CASE \E i \in Ids : CloseHandle(c, i)
            BY <3>9, CloseHandleKeeps DEF Goroutines
        <3> QED
            BY <3>1, <3>2, <3>3, <3>4, <3>5, <3>6, <3>7, <3>8, <3>9 DEF Acquire
    <2>2. CASE \E c \in Callers : GiveUp(c) \/ \E k \in Keys : Open(c, k)
        BY <2>2, MovesKeep
    <2>3. CASE \E c \in Callers : Releaser(c)
        BY <2>3, ReleaserKeeps
    <2>4. CASE Close
        BY <2>4, CloseKeeps
    <2>5. CASE \E i \in Ids : CloseHandle(Closer, i)
        BY <2>5, CloseHandleKeeps DEF Goroutines
    <2>6. CASE \E i \in Ids : TimePasses(i)
        BY <2>6, TimeKeeps
    <2>7. CASE UNCHANGED pool
        BY <2>7 DEF pool, PoolInv, PoolTypeOK, CallersPlaced, RefsCounted, OneInitialiser, ClosesFirst,
             ClosingIsOut, OfferedIsOpen, OpenIsReachable, Inside, Creating, Holds, Holders, InPool
    <2> QED
        BY <2>1, <2>2, <2>3, <2>4, <2>5, <2>6, <2>7 DEF PoolNext
<1> QED
    BY <1>1, <1>2, PTL DEF PoolSpec

\* No handle is closed under a query before Close, and none is leaked: an open
\* handle is in the pool, its initialiser's, or about to be closed (acquire,
\* initialize, sweepLocked, releaser and Close of the connection pool).
THEOREM HandlesAreTracked == PoolSpec => []HandlesTracked
<1>1. PoolInv => HandlesTracked
    BY DEF PoolInv, OfferedIsOpen, OpenIsReachable, HandlesTracked, Holds
<1> QED
    BY <1>1, PoolInvariant, PTL
=============================================================================
