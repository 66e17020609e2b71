------------------------- MODULE PrometheusExporter -------------------------
(***************************************************************************)
(* PrometheusExporter of the db-collector (export/prometheus.go): the      *)
(* series of one metric family, each counting the scopes that report it,   *)
(* and the lists of series the scopes own.  The lists point to series      *)
(* objects, and the family finds an object by its labels, so an object     *)
(* deleted too early would live on in a list.  A call of RecordScope marks *)
(* the objects it meets with its generation instead of building sets.      *)
(***************************************************************************)
EXTENDS Naturals, Sequences, FiniteSets, SequencesExt

CONSTANTS
    Scopes, CollectorOf(_),
    Labels,       \* the label values of a series
    Values,       \* positive; 0 stands for a value no counter may have
    Objects,      \* series objects in memory at once
    MaxSamples,   \* bound: samples of a call
    MaxCalls,     \* bound: calls of RecordScope
    Nil

Types == {"gauge", "counter"}

\* An object for every label is enough, and Nil is none of what it stands in for.
ASSUME ExporterAssumptions ==
    /\ IsFiniteSet(Scopes) /\ IsFiniteSet(Labels) /\ IsFiniteSet(Objects)
    /\ Cardinality(Labels) <= Cardinality(Objects)
    /\ Values \subseteq Nat \ {0} /\ MaxSamples \in Nat /\ MaxCalls \in Nat
    /\ Nil \notin Labels /\ Nil \notin Objects /\ Nil \notin Types /\ Nil \notin Nat

VARIABLES
    family,     \* metricType of the family, Nil before it is registered
    series,     \* family.series
    object,     \* the series objects
    scopes,     \* the owned list of each scope
    generation

exporter == <<family, series, object, scopes, generation>>

Samples == [label : Labels, type : Types, value : Values \cup {0}]
NewSeries(l) == [label |-> l, value |-> 0, owners |-> 0, written |-> 0, owned |-> 0]

\* The state a call works on, and the list it builds.
Now == [family |-> family, series |-> series, object |-> object, next |-> << >>]

Become(st) == family' = st.family /\ series' = st.series /\ object' = st.object

-----------------------------------------------------------------------------
Used(st) ==
    {st.series[l] : l \in Labels} \cup (UNION {ToSet(scopes[c]) : c \in Scopes}) \cup ToSet(st.next)

\* seriesLocked: registers the family with the first sample's type.
Registered(st, sample) == [st EXCEPT !.family = IF @ = Nil THEN sample.type ELSE @]
Valid(st, sample) == sample.type = st.family /\ (st.family = "counter" => sample.value > 0)
SeriesLocked(st, sample) ==
    LET r == Registered(st, sample)
    IN IF ~Valid(r, sample) \/ r.series[sample.label] # Nil THEN r
       ELSE LET o == CHOOSE o \in Objects : o \notin Used(r)
            IN [r EXCEPT !.series[sample.label] = o, !.object[o] = NewSeries(sample.label)]

\* A counter another scope reports.
CounterOwned(st, o, mine) == st.family = "counter" /\ st.object[o].owners > 0 /\ ~mine

\* Mutant: Does not notice a series it has already written.
RecordSample_NoDuplicate(st0, sample, gen) ==
    LET st == SeriesLocked(st0, sample)
        o == st.series[sample.label]
        mine == st.object[o].owned = gen
    IN IF ~Valid(st, sample) \/ CounterOwned(st, o, mine) THEN st
       ELSE [st EXCEPT !.object[o].value = sample.value, !.object[o].written = gen,
                       !.object[o].owners = IF mine THEN @ ELSE @ + 1, !.next = Append(@, o)]

\* One sample of a call of RecordScope: refused, a duplicate in the batch (the
\* last value wins) or recorded.
RecordSample(st0, sample, gen) ==
    LET st == SeriesLocked(st0, sample)
        o == st.series[sample.label]
        mine == st.object[o].owned = gen
    IN IF ~Valid(st, sample) THEN st
       ELSE IF st.object[o].written = gen THEN [st EXCEPT !.object[o].value = sample.value]
       ELSE IF CounterOwned(st, o, mine) THEN st
       ELSE [st EXCEPT !.object[o].value = sample.value, !.object[o].written = gen,
                       !.object[o].owners = IF mine THEN @ ELSE @ + 1, !.next = Append(@, o)]

\* release: the family forgets a series with its last owner.
Release(st, o) ==
    LET l == st.object[o].label
        left == [st EXCEPT !.object[o].owners = @ - 1]
    IN IF left.object[o].owners <= 0 THEN [left EXCEPT !.series[l] = Nil] ELSE left

\* The loop over a scope's list, but for the objects that are kept.
ReleaseUnless(kept, st, o) == IF o \in kept THEN st ELSE Release(st, o)
ReleaseAll(st, list, kept) ==
    LET after[i \in 0 .. Len(list)] == IF i = 0 THEN st ELSE ReleaseUnless(kept, after[i - 1], list[i])
    IN after[Len(list)]

-----------------------------------------------------------------------------
\* What the scope reported before is marked as its own in this generation.
MarkOwned(st, list, gen) ==
    [st EXCEPT !.object = [o \in Objects |-> IF o \in ToSet(list) THEN [st.object[o] EXCEPT !.owned = gen]
                                                                 ELSE st.object[o]]]

RecordAll(st, samples, gen) ==
    LET after[i \in 0 .. Len(samples)] == IF i = 0 THEN st ELSE RecordSample(after[i - 1], samples[i], gen)
    IN after[Len(samples)]

RecordScope(c, samples) ==
    LET gen == generation + 1
        recorded == RecordAll(MarkOwned(Now, scopes[c], gen), samples, gen)
        written == {o \in Objects : recorded.object[o].written = gen}
    IN /\ generation < MaxCalls
       /\ generation' = gen
       /\ Become(ReleaseAll(recorded, scopes[c], written))
       /\ scopes' = [scopes EXCEPT ![c] = recorded.next]

ClearScope(c) ==
    /\ scopes[c] # << >>
    /\ Become(ReleaseAll(Now, scopes[c], {}))
    /\ scopes' = [scopes EXCEPT ![c] = << >>]
    /\ UNCHANGED generation

\* clearScopeLocked of every scope of the collector, in whatever order the map
\* gives them.
ClearAll(st, order) ==
    LET after[i \in 0 .. Len(order)] == IF i = 0 THEN st ELSE ReleaseAll(after[i - 1], scopes[order[i]], {})
    IN after[Len(order)]

ForgetCollector(collector) ==
    LET Of == {c \in Scopes : CollectorOf(c) = collector}
    IN /\ \E c \in Of : scopes[c] # << >>
       /\ \E order \in SetToSeqs(Of) : Become(ClearAll(Now, order))
       /\ scopes' = [c \in Scopes |-> IF c \in Of THEN << >> ELSE scopes[c]]
       /\ UNCHANGED generation

\* Record, with one sample: it belongs to no scope.
Record(sample) ==
    LET st == SeriesLocked(Now, sample)
        o == st.series[sample.label]
    IN /\ Become(IF Valid(st, sample) /\ ~CounterOwned(st, o, FALSE)
                 THEN [st EXCEPT !.object[o].value = sample.value] ELSE st)
       /\ UNCHANGED <<scopes, generation>>

-----------------------------------------------------------------------------
ExporterInit ==
    /\ family = Nil /\ series = [l \in Labels |-> Nil] /\ object = [o \in Objects |-> NewSeries(Nil)]
    /\ scopes = [c \in Scopes |-> << >>] /\ generation = 0

ExporterNext ==
    \/ \E c \in Scopes : ClearScope(c) \/ ForgetCollector(CollectorOf(c))
                         \/ \E samples \in BoundedSeq(Samples, MaxSamples) : RecordScope(c, samples)
    \/ \E sample \in Samples : Record(sample)

ExporterSpec == ExporterInit /\ [][ExporterNext]_exporter

-----------------------------------------------------------------------------
Gathered == [l \in Labels |-> IF series[l] = Nil THEN Nil ELSE object[series[l]].value]
Owned == UNION {{<<c, object[o].label>> : o \in ToSet(scopes[c])} : c \in Scopes}

Recorder == INSTANCE ScopedRecorder
           WITH Series <- Labels, NoValue <- Nil, owns <- Owned, value <- Gathered, type <- family

\* export/exporter.go: the counts, generations and lists of the exporter add up
\* to what ScopedRecorder promises of its series.
ImplementsScopedRecorder == Recorder!RecorderSpec

=============================================================================
