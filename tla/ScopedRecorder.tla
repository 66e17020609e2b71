--------------------------- MODULE ScopedRecorder ---------------------------
(***************************************************************************)
(* What export.ScopedRecorder promises (export/exporter.go): a series is   *)
(* exported while some scope reports it; a counter has one scope at a time *)
(* and only that scope changes its value; a series that no scope reports   *)
(* any more is gone.                                                       *)
(***************************************************************************)
EXTENDS Naturals

CONSTANTS Scopes, CollectorOf(_), Series, NoValue

VARIABLES
    owns,   \* the pairs of a scope and a series it reports
    value,  \* the exported values
    type    \* "gauge" or "counter", fixed by the first sample

OwnersOf(o, s) == {c \in Scopes : <<c, s>> \in o}

\* Scopes own o afterwards, and the series of written have new values.
Become(o, written) ==
    /\ owns' = o
    /\ \A s \in Series :
           /\ s \notin written => value'[s] = IF OwnersOf(owns, s) # {} /\ OwnersOf(o, s) = {}
                                              THEN NoValue ELSE value[s]
           /\ s \in written => value'[s] # NoValue
    /\ type # NoValue => type' = type

\* RecordScope, and ClearScope for no series: what c reports is replaced.
Replace(c, reported) ==
    LET o == {p \in owns : p[1] # c} \cup {<<c, s>> : s \in reported}
    IN /\ Become(o, reported)
       /\ type' = "counter" => \A s \in reported : OwnersOf(owns, s) \subseteq {c}

\* Record: no scope's doing, and never to a counter a scope reports.
Write(written) ==
    /\ Become(owns, written)
    /\ type' = "counter" => \A s \in written : OwnersOf(owns, s) = {}

\* ForgetCollector
Forget(collector) == Become({p \in owns : CollectorOf(p[1]) # collector}, {})

RecorderInit == owns = {} /\ value = [s \in Series |-> NoValue] /\ type = NoValue

RecorderNext ==
    \/ \E ss \in SUBSET Series : Write(ss) \/ \E c \in Scopes : Replace(c, ss)
    \/ \E c \in Scopes : Forget(CollectorOf(c))

RecorderSpec == RecorderInit /\ [][RecorderNext]_<<owns, value, type>>

=============================================================================
