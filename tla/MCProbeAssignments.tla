------------------------- MODULE MCProbeAssignments -------------------------
(* A target, two built-in probes and a custom definition of one of them;   *)
(* inventory files that list the target at one host or another, with one   *)
(* probe or two, or do not list it.                                        *)
EXTENDS ProbeAssignments

MCOverrides == [d \in {"custom_waits"} |-> "waits"]
MCDefTimeout == <<30, 60>>
At(host, probes) == [t \in Targets |-> IF t = 1
    THEN [conn |-> [host |-> host, cred |-> "c1"], active |-> TRUE, probes |-> probes] ELSE None]
MCFiles == {At("h1", [d \in {"waits"} |-> 30]), At("h2", [d \in Builtins |-> 60]), [t \in Targets |-> None]}
MCMoves == {At("h1", [d \in {"waits"} |-> 30]), At("h2", [d \in {"waits"} |-> 30])}
MCStocks == {
    [target |-> [t \in Targets |-> None], def |-> [d \in Customs |-> None]],
    [target |-> [t \in Targets |-> IF t = 1 THEN [conn |-> [host |-> "h1", cred |-> "c1"], active |-> TRUE, mb |-> "api"] ELSE None],
     def |-> [d \in Customs |-> [latest |-> 1, enabled |-> TRUE]]]}
=============================================================================
