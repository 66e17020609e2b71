--------------------------- MODULE MCPatientZero ---------------------------
(* Two runs of a few scenario files, one of which is refused, and apart     *)
(* from them the entry points.  A run reaches the entry points by beginning *)
(* and ending its traffic and by switching a commit delay, which are        *)
(* actions of EntryPoints, and reads only the ledger; so a behaviour is of  *)
(* one of the two.  Of the entry points the traffic of a run is counted     *)
(* over a short time, the ledger's rows without a run over a longer one.    *)
EXTENDS ScenarioRunner, EntryPoints

VARIABLE scene
all == <<runner, server, scene>>

Watch(step, from, mode) == [step |-> step, from |-> from, mode |-> mode, rows |-> None]
Deliver(step, from, first, last) ==
    [step |-> step, from |-> from, mode |-> "eventually", rows |-> [from |-> first, to |-> last]]

MCFiles == {
    [steps |-> <<"restart", "outage">>, signals |-> <<Deliver(2, "end", 1, 2)>>],
    [steps |-> <<"rule", "deploy">>, signals |-> <<Watch(2, "start", "always")>>],
    [steps |-> <<"none", "rotation">>, signals |-> <<Deliver(1, "end", 1, 1)>>],
    [steps |-> <<"none", "rotation">>, signals |-> <<Deliver(1, "start", 1, 1)>>]}

ShortTime == 2  \* bound: ticks of the traffic scene

MCInit == RunnerInit /\ ServerInit /\ scene \in {"runs", "traffic", "ledger"}
MCNext ==
    \/ scene = "runs" /\ RunnerNext /\ UNCHANGED <<server, scene>>
    \/ scene = "traffic" /\ ServerNext /\ now' <= ShortTime /\ UNCHANGED <<runner, scene>>
    \/ scene = "ledger" /\ ServerNext /\ ~counter'.active /\ UNCHANGED <<runner, scene>>
MCSpec == MCInit /\ [][MCNext]_all /\ RunnerFairness
=============================================================================
