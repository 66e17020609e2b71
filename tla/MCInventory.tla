---------------------------- MODULE MCInventory ----------------------------
(* Two applications of an environment.  In a behaviour the clients use one  *)
(* part of the API, beside the file; MaxChanges bounds them together.       *)
EXTENDS Inventory

VARIABLE scene

App(on, comps, srcs) == [on |-> on, comps |-> comps, srcs |-> srcs]
Web == [k \in {<<"push", "web">>} |-> TRUE]
NoSource == [k \in {} |-> TRUE]
MCFiles == [v1 |-> [shop |-> App(TRUE, {1}, NoSource), crm |-> None],
            v2 |-> [shop |-> None, crm |-> App(TRUE, {1, 2}, Web)],
            v3 |-> [shop |-> App(TRUE, {}, Web), crm |-> None],
            v4 |-> [shop |-> App(TRUE, {}, Web), crm |-> App(FALSE, {}, Web)]]

MCInit == Init /\ current \in {"v1", "v2"} /\ scene \in {"sources", "pages", "rollout"}
MCNext ==
    /\ UNCHANGED scene
    /\ \/ scene = "sources" /\ (SourceEndpoints \/ PostApplication \/ RemoveApplication)
       \/ scene = "pages" /\ (EnvironmentEndpoints \/ ApplicationEndpoints \/ ComponentEndpoints \/ Pages)
       \/ scene = "rollout" /\ (PostEnvironment \/ PostApplication \/ RemoveApplication \/ FileApplies)
       \/ scene # "rollout" /\ \E r \in Replicas : Read(r) \/ ApplyRead(r) \/ Mount(r)
       \/ scene = "sources" /\ \E v \in {"v2", "v3"} : Merge(v)
MCSpec == MCInit /\ [][MCNext]_<<vars, scene>> /\ Fairness
=============================================================================
