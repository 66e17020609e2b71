-------------------------- MODULE MCLogExtraction --------------------------
(* What the db-collector does with a database: the extraction of one log    *)
(* type, what several log types share, and the connections all probes use.  *)
(* They meet in no state, so a behaviour is of one of the three.            *)
EXTENDS LogExtraction, BackgroundExports, ConnectionPool

VARIABLE scene
all == <<vars, exports, pool, scene>>

\* One row alone and two that share an Instant.
MCRows == {<<1, 1>>, <<2, 1>>, <<2, 2>>}

MCInit == Init /\ ExportsInit /\ PoolInit /\ scene \in {"extraction", "shared", "pool"}
MCNext ==
    \/ scene = "extraction" /\ Next /\ UNCHANGED <<exports, pool, scene>>
    \/ scene = "shared" /\ ExportsNext /\ UNCHANGED <<vars, pool, scene>>
    \/ scene = "pool" /\ PoolNext /\ UNCHANGED <<vars, exports, scene>>
MCSpec == MCInit /\ [][MCNext]_all /\ PoolFairness
=============================================================================
