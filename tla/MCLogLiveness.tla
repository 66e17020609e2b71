--------------------------- MODULE MCLogLiveness ---------------------------
(* The instance of LogExtraction for its liveness: two rows at two Instants, *)
(* so that no full batch is of one Instant (ErrBatchStuck).                  *)
EXTENDS LogExtraction

MCTwoRows == {<<1, 1>>, <<2, 1>>}
=============================================================================
