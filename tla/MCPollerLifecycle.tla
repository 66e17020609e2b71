------------------------- MODULE MCPollerLifecycle -------------------------
(***************************************************************************)
(* The instance of PollerLifecycle for TLC: PollerLifecycle_calls.cfg      *)
(* gives the constants.  One collector is enough, since no step reads the  *)
(* entry of another one; two slots are an old and a new entry.             *)
(***************************************************************************)
EXTENDS PollerLifecycle
=============================================================================
