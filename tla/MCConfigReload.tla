--------------------------- MODULE MCConfigReload ---------------------------
(* Small instances of ConfigReload. *)
EXTENDS ConfigReload, TLC

CONSTANTS c1, c2, v1, v2

\* The files of a reload of two collectors: one collector, another config of it,
\* both, the other one only.
MCCandidates ==
  { (c1 :> v1 @@ c2 :> NoVersion),
    (c1 :> v2 @@ c2 :> v1),
    (c1 :> NoVersion @@ c2 :> v1) }

\* The files of a reload of one collector.
MCOneCollector == {(c1 :> v1), (c1 :> v2), (c1 :> NoVersion)}

Symmetry == Permutations(Slots)
=============================================================================
