-------------------------- MODULE MCCollectorCycle --------------------------
(***************************************************************************)
(* Instances of CollectorCycle for TLC.  Times are in fifths of a scrape   *)
(* interval: a gap of 5 is a cycle on time, 7 one that follows a cycle     *)
(* which overran by the abandon grace.                                     *)
(***************************************************************************)
EXTENDS CollectorCycle

MCGaps == {5, 7}
=============================================================================
