------------------------- MODULE MCPisaScheduler -------------------------
(* Small instances of PisaScheduler for TLC. *)
EXTENDS PisaScheduler, TLC

CONSTANTS c1, c2, c3

(* Three collections against a cap of two, so that one tick can reach the *)
(* cap with a collection left over and a second tick can admit it.        *)
MCColl == {c1, c2, c3}

(* Collections are interchangeable model values. *)
MCSymmetry == Permutations(MCColl)
=============================================================================
