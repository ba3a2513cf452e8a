--------------------------- MODULE MCPisaMonitor ---------------------------
(* PisaMonitor on two collections and two task rows, for TLC. *)
EXTENDS PisaMonitor, TLC

CONSTANTS c1, c2, t1, t2

MCColl == {c1}
MCTaskIds == {t1, t2}

(* Collections and task rows are interchangeable among themselves. *)
MCSymmetry == Permutations(MCColl) \cup Permutations(MCTaskIds)
=============================================================================
