------------------------ MODULE MCPisaDispatchers ------------------------
(* Two scheduler processes and the CLI on small instances, for TLC. *)
EXTENDS PisaDispatchers, TLC

CONSTANTS c1, k1, k2

MCColl == {c1}

MCCtl == {k1, k2}

(* Collections and scheduler processes are interchangeable. *)
MCSymmetry == Permutations(MCColl) \cup Permutations(MCCtl)
=============================================================================
