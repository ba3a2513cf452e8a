--------------------------- MODULE MCPisaConfig ---------------------------
(* A small instance of PisaConfig for TLC. *)
EXTENDS PisaConfig

CONSTANTS v1, v2

(* v1 stands for every default value, v2 for a value an operator writes. *)
MCScalars == {v1, v2}

MCKeys == {"database", "host", "port", "monitoring", "alert_thresholds",
           "index_size_mb"}

(* get_default_config in miniature: a flat section and a section with a   *)
(* nested one, as "database" and "monitoring" are.                         *)
MCDefaults ==
    [database   |-> [host |-> v1, port |-> v1],
     monitoring |-> [alert_thresholds |-> [index_size_mb |-> v1]]]

(* No file, a bad one, a file that sets one database setting, and one     *)
(* that replaces the monitoring section by a scalar.                       *)
MCFileVals ==
    {Absent, Garbage, [database |-> [host |-> v2]], [monitoring |-> v2]}

(* A leaf, a section replaced by a scalar, and a path through a scalar    *)
(* (set raises TypeError).                                                 *)
MCSetPaths ==
    {<<"database", "port">>, <<"monitoring", "alert_thresholds">>,
     <<"database", "host", "port">>}

MCUpdateVals ==
    {[monitoring |-> [alert_thresholds |-> [index_size_mb |-> v2]]],
     [database |-> v2]}

MCSaveVals == {[database |-> [port |-> v2]]}
=============================================================================
