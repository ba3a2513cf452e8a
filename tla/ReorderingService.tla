-------------------------- MODULE ReorderingService --------------------------
(***************************************************************************)
(* What the automatic reordering scheduler promises about the store, with *)
(* the tick, the snapshot and the dispatch loop abstracted away: each      *)
(* collection is free, has one pending task or has one running task, and  *)
(* a new task is created for a free collection at most once per          *)
(* MinInterval after its last completed reordering, in one atomic step.   *)
(* PisaScheduler implements Spec under the mapping given there.            *)
(*                                                                         *)
(* StrictSpec is the reading of spec section 4.1 under which the           *)
(* collection must also be enabled at the moment the task is created.      *)
(***************************************************************************)
EXTENDS Naturals

CONSTANTS Coll, MinInterval, NoTime

VARIABLES
    enabled,  \* index_enabled of each collection
    state,    \* "free", "pending" or "running": the collection's task, if any
    last,     \* the last completed reordering of each collection, or NoTime
    now       \* the clock

avars == <<enabled, state, last, now>>

States == {"free", "pending", "running"}

(* The minimum re-reorder interval has not passed since the last one. *)
Recent(c) == last[c] # NoTime /\ now - last[c] < MinInterval

Init ==
    /\ enabled \in [Coll -> BOOLEAN]
    /\ state = [c \in Coll |-> "free"]
    /\ last \in [Coll -> Nat \cup {NoTime}]
    /\ now = 0

(* A reordering task is created for a free, not recently reordered c. *)
Create(c) ==
    /\ state[c] = "free"
    /\ ~Recent(c)
    /\ state' = [state EXCEPT ![c] = "pending"]
    /\ UNCHANGED <<enabled, last, now>>

(* The same, for a collection that is enabled when its task is created. *)
CreateEnabled(c) == enabled[c] /\ Create(c)

Start(c) ==
    /\ state[c] = "pending"
    /\ state' = [state EXCEPT ![c] = "running"]
    /\ UNCHANGED <<enabled, last, now>>

Complete(c) ==
    /\ state[c] = "running"
    /\ state' = [state EXCEPT ![c] = "free"]
    /\ last' = [last EXCEPT ![c] = now]
    /\ UNCHANGED <<enabled, now>>

Toggle(c) ==
    /\ enabled' = [enabled EXCEPT ![c] = ~@]
    /\ UNCHANGED <<state, last, now>>

Tick ==
    /\ now' = now + 1
    /\ UNCHANGED <<enabled, state, last>>

Lifecycle == \E c \in Coll : Start(c) \/ Complete(c) \/ Toggle(c)

Next == (\E c \in Coll : Create(c)) \/ Lifecycle \/ Tick

StrictNext == (\E c \in Coll : CreateEnabled(c)) \/ Lifecycle \/ Tick

Spec == Init /\ [][Next]_avars

StrictSpec == Init /\ [][StrictNext]_avars

=============================================================================
