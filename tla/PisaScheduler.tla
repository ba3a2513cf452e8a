--------------------------- MODULE PisaScheduler ---------------------------
(***************************************************************************)
(* The automatic reordering scheduler of documentdb_pisactl               *)
(* (scheduler.py, PisaScheduler.schedule_automatic_reordering and         *)
(* should_schedule_reordering) running against the external DocumentDB   *)
(* store, whose task rows it reads and to which it issues                  *)
(* schedule_document_reordering calls.                                     *)
(*                                                                         *)
(* One tick of the scheduler is split at the points where it talks to the *)
(* store: the status snapshot (line 73), one eligibility check per         *)
(* collection (lines 76-82), the running-task count (lines 84-85) and one *)
(* dispatch call per eligible collection (lines 88-101).  Between any two *)
(* of these the store may start or finish tasks, the clock may advance    *)
(* and an operator may enable or disable a collection through the CLI.    *)
(***************************************************************************)
EXTENDS Naturals, Sequences, FiniteSets, Functions

CONSTANTS
    Coll,           \* the collections with a PISA index status row
    MaxConcurrent,  \* scheduling.max_concurrent_tasks
    MinInterval,    \* the re-reorder interval, timedelta(days=7) at line 58
    MaxTime,        \* bound on the clock
    MaxTasks,       \* bound on the number of task rows the store holds
    NoTime          \* an absent last_reordering_time

ASSUME CollAssumption == IsFiniteSet(Coll)
ASSUME MaxConcurrentAssumption == MaxConcurrent \in Nat
ASSUME MinIntervalAssumption == MinInterval \in Nat
ASSUME BoundsAssumption == MaxTime \in Nat /\ MaxTasks \in Nat
ASSUME NoTimeAssumption == NoTime \notin Nat

VARIABLES
    (* The external store *)
    enabled,      \* enabled[c]: index_enabled of c's status row
    tasks,        \* the rows of get_all_reordering_tasks, in creation order
    lastReorder,  \* lastReorder[c]: last_reordering_time of c's stats
    now,          \* the clock, in units of the re-reorder interval's grain
    (* The locals of one run of schedule_automatic_reordering *)
    pc,           \* "idle" between ticks, "check" in lines 76-85,
                  \* "dispatch" in lines 88-101
    todo,         \* enabled rows of the snapshot not yet checked
    elig,         \* eligible_collections, in the order they were found
    curRunning,   \* current_running
    sched         \* scheduled_count

storeVars == <<enabled, tasks, lastReorder, now>>
schedVars == <<pc, todo, elig, curRunning, sched>>
vars == <<enabled, tasks, lastReorder, now, pc, todo, elig, curRunning, sched>>

Time == Nat \cup {NoTime}

(* A row of get_all_reordering_tasks: the fields the scheduler reads. *)
Task == [coll : Coll, running : BOOLEAN, completed : BOOLEAN]

(* The task rows of c that are pending or running (line 48). *)
Outstanding(c) ==
    {i \in DOMAIN tasks : /\ tasks[i].coll = c
                          /\ (~tasks[i].completed \/ tasks[i].running)}

RunningTasks == {i \in DOMAIN tasks : tasks[i].running}

-----------------------------------------------------------------------------
(* Variant of RecentlyReordered with the interval shortened by one. *)
RecentlyReorderedOffByOne(c) ==
    lastReorder[c] # NoTime /\ now - lastReorder[c] < MinInterval - 1

(* Lines 56-60: c has a last_reordering_time less than MinInterval ago. *)
RecentlyReordered(c) ==
    lastReorder[c] # NoTime /\ now - lastReorder[c] < MinInterval

(* Variant of ShouldSchedule whose task test (line 48) sees only running *)
(* tasks and overlooks pending ones.                                       *)
ShouldScheduleRunningOnly(c) ==
    /\ enabled[c]
    /\ \A i \in DOMAIN tasks : tasks[i].coll = c => ~tasks[i].running
    /\ ~RecentlyReordered(c)

(* should_schedule_reordering(c) when none of its queries fails: c is      *)
(* enabled, no task of c is pending or running, and c was never reordered *)
(* or not within the last MinInterval.                                     *)
ShouldSchedule(c) ==
    /\ enabled[c]
    /\ Outstanding(c) = {}
    /\ ~RecentlyReordered(c)

(* A fresh task row as schedule_document_reordering creates it. *)
NewTask(c) == [coll |-> c, running |-> FALSE, completed |-> FALSE]

Init ==
    /\ enabled \in [Coll -> BOOLEAN]
    /\ tasks = <<>>
    /\ lastReorder \in [Coll -> {NoTime, 0}]
    /\ now = 0
    /\ pc = "idle"
    /\ todo = {}
    /\ elig = <<>>
    /\ curRunning = 0
    /\ sched = 0

(* Line 73: the status snapshot; line 77 keeps its enabled rows.  A failed *)
(* snapshot query ends the tick at line 105 without changing anything.     *)
StartTick ==
    /\ pc = "idle"
    /\ pc' = "check"
    /\ todo' = {c \in Coll : enabled[c]}
    /\ elig' = <<>>
    /\ UNCHANGED <<storeVars, curRunning, sched>>

(* Lines 78-82: should_schedule_reordering for the next row.  Its three    *)
(* queries (lines 40, 44, 52) are read together; any exception in them    *)
(* makes it return False (line 64), so a collection may always be skipped. *)
CheckEligible(c) ==
    /\ pc = "check"
    /\ c \in todo
    /\ todo' = todo \ {c}
    /\ \/ ShouldSchedule(c) /\ elig' = Append(elig, c)
       \/ elig' = elig
    /\ UNCHANGED <<storeVars, pc, curRunning, sched>>

(* Lines 84-87: count the running tasks in a second task query.  If that  *)
(* query fails the tick ends at line 105 and nothing is dispatched.        *)
CountRunning ==
    /\ pc = "check"
    /\ todo = {}
    /\ \/ /\ pc' = "dispatch"
          /\ curRunning' = Cardinality(RunningTasks)
          /\ sched' = 0
          /\ UNCHANGED elig
       \/ /\ pc' = "idle"
          /\ elig' = <<>>
          /\ UNCHANGED <<curRunning, sched>>
    /\ UNCHANGED <<storeVars, todo>>

(* Variant of Dispatch without the cap test of line 89. *)
DispatchNoCap ==
    /\ pc = "dispatch"
    /\ elig # <<>>
    /\ elig' = Tail(elig)
    /\ \/ /\ Len(tasks) < MaxTasks
          /\ tasks' = Append(tasks, NewTask(Head(elig)))
          /\ sched' = sched + 1
       \/ UNCHANGED <<tasks, sched>>
    /\ UNCHANGED <<enabled, lastReorder, now, pc, todo, curRunning>>

(* Lines 89-101 for the next eligible collection, below the cap: the       *)
(* schedule call either creates a pending task (success) or returns False *)
(* or raises, which is logged and the loop goes on.                        *)
Dispatch ==
    /\ pc = "dispatch"
    /\ elig # <<>>
    /\ curRunning + sched < MaxConcurrent
    /\ elig' = Tail(elig)
    /\ \/ /\ Len(tasks) < MaxTasks
          /\ tasks' = Append(tasks, NewTask(Head(elig)))
          /\ sched' = sched + 1
       \/ UNCHANGED <<tasks, sched>>
    /\ UNCHANGED <<enabled, lastReorder, now, pc, todo, curRunning>>

(* Lines 89-91 and 103: the cap is reached or the list is exhausted. *)
FinishTick ==
    /\ pc = "dispatch"
    /\ elig = <<>> \/ curRunning + sched >= MaxConcurrent
    /\ pc' = "idle"
    /\ elig' = <<>>
    /\ curRunning' = 0
    /\ sched' = 0
    /\ UNCHANGED <<storeVars, todo>>

-----------------------------------------------------------------------------
(* The environment: the store runs tasks, operators use the CLI. *)

(* The store picks up a pending task. *)
StoreStartTask(i) ==
    /\ i \in DOMAIN tasks
    /\ ~tasks[i].running /\ ~tasks[i].completed
    /\ tasks' = [tasks EXCEPT ![i].running = TRUE]
    /\ UNCHANGED <<enabled, lastReorder, now, schedVars>>

(* The store finishes a running task and records it in the stats. *)
StoreCompleteTask(i) ==
    /\ i \in DOMAIN tasks
    /\ tasks[i].running
    /\ tasks' = [tasks EXCEPT ![i] = [coll |-> @.coll, running |-> FALSE,
                                             completed |-> TRUE]]
    /\ lastReorder' = [lastReorder EXCEPT ![tasks[i].coll] = now]
    /\ UNCHANGED <<enabled, now, schedVars>>

(* pisactl index enable / index disable. *)
SetEnabled(c, b) ==
    /\ enabled[c] # b
    /\ enabled' = [enabled EXCEPT ![c] = b]
    /\ UNCHANGED <<tasks, lastReorder, now, schedVars>>

TimePasses ==
    /\ now < MaxTime
    /\ now' = now + 1
    /\ UNCHANGED <<enabled, tasks, lastReorder, schedVars>>

Scheduler ==
    \/ StartTick
    \/ \E c \in Coll : CheckEligible(c)
    \/ CountRunning
    \/ Dispatch
    \/ FinishTick

Environment ==
    \/ \E i \in DOMAIN tasks : StoreStartTask(i) \/ StoreCompleteTask(i)
    \/ \E c \in Coll, b \in BOOLEAN : SetEnabled(c, b)
    \/ TimePasses

Next == Scheduler \/ Environment

Spec == Init /\ [][Next]_vars

-----------------------------------------------------------------------------
(* Every variable holds a value of its type; the scheduler's count of this *)
(* tick's successful dispatches never passes max_concurrent_tasks.         *)
TypeOK ==
    /\ enabled \in [Coll -> BOOLEAN]
    /\ tasks \in Seq(Task)
    /\ lastReorder \in [Coll -> Time]
    /\ now \in Nat
    /\ pc \in {"idle", "check", "dispatch"}
    /\ todo \subseteq Coll
    /\ elig \in Seq(Coll)
    /\ curRunning \in Nat
    /\ sched \in 0..MaxConcurrent

(* No collection ever has two pending or running reordering tasks: the    *)
(* eligibility check of line 48, made before the dispatch loop, still      *)
(* holds when the dispatch call of line 94 is made.                        *)
NoDuplicateDispatch ==
    \A c \in Coll : \A i, j \in Outstanding(c) : i = j

(* A task created for c (line 94) is never created within MinInterval of  *)
(* c's last completed reordering, although the stats were read (line 52)  *)
(* at the check, several store steps before the dispatch.                 *)
IntervalRespected ==
    \A c \in Coll :
        (/\ Len(tasks') = Len(tasks) + 1
         /\ tasks'[Len(tasks')].coll = c)
        => \/ lastReorder[c] = NoTime
           \/ now >= lastReorder[c] + MinInterval

DispatchRespectsInterval == [][IntervalRespected]_vars

(* The spec's global concurrency cap: at no time do more than             *)
(* max_concurrent_tasks reordering tasks run.                              *)
RunningWithinCap ==
    Cardinality(RunningTasks) <= MaxConcurrent

-----------------------------------------------------------------------------
(* The refinement mapping onto ReorderingService: a collection is free    *)
(* when it has no pending or running task row, running when one of them   *)
(* runs, pending otherwise; the scheduler's locals are hidden.             *)
TaskState(c) ==
    IF Outstanding(c) = {} THEN "free"
    ELSE IF \E i \in Outstanding(c) : tasks[i].running THEN "running"
    ELSE "pending"

Service == INSTANCE ReorderingService
               WITH state <- [c \in Coll |-> TaskState(c)],
                    last <- lastReorder

(* The scheduler, with the store and the CLI around it, implements the     *)
(* abstract service: every task row the dispatch loop (line 94) creates is *)
(* an atomic creation for a free collection outside its re-reorder        *)
(* interval, although eligibility was decided (lines 78-82) several store *)
(* steps earlier; every other step is a lifecycle step or a stutter.       *)
ImplementsService == Service!Spec

(* Spec section 4.1 read strictly: a task is only ever created for a      *)
(* collection that is enabled at that moment.  The dispatch call (line 94) *)
(* does not re-read index_enabled, so a disable between the check and the *)
(* dispatch breaks it.                                                     *)
ImplementsStrictService == Service!StrictSpec

=============================================================================
