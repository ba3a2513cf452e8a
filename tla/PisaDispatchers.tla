--------------------------- MODULE PisaDispatchers ---------------------------
(***************************************************************************)
(* Several scheduler processes (scheduler.py, one tick of                  *)
(* schedule_automatic_reordering each, as in PisaScheduler) and the        *)
(* pisactl commands `reorder schedule` and `reorder cancel` (cmd.py) work  *)
(* against one store.  Spec section 5: they share nothing but the store's *)
(* task rows, and the eligibility check is the only guard against two of  *)
(* them dispatching the same collection.  The store's helpers and its own *)
(* steps are PisaScheduler's; origin records who created each task row.   *)
(***************************************************************************)
EXTENDS Naturals, Sequences, FiniteSets

CONSTANTS Coll, Ctl, MaxConcurrent, MinInterval, MaxTime, MaxTasks, NoTime

ASSUME CtlAssumption == IsFiniteSet(Ctl) /\ "cli" \notin Ctl

(* The store's constants, as PisaScheduler assumes them. *)
ASSUME StoreAssumption ==
    /\ MaxConcurrent \in Nat /\ MinInterval \in Nat
    /\ MaxTime \in Nat /\ MaxTasks \in Nat
    /\ NoTime \notin Nat

VARIABLES
    enabled, tasks, lastReorder, now,     \* the store, as in PisaScheduler
    origin,      \* origin[i]: the scheduler in Ctl, or "cli", that made row i
    pc, todo, elig, curRunning, sched     \* each scheduler's locals

storeVars == <<enabled, tasks, lastReorder, now>>
localVars == <<pc, todo, elig, curRunning, sched>>
vars == <<enabled, tasks, lastReorder, now, origin, pc, todo, elig,
          curRunning, sched>>

Store == INSTANCE PisaScheduler
             WITH pc <- "idle", todo <- {}, elig <- <<>>, curRunning <- 0,
                  sched <- 0

Init ==
    /\ Store!Init
    /\ origin = <<>>
    /\ pc = [k \in Ctl |-> "idle"]
    /\ todo = [k \in Ctl |-> {}]
    /\ elig = [k \in Ctl |-> <<>>]
    /\ curRunning = [k \in Ctl |-> 0]
    /\ sched = [k \in Ctl |-> 0]

-----------------------------------------------------------------------------
(* One scheduler process k: the steps of PisaScheduler's tick. *)

StartTick(k) ==
    /\ pc[k] = "idle"
    /\ pc' = [pc EXCEPT ![k] = "check"]
    /\ todo' = [todo EXCEPT ![k] = {c \in Coll : enabled[c]}]
    /\ elig' = [elig EXCEPT ![k] = <<>>]
    /\ UNCHANGED <<storeVars, origin, curRunning, sched>>

CheckEligible(k, c) ==
    /\ pc[k] = "check"
    /\ c \in todo[k]
    /\ todo' = [todo EXCEPT ![k] = @ \ {c}]
    /\ \/ Store!ShouldSchedule(c) /\ elig' = [elig EXCEPT ![k] = Append(@, c)]
       \/ UNCHANGED elig
    /\ UNCHANGED <<storeVars, origin, pc, curRunning, sched>>

CountRunning(k) ==
    /\ pc[k] = "check"
    /\ todo[k] = {}
    /\ \/ /\ pc' = [pc EXCEPT ![k] = "dispatch"]
          /\ curRunning' = [curRunning EXCEPT ![k] =
                               Cardinality(Store!RunningTasks)]
          /\ sched' = [sched EXCEPT ![k] = 0]
          /\ UNCHANGED elig
       \/ /\ pc' = [pc EXCEPT ![k] = "idle"]
          /\ elig' = [elig EXCEPT ![k] = <<>>]
          /\ UNCHANGED <<curRunning, sched>>
    /\ UNCHANGED <<storeVars, origin, todo>>

Dispatch(k) ==
    /\ pc[k] = "dispatch"
    /\ elig[k] # <<>>
    /\ curRunning[k] + sched[k] < MaxConcurrent
    /\ elig' = [elig EXCEPT ![k] = Tail(@)]
    /\ \/ /\ Len(tasks) < MaxTasks
          /\ tasks' = Append(tasks, Store!NewTask(Head(elig[k])))
          /\ origin' = Append(origin, k)
          /\ sched' = [sched EXCEPT ![k] = @ + 1]
       \/ UNCHANGED <<tasks, origin, sched>>
    /\ UNCHANGED <<enabled, lastReorder, now, pc, todo, curRunning>>

FinishTick(k) ==
    /\ pc[k] = "dispatch"
    /\ elig[k] = <<>> \/ curRunning[k] + sched[k] >= MaxConcurrent
    /\ pc' = [pc EXCEPT ![k] = "idle"]
    /\ elig' = [elig EXCEPT ![k] = <<>>]
    /\ curRunning' = [curRunning EXCEPT ![k] = 0]
    /\ sched' = [sched EXCEPT ![k] = 0]
    /\ UNCHANGED <<storeVars, origin, todo>>

Scheduler(k) ==
    \/ StartTick(k)
    \/ \E c \in Coll : CheckEligible(k, c)
    \/ CountRunning(k)
    \/ Dispatch(k)
    \/ FinishTick(k)

-----------------------------------------------------------------------------
(* The CLI. *)

(* `pisactl reorder schedule db coll` (cmd.py lines 338-356, through      *)
(* database.py lines 129-139): no eligibility check; the store accepts    *)
(* and creates a pending row, or the call fails and the command exits 1.   *)
CliSchedule(c) ==
    /\ \/ /\ Len(tasks) < MaxTasks
          /\ tasks' = Append(tasks, Store!NewTask(c))
          /\ origin' = Append(origin, "cli")
       \/ UNCHANGED <<tasks, origin>>
    /\ UNCHANGED <<enabled, lastReorder, now, localVars>>

(* `pisactl reorder cancel db coll` (cmd.py lines 359-376, through         *)
(* database.py lines 141-150): the store ends c's pending rows without a  *)
(* reordering (they become completed, the stats untouched); a running row *)
(* is not stopped (spec section 5: a dispatched call is not cancelled).    *)
StoreCancel(c) ==
    [i \in DOMAIN tasks |->
        IF tasks[i].coll = c /\ ~tasks[i].running /\ ~tasks[i].completed
        THEN [coll |-> c, running |-> FALSE, completed |-> TRUE]
        ELSE tasks[i]]

CliCancel(c) ==
    /\ tasks' = StoreCancel(c) \/ UNCHANGED tasks
    /\ UNCHANGED <<enabled, lastReorder, now, origin, localVars>>

Cli == \E c \in Coll : CliSchedule(c) \/ CliCancel(c)

(* The store's own steps and the clock, as in PisaScheduler. *)
Environment ==
    /\ \/ \E i \in DOMAIN tasks :
              Store!StoreStartTask(i) \/ Store!StoreCompleteTask(i)
       \/ \E c \in Coll, b \in BOOLEAN : Store!SetEnabled(c, b)
       \/ Store!TimePasses
    /\ UNCHANGED <<origin, localVars>>

Next == (\E k \in Ctl : Scheduler(k)) \/ Cli \/ Environment

Spec == Init /\ [][Next]_vars

-----------------------------------------------------------------------------
TypeOK ==
    /\ Store!TypeOK
    /\ origin \in Seq(Ctl \cup {"cli"})
    /\ Len(origin) = Len(tasks)
    /\ pc \in [Ctl -> {"idle", "check", "dispatch"}]
    /\ todo \in [Ctl -> SUBSET Coll]
    /\ elig \in [Ctl -> Seq(Coll)]
    /\ curRunning \in [Ctl -> Nat]
    /\ sched \in [Ctl -> 0..MaxConcurrent]

(* Spec section 5's bounded anomaly: two schedulers may both dispatch a    *)
(* collection they both found free (line 94 acts on a check made earlier), *)
(* but no scheduler ever has two pending or running rows of one            *)
(* collection, so the duplicates are at most one per scheduler, whatever   *)
(* the CLI schedules or cancels in between.                                *)
OnePerScheduler ==
    \A c \in Coll, k \in Ctl :
        \A i, j \in Store!Outstanding(c) :
            origin[i] = k /\ origin[j] = k => i = j

(* A task a scheduler creates for c (line 94) is never created within     *)
(* MinInterval of c's last completed reordering (spec section 4.1,          *)
(* condition 3), as PisaScheduler shows when it is the only creator of    *)
(* rows; here a row of another scheduler or of the CLI may start and      *)
(* complete between the check (line 52) and the dispatch.                 *)
SchedulerDispatchInterval ==
    \A c \in Coll :
        (/\ Len(tasks') = Len(tasks) + 1
         /\ tasks'[Len(tasks')].coll = c
         /\ origin'[Len(origin')] \in Ctl)
        => ~Store!RecentlyReordered(c)

IntervalAcrossProcesses == [][SchedulerDispatchInterval]_vars

=============================================================================
