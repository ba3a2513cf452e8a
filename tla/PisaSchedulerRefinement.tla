---------------------- MODULE PisaSchedulerRefinement ----------------------
(***************************************************************************)
(* Proof that the scheduler, with the store and the CLI around it,        *)
(* implements the abstract ReorderingService under the mapping of         *)
(* PisaScheduler (ImplementsService), for every value of the constants.   *)
(* The argument rests on the inductive invariant IInv of                   *)
(* PisaSchedulerProofs: a collection has at most one outstanding task row *)
(* (so the row decides its abstract state) and every collection still in  *)
(* eligible_collections is free and outside its interval (so the dispatch *)
(* that creates its row is an abstract Create).                           *)
(***************************************************************************)
EXTENDS PisaSchedulerProofs

(* The abstract state of all collections under the mapping. *)
TaskStates == [c \in Coll |-> TaskState(c)]

(* A collection's abstract state is decided by its outstanding rows and   *)
(* by whether they run.                                                    *)
LEMMA TaskStateFrame ==
    ASSUME NEW c,
           Outstanding(c)' = Outstanding(c),
           \A i \in Outstanding(c) : tasks'[i].running = tasks[i].running
    PROVE  TaskState(c)' = TaskState(c)
BY DEF TaskState

(* With no duplicate dispatch, an outstanding row is its collection's only *)
(* one.                                                                    *)
LEMMA OnlyOutstanding ==
    ASSUME NoDuplicateDispatch, NEW c \in Coll, NEW i \in Outstanding(c)
    PROVE  Outstanding(c) = {i}
BY DEF NoDuplicateDispatch

(* A step that leaves the store alone is an abstract stutter. *)
LEMMA StoreStutter ==
    ASSUME UNCHANGED storeVars
    PROVE  UNCHANGED Service!avars
<1>1. \A c \in Coll : TaskState(c)' = TaskState(c)
    BY OutstandingUnchanged, TaskStateFrame DEF storeVars
<1>. QED
    BY <1>1 DEF storeVars, Service!avars, TaskStates

LEMMA InitRefines == Init => Service!Init
<1> SUFFICES ASSUME Init PROVE Service!Init
    OBVIOUS
<1>1. \A c \in Coll : TaskState(c) = "free"
    BY DEF Init, TaskState, Outstanding
<1>. QED
    BY <1>1 DEF Init, Service!Init

(* A successful dispatch for the head h of eligible_collections is the    *)
(* abstract creation of h's task.                                          *)
LEMMA DispatchRefines ==
    ASSUME IInv, Dispatch, NEW h \in Coll, h = Head(elig),
           tasks' = Append(tasks, NewTask(h))
    PROVE  Service!Next
<1> USE DEF IInv
<1>1. h \in Range(elig) /\ h \in Coll
    BY DEF Dispatch, Range, TypeOK
<1>2. Outstanding(h) = {} /\ ~RecentlyReordered(h)
    BY <1>1 DEF EligStillFree
<1>3. \A c \in Coll \ {h} : TaskState(c)' = TaskState(c)
    <2> SUFFICES ASSUME NEW c \in Coll \ {h} PROVE TaskState(c)' = TaskState(c)
        OBVIOUS
    <2>1. Outstanding(c)' = Outstanding(c)
        BY <1>1, AppendOutstanding
    <2>2. \A i \in Outstanding(c) : tasks'[i] = tasks[i]
        BY DEF Outstanding, TypeOK
    <2>. QED
        BY <2>1, <2>2, TaskStateFrame
<1>4. TaskState(h)' = "pending"
    <2>1. Outstanding(h)' = {Len(tasks) + 1}
        BY <1>1, <1>2, AppendOutstanding
    <2>2. ~tasks'[Len(tasks) + 1].running
        BY <1>1 DEF NewTask, TypeOK
    <2>. QED
        BY <2>1, <2>2 DEF TaskState
<1>5. TaskState(h) = "free"
    BY <1>2 DEF TaskState
<1>6. TaskStates' = [TaskStates EXCEPT ![h] = "pending"]
    BY <1>1, <1>3, <1>4 DEF TaskStates
<1>7. Service!Create(h)
    BY <1>2, <1>5, <1>6 DEF Dispatch, Service!Create, Service!Recent,
                          RecentlyReordered, TaskStates
<1>. QED
    BY <1>1, <1>7 DEF Service!Next

(* The store starting a pending row is the abstract start of its          *)
(* collection's task.                                                      *)
LEMMA StartRefines ==
    ASSUME IInv, NEW i \in DOMAIN tasks, StoreStartTask(i),
           NEW c \in Coll, c = tasks[i].coll
    PROVE  Service!Next
<1> USE DEF IInv
<1>1. i \in Outstanding(c)
    BY DEF StoreStartTask, Outstanding, TypeOK, Task
<1>2. Outstanding(c) = {i}
    BY <1>1, OnlyOutstanding
<1>3. TaskState(c) = "pending" /\ TaskState(c)' = "running"
    <2>1. Outstanding(c)' = {i}
        BY <1>1, <1>2, StartKeepsOutstanding
    <2>2. ~tasks[i].running /\ tasks'[i].running
        <3>1. tasks'[i] = [tasks[i] EXCEPT !.running = TRUE]
            BY DEF StoreStartTask
        <3>2. tasks[i] \in Task
            BY DEF TypeOK
        <3>. QED
            BY <3>1, <3>2 DEF StoreStartTask, Task
    <2>. QED
        BY <1>2, <2>1, <2>2 DEF TaskState
<1>4. \A d \in Coll \ {c} : TaskState(d)' = TaskState(d)
    <2> SUFFICES ASSUME NEW d \in Coll \ {c} PROVE TaskState(d)' = TaskState(d)
        OBVIOUS
    <2>1. Outstanding(d)' = Outstanding(d)
        BY StartKeepsOutstanding
    <2>2. i \notin Outstanding(d)
        BY DEF Outstanding
    <2>3. \A j \in Outstanding(d) : tasks'[j] = tasks[j]
        BY <2>2 DEF StoreStartTask, Outstanding, TypeOK
    <2>. QED
        BY <2>1, <2>3, TaskStateFrame
<1>5. TaskStates' = [TaskStates EXCEPT ![c] = "running"]
    BY <1>1, <1>3, <1>4 DEF TaskStates
<1>6. Service!Start(c)
    BY <1>3, <1>5 DEF StoreStartTask, Service!Start, TaskStates
<1>. QED
    BY <1>1, <1>6 DEF Service!Next, Service!Lifecycle

(* The store completing a running row is the abstract completion of its   *)
(* collection's task, stamped now in the stats.                            *)
LEMMA CompleteRefines ==
    ASSUME IInv, NEW i \in DOMAIN tasks, StoreCompleteTask(i),
           NEW c \in Coll, c = tasks[i].coll
    PROVE  Service!Next
<1> USE DEF IInv
<1>1. i \in Outstanding(c)
    BY DEF StoreCompleteTask, Outstanding, TypeOK, Task
<1>2. Outstanding(c) = {i}
    BY <1>1, OnlyOutstanding
<1>3. TaskState(c) = "running" /\ TaskState(c)' = "free"
    <2>1. Outstanding(c)' = {}
        BY <1>1, <1>2, CompleteShrinksOutstanding DEF StoreCompleteTask,
           Outstanding, TypeOK
    <2>2. tasks[i].running
        BY DEF StoreCompleteTask
    <2>. QED
        BY <1>2, <2>1, <2>2 DEF TaskState
<1>4. \A d \in Coll \ {c} : TaskState(d)' = TaskState(d)
    <2> SUFFICES ASSUME NEW d \in Coll \ {c} PROVE TaskState(d)' = TaskState(d)
        OBVIOUS
    <2>1. i \notin Outstanding(d)
        BY DEF Outstanding
    <2>2. \A j \in DOMAIN tasks \ {i} : tasks'[j] = tasks[j]
        BY DEF StoreCompleteTask, TypeOK
    <2>3. Outstanding(d)' = Outstanding(d)
        BY <2>1, <2>2 DEF StoreCompleteTask, Outstanding, TypeOK, Task
    <2>4. \A j \in Outstanding(d) : tasks'[j] = tasks[j]
        BY <2>1, <2>2 DEF Outstanding
    <2>. QED
        BY <2>3, <2>4, TaskStateFrame
<1>5. TaskStates' = [TaskStates EXCEPT ![c] = "free"]
    BY <1>1, <1>3, <1>4 DEF TaskStates
<1>6. Service!Complete(c)
    BY <1>3, <1>5 DEF StoreCompleteTask, Service!Complete, TaskStates
<1>. QED
    BY <1>1, <1>6 DEF Service!Next, Service!Lifecycle

LEMMA StepRefines == IInv /\ [Next]_vars => [Service!Next]_(Service!avars)
<1> SUFFICES ASSUME IInv, [Next]_vars PROVE [Service!Next]_(Service!avars)
    OBVIOUS
<1>1. CASE Dispatch /\ tasks' = Append(tasks, NewTask(Head(elig)))
    <2>1. Head(elig) \in Coll
        BY <1>1 DEF Dispatch, IInv, TypeOK
    <2>. QED
        BY <1>1, <2>1, DispatchRefines
<1>2. CASE Dispatch /\ UNCHANGED <<tasks, sched>>
    BY <1>2, StoreStutter DEF Dispatch, storeVars
<1>3. CASE StartTick \/ (\E c \in Coll : CheckEligible(c)) \/ CountRunning
           \/ FinishTick \/ UNCHANGED vars
    BY <1>3, StoreStutter
       DEF StartTick, CheckEligible, CountRunning, FinishTick, vars, storeVars
<1>4. CASE \E i \in DOMAIN tasks : StoreStartTask(i)
    <2>. PICK i \in DOMAIN tasks : StoreStartTask(i)
        BY <1>4
    <2>1. tasks[i].coll \in Coll
        <3>1. tasks[i] \in Task
            BY DEF IInv, TypeOK
        <3>. QED
            BY <3>1 DEF Task
    <2>. QED
        BY <2>1, StartRefines
<1>5. CASE \E i \in DOMAIN tasks : StoreCompleteTask(i)
    <2>. PICK i \in DOMAIN tasks : StoreCompleteTask(i)
        BY <1>5
    <2>1. tasks[i].coll \in Coll
        <3>1. tasks[i] \in Task
            BY DEF IInv, TypeOK
        <3>. QED
            BY <3>1 DEF Task
    <2>. QED
        BY <2>1, CompleteRefines
<1>6. CASE \E c \in Coll, b \in BOOLEAN : SetEnabled(c, b)
    <2>. PICK c \in Coll, b \in BOOLEAN : SetEnabled(c, b)
        BY <1>6
    <2>1. UNCHANGED <<TaskStates, lastReorder, now>>
        BY OutstandingUnchanged, TaskStateFrame DEF SetEnabled, TaskStates
    <2>2. enabled' = [enabled EXCEPT ![c] = ~@]
        BY DEF SetEnabled, IInv, TypeOK
    <2>. QED
        BY <2>1, <2>2 DEF Service!Next, Service!Lifecycle, Service!Toggle,
           TaskStates
<1>7. CASE TimePasses
    <2>1. UNCHANGED <<TaskStates, lastReorder, enabled>>
        BY <1>7, OutstandingUnchanged, TaskStateFrame DEF TimePasses, TaskStates
    <2>. QED
        BY <1>7, <2>1 DEF TimePasses, Service!Next, Service!Tick, TaskStates
<1>. QED
    BY <1>1, <1>2, <1>3, <1>4, <1>5, <1>6, <1>7 DEF Next, Scheduler,
       Environment, Dispatch

(* The scheduler with the store and the CLI implements the abstract       *)
(* service: each task row the dispatch loop (scheduler.py line 94) creates *)
(* is an atomic creation for a free collection outside its re-reorder     *)
(* interval, whatever happened between the eligibility check and the       *)
(* dispatch call; every other step is a lifecycle step or a stutter.       *)
THEOREM Refinement == Spec => ImplementsService
<1>1. Spec => []IInv
    BY IInvHolds
<1>. QED
    BY <1>1, InitRefines, StepRefines, PTL
       DEF Spec, ImplementsService, Service!Spec

=============================================================================
