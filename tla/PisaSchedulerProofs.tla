------------------------ MODULE PisaSchedulerProofs ------------------------
(***************************************************************************)
(* Proofs about PisaScheduler, for every value of its constants.          *)
(***************************************************************************)
EXTENDS PisaScheduler, SeqLemmas, FiniteSetTheorems, TLAPS

(* The set of running task rows is finite, so current_running is a number. *)
LEMMA RunningCountType ==
    ASSUME tasks \in Seq(Task)
    PROVE  Cardinality(RunningTasks) \in Nat
<1>1. IsFiniteSet(1..Len(tasks))
    BY FS_Interval
<1>2. RunningTasks \subseteq 1..Len(tasks)
    BY DEF RunningTasks
<1>3. IsFiniteSet(RunningTasks)
    BY <1>1, <1>2, FS_Subset
<1>. QED
    BY <1>3, FS_CardinalityType

(* Each step keeps every variable in its type. *)
LEMMA TypeStep == TypeOK /\ [Next]_vars => TypeOK'
<1> SUFFICES ASSUME TypeOK, [Next]_vars PROVE TypeOK'
    OBVIOUS
<1> USE MaxConcurrentAssumption DEF TypeOK
<1>1. CASE StartTick
    BY <1>1 DEF StartTick, storeVars
<1>2. CASE \E c \in Coll : CheckEligible(c)
    <2>. PICK c \in Coll : CheckEligible(c)
        BY <1>2
    <2>1. elig' \in Seq(Coll)
        <3>1. CASE elig' = Append(elig, c)
            BY <3>1
        <3>2. CASE elig' = elig
            BY <3>2
        <3>. QED
            BY <3>1, <3>2 DEF CheckEligible
    <2>2. todo' \subseteq Coll /\ UNCHANGED <<storeVars, pc, curRunning, sched>>
        BY DEF CheckEligible
    <2>. QED
        BY <2>1, <2>2 DEF storeVars
<1>3. CASE CountRunning
    <2>1. Cardinality(RunningTasks) \in Nat
        BY RunningCountType
    <2>2. CASE pc' = "dispatch" /\ curRunning' = Cardinality(RunningTasks)
                /\ sched' = 0 /\ UNCHANGED elig
        BY <1>3, <2>1, <2>2 DEF CountRunning, storeVars
    <2>3. CASE pc' = "idle" /\ elig' = <<>> /\ UNCHANGED <<curRunning, sched>>
        BY <1>3, <2>3 DEF CountRunning, storeVars
    <2>. QED
        BY <1>3, <2>2, <2>3 DEF CountRunning
<1>4. CASE Dispatch
    <2>1. elig' \in Seq(Coll)
        BY <1>4 DEF Dispatch
    <2>2. tasks' \in Seq(Task) /\ sched' \in 0..MaxConcurrent
        <3>1. NewTask(Head(elig)) \in Task
            BY <1>4 DEF Dispatch, NewTask, Task
        <3>2. CASE Len(tasks) < MaxTasks
                   /\ tasks' = Append(tasks, NewTask(Head(elig)))
                   /\ sched' = sched + 1
            BY <1>4, <3>1, <3>2 DEF Dispatch
        <3>3. CASE UNCHANGED <<tasks, sched>>
            BY <3>3
        <3>. QED
            BY <1>4, <3>2, <3>3 DEF Dispatch
    <2>. QED
        BY <1>4, <2>1, <2>2 DEF Dispatch
<1>5. CASE FinishTick
    BY <1>5 DEF FinishTick, storeVars
<1>6. CASE \E i \in DOMAIN tasks : StoreStartTask(i) \/ StoreCompleteTask(i)
    <2>. PICK i \in DOMAIN tasks : StoreStartTask(i) \/ StoreCompleteTask(i)
        BY <1>6
    <2>1. tasks[i] \in Task
        OBVIOUS
    <2>2. CASE StoreStartTask(i)
        <3>1. [tasks[i] EXCEPT !.running = TRUE] \in Task
            BY <2>1 DEF Task
        <3>. QED
            BY <2>2, <3>1 DEF StoreStartTask, schedVars
    <2>3. CASE StoreCompleteTask(i)
        <3>2. lastReorder' \in [Coll -> Time]
            BY <2>3 DEF StoreCompleteTask, Task, Time
        <3>3. tasks' \in Seq(Task)
            BY <2>1, <2>3 DEF StoreCompleteTask, Task
        <3>. QED
            BY <2>3, <3>2, <3>3 DEF StoreCompleteTask, schedVars
    <2>. QED
        BY <2>2, <2>3
<1>7. CASE \E c \in Coll, b \in BOOLEAN : SetEnabled(c, b)
    BY <1>7 DEF SetEnabled, schedVars
<1>8. CASE TimePasses
    BY <1>8 DEF TimePasses, schedVars
<1>9. CASE UNCHANGED vars
    BY <1>9 DEF vars
<1>. QED
    BY <1>1, <1>2, <1>3, <1>4, <1>5, <1>6, <1>7, <1>8, <1>9
       DEF Next, Scheduler, Environment

(* The scheduler's and the store's variables always have their types. *)
THEOREM TypeCorrect == Spec => []TypeOK
<1>1. Init => TypeOK
    BY MaxConcurrentAssumption DEF Init, TypeOK, Time
<1>. QED
    BY <1>1, TypeStep, PTL DEF Spec

-----------------------------------------------------------------------------
(* The inductive invariant behind NoDuplicateDispatch.  Every collection  *)
(* in eligible_collections still has no pending or running task and no   *)
(* recent reordering (EligStillFree): nothing but this scheduler creates  *)
(* tasks, and the store only completes tasks that exist.  A collection    *)
(* is in the list at most once (IsInjective) and is not also among the    *)
(* rows still to check (TodoDisjoint), so the dispatch loop creates at   *)
(* most one task for it.                                                   *)
EligStillFree ==
    \A c \in Range(elig) : Outstanding(c) = {} /\ ~RecentlyReordered(c)

TodoDisjoint == todo \cap Range(elig) = {}

IInv ==
    /\ TypeOK
    /\ NoDuplicateDispatch
    /\ EligStillFree
    /\ IsInjective(elig)
    /\ TodoDisjoint

LEMMA InitIInv == Init => IInv
BY MaxConcurrentAssumption
   DEF Init, IInv, TypeOK, Time, NoDuplicateDispatch, Outstanding,
       EligStillFree, IsInjective, TodoDisjoint, Range


(* A step that leaves the task rows alone leaves every Outstanding set. *)
LEMMA OutstandingUnchanged ==
    ASSUME tasks' = tasks, NEW c
    PROVE  Outstanding(c)' = Outstanding(c)
BY DEF Outstanding

(* The start of a pending task keeps it outstanding. *)
LEMMA StartKeepsOutstanding ==
    ASSUME TypeOK, NEW i \in DOMAIN tasks, StoreStartTask(i), NEW c \in Coll
    PROVE  Outstanding(c)' = Outstanding(c)
BY DEF StoreStartTask, Outstanding, TypeOK, Task

(* The completion of a task removes at most that task. *)
LEMMA CompleteShrinksOutstanding ==
    ASSUME TypeOK, NEW i \in DOMAIN tasks, StoreCompleteTask(i), NEW c \in Coll
    PROVE  /\ Outstanding(c)' \subseteq Outstanding(c)
           /\ i \in Outstanding(tasks[i].coll)
BY DEF StoreCompleteTask, Outstanding, TypeOK, Task

(* A successful dispatch for h adds exactly one outstanding task, of h. *)
LEMMA AppendOutstanding ==
    ASSUME TypeOK, NEW h \in Coll,
           tasks' = Append(tasks, NewTask(h)), NEW c \in Coll
    PROVE  Outstanding(c)' = IF c = h THEN Outstanding(c) \cup {Len(tasks) + 1}
                                      ELSE Outstanding(c)
BY DEF Outstanding, NewTask, TypeOK, Task

LEMMA StepIInv == IInv /\ [Next]_vars => IInv'
<1> SUFFICES ASSUME IInv, [Next]_vars PROVE IInv'
    OBVIOUS
<1>0. TypeOK'
    BY TypeStep DEF IInv
<1> USE <1>0 DEF IInv
<1>1. CASE StartTick
    BY <1>1, OutstandingUnchanged
       DEF StartTick, storeVars, NoDuplicateDispatch, EligStillFree,
           TodoDisjoint, IsInjective, Range
<1>2. CASE \E c \in Coll : CheckEligible(c)
    <2>. PICK c \in Coll : CheckEligible(c)
        BY <1>2
    <2>1. NoDuplicateDispatch'
        BY OutstandingUnchanged DEF CheckEligible, storeVars, NoDuplicateDispatch
    <2>2. CASE ShouldSchedule(c) /\ elig' = Append(elig, c)
        <3>1. c \notin Range(elig)
            BY DEF CheckEligible, TodoDisjoint
        <3>2. Range(elig') = Range(elig) \cup {c}
            BY <2>2, RangeAppend DEF TypeOK
        <3>3. EligStillFree'
            BY <2>2, <3>2, OutstandingUnchanged
               DEF CheckEligible, storeVars, EligStillFree, ShouldSchedule,
                   RecentlyReordered
        <3>4. IsInjective(elig')
            BY <2>2, <3>1, InjectiveAppend DEF TypeOK
        <3>5. TodoDisjoint'
            BY <3>1, <3>2 DEF CheckEligible, TodoDisjoint
        <3>. QED
            BY <2>1, <3>3, <3>4, <3>5
    <2>3. CASE elig' = elig
        BY <2>1, <2>3, OutstandingUnchanged
           DEF CheckEligible, storeVars, EligStillFree, RecentlyReordered,
               TodoDisjoint
    <2>. QED
        BY <2>2, <2>3 DEF CheckEligible
<1>3. CASE CountRunning
    BY <1>3, OutstandingUnchanged
       DEF CountRunning, storeVars, NoDuplicateDispatch, EligStillFree,
           RecentlyReordered, TodoDisjoint, IsInjective, Range
<1>4. CASE Dispatch
    <2> DEFINE h == Head(elig)
    <2>1. /\ Range(elig') \subseteq Range(elig)
          /\ h \notin Range(elig')
          /\ IsInjective(elig')
        BY <1>4, InjectiveTail DEF Dispatch, TypeOK
    <2>2. h \in Range(elig) /\ h \in Coll
        BY <1>4 DEF Dispatch, Range, TypeOK
    <2>3. TodoDisjoint'
        BY <1>4, <2>1 DEF Dispatch, TodoDisjoint
    <2>4. CASE tasks' = Append(tasks, NewTask(h))
        <3>1. NoDuplicateDispatch'
            BY <2>2, <2>4, AppendOutstanding
               DEF EligStillFree, NoDuplicateDispatch
        <3>2. EligStillFree'
            <4> SUFFICES ASSUME NEW c \in Range(elig')
                         PROVE  Outstanding(c)' = {} /\ ~RecentlyReordered(c)'
                BY DEF EligStillFree
            <4>0. c \in Range(elig) /\ c # h
                BY <2>1
            <4>1. c \in Range(elig) /\ c # h /\ c \in Coll
                BY <4>0 DEF TypeOK, Range
            <4>2. Outstanding(c)' = Outstanding(c)
                BY <2>2, <2>4, <4>1, AppendOutstanding
            <4>3. RecentlyReordered(c)' = RecentlyReordered(c)
                BY <1>4 DEF Dispatch, RecentlyReordered
            <4>. QED
                BY <4>1, <4>2, <4>3 DEF EligStillFree
        <3>. QED
            BY <2>1, <2>3, <3>1, <3>2
    <2>5. CASE UNCHANGED <<tasks, sched>>
        BY <1>4, <2>1, <2>3, <2>5, OutstandingUnchanged
           DEF Dispatch, NoDuplicateDispatch, EligStillFree, RecentlyReordered
    <2>. QED
        BY <1>4, <2>4, <2>5 DEF Dispatch
<1>5. CASE FinishTick
    BY <1>5, OutstandingUnchanged
       DEF FinishTick, storeVars, NoDuplicateDispatch, EligStillFree,
           TodoDisjoint, IsInjective, Range
<1>6. CASE \E i \in DOMAIN tasks : StoreStartTask(i)
    <2>. PICK i \in DOMAIN tasks : StoreStartTask(i)
        BY <1>6
    <2>1. \A c \in Coll : Outstanding(c)' = Outstanding(c)
        BY StartKeepsOutstanding
    <2>2. \A c \in Coll : RecentlyReordered(c)' = RecentlyReordered(c)
        BY DEF StoreStartTask, RecentlyReordered
    <2>3. Range(elig) \subseteq Coll
        BY DEF TypeOK, Range
    <2>4. UNCHANGED <<elig, todo>>
        BY DEF StoreStartTask, schedVars
    <2>5. NoDuplicateDispatch'
        BY <2>1 DEF NoDuplicateDispatch
    <2>6. EligStillFree'
        BY <2>1, <2>2, <2>3, <2>4 DEF EligStillFree
    <2>7. TodoDisjoint' /\ IsInjective(elig')
        BY <2>4 DEF TodoDisjoint
    <2>. QED
        BY <2>5, <2>6, <2>7
<1>7. CASE \E i \in DOMAIN tasks : StoreCompleteTask(i)
    <2>. PICK i \in DOMAIN tasks : StoreCompleteTask(i)
        BY <1>7
    <2>1. NoDuplicateDispatch'
        BY CompleteShrinksOutstanding DEF NoDuplicateDispatch, TypeOK
    <2>2. \A c \in Range(elig) : c # tasks[i].coll
        BY CompleteShrinksOutstanding DEF EligStillFree, TypeOK, Task, Range
    <2>3. EligStillFree'
        <3> SUFFICES ASSUME NEW c \in Range(elig')
                     PROVE  Outstanding(c)' = {} /\ ~RecentlyReordered(c)'
            BY DEF EligStillFree
        <3>0. c \in Range(elig)
            BY DEF StoreCompleteTask, schedVars
        <3>1. c \in Range(elig) /\ c \in Coll /\ c # tasks[i].coll
            <4>1. c \in Coll
                BY <3>0 DEF TypeOK, Range
            <4>. QED
                BY <2>2, <3>0, <4>1
        <3>2. Outstanding(c)' = {}
            BY <3>1, CompleteShrinksOutstanding DEF EligStillFree
        <3>3. lastReorder'[c] = lastReorder[c]
            BY <3>1 DEF StoreCompleteTask, TypeOK
        <3>4. RecentlyReordered(c)' = RecentlyReordered(c)
            BY <3>3 DEF StoreCompleteTask, RecentlyReordered
        <3>. QED
            BY <3>1, <3>2, <3>4 DEF EligStillFree
    <2>. QED
        BY <2>1, <2>3 DEF StoreCompleteTask, schedVars, TodoDisjoint
<1>8. CASE \E c \in Coll, b \in BOOLEAN : SetEnabled(c, b)
    BY <1>8, OutstandingUnchanged
       DEF SetEnabled, schedVars, NoDuplicateDispatch, EligStillFree,
           RecentlyReordered, TodoDisjoint
<1>9. CASE TimePasses
    <2>1. \A c \in Coll : ~RecentlyReordered(c) => ~RecentlyReordered(c)'
        <3> SUFFICES ASSUME NEW c \in Coll, ~RecentlyReordered(c)
                     PROVE  ~RecentlyReordered(c)'
            OBVIOUS
        <3>1. lastReorder' = lastReorder /\ now' = now + 1 /\ now \in Nat
            BY <1>9 DEF TimePasses, TypeOK
        <3>2. lastReorder[c] \in Nat \cup {NoTime}
            BY DEF TypeOK, Time
        <3>. QED
            BY <3>1, <3>2, MinIntervalAssumption DEF RecentlyReordered
    <2>2. Range(elig) \subseteq Coll
        BY DEF TypeOK, Range
    <2>. QED
        BY <1>9, <2>1, <2>2, OutstandingUnchanged
           DEF TimePasses, schedVars, NoDuplicateDispatch, EligStillFree,
               TodoDisjoint
<1>10. CASE UNCHANGED vars
    BY <1>10, OutstandingUnchanged
       DEF vars, NoDuplicateDispatch, EligStillFree, RecentlyReordered,
           TodoDisjoint, IsInjective, Range
<1>. QED
    BY <1>1, <1>2, <1>3, <1>4, <1>5, <1>6, <1>7, <1>8, <1>9, <1>10
       DEF Next, Scheduler, Environment

(* A single scheduler never leaves two pending or running tasks for one  *)
(* collection, whatever the number of collections, the cap and the      *)
(* interval, and however the store and the operators interleave.        *)
THEOREM NoDuplicateDispatchHolds == Spec => []NoDuplicateDispatch
<1>1. IInv => NoDuplicateDispatch
    BY DEF IInv
<1>. QED
    BY InitIInv, StepIInv, <1>1, PTL DEF Spec


(* The scheduler's inductive invariant holds in every reachable state. *)
LEMMA IInvHolds == Spec => []IInv
BY InitIInv, StepIInv, PTL DEF Spec

(* Only a successful dispatch adds a task row, and it adds one for the    *)
(* head of eligible_collections.                                          *)
LEMMA StepInterval == IInv /\ [Next]_vars => [IntervalRespected]_vars
<1> SUFFICES ASSUME IInv, [Next]_vars PROVE IntervalRespected
    BY DEF IntervalRespected
<1> USE DEF IInv
<1>1. CASE Dispatch /\ tasks' = Append(tasks, NewTask(Head(elig)))
    <2> DEFINE h == Head(elig)
    <2>1. h \in Range(elig) /\ h \in Coll
        BY <1>1 DEF Dispatch, Range, TypeOK
    <2>2. ~RecentlyReordered(h)
        BY <2>1 DEF EligStillFree
    <2>3. lastReorder[h] = NoTime \/ now >= lastReorder[h] + MinInterval
        BY <2>1, <2>2, MinIntervalAssumption DEF RecentlyReordered, TypeOK, Time
    <2>4. tasks'[Len(tasks')].coll = h
        BY <1>1, <2>1 DEF NewTask, TypeOK
    <2>. QED
        BY <2>3, <2>4 DEF IntervalRespected
<1>2. CASE ~(Dispatch /\ tasks' = Append(tasks, NewTask(Head(elig))))
    <2>1. Len(tasks') # Len(tasks) + 1
        <3>1. CASE Dispatch
            BY <1>2, <3>1 DEF Dispatch
        <3>2. CASE \E i \in DOMAIN tasks : StoreStartTask(i) \/ StoreCompleteTask(i)
            BY <3>2 DEF StoreStartTask, StoreCompleteTask, TypeOK
        <3>3. CASE ~Dispatch /\ ~(\E i \in DOMAIN tasks : StoreStartTask(i)
                                                 \/ StoreCompleteTask(i))
            <4>1. tasks' = tasks
                BY <3>3 DEF Next, Scheduler, Environment, StartTick,
                   CheckEligible, CountRunning, FinishTick, SetEnabled,
                   TimePasses, storeVars, schedVars, vars
            <4>. QED
                BY <4>1 DEF TypeOK
        <3>. QED
            BY <3>1, <3>2, <3>3
    <2>. QED
        BY <2>1 DEF IntervalRespected
<1>. QED
    BY <1>1, <1>2

(* Every task the scheduler creates for a collection is created at least *)
(* MinInterval after its last completed reordering, for all constants.    *)
THEOREM DispatchRespectsIntervalHolds == Spec => DispatchRespectsInterval
BY IInvHolds, StepInterval, PTL DEF Spec, DispatchRespectsInterval

=============================================================================
