----------------------- MODULE PisaDispatchersProofs -----------------------
(***************************************************************************)
(* Proofs about PisaDispatchers, for every set of scheduler processes and *)
(* every value of the constants: the types, and OnePerScheduler (no       *)
(* scheduler process ever has two pending or running rows of one          *)
(* collection), whatever the other processes and the CLI do in between.   *)
(***************************************************************************)
EXTENDS PisaDispatchers, SeqLemmas, FiniteSetTheorems, TLAPS

(* A row the store creates for schedule_document_reordering is a row. *)
LEMMA NewTaskType ==
    ASSUME NEW c \in Coll
    PROVE  Store!NewTask(c) \in Store!Task
BY DEF Store!NewTask, Store!Task

(* A function updated at one point inside its range stays in its type. *)
LEMMA ExceptType ==
    ASSUME NEW S, NEW T, NEW f \in [S -> T], NEW x \in S, NEW v \in T
    PROVE  [f EXCEPT ![x] = v] \in [S -> T]
OBVIOUS

(* The store's cancel keeps the rows, and each of them a row. *)
LEMMA CancelType ==
    ASSUME tasks \in Seq(Store!Task), NEW c \in Coll
    PROVE  /\ StoreCancel(c) \in Seq(Store!Task)
           /\ DOMAIN StoreCancel(c) = DOMAIN tasks
<1>1. ASSUME NEW i \in DOMAIN tasks PROVE StoreCancel(c)[i] \in Store!Task
    <2>1. tasks[i] \in Store!Task
        OBVIOUS
    <2>2. [coll |-> c, running |-> FALSE, completed |-> TRUE] \in Store!Task
        BY DEF Store!Task
    <2>. QED
        BY <2>1, <2>2 DEF StoreCancel
<1>2. DOMAIN StoreCancel(c) = 1..Len(tasks)
    BY DEF StoreCancel
<1>3. StoreCancel(c) \in [1..Len(tasks) -> Store!Task]
    BY <1>1, <1>2 DEF StoreCancel
<1>. QED
    BY <1>2, <1>3

(* Each step keeps every variable in its type. *)
LEMMA TypeStep == TypeOK /\ [Next]_vars => TypeOK'
<1> SUFFICES ASSUME TypeOK, [Next]_vars PROVE TypeOK'
    OBVIOUS
<1> USE StoreAssumption DEF TypeOK, Store!TypeOK
<1>1. ASSUME NEW k \in Ctl, StartTick(k) PROVE TypeOK'
    BY <1>1 DEF StartTick, storeVars
<1>2. ASSUME NEW k \in Ctl, NEW c \in Coll, CheckEligible(k, c) PROVE TypeOK'
    <2>1. elig' \in [Ctl -> Seq(Coll)]
        <3>1. CASE elig' = [elig EXCEPT ![k] = Append(elig[k], c)]
            <4>1. Append(elig[k], c) \in Seq(Coll)
                OBVIOUS
            <4>. QED
                BY <3>1, <4>1, ExceptType
        <3>2. CASE UNCHANGED elig
            BY <3>2
        <3>. QED
            BY <1>2, <3>1, <3>2 DEF CheckEligible
    <2>2. todo' \in [Ctl -> SUBSET Coll]
        <3>1. todo[k] \ {c} \in SUBSET Coll
            OBVIOUS
        <3>. QED
            BY <1>2, <3>1, ExceptType DEF CheckEligible
    <2>. QED
        BY <1>2, <2>1, <2>2 DEF CheckEligible, storeVars
<1>3. ASSUME NEW k \in Ctl, CountRunning(k) PROVE TypeOK'
    <2>1. Cardinality(Store!RunningTasks) \in Nat
        <3>1. Store!RunningTasks \subseteq 1..Len(tasks)
            BY DEF Store!RunningTasks
        <3>2. IsFiniteSet(1..Len(tasks))
            BY FS_Interval
        <3>3. IsFiniteSet(Store!RunningTasks)
            BY <3>1, <3>2, FS_Subset
        <3>. QED
            BY <3>3, FS_CardinalityType
    <2>2. curRunning' \in [Ctl -> Nat] /\ sched' \in [Ctl -> 0..MaxConcurrent]
        BY <1>3, <2>1 DEF CountRunning
    <2>3. pc' \in [Ctl -> {"idle", "check", "dispatch"}] /\ elig' \in [Ctl -> Seq(Coll)]
        BY <1>3 DEF CountRunning
    <2>. QED
        BY <1>3, <2>2, <2>3 DEF CountRunning, storeVars
<1>4. ASSUME NEW k \in Ctl, Dispatch(k) PROVE TypeOK'
    <2>1. Head(elig[k]) \in Coll
        BY <1>4 DEF Dispatch
    <2>2. elig' \in [Ctl -> Seq(Coll)]
        BY <1>4 DEF Dispatch
    <2>3. CASE /\ Len(tasks) < MaxTasks
               /\ tasks' = Append(tasks, Store!NewTask(Head(elig[k])))
               /\ origin' = Append(origin, k)
               /\ sched' = [sched EXCEPT ![k] = @ + 1]
        <3>1. tasks' \in Seq(Store!Task) /\ Len(tasks') = Len(tasks) + 1
            BY <2>1, <2>3, NewTaskType
        <3>2. origin' \in Seq(Ctl \cup {"cli"}) /\ Len(origin') = Len(origin) + 1
            BY <2>3
        <3>3. sched' \in [Ctl -> 0..MaxConcurrent]
            BY <1>4, <2>3 DEF Dispatch
        <3>. QED
            BY <1>4, <2>2, <3>1, <3>2, <3>3 DEF Dispatch
    <2>4. CASE UNCHANGED <<tasks, origin, sched>>
        BY <1>4, <2>2, <2>4 DEF Dispatch
    <2>. QED
        BY <1>4, <2>3, <2>4 DEF Dispatch
<1>5. ASSUME NEW k \in Ctl, FinishTick(k) PROVE TypeOK'
    BY <1>5 DEF FinishTick, storeVars
<1>6. ASSUME NEW c \in Coll, CliSchedule(c) PROVE TypeOK'
    <2>1. CASE /\ Len(tasks) < MaxTasks
               /\ tasks' = Append(tasks, Store!NewTask(c))
               /\ origin' = Append(origin, "cli")
        BY <1>6, <2>1, NewTaskType DEF CliSchedule, localVars
    <2>2. CASE UNCHANGED <<tasks, origin>>
        BY <1>6, <2>2 DEF CliSchedule, localVars
    <2>. QED
        BY <1>6, <2>1, <2>2 DEF CliSchedule
<1>7. ASSUME NEW c \in Coll, CliCancel(c) PROVE TypeOK'
    <2>1. tasks' \in Seq(Store!Task) /\ Len(tasks') = Len(tasks)
        <3>1. CASE tasks' = StoreCancel(c)
            BY <3>1, CancelType
        <3>2. CASE UNCHANGED tasks
            BY <3>2
        <3>. QED
            BY <1>7, <3>1, <3>2 DEF CliCancel
    <2>. QED
        BY <1>7, <2>1 DEF CliCancel, localVars
<1>8. ASSUME NEW i \in DOMAIN tasks, Store!StoreStartTask(i),
          UNCHANGED <<origin, localVars>> PROVE TypeOK'
    <2>1. tasks[i] \in Store!Task
        OBVIOUS
    <2>2. [tasks[i] EXCEPT !.running = TRUE] \in Store!Task
        BY <2>1 DEF Store!Task
    <2>3. tasks' \in Seq(Store!Task) /\ Len(tasks') = Len(tasks)
        BY <1>8, <2>2 DEF Store!StoreStartTask
    <2>. QED
        BY <1>8, <2>3 DEF Store!StoreStartTask, localVars
<1>9. ASSUME NEW i \in DOMAIN tasks, Store!StoreCompleteTask(i),
          UNCHANGED <<origin, localVars>> PROVE TypeOK'
    <2>1. tasks[i] \in Store!Task
        OBVIOUS
    <2>2. lastReorder' \in [Coll -> Store!Time]
        BY <1>9, <2>1 DEF Store!StoreCompleteTask, Store!Task, Store!Time
    <2>3. tasks' \in Seq(Store!Task) /\ Len(tasks') = Len(tasks)
        BY <1>9, <2>1 DEF Store!StoreCompleteTask, Store!Task
    <2>. QED
        BY <1>9, <2>2, <2>3 DEF Store!StoreCompleteTask, localVars
<1>10. ASSUME NEW c \in Coll, NEW b \in BOOLEAN, Store!SetEnabled(c, b),
              UNCHANGED <<origin, localVars>>
       PROVE TypeOK'
    BY <1>10 DEF Store!SetEnabled, localVars
<1>11. CASE Store!TimePasses /\ UNCHANGED <<origin, localVars>>
    BY <1>11 DEF Store!TimePasses, localVars
<1>12. CASE UNCHANGED vars
    BY <1>12 DEF vars
<1>. QED
    <2>1. CASE \E k \in Ctl : Scheduler(k)
        BY <2>1, <1>1, <1>2, <1>3, <1>4, <1>5 DEF Scheduler
    <2>2. CASE Cli
        BY <2>2, <1>6, <1>7 DEF Cli
    <2>3. CASE Environment
        <3>1. UNCHANGED <<origin, localVars>>
            BY <2>3 DEF Environment
        <3>. QED
            BY <2>3, <3>1, <1>8, <1>9, <1>10, <1>11 DEF Environment, localVars
    <2>. QED
        BY <1>12, <2>1, <2>2, <2>3 DEF Next

(* The store's, the processes' and the CLI's variables always have their  *)
(* types, and origin names the creator of every task row.                 *)
THEOREM TypeCorrect == Spec => []TypeOK
<1>1. Init => TypeOK
    BY StoreAssumption
       DEF Init, Store!Init, TypeOK, Store!TypeOK, Store!Time
<1>. QED
    BY <1>1, TypeStep, PTL DEF Spec

(* The tasks of collection c that are pending or running. *)
Out(c) == Store!Outstanding(c)

(* Scheduler k has at most one pending or running row of each collection. *)
OneAt(k) ==
    \A c \in Coll : \A i, j \in Out(c) : origin[i] = k /\ origin[j] = k => i = j

(* No collection in k's eligible_collections has a pending or running row *)
(* that k created.                                                        *)
OwnFreeAt(k) == \A c \in Range(elig[k]) : \A i \in Out(c) : origin[i] # k

(* Every collection in scheduler k's eligible_collections has no pending  *)
(* or running row that k created: k found it free at its check, and since *)
(* then only the other processes and the CLI may have created rows of it.  *)
OwnFree == \A k \in Ctl : OwnFreeAt(k)

(* A collection is in k's list at most once, and not also still to check. *)
EligInjective == \A k \in Ctl : IsInjective(elig[k])

TodoDisjoint == \A k \in Ctl : todo[k] \cap Range(elig[k]) = {}

IInv ==
    /\ TypeOK
    /\ OnePerScheduler
    /\ OwnFree
    /\ EligInjective
    /\ TodoDisjoint

(* The inductive invariant holds initially: no rows, empty lists. *)
LEMMA InitIInv == Init => IInv
<1> SUFFICES ASSUME Init PROVE IInv
    OBVIOUS
<1>1. TypeOK
    BY StoreAssumption DEF Init, Store!Init, TypeOK, Store!TypeOK, Store!Time
<1>2. \A c \in Coll : Out(c) = {}
    BY DEF Init, Store!Init, Out, Store!Outstanding
<1>3. \A k \in Ctl : elig[k] = <<>> /\ Range(elig[k]) = {}
    BY DEF Init, Range
<1>4. OnePerScheduler /\ OwnFree
    <2>1. OnePerScheduler
        BY <1>2 DEF OnePerScheduler, Out
    <2>2. OwnFree
        BY <1>3 DEF OwnFree, OwnFreeAt
    <2>. QED
        BY <2>1, <2>2
<1>5. EligInjective /\ TodoDisjoint
    BY <1>3 DEF EligInjective, IsInjective, TodoDisjoint, Range
<1>. QED
    BY <1>1, <1>4, <1>5 DEF IInv

-----------------------------------------------------------------------------
(* How each kind of step changes the pending or running rows. *)

LEMMA OutInDomain ==
    ASSUME NEW c PROVE Out(c) \subseteq DOMAIN tasks
BY DEF Out, Store!Outstanding

LEMMA OutUnchanged ==
    ASSUME tasks' = tasks, NEW c PROVE Out(c)' = Out(c)
BY DEF Out, Store!Outstanding

(* A created row of x is the only new pending or running row. *)
LEMMA OutAppend ==
    ASSUME TypeOK, NEW x \in Coll, tasks' = Append(tasks, Store!NewTask(x)),
           NEW c \in Coll
    PROVE  Out(c)' = IF c = x THEN Out(c) \cup {Len(tasks) + 1} ELSE Out(c)
BY DEF Out, Store!Outstanding, Store!NewTask, TypeOK, Store!TypeOK, Store!Task

(* The cancel only ends rows. *)
LEMMA OutCancel ==
    ASSUME TypeOK, NEW x \in Coll, tasks' = StoreCancel(x), NEW c \in Coll
    PROVE  Out(c)' \subseteq Out(c)
BY DEF Out, Store!Outstanding, StoreCancel, TypeOK, Store!TypeOK, Store!Task

LEMMA OutStart ==
    ASSUME TypeOK, NEW i \in DOMAIN tasks, Store!StoreStartTask(i), NEW c \in Coll
    PROVE  Out(c)' = Out(c)
BY DEF Out, Store!Outstanding, Store!StoreStartTask, TypeOK, Store!TypeOK,
       Store!Task

LEMMA OutComplete ==
    ASSUME TypeOK, NEW i \in DOMAIN tasks, Store!StoreCompleteTask(i),
           NEW c \in Coll
    PROVE  Out(c)' \subseteq Out(c)
BY DEF Out, Store!Outstanding, Store!StoreCompleteTask, TypeOK,
       Store!TypeOK, Store!Task

(* A step in which k creates no row and k's list only shrinks keeps both  *)
(* per-scheduler facts of k: every new pending or running row was created *)
(* by someone else, and the creators of the old rows stay as they were.   *)
LEMMA OthersStep ==
    ASSUME TypeOK, TypeOK', NEW k \in Ctl, OneAt(k), OwnFreeAt(k),
           \A c \in Coll : \A i \in Out(c)' : i \in Out(c) \/ origin'[i] # k,
           \A i \in DOMAIN tasks : origin'[i] = origin[i],
           Range(elig'[k]) \subseteq Range(elig[k])
    PROVE  OneAt(k)' /\ OwnFreeAt(k)'
<1>1. \A c \in Coll : \A i \in Out(c)' : origin'[i] = k => i \in Out(c) /\ origin[i] = k
    BY OutInDomain
<1>2. OneAt(k)'
    BY <1>1 DEF OneAt
<1>3. Range(elig[k]) \subseteq Coll
    BY DEF TypeOK, Range
<1>4. OwnFreeAt(k)'
    BY <1>1, <1>3 DEF OwnFreeAt
<1>. QED
    BY <1>2, <1>4


(* IInv read scheduler by scheduler, and back. *)
LEMMA IInvPerScheduler ==
    ASSUME IInv PROVE \A k \in Ctl : OneAt(k) /\ OwnFreeAt(k)
BY DEF IInv, OnePerScheduler, OneAt, Out, OwnFree

LEMMA ConcludeIInv ==
    ASSUME TypeOK', \A k \in Ctl : OneAt(k)' /\ OwnFreeAt(k)',
           EligInjective', TodoDisjoint'
    PROVE  IInv'
BY DEF IInv, OnePerScheduler, OneAt, Out, OwnFree

(* A step of the CLI or of the store: every new pending or running row    *)
(* was created by no scheduler, old rows keep their creator, and no       *)
(* scheduler's locals change.                                              *)
LEMMA CreatorsStep ==
    ASSUME IInv, TypeOK',
           \A c \in Coll : \A i \in Out(c)' : i \in Out(c) \/ origin'[i] \notin Ctl,
           \A i \in DOMAIN tasks : origin'[i] = origin[i],
           UNCHANGED <<elig, todo>>
    PROVE  IInv'
<1>1. \A k \in Ctl : OneAt(k)' /\ OwnFreeAt(k)'
    <2> SUFFICES ASSUME NEW k \in Ctl PROVE OneAt(k)' /\ OwnFreeAt(k)'
        OBVIOUS
    <2>1. OneAt(k) /\ OwnFreeAt(k)
        BY IInvPerScheduler
    <2>. QED
        BY <2>1, OthersStep DEF IInv
<1>2. EligInjective' /\ TodoDisjoint'
    BY DEF IInv, EligInjective, TodoDisjoint
<1>. QED
    BY <1>1, <1>2, ConcludeIInv

(* A step of scheduler k0 that creates no row and leaves k0's list with a *)
(* smaller range, injective and disjoint from what k0 has left to check.  *)
LEMMA LocalStep ==
    ASSUME IInv, TypeOK', UNCHANGED <<tasks, origin>>, NEW k0 \in Ctl,
           \A k \in Ctl \ {k0} : elig'[k] = elig[k] /\ todo'[k] = todo[k],
           Range(elig'[k0]) \subseteq Range(elig[k0]),
           IsInjective(elig'[k0]),
           todo'[k0] \cap Range(elig'[k0]) = {}
    PROVE  IInv'
<1>1. \A k \in Ctl : OneAt(k)' /\ OwnFreeAt(k)'
    <2> SUFFICES ASSUME NEW k \in Ctl PROVE OneAt(k)' /\ OwnFreeAt(k)'
        OBVIOUS
    <2>1. OneAt(k) /\ OwnFreeAt(k)
        BY IInvPerScheduler
    <2>2. \A c \in Coll : Out(c)' = Out(c)
        BY OutUnchanged
    <2>3. Range(elig'[k]) \subseteq Range(elig[k])
        BY DEF Range
    <2>. QED
        BY <2>1, <2>2, <2>3, OthersStep DEF IInv
<1>2. EligInjective' /\ TodoDisjoint'
    BY DEF IInv, EligInjective, TodoDisjoint
<1>. QED
    BY <1>1, <1>2, ConcludeIInv


(* Scheduler k0 finds c0 eligible (scheduler.py line 80): c0 has no       *)
(* pending or running row at all, and was not in k0's list, being still   *)
(* to check.                                                               *)
LEMMA CheckAppendStep ==
    ASSUME IInv, TypeOK', NEW k0 \in Ctl, NEW c0 \in Coll, CheckEligible(k0, c0),
           Store!ShouldSchedule(c0),
           elig' = [elig EXCEPT ![k0] = Append(elig[k0], c0)]
    PROVE  IInv'
<1> USE DEF IInv
<1>1. UNCHANGED <<tasks, origin>> /\ todo' = [todo EXCEPT ![k0] = todo[k0] \ {c0}]
    BY DEF CheckEligible, storeVars
<1>2. Out(c0) = {}
    BY DEF Store!ShouldSchedule, Out
<1>3. c0 \notin Range(elig[k0])
    BY DEF CheckEligible, TodoDisjoint
<1>4. Range(elig'[k0]) = Range(elig[k0]) \cup {c0}
    BY RangeAppend DEF TypeOK
<1>5. \A k \in Ctl : OneAt(k)' /\ OwnFreeAt(k)'
    <2> SUFFICES ASSUME NEW k \in Ctl PROVE OneAt(k)' /\ OwnFreeAt(k)'
        OBVIOUS
    <2>1. OneAt(k) /\ OwnFreeAt(k)
        BY IInvPerScheduler
    <2>2. \A c \in Coll : Out(c)' = Out(c)
        BY <1>1, OutUnchanged
    <2>3. OneAt(k)'
        BY <1>1, <2>1, <2>2 DEF OneAt
    <2>4. ASSUME k = k0 PROVE OwnFreeAt(k)'
        <3> SUFFICES ASSUME NEW c \in Range(elig'[k0]), NEW i \in Out(c)'
                     PROVE  origin'[i] # k0
            BY <2>4 DEF OwnFreeAt
        <3>1. CASE c = c0
            BY <1>2, <2>2, <3>1
        <3>2. CASE c \in Range(elig[k0])
            <4>1. c \in Coll
                BY <3>2 DEF TypeOK, Range
            <4>. QED
                BY <1>1, <2>1, <2>2, <2>4, <3>2, <4>1 DEF OwnFreeAt
        <3>. QED
            BY <1>4, <3>1, <3>2
    <2>5. ASSUME k # k0 PROVE OwnFreeAt(k)'
        <3>1. elig'[k] = elig[k]
            BY <2>5 DEF TypeOK
        <3>2. Range(elig[k]) \subseteq Coll
            BY DEF TypeOK, Range
        <3>. QED
            BY <1>1, <2>1, <2>2, <3>1, <3>2 DEF OwnFreeAt
    <2>. QED
        BY <2>3, <2>4, <2>5
<1>6. EligInjective'
    <2>1. IsInjective(elig'[k0])
        BY <1>3, InjectiveAppend DEF EligInjective, TypeOK
    <2>. QED
        BY <2>1 DEF EligInjective, TypeOK
<1>7. TodoDisjoint'
    <2>1. todo'[k0] \cap Range(elig'[k0]) = {}
        BY <1>1, <1>4 DEF TodoDisjoint, TypeOK
    <2>. QED
        BY <1>1, <2>1 DEF TodoDisjoint, TypeOK
<1>. QED
    BY <1>5, <1>6, <1>7, ConcludeIInv

(* Scheduler k0 creates the row of the head h of its list (line 94).  By  *)
(* OwnFreeAt(k0), h has no pending or running row of k0's, so the new row *)
(* is k0's only one; every other scheduler sees a row created by k0.       *)
LEMMA DispatchCreateStep ==
    ASSUME IInv, TypeOK', NEW k0 \in Ctl, Dispatch(k0),
           NEW h \in Coll, h = Head(elig[k0]),
           tasks' = Append(tasks, Store!NewTask(h)),
           origin' = Append(origin, k0)
    PROVE  IInv'
<1> USE DEF IInv
<1>1. /\ elig' = [elig EXCEPT ![k0] = Tail(elig[k0])]
      /\ UNCHANGED todo
      /\ elig[k0] # <<>>
    BY DEF Dispatch
<1>2. /\ Range(elig'[k0]) \subseteq Range(elig[k0])
      /\ h \notin Range(elig'[k0])
      /\ IsInjective(elig'[k0])
    BY <1>1, InjectiveTail DEF EligInjective, TypeOK
<1>3. h \in Range(elig[k0])
    BY <1>1 DEF Range, TypeOK
<1>. DEFINE n == Len(tasks) + 1
<1>4. /\ origin'[n] = k0
      /\ \A i \in DOMAIN tasks : origin'[i] = origin[i]
      /\ \A c \in Coll : Out(c)' \subseteq Out(c) \cup {n}
      /\ \A c \in Coll \ {h} : Out(c)' = Out(c)
    <2>1. Len(origin) = Len(tasks) /\ origin \in Seq(Ctl \cup {"cli"})
        BY DEF TypeOK
    <2>2. origin'[n] = k0 /\ \A i \in DOMAIN tasks : origin'[i] = origin[i]
        BY <2>1 DEF TypeOK, Store!TypeOK
    <2>3. ASSUME NEW c \in Coll
          PROVE  Out(c)' = IF c = h THEN Out(c) \cup {n} ELSE Out(c)
        BY OutAppend
    <2>. QED
        BY <2>2, <2>3
<1>5. \A k \in Ctl \ {k0} : OneAt(k)' /\ OwnFreeAt(k)'
    <2> SUFFICES ASSUME NEW k \in Ctl \ {k0} PROVE OneAt(k)' /\ OwnFreeAt(k)'
        OBVIOUS
    <2>1. OneAt(k) /\ OwnFreeAt(k)
        BY IInvPerScheduler
    <2>2. Range(elig'[k]) \subseteq Range(elig[k]) /\ Range(elig[k]) \subseteq Coll
        BY <1>1 DEF Range, TypeOK
    <2>3. \A c \in Coll : \A i \in Out(c)' : origin'[i] = k => i \in Out(c) /\ origin[i] = k
        BY <1>4, OutInDomain
    <2>4. OneAt(k)'
        BY <2>1, <2>3 DEF OneAt
    <2>5. OwnFreeAt(k)'
        BY <2>1, <2>2, <2>3 DEF OwnFreeAt
    <2>. QED
        BY <2>4, <2>5
<1>6. OneAt(k0)'
    <2> SUFFICES ASSUME NEW c \in Coll, NEW i \in Out(c)', NEW j \in Out(c)',
                        origin'[i] = k0, origin'[j] = k0
                 PROVE  i = j
        BY DEF OneAt
    <2>1. OneAt(k0) /\ OwnFreeAt(k0)
        BY IInvPerScheduler
    <2>2. CASE c = h
        <3>1. \A x \in Out(h) : origin'[x] # k0
            BY <1>3, <1>4, <2>1, OutInDomain DEF OwnFreeAt
        <3>. QED
            BY <1>4, <2>2, <3>1
    <2>3. CASE c # h
        BY <1>4, <2>1, <2>3, OutInDomain DEF OneAt
    <2>. QED
        BY <2>2, <2>3
<1>7. OwnFreeAt(k0)'
    <2> SUFFICES ASSUME NEW c \in Range(elig'[k0]), NEW i \in Out(c)'
                 PROVE  origin'[i] # k0
        BY DEF OwnFreeAt
    <2>1. OwnFreeAt(k0)
        BY IInvPerScheduler
    <2>2. c \in Range(elig[k0]) /\ c # h
        BY <1>2
    <2>3. c \in Coll
        BY <2>2 DEF TypeOK, Range
    <2>4. i \in Out(c) /\ i \in DOMAIN tasks
        BY <1>4, <2>2, <2>3, OutInDomain
    <2>5. origin[i] # k0
        BY <2>1, <2>2, <2>4 DEF OwnFreeAt
    <2>. QED
        BY <1>4, <2>4, <2>5
<1>8. EligInjective' /\ TodoDisjoint'
    BY <1>1, <1>2 DEF EligInjective, TodoDisjoint, TypeOK
<1>. QED
    BY <1>5, <1>6, <1>7, <1>8, ConcludeIInv

(* A row the CLI creates (cli.py's schedule command) is created by no     *)
(* scheduler process.                                                       *)
LEMMA CliAppendStep ==
    ASSUME IInv, TypeOK', NEW x \in Coll,
           tasks' = Append(tasks, Store!NewTask(x)),
           origin' = Append(origin, "cli"),
           UNCHANGED <<elig, todo>>
    PROVE  IInv'
<1>1. Len(origin) = Len(tasks) /\ origin \in Seq(Ctl \cup {"cli"})
    BY DEF IInv, TypeOK
<1>2. /\ origin'[Len(tasks) + 1] \notin Ctl
      /\ \A i \in DOMAIN tasks : origin'[i] = origin[i]
    BY <1>1, CtlAssumption DEF IInv, TypeOK, Store!TypeOK
<1>3. \A c \in Coll : \A i \in Out(c)' : i \in Out(c) \/ origin'[i] \notin Ctl
    <2> SUFFICES ASSUME NEW c \in Coll
                 PROVE  \A i \in Out(c)' : i \in Out(c) \/ origin'[i] \notin Ctl
        OBVIOUS
    <2>1. Out(c)' \subseteq Out(c) \cup {Len(tasks) + 1}
        BY OutAppend DEF IInv
    <2>. QED
        BY <1>2, <2>1
<1>. QED
    BY <1>2, <1>3, CreatorsStep

(* Each step keeps the inductive invariant. *)
LEMMA StepIInv == IInv /\ [Next]_vars => IInv'
<1> SUFFICES ASSUME IInv, [Next]_vars PROVE IInv'
    OBVIOUS
<1>0. TypeOK /\ TypeOK' /\ \A k \in Ctl : IsInjective(elig[k])
    BY TypeStep DEF IInv, EligInjective
<1>1. ASSUME NEW k0 \in Ctl, StartTick(k0) PROVE IInv'
    <2>1. elig'[k0] = <<>> /\ Range(<<>>) = {} /\ IsInjective(<<>>)
        BY <1>0, <1>1 DEF StartTick, Range, IsInjective, TypeOK
    <2>. QED
        BY <1>0, <1>1, <2>1, LocalStep DEF StartTick, storeVars
<1>2. ASSUME NEW k0 \in Ctl, NEW c0 \in Coll, CheckEligible(k0, c0) PROVE IInv'
    <2>1. CASE Store!ShouldSchedule(c0) /\ elig' = [elig EXCEPT ![k0] = Append(@, c0)]
        BY <1>0, <1>2, <2>1, CheckAppendStep
    <2>2. CASE UNCHANGED elig
        <3>1. todo'[k0] \cap Range(elig'[k0]) = {}
            BY <1>0, <1>2, <2>2 DEF CheckEligible, IInv, TodoDisjoint
        <3>2. \A k \in Ctl \ {k0} : todo'[k] = todo[k]
            BY <1>0, <1>2 DEF CheckEligible, TypeOK
        <3>. QED
            BY <1>0, <1>2, <2>2, <3>1, <3>2, LocalStep DEF CheckEligible, storeVars
    <2>. QED
        BY <1>2, <2>1, <2>2 DEF CheckEligible
<1>3. ASSUME NEW k0 \in Ctl, CountRunning(k0) PROVE IInv'
    <2>1. UNCHANGED <<tasks, origin, todo>>
        BY <1>3 DEF CountRunning, storeVars
    <2>2. CASE UNCHANGED elig
        BY <1>0, <2>1, <2>2, LocalStep DEF IInv, TodoDisjoint
    <2>3. CASE elig' = [elig EXCEPT ![k0] = <<>>]
        <3>1. elig'[k0] = <<>> /\ Range(<<>>) = {} /\ IsInjective(<<>>)
            BY <1>0, <2>3 DEF Range, IsInjective, TypeOK
        <3>. QED
            BY <1>0, <2>1, <2>3, <3>1, LocalStep
    <2>. QED
        BY <1>3, <2>2, <2>3 DEF CountRunning
<1>4. ASSUME NEW k0 \in Ctl, Dispatch(k0) PROVE IInv'
    <2>1. elig[k0] # <<>> /\ elig[k0] \in Seq(Coll)
        BY <1>0, <1>4 DEF Dispatch, TypeOK
    <2>2. Head(elig[k0]) \in Coll
        BY <2>1
    <2>3. CASE /\ tasks' = Append(tasks, Store!NewTask(Head(elig[k0])))
               /\ origin' = Append(origin, k0)
        BY <1>0, <1>4, <2>2, <2>3, DispatchCreateStep
    <2>4. CASE UNCHANGED <<tasks, origin>>
        <3>1. elig' = [elig EXCEPT ![k0] = Tail(elig[k0])] /\ UNCHANGED todo
            BY <1>4 DEF Dispatch
        <3>2. /\ Range(elig'[k0]) \subseteq Range(elig[k0])
              /\ IsInjective(elig'[k0])
            BY <1>0, <2>1, <3>1, InjectiveTail DEF TypeOK
        <3>3. todo'[k0] \cap Range(elig'[k0]) = {}
            BY <3>1, <3>2 DEF IInv, TodoDisjoint
        <3>. QED
            BY <1>0, <2>4, <3>1, <3>2, <3>3, LocalStep DEF TypeOK
    <2>. QED
        BY <1>4, <2>3, <2>4 DEF Dispatch
<1>5. ASSUME NEW k0 \in Ctl, FinishTick(k0) PROVE IInv'
    <2>1. elig'[k0] = <<>> /\ Range(<<>>) = {} /\ IsInjective(<<>>)
        BY <1>0, <1>5 DEF FinishTick, Range, IsInjective, TypeOK
    <2>. QED
        BY <1>0, <1>5, <2>1, LocalStep DEF FinishTick, storeVars
<1>6. ASSUME NEW c \in Coll, CliSchedule(c) PROVE IInv'
    <2>1. UNCHANGED <<elig, todo>>
        BY <1>6 DEF CliSchedule, localVars
    <2>2. CASE tasks' = Append(tasks, Store!NewTask(c)) /\ origin' = Append(origin, "cli")
        BY <1>0, <2>1, <2>2, CliAppendStep
    <2>3. CASE UNCHANGED <<tasks, origin>>
        BY <1>0, <2>1, <2>3, OutUnchanged, CreatorsStep
    <2>. QED
        BY <1>6, <2>2, <2>3 DEF CliSchedule
<1>7. ASSUME NEW c \in Coll, CliCancel(c) PROVE IInv'
    <2>1. UNCHANGED <<elig, todo, origin>>
        BY <1>7 DEF CliCancel, localVars
    <2>2. \A x \in Coll : Out(x)' \subseteq Out(x)
        BY <1>0, <1>7, OutCancel, OutUnchanged DEF CliCancel
    <2>. QED
        BY <1>0, <2>1, <2>2, CreatorsStep
<1>8. ASSUME UNCHANGED <<origin, localVars>>,
             \/ \E i \in DOMAIN tasks :
                    Store!StoreStartTask(i) \/ Store!StoreCompleteTask(i)
             \/ \E c \in Coll, b \in BOOLEAN : Store!SetEnabled(c, b)
             \/ Store!TimePasses
      PROVE IInv'
    <2>1. UNCHANGED <<elig, todo>>
        BY <1>8 DEF localVars
    <2>2. \A x \in Coll : Out(x)' \subseteq Out(x)
        <3>1. CASE \E i \in DOMAIN tasks : Store!StoreStartTask(i)
            BY <1>0, <3>1, OutStart
        <3>2. CASE \E i \in DOMAIN tasks : Store!StoreCompleteTask(i)
            BY <1>0, <3>2, OutComplete
        <3>3. CASE \E c \in Coll, b \in BOOLEAN : Store!SetEnabled(c, b)
            BY <3>3, OutUnchanged DEF Store!SetEnabled
        <3>4. CASE Store!TimePasses
            BY <3>4, OutUnchanged DEF Store!TimePasses
        <3>. QED
            BY <1>8, <3>1, <3>2, <3>3, <3>4
    <2>. QED
        BY <1>0, <1>8, <2>1, <2>2, CreatorsStep
<1>9. CASE UNCHANGED vars
    <2>1. UNCHANGED <<tasks, origin, elig, todo>>
        BY <1>9 DEF vars
    <2>. QED
        BY <1>0, <2>1, OutUnchanged, CreatorsStep
<1>. QED
    <2>1. CASE \E k \in Ctl : Scheduler(k)
        BY <2>1, <1>1, <1>2, <1>3, <1>4, <1>5 DEF Scheduler
    <2>2. CASE Cli
        BY <2>2, <1>6, <1>7 DEF Cli
    <2>3. CASE Environment
        BY <2>3, <1>8 DEF Environment
    <2>. QED
        BY <1>9, <2>1, <2>2, <2>3 DEF Next

(* No scheduler process ever has two pending or running rows of one       *)
(* collection (scheduler.py line 94 creates a row only for a collection    *)
(* the same process found free at line 80), whatever the other processes, *)
(* the CLI and the store do between its check and its creation.           *)
THEOREM OnePerSchedulerHolds == Spec => []OnePerScheduler
<1>1. IInv => OnePerScheduler
    BY DEF IInv
<1>. QED
    BY <1>1, InitIInv, StepIInv, PTL DEF Spec

=============================================================================
