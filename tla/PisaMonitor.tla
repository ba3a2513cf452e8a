---------------------------- MODULE PisaMonitor ----------------------------
(***************************************************************************)
(* The health monitor of documentdb_pisactl (monitor.py, PisaMonitor):    *)
(* check_index_health, check_reordering_health, generate_alerts and the   *)
(* rolling alert buffer of monitor_loop, against the store rows they read. *)
(*                                                                         *)
(* One iteration of monitor_loop is three steps: the index-status query   *)
(* (line 199), the task query (line 200), and the alert step (lines       *)
(* 202-215), then the sleep of line 217.  The store changes and the clock *)
(* advances between any two of them.  The monitor never writes the store.  *)
(***************************************************************************)
EXTENDS Naturals, FiniteSets, Functions

CONSTANTS
    Coll,            \* the collections with a PISA index status row
    TaskIds,         \* the reordering task rows
    BytesPerMB,      \* 1024 * 1024 (lines 48, 56)
    MaxSizeMB,       \* alert_thresholds.index_size_mb
    MaxPending,      \* alert_thresholds.pending_operations
    StaleAge,        \* timedelta(hours=24) of line 66
    LongAge,         \* timedelta(hours=6) of line 98
    Window,          \* timedelta(hours=24) of line 211
    Interval,        \* monitoring.check_interval
    MaxTime,         \* bound on the clock
    SizeVals,        \* the index_size_bytes values the store may report
    PendingVals,     \* the pending_operations values the store may report
    ImprovementVals, \* the compression_improvement values of completed tasks
    NoValue,         \* a NULL numeric column
    NoTime,          \* a NULL timestamp column
    NoSubject        \* the subject of the fleet-wide pending alert

ASSUME NumbersAssumption ==
    /\ {BytesPerMB, MaxSizeMB, MaxPending, StaleAge, LongAge, Window,
        MaxTime} \subseteq Nat
    /\ Interval \in Nat \ {0}
ASSUME ValuesAssumption ==
    /\ SizeVals \subseteq Nat \cup {NoValue}
    /\ PendingVals \subseteq Nat \cup {NoValue}
    /\ ImprovementVals \subseteq Int
    /\ NoValue \notin Int /\ NoTime \notin Int
ASSUME SetsAssumption ==
    /\ IsFiniteSet(Coll) /\ IsFiniteSet(TaskIds)
    /\ Coll \cap TaskIds = {}
    /\ NoSubject \notin Coll \cup TaskIds

VARIABLES
    (* The store *)
    size,        \* size[c]: index_size_bytes of c's status row
    pending,     \* pending[c]: pending_operations of c's status row
    lastSync,    \* lastSync[c]: last_sync_time of c's status row
    task,        \* task[i]: the fields of task row i the monitor reads
    now,         \* datetime.now()
    (* PisaMonitor *)
    mpc,         \* "idle" (sleeping), "reorder" (after line 199),
                 \* "alert" (after line 200)
    idxH,        \* index_health of this iteration
    roH,         \* reordering_health of this iteration
    alerts,      \* self.alerts
    lastRun,     \* the time of the last alert step, NoTime before the first
    (* History *)
    history      \* every alert generate_alerts ever returned

storeVars == <<size, pending, lastSync, task, now>>
monVars == <<mpc, idxH, roH, alerts, lastRun>>
vars == <<size, pending, lastSync, task, now, mpc, idxH, roH, alerts,
          lastRun, history>>

Time == Nat \cup {NoTime}

TaskRow == [running : BOOLEAN, completed : BOOLEAN, started : Time,
            improvement : ImprovementVals \cup {NoValue}]

AlertType == {"index_issue", "high_pending_operations", "long_running_task",
              "failed_reordering"}

Alert == [type : AlertType, subject : Coll \cup TaskIds \cup {NoSubject},
          ts : Nat]

(* The summaries, reduced to what generate_alerts reads.  ok is FALSE for *)
(* the {"error": ...} dict of lines 79 and 117; the empty fields are what *)
(* generate_alerts then falls back to (lines 123, 132, 140, 149).          *)
IndexHealth == [ok : BOOLEAN, issues : SUBSET Coll, totalPending : Nat]
ReorderingHealth == [ok : BOOLEAN, longRunning : SUBSET TaskIds,
                     failed : SUBSET TaskIds]

(* Variant of IndexError as generate_alerts would read it without the    *)
(* default 0 of index_health.get("total_pending_ops", 0) (line 132).       *)
IndexErrorNoDefault == [ok |-> FALSE, issues |-> {}, totalPending |-> NoValue]

IndexError == [ok |-> FALSE, issues |-> {}, totalPending |-> 0]
ReorderingError == [ok |-> FALSE, longRunning |-> {}, failed |-> {}]

-----------------------------------------------------------------------------
(* `x or 0` of lines 48, 49, 56 and 60. *)
OrZero(x) == IF x = NoValue THEN 0 ELSE x

(* Lines 56-67: the conditions that put c in indexes_with_issues.  The     *)
(* size test compares bytes / 1024 / 1024 with the threshold, that is     *)
(* bytes with threshold * 1024 * 1024.                                     *)
IndexFlagged(c) ==
    \/ OrZero(size[c]) > MaxSizeMB * BytesPerMB
    \/ OrZero(pending[c]) > MaxPending
    \/ lastSync[c] # NoTime /\ now - lastSync[c] > StaleAge

(* check_index_health, lines 43-76. *)
IndexHealthNow ==
    [ok |-> TRUE,
     issues |-> {c \in Coll : IndexFlagged(c)},
     totalPending |-> SumFunction([c \in Coll |-> OrZero(pending[c])])]

(* Lines 96-98: a running task started more than LongAge ago. *)
LongRunning(i) ==
    /\ task[i].running
    /\ task[i].started # NoTime
    /\ now - task[i].started > LongAge

(* Lines 105-107: a completed task with no positive improvement. *)
FailedTask(i) ==
    /\ task[i].completed
    /\ task[i].improvement # NoValue
    /\ task[i].improvement <= 0

(* check_reordering_health, lines 84-114. *)
ReorderingHealthNow ==
    [ok |-> TRUE,
     longRunning |-> {i \in TaskIds : LongRunning(i)},
     failed |-> {i \in TaskIds : FailedTask(i)}]

(* generate_alerts, lines 119-158, with every alert stamped t. *)
GenerateAlerts(ih, rh, t) ==
    {[type |-> "index_issue", subject |-> c, ts |-> t] : c \in ih.issues}
    \cup {[type |-> "high_pending_operations", subject |-> NoSubject, ts |-> t] :
            x \in IF ih.totalPending > MaxPending THEN {0} ELSE {}}
    \cup {[type |-> "long_running_task", subject |-> i, ts |-> t] :
            i \in rh.longRunning}
    \cup {[type |-> "failed_reordering", subject |-> i, ts |-> t] :
            i \in rh.failed}

(* Variant of Prune that keeps an alert exactly Window old. *)
PruneInclusive(buf, t) == {a \in buf : a.ts >= t - Window}

(* Lines 211-215: keep the alerts newer than t - Window. *)
Prune(buf, t) == {a \in buf : a.ts > t - Window}

-----------------------------------------------------------------------------
Init ==
    /\ size \in [Coll -> SizeVals]
    /\ pending \in [Coll -> PendingVals]
    /\ lastSync \in [Coll -> {NoTime, 0}]
    /\ task = [i \in TaskIds |-> [running |-> FALSE, completed |-> FALSE,
                                  started |-> NoTime, improvement |-> NoValue]]
    /\ now = 0
    /\ mpc = "idle"
    /\ idxH = IndexError
    /\ roH = ReorderingError
    /\ alerts = {}
    /\ lastRun = NoTime
    /\ history = {}

(* Variant of CheckIndexHealth with no sleep between iterations. *)
CheckIndexHealthNoSleep ==
    /\ mpc = "idle"
    /\ mpc' = "reorder"
    /\ idxH' \in {IndexHealthNow, IndexError}
    /\ UNCHANGED <<storeVars, roH, alerts, lastRun, history>>

(* Line 199 after the sleep of line 217: check_index_health, whose query  *)
(* may fail and yield the error dict (lines 77-79).                        *)
CheckIndexHealth ==
    /\ mpc = "idle"
    /\ IF lastRun = NoTime THEN TRUE ELSE now >= lastRun + Interval
    /\ mpc' = "reorder"
    /\ idxH' \in {IndexHealthNow, IndexError}
    /\ UNCHANGED <<storeVars, roH, alerts, lastRun, history>>

(* Line 200: check_reordering_health, whose query may fail (115-117). *)
CheckReorderingHealth ==
    /\ mpc = "reorder"
    /\ mpc' = "alert"
    /\ roH' \in {ReorderingHealthNow, ReorderingError}
    /\ UNCHANGED <<storeVars, idxH, alerts, lastRun, history>>

(* Lines 202-215: generate this iteration's alerts, extend the buffer and *)
(* prune it against datetime.now() - 24h; then sleep (line 217).  The two *)
(* summaries are locals of the iteration and are dropped.                  *)
AlertStep ==
    /\ mpc = "alert"
    /\ LET new == GenerateAlerts(idxH, roH, now)
       IN  /\ alerts' = Prune(alerts \cup new, now)
           /\ history' = history \cup new
    /\ lastRun' = now
    /\ mpc' = "idle"
    /\ idxH' = IndexError
    /\ roH' = ReorderingError
    /\ UNCHANGED storeVars

-----------------------------------------------------------------------------
(* The store: index maintenance, syncs and task execution. *)

(* The index of c grows or shrinks and its backlog changes. *)
UpdateIndex(c, s, p) ==
    /\ <<size[c], pending[c]>> # <<s, p>>
    /\ size' = [size EXCEPT ![c] = s]
    /\ pending' = [pending EXCEPT ![c] = p]
    /\ UNCHANGED <<lastSync, task, now, monVars, history>>

(* The index of c is synchronised. *)
SyncIndex(c) ==
    /\ lastSync[c] # now
    /\ lastSync' = [lastSync EXCEPT ![c] = now]
    /\ UNCHANGED <<size, pending, task, now, monVars, history>>

(* A pending task starts running. *)
StartTask(i) ==
    /\ ~task[i].running /\ ~task[i].completed
    /\ task' = [task EXCEPT ![i] = [running |-> TRUE, completed |-> FALSE,
                                    started |-> now,
                                    improvement |-> @.improvement]]
    /\ UNCHANGED <<size, pending, lastSync, now, monVars, history>>

(* A running task completes, with or without a recorded improvement. *)
CompleteTask(i, imp) ==
    /\ task[i].running
    /\ task' = [task EXCEPT ![i] = [running |-> FALSE, completed |-> TRUE,
                                    started |-> @.started,
                                    improvement |-> imp]]
    /\ UNCHANGED <<size, pending, lastSync, now, monVars, history>>

TimePasses ==
    /\ now < MaxTime
    /\ now' = now + 1
    /\ UNCHANGED <<size, pending, lastSync, task, monVars, history>>

Monitor == CheckIndexHealth \/ CheckReorderingHealth \/ AlertStep

Store ==
    \/ \E c \in Coll, s \in SizeVals, p \in PendingVals : UpdateIndex(c, s, p)
    \/ \E c \in Coll : SyncIndex(c)
    \/ \E i \in TaskIds : StartTask(i)
    \/ \E i \in TaskIds, imp \in ImprovementVals \cup {NoValue} :
          CompleteTask(i, imp)
    \/ TimePasses

Next == Monitor \/ Store

Spec == Init /\ [][Next]_vars

-----------------------------------------------------------------------------
(* Every variable holds a value of its type; in particular every buffered *)
(* alert carries a timestamp.                                              *)
TypeOK ==
    /\ size \in [Coll -> SizeVals]
    /\ pending \in [Coll -> PendingVals]
    /\ lastSync \in [Coll -> Time]
    /\ task \in [TaskIds -> TaskRow]
    /\ now \in Nat
    /\ mpc \in {"idle", "reorder", "alert"}
    /\ idxH \in IndexHealth
    /\ roH \in ReorderingHealth
    /\ alerts \subseteq Alert
    /\ lastRun \in Time
    /\ history \subseteq Alert

(* The buffer is exactly the alerts generated within the 24 hours before  *)
(* the last prune (monitor_loop, lines 203-215): none is lost early, none *)
(* is kept late, although prunes happen only once per check_interval and  *)
(* the clock moves on between them.                                        *)
BufferIsWindow ==
    alerts = IF lastRun = NoTime THEN {}
             ELSE {a \in history : a.ts > lastRun - Window}

(* monitor_loop's buffer never holds the alerts of more iterations than  *)
(* fit in one window: the prune of lines 211-215 keeps only alerts newer  *)
(* than 24 hours, and the sleep of line 217 puts check_interval between   *)
(* two iterations, so the buffer stays bounded however long the monitor   *)
(* runs (each iteration adds at most one alert per index, per task and    *)
(* the fleet-wide one).                                                    *)
BufferBounded ==
    Cardinality({a.ts : a \in alerts}) <= (Window + Interval - 1) \div Interval

(* Spec 4.5: when a snapshot fetch fails the iteration goes to sleep       *)
(* without alerting.  In monitor_loop a failed query only turns one health *)
(* summary into an error dict, and the other still raises its alerts.      *)
FailedFetchRaisesNoAlert ==
    [][(mpc = "alert" /\ (~idxH.ok \/ ~roH.ok)) => history' = history]_vars

=============================================================================
