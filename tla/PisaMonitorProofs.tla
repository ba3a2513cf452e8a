------------------------- MODULE PisaMonitorProofs -------------------------
(***************************************************************************)
(* Proof that monitor_loop's alert buffer is exactly the alerts of the    *)
(* last 24 hours before the last prune (BufferIsWindow), for every value  *)
(* of the constants.                                                       *)
(***************************************************************************)
EXTENDS PisaMonitor, TLAPS

(* The clock facts the buffer argument rests on: the last prune is never  *)
(* in the future, nothing is generated before the first iteration, and   *)
(* every alert ever generated is stamped no later than the last prune.    *)
ClockInv ==
    /\ now \in Nat
    /\ lastRun \in Time
    /\ lastRun # NoTime => lastRun <= now
    /\ lastRun = NoTime => history = {}
    /\ \A a \in history : a.ts \in Nat /\ (lastRun # NoTime => a.ts <= lastRun)

MInv == ClockInv /\ BufferIsWindow

(* Every alert generate_alerts returns carries the timestamp it was given. *)
LEMMA GenerateAlertsStamp ==
    ASSUME NEW ih, NEW rh, NEW t, NEW a \in GenerateAlerts(ih, rh, t)
    PROVE  a.ts = t
BY DEF GenerateAlerts

(* NULL timestamps are not times. *)
LEMMA NoTimeIsNotNat == NoTime \notin Nat
BY ValuesAssumption

LEMMA InitMInv == Init => MInv
BY NumbersAssumption DEF Init, MInv, ClockInv, BufferIsWindow, Time

(* The alert step: the new buffer is the pruned union of the old window   *)
(* and this iteration's alerts, all stamped now.                           *)
LEMMA AlertStepMInv == MInv /\ AlertStep => MInv'
<1> SUFFICES ASSUME MInv, AlertStep PROVE MInv'
  OBVIOUS
<1> DEFINE new == GenerateAlerts(idxH, roH, now)
<1>1. alerts' = Prune(alerts \cup new, now) /\ history' = history \cup new
      /\ lastRun' = now /\ now' = now
  BY DEF AlertStep, storeVars
<1>2. \A a \in new : a.ts = now
  BY GenerateAlertsStamp
<1>3. now \in Nat /\ lastRun \in Time
  BY DEF MInv, ClockInv
<1>4. ClockInv'
  <2>1. \A a \in history : a.ts \in Nat /\ a.ts <= now
    BY <1>3 DEF MInv, ClockInv, Time
  <2>2. QED
    BY <1>1, <1>2, <1>3, <2>1, NoTimeIsNotNat DEF ClockInv, Time
<1>5. BufferIsWindow'
  <2>1. CASE lastRun = NoTime
    <3>1. alerts = {} /\ history = {}
      BY <2>1 DEF MInv, ClockInv, BufferIsWindow
    <3>2. QED
      BY <1>1, <1>3, <3>1, NoTimeIsNotNat DEF BufferIsWindow, Prune
  <2>2. CASE lastRun # NoTime
    <3>1. alerts = {a \in history : a.ts > lastRun - Window}
      BY <2>2 DEF MInv, BufferIsWindow
    <3>2. lastRun \in Nat /\ lastRun <= now
      BY <2>2, <1>3 DEF MInv, ClockInv, Time
    <3>3. \A a \in history : a.ts \in Nat
      BY DEF MInv, ClockInv
    <3>4. \A a \in history : a.ts > now - Window => a.ts > lastRun - Window
      <4>1. Window \in Nat
        BY NumbersAssumption
      <4>2. QED
        BY <3>2, <3>3, <4>1, <1>3
    <3>5. Prune(alerts \cup new, now) = {a \in history \cup new : a.ts > now - Window}
      BY <3>1, <3>4 DEF Prune
    <3>6. QED
      BY <1>1, <1>3, <3>5, NoTimeIsNotNat DEF BufferIsWindow
  <2>3. QED
    BY <2>1, <2>2
<1>6. QED
  BY <1>4, <1>5 DEF MInv

(* Every other step leaves the buffer, the history and the last prune     *)
(* alone, and moves the clock only forward.                                *)
LEMMA OtherStepMInv ==
    MInv /\ (CheckIndexHealth \/ CheckReorderingHealth \/ Store) => MInv'
<1> SUFFICES ASSUME MInv, CheckIndexHealth \/ CheckReorderingHealth \/ Store
             PROVE  MInv'
  OBVIOUS
<1>1. /\ alerts' = alerts /\ history' = history /\ lastRun' = lastRun
      /\ now' \in {now, now + 1}
  BY DEF CheckIndexHealth, CheckReorderingHealth, Store, UpdateIndex,
         SyncIndex, StartTask, CompleteTask, TimePasses, storeVars, monVars
<1>2. now \in Nat /\ lastRun \in Time
  BY DEF MInv, ClockInv
<1>3. QED
  BY <1>1, <1>2, NoTimeIsNotNat DEF MInv, ClockInv, BufferIsWindow, Time

LEMMA StepMInv == MInv /\ [Next]_vars => MInv'
<1>1. CASE AlertStep
  BY <1>1, AlertStepMInv
<1>2. CASE CheckIndexHealth \/ CheckReorderingHealth \/ Store
  BY <1>2, OtherStepMInv
<1>3. CASE UNCHANGED vars
  BY <1>3 DEF MInv, ClockInv, BufferIsWindow, vars
<1>4. QED
  BY <1>1, <1>2, <1>3 DEF Next, Monitor

(* monitor_loop's buffer holds exactly the alerts generated within Window *)
(* before the last prune, in every reachable state, for all constants.     *)
THEOREM BufferIsWindowHolds == Spec => []BufferIsWindow
<1>1. Init => MInv
  BY InitMInv
<1>2. MInv /\ [Next]_vars => MInv'
  BY StepMInv
<1>3. MInv => BufferIsWindow
  BY DEF MInv
<1>4. QED
  BY <1>1, <1>2, <1>3, PTL DEF Spec

=============================================================================
