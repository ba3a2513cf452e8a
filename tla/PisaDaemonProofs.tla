-------------------------- MODULE PisaDaemonProofs --------------------------
(***************************************************************************)
(* Proofs about PisaDaemon for every set of jobs: the job table, the due  *)
(* jobs, the current run_pending pass and the running job stay consistent *)
(* with one another through every interleaving of the main thread, the    *)
(* scheduler thread, Ctrl-C and the clock.                                 *)
(***************************************************************************)
EXTENDS PisaDaemon, TLAPS

(* The job being executed was taken out of its run_pending pass (line    *)
(* 179), and the job table is empty until setup_schedules has run (line  *)
(* 174).  A job runs inside run_pending, or as run_task_now's, or is one  *)
(* that Ctrl-C aborted after the thread left its loop; run_task_now runs  *)
(* with no scheduler thread, which starts only after main has chosen its  *)
(* branch (line 222).                                                      *)
IInv ==
    /\ TypeOK
    /\ current # NoJob => current \notin batch
    /\ tpc \in {"idle", "setup"} => registered = {}
    /\ current # NoJob => tpc \in {"pending", "done"} \/ mode = "runnow"
    /\ mode = "runnow" => tpc = "idle"
    /\ mpc = "start" => tpc = "idle"

LEMMA InitIInv == Init => IInv
BY DEF Init, IInv, TypeOK

(* Each step of either thread, Ctrl-C or the clock keeps IInv. *)
LEMMA StepIInv == IInv /\ [Next]_vars => IInv'
<1> SUFFICES ASSUME IInv, [Next]_vars PROVE IInv'
    OBVIOUS
<1> USE DEF IInv, TypeOK, Modes
<1>1. CASE Launch
    BY <1>1 DEF Launch
<1>2. CASE RunNowDone
    BY <1>2 DEF RunNowDone
<1>3. CASE JoinStep
    BY <1>3 DEF JoinStep
<1>4. CASE SetupSchedules
    BY <1>4, DaemonAssumption DEF SetupSchedules
<1>5. CASE Arm
    BY <1>5 DEF Arm
<1>6. CASE LoopTest
    BY <1>6 DEF LoopTest
<1>7. CASE EndPending
    BY <1>7 DEF EndPending
<1>8. CASE Wake
    BY <1>8 DEF Wake
<1>9. ASSUME NEW j \in Jobs, StartJob(j) PROVE IInv'
    BY <1>9 DEF StartJob
<1>10. CASE FinishJob
    BY <1>10 DEF FinishJob
<1>11. CASE Interrupt
    BY <1>11 DEF Interrupt
<1>12. ASSUME NEW j \in Jobs, BecomeDue(j) PROVE IInv'
    BY <1>12 DEF BecomeDue
<1>13. CASE UNCHANGED vars
    BY <1>13 DEF vars
<1>. QED
    BY <1>1, <1>2, <1>3, <1>4, <1>5, <1>6, <1>7, <1>8, <1>9, <1>10, <1>11,
       <1>12, <1>13 DEF Next, MainStep, ThreadStep

(* The main thread and run_scheduler keep their program counters, the job *)
(* table holds only the three jobs, a job is due only when registered, a  *)
(* run_pending pass runs only due jobs, and at most one job runs, in      *)
(* every interleaving of the two threads, Ctrl-C and the clock.           *)
THEOREM TypeCorrect == Spec => []TypeOK
<1>1. IInv => TypeOK
    BY DEF IInv
<1>. QED
    BY <1>1, InitIInv, StepIInv, PTL DEF Spec

=============================================================================
