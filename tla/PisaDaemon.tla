----------------------------- MODULE PisaDaemon -----------------------------
(***************************************************************************)
(* The process around the scheduler (scheduler.py, main, run_scheduler,   *)
(* setup_schedules, stop_scheduler, run_task_now): the entry point picks  *)
(* --run-now, --daemon or foreground; the daemon runs run_scheduler on a  *)
(* background thread and stops it on Ctrl-C.  A job is one of the three   *)
(* maintenance functions; what a reordering job does to the store is      *)
(* PisaScheduler's subject, here a job is only started and finished.       *)
(***************************************************************************)
EXTENDS Naturals, FiniteSets

CONSTANTS
    Jobs,              \* the task_map of run_task_now / the jobs of setup_schedules
    SchedulingEnabled, \* scheduling.enabled
    NoJob              \* no job in progress

ASSUME DaemonAssumption ==
    /\ IsFiniteSet(Jobs)
    /\ SchedulingEnabled \in BOOLEAN
    /\ NoJob \notin Jobs

Modes == {"runnow", "daemon", "foreground"}

VARIABLES
    mode,        \* the branch main took (lines 222-238)
    mpc,         \* the main thread: "start", "wait" (lines 223, 229-233, 238),
                 \* "joining" (line 236), "exited"
    tpc,         \* run_scheduler: "idle" (not called), "setup" (line 174),
                 \* "arm" (line 175), "loop" (line 178), "pending" (179),
                 \* "sleep" (180), "done" (after finally)
    running,     \* self.running
    registered,  \* the schedule library's job table
    due,         \* the registered jobs whose time has come
    batch,       \* the jobs of the current run_pending pass not yet run
    current,     \* the job being executed, NoJob if none
    interrupted  \* Ctrl-C has been pressed

vars == <<mode, mpc, tpc, running, registered, due, batch, current,
          interrupted>>

Alive == mpc # "exited"

-----------------------------------------------------------------------------
Init ==
    /\ mode \in Modes
    /\ mpc = "start"
    /\ tpc = "idle"
    /\ running = FALSE
    /\ registered = {}
    /\ due = {}
    /\ batch = {}
    /\ current = NoJob
    /\ interrupted = FALSE

(* Lines 222-238: run_task_now(j) in the main thread, or run_scheduler on *)
(* a daemon thread, or run_scheduler in the main thread.                   *)
Launch ==
    /\ mpc = "start"
    /\ mpc' = "wait"
    /\ IF mode = "runnow"
       THEN \E j \in Jobs : current' = j /\ UNCHANGED tpc
       ELSE tpc' = "setup" /\ UNCHANGED current
    /\ UNCHANGED <<mode, running, registered, due, batch, interrupted>>

(* run_task_now returns (lines 200-201) and the process exits. *)
RunNowDone ==
    /\ mode = "runnow"
    /\ mpc = "wait"
    /\ current # NoJob
    /\ current' = NoJob
    /\ mpc' = "exited"
    /\ UNCHANGED <<mode, tpc, running, registered, due, batch, interrupted>>

(* Ctrl-C.  In the daemon the main thread is in the is_alive loop (lines  *)
(* 232-233): the handler calls stop_scheduler (line 235) and joins.       *)
(* Elsewhere the KeyboardInterrupt is raised where the main thread is:    *)
(* inside a job it aborts the job (the jobs catch only Exception); in the *)
(* loop of run_scheduler it is caught (lines 181-184) and the process     *)
(* ends; in setup_schedules, before the try, it escapes and ends it too.  *)
Interrupt ==
    /\ mpc = "wait"
    /\ ~interrupted
    /\ interrupted' = TRUE
    /\ IF mode = "daemon"
       THEN /\ running' = FALSE
            /\ mpc' = "joining"
            /\ UNCHANGED tpc
       ELSE /\ mpc' = "exited"
            /\ running' = FALSE
            /\ tpc' = IF tpc = "idle" THEN "idle" ELSE "done"
    /\ UNCHANGED <<mode, registered, due, batch, current>>

(* Variant of JoinStep that waits for the thread without a timeout. *)
JoinStepNoTimeout ==
    /\ mpc = "joining"
    /\ tpc = "done"
    /\ mpc' = "exited"
    /\ UNCHANGED <<mode, tpc, running, registered, due, batch, current,
                   interrupted>>

(* Line 236: join(timeout=5) returns when the thread ends or after five   *)
(* seconds, and the process exits, killing the daemon thread wherever it  *)
(* is.                                                                     *)
JoinStep ==
    /\ mpc = "joining"
    /\ mpc' = "exited"
    /\ UNCHANGED <<mode, tpc, running, registered, due, batch, current,
                   interrupted>>

-----------------------------------------------------------------------------
(* run_scheduler, on the daemon thread or in the main thread. *)

(* Line 174, setup_schedules (154-169): register the three jobs unless    *)
(* scheduling is disabled.                                                 *)
SetupSchedules ==
    /\ Alive /\ tpc = "setup"
    /\ registered' = IF SchedulingEnabled THEN Jobs ELSE {}
    /\ tpc' = "arm"
    /\ UNCHANGED <<mode, mpc, running, due, batch, current, interrupted>>

(* Line 175: self.running = True, unconditionally. *)
Arm ==
    /\ Alive /\ tpc = "arm"
    /\ running' = TRUE
    /\ tpc' = "loop"
    /\ UNCHANGED <<mode, mpc, registered, due, batch, current, interrupted>>

(* Variant of LoopTest that runs every registered job, as                 *)
(* schedule.run_all would, instead of the due ones.                        *)
LoopTestAllJobs ==
    /\ Alive /\ tpc = "loop"
    /\ IF running
       THEN tpc' = "pending" /\ batch' = registered
       ELSE tpc' = "done" /\ UNCHANGED batch
    /\ UNCHANGED <<mode, mpc, running, registered, due, current, interrupted>>

(* Line 178: the loop test; leaving the loop runs the finally of line 183. *)
LoopTest ==
    /\ Alive /\ tpc = "loop"
    /\ IF running
       THEN tpc' = "pending" /\ batch' = due
       ELSE tpc' = "done" /\ UNCHANGED batch
    /\ UNCHANGED <<mode, mpc, running, registered, due, current, interrupted>>

(* Line 179, schedule.run_pending: run the due jobs one after another. *)
StartJob(j) ==
    /\ Alive /\ tpc = "pending"
    /\ current = NoJob
    /\ j \in batch
    /\ current' = j
    /\ batch' = batch \ {j}
    /\ UNCHANGED <<mode, mpc, tpc, running, registered, due, interrupted>>

(* Variant of FinishJob that does not move the job's next run forward. *)
FinishJobNoReschedule ==
    /\ Alive /\ tpc = "pending"
    /\ current # NoJob
    /\ current' = NoJob
    /\ UNCHANGED <<mode, mpc, tpc, running, registered, due, batch,
                   interrupted>>

(* The job returns (each catches its own exceptions, lines 105, 127, 151) *)
(* and the library schedules its next run.                                 *)
FinishJob ==
    /\ Alive /\ tpc = "pending"
    /\ current # NoJob
    /\ due' = due \ {current}
    /\ current' = NoJob
    /\ UNCHANGED <<mode, mpc, tpc, running, registered, batch, interrupted>>

(* run_pending returns; line 180 sleeps. *)
EndPending ==
    /\ Alive /\ tpc = "pending"
    /\ current = NoJob
    /\ batch = {}
    /\ tpc' = "sleep"
    /\ UNCHANGED <<mode, mpc, running, registered, due, batch, current,
                   interrupted>>

Wake ==
    /\ Alive /\ tpc = "sleep"
    /\ tpc' = "loop"
    /\ UNCHANGED <<mode, mpc, running, registered, due, batch, current,
                   interrupted>>

(* The wall clock reaches a registered job's time. *)
BecomeDue(j) ==
    /\ Alive
    /\ j \in registered \ due
    /\ due' = due \cup {j}
    /\ UNCHANGED <<mode, mpc, tpc, running, registered, batch, current,
                   interrupted>>

-----------------------------------------------------------------------------
MainStep == Launch \/ RunNowDone \/ JoinStep

ThreadStep ==
    \/ SetupSchedules \/ Arm \/ LoopTest \/ EndPending \/ Wake
    \/ \E j \in Jobs : StartJob(j)
    \/ FinishJob

Next ==
    \/ MainStep
    \/ ThreadStep
    \/ Interrupt
    \/ \E j \in Jobs : BecomeDue(j)

(* The OS runs both threads and every sleep ends; Ctrl-C and the clock    *)
(* owe nothing.                                                            *)
Spec == Init /\ [][Next]_vars /\ WF_vars(MainStep) /\ WF_vars(ThreadStep)

-----------------------------------------------------------------------------
TypeOK ==
    /\ mode \in Modes
    /\ mpc \in {"start", "wait", "joining", "exited"}
    /\ tpc \in {"idle", "setup", "arm", "loop", "pending", "sleep", "done"}
    /\ running \in BOOLEAN
    /\ registered \subseteq Jobs
    /\ due \subseteq registered
    /\ batch \subseteq due
    /\ current \in Jobs \cup {NoJob}
    /\ interrupted \in BOOLEAN

(* After Ctrl-C the process always ends, in every mode, although the stop *)
(* request of stop_scheduler (line 235) can be overwritten by the thread's *)
(* self.running = True (line 175) when it comes before it.                *)
InterruptEndsProcess == interrupted ~> mpc = "exited"

(* A registered job whose time has come is run, and its next run moved    *)
(* forward, unless the process ends first: run_pending runs every due job *)
(* of its pass, and a job that becomes due during a pass runs in the next. *)
DueJobRuns == \A j \in Jobs : j \in due ~> (j \notin due \/ mpc = "exited")

(* Spec section 5: stopping the daemon loop finishes the current tick;    *)
(* a process started with --daemon never ends in the middle of a job.      *)
(* (--run-now and the foreground loop are one-shot and promise nothing.)  *)
StopIsGraceful == mode = "daemon" /\ mpc = "exited" => current = NoJob

=============================================================================
