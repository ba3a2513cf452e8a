CONSTANTS
    Jobs = {"reordering", "cleanup", "optimize"}
    SchedulingEnabled = TRUE
    NoJob = NoJob
SPECIFICATION Spec
INVARIANTS TypeOK
PROPERTIES InterruptEndsProcess DueJobRuns
CHECK_DEADLOCK FALSE
