CONSTANTS
    Jobs = {"reordering", "cleanup", "optimize"}
    SchedulingEnabled = TRUE
    NoJob = NoJob
SPECIFICATION Spec
INVARIANTS StopIsGraceful
CHECK_DEADLOCK FALSE
