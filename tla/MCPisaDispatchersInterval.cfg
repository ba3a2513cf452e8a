CONSTANTS
    c1 = c1
    k1 = k1
    k2 = k2
    Coll <- MCColl
    Ctl <- MCCtl
    MaxConcurrent = 2
    MinInterval = 2
    MaxTime = 2
    MaxTasks = 3
    NoTime = NoTime
SYMMETRY MCSymmetry
SPECIFICATION Spec
PROPERTIES IntervalAcrossProcesses
