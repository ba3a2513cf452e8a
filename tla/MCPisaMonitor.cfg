CONSTANTS
    c1 = c1
    c2 = c2
    t1 = t1
    t2 = t2
    Coll <- MCColl
    TaskIds <- MCTaskIds
    BytesPerMB = 2
    MaxSizeMB = 1
    MaxPending = 2
    StaleAge = 2
    LongAge = 1
    Window = 3
    Interval = 2
    MaxTime = 3
    SizeVals = {NoValue, 3}
    PendingVals = {NoValue, 3}
    ImprovementVals = {0}
    NoValue = NoValue
    NoTime = NoTime
    NoSubject = NoSubject
SYMMETRY MCSymmetry
SPECIFICATION Spec
INVARIANTS TypeOK BufferIsWindow 
