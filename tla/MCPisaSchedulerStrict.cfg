CONSTANTS
    c1 = c1
    c2 = c2
    c3 = c3
    Coll <- MCColl
    MaxConcurrent = 2
    MinInterval = 2
    MaxTime = 3
    MaxTasks = 4
    NoTime = NoTime
SYMMETRY MCSymmetry
SPECIFICATION Spec

PROPERTIES ImplementsStrictService
