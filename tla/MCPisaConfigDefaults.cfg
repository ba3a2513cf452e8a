CONSTANTS
    v1 = v1
    v2 = v2
    Absent = Absent
    Garbage = Garbage
    Missing = Missing
    NoConfig = NoConfig
    Keys <- MCKeys
    Scalars <- MCScalars
    Defaults <- MCDefaults
    FileVals <- MCFileVals
    SetPaths <- MCSetPaths
    UpdateVals <- MCUpdateVals
    SaveVals <- MCSaveVals
SPECIFICATION Spec
INVARIANTS LoadKeepsDefaults
