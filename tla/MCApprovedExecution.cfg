SPECIFICATION Spec
CONSTANTS
    p1 = p1
    p2 = p2
    t1 = t1
    t2 = t2
    v1 = v1
    v2 = v2
    v3 = v3
    Decisions <- MCDecisions
    Tasks = {t1, t2}
    Processes = {p1, p2}
    Versions = {v1, v2}
    TaskOf <- MCTaskOf
    OldVersion <- MCOld
    TargetVersion <- MCSameRelease
    ManualOnly = {}
    Unreadable = Unreadable
    None = None
    MaxCrashes = 2
    MaxDrifts = 1
    MaxEdits = 2
SYMMETRY Passes
INVARIANTS
    TypeOK
    InstallsAtMostOnce
    CheckpointIsTrue
    RowsAgree
    OverlapNeedsReturn
PROPERTIES
    PackageWriteAhead
    ContractKept
CHECK_DEADLOCK FALSE
