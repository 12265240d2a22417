SPECIFICATION Spec
CONSTANTS
    p1 = p1
    p2 = p2
    t1 = t1
    t2 = t2
    v1 = v1
    v2 = v2
    v3 = v3
    Decisions <- MCDecisions
    Tasks = {t1, t2}
    Processes = {p1, p2}
    Versions = {v1, v2, v3}
    TaskOf <- MCTaskOf
    OldVersion <- MCOld
    TargetVersion <- MCTarget
    ManualOnly = {}
    Unreadable = Unreadable
    None = None
    MaxCrashes = 1
    MaxDrifts = 0
    MaxEdits = 0
CHECK_DEADLOCK FALSE
INVARIANTS
    NoRollbackBeforeMutation
