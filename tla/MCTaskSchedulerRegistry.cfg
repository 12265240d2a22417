SPECIFICATION Spec
CONSTANTS
    p1 = p1
    p2 = p2
    c1 = c1
    c2 = c2
    Tasks = {1}
    Processes = {p1, p2}
    Clients = {c1, c2}
    Day = 2
    Interval <- MCDaily
    None = None
    MaxTime = 2
    MaxCrashes = 0
    Commands = {"rename", "reschedule", "enable", "disable", "remove", "run"}
    MaxCommands = 2
    MaxStale = 1
SYMMETRY Symmetry
CHECK_DEADLOCK FALSE
INVARIANTS
    OccurrenceExecutedOnce
PROPERTIES
    ClaimIsCurrent
    TombstoneIsFinal
