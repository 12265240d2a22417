SPECIFICATION FairSpec
CONSTANTS
    p1 = p1
    p2 = p2
    c1 = c1
    c2 = c2
    Tasks <- MCTasks
    Processes = {p1}
    Clients = {c1}
    Day = 2
    Interval <- MCInterval
    None = None
    MaxTime = 2
    MaxCrashes = 0
    Commands = {"rename"}
    MaxCommands = 1
    MaxStale = 0
CHECK_DEADLOCK FALSE
PROPERTIES
    TasksAreIndependent
