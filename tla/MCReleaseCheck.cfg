SPECIFICATION Spec
CONSTANTS
    DayLength = 4
    Horizon = 16
    Tasks <- MCTasks
    Newest = 3
    Sources <- MCSources
    MaxLong = 2
    MaxTime = 23
    MaxClaims = 3
    None = None
INVARIANTS
    TypeOK
    CalendarKept
    MissedAreCounted
    QuietIsJustified
    PlansNeverGoBack
CHECK_DEADLOCK FALSE
