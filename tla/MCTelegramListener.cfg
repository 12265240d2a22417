SPECIFICATION FairSpec
CONSTANTS
    d1 = d1
    d2 = d2
    Decisions = {d1}
    None = None
    MaxPresses = 2
    MaxFaults = 1
    MaxExpired = 1
CHECK_DEADLOCK FALSE
INVARIANTS
    TypeOK
    AnswersAreTrue
PROPERTIES
    ResponseIsFinal
    WakeIsAccepted
    PendingIsAnnounced
    PressesAreAnswered
