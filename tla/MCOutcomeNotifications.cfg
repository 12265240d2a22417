SPECIFICATION FairSpec
CONSTANTS
    Decisions <- MCDecisions
    Urgency <- MCUrgency
    ClaimTimeout = 1
    None = None
    MaxTime = 4
    MaxCrashes = 2
    MaxFailures = 1
CHECK_DEADLOCK FALSE
INVARIANTS
    TypeOK
    AttemptsAccountForMessages
    DuplicatesCostFaults
PROPERTIES
    DeliveredIsFinal
    EveryOutcomeIsReported
