SPECIFICATION ASpec
CONSTANTS
    Records <- MCRecords
    QueueCapacity = 1
    Hour = 60
    Tokens = {"a", "b"}
    MaxRecorded = 3
    InitialKey <- MCInitialKey
    LaterKeys <- MCLaterKeys
    Day = 120
    Spans = {2, 3}
    ReportTimes = {135, 260}
INVARIANTS
    TypeOK
    AcceptedAccounted
    CountedOnce
    DimensionsPreserved
    StopDrains
    DaysExact
    PeriodsWithinAnHour
    AccountsShowOwnUsage
PROPERTIES
    StopTerminates
    ImplementsLedger
    RowsFollowIdentity
CHECK_DEADLOCK FALSE
