\* Three things go wrong, whatever they are.
SPECIFICATION FairSpec
CONSTANTS
    FailureThreshold = 2
    RecoveryTimeout = 1
    HalfOpenMaxCalls = 1
    FiveMinutes = 5
    TenMinutes = 9
    MediumCount = 1
    HighCount = 2
    CriticalCount = 2
    Cooldown = 4
    EventDelay = 1
    JobBound = 1
    StartBound = 1
    Troubles = 3
INVARIANTS
    TypeOK
    RestartLoopEnds
PROPERTIES
    Heals
    SlowGoesUnnoticed
