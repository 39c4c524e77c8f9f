\* Two services that share an environment, up to five failures in the window.
SPECIFICATION Spec
CONSTANTS
    core = core
    payment = payment
    Services = {core, payment}
    Strategy <- ConfiguredStrategy
    FailureTypes = {"crash", "slow"}
    FiveMinutes = 2
    TenMinutes = 3
    MediumCount = 2
    HighCount = 3
    CriticalCount = 4
    MaxFailures = 5
    MaxSuccesses = 1
INVARIANTS
    TypeOK
    RecommendsWhenCritical
    RollbackIsEscalated
    StartsOver
PROPERTY
    ListsClimbTheLadder
