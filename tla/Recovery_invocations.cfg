\* One warm environment, two kinds of failure, the retries of the code.
SPECIFICATION FairSpec
CONSTANTS
    core = core
    payment = payment
    Services = {core}
    Workers = {w1}
    FailureTypes = {"crash", "slow"}
    Strategy <- ConfiguredStrategy
    Allowed = {core}
    MaxRetries = 3
    Slots = {1, 2}
    FiveMinutes = 1
    TenMinutes = 2
    MediumCount = 2
    HighCount = 3
    CriticalCount = 5
INVARIANTS
    TypeOK
    RestartBudget
    RestartsAreFailures
    SuccessIsReal
    RunsWithinAttempts
PROPERTY
    InvocationEnds
