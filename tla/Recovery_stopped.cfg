\* A service stopped at CRITICAL.
SPECIFICATION Spec
CONSTANTS
    core = core
    payment = payment
    Services = {core}
    Workers = {w1}
    FailureTypes = {"crash"}
    Strategy <- ConfiguredStrategy
    Allowed = {core}
    MaxRetries = 1
    Slots = {1}
    FiveMinutes = 2
    TenMinutes = 2
    MediumCount = 2
    HighCount = 3
    CriticalCount = 3
INVARIANT
    StoppedStays
