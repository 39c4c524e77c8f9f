\* A call that outlives the closed phase.
SPECIFICATION Spec
CONSTANTS
    core = core
    payment = payment
    movie = movie
    Watched = core
    Fallback = fallback
    Services = {core}
    Requests = {r1, r2, r3}
    Strategy <- ConfiguredStrategy
    FailureThreshold = 2
    RecoveryTimeout = 3
    HalfOpenMaxCalls = 1
    CallBound = 2
    PoolWait = 1
    PoolSize = 3
    NonObject = {}
    AlwaysUp = {fallback}
    Lossy = {}
SYMMETRY SameRequests
PROPERTY
    OpenOnlyToHalfOpen
