\* Core breaks, payment never does, and both share a single connection.
SPECIFICATION Spec
CONSTANTS
    core = core
    payment = payment
    movie = movie
    Watched = core
    Fallback = fallback
    Services = {core, payment}
    Requests = {r1, r2}
    Strategy <- ConfiguredStrategy
    FailureThreshold = 2
    RecoveryTimeout = 3
    HalfOpenMaxCalls = 1
    CallBound = 2
    PoolWait = 1
    PoolSize = 1
    NonObject = {}
    AlwaysUp = {payment, fallback}
    Lossy = {}
SYMMETRY SameRequests
INVARIANT
    HealthyStaysClosed
