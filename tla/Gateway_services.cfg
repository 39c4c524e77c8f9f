\* Payment never fails, movie answers 200 with JSON that is not an object and
\* breaks, fallback-service breaks too, and all share a single connection.
SPECIFICATION FairSpec
CONSTANTS
    core = core
    payment = payment
    movie = movie
    Watched = payment
    Fallback = fallback
    Services = {payment, movie}
    Requests = {r1, r2}
    Strategy <- ConfiguredStrategy
    FailureThreshold = 2
    RecoveryTimeout = 2
    HalfOpenMaxCalls = 1
    CallBound = 1
    PoolWait = 1
    PoolSize = 1
    NonObject = {movie}
    AlwaysUp = {payment}
    Lossy = {}
PROPERTIES
    HealthyFailsStarved
    FallbackTried
    EveryCallAnswered
