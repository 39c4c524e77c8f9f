\* Movie answers 200 with JSON that is not an object.
SPECIFICATION Spec
CONSTANTS
    core = core
    payment = payment
    movie = movie
    Watched = core
    Fallback = fallback
    Services = {core, movie}
    Requests = {r1, r2}
    Strategy <- ConfiguredStrategy
    FailureThreshold = 2
    RecoveryTimeout = 3
    HalfOpenMaxCalls = 1
    CallBound = 2
    PoolWait = 1
    PoolSize = 2
    NonObject = {movie}
    AlwaysUp = {movie, fallback}
    Lossy = {}
SYMMETRY SameRequests
INVARIANT
    MalformedTrips
