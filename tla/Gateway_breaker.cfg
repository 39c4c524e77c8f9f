\* One service, three concurrent requests, two connections: the state machine
\* of a breaker.
SPECIFICATION FairSpec
CONSTANTS
    core = core
    payment = payment
    movie = movie
    Watched = core
    Fallback = fallback
    Services = {core}
    Requests = {r1, r2, r3}
    Strategy <- ConfiguredStrategy
    FailureThreshold = 2
    RecoveryTimeout = 3
    HalfOpenMaxCalls = 1
    CallBound = 2
    PoolWait = 1
    PoolSize = 2
    NonObject = {}
    AlwaysUp = {fallback}
    Lossy = {core}
INVARIANTS
    TypeOK
    HalfOpenHasProbe
    OldCallsOnly
    HalfOpenOnlyProbes
    StreakTrips
    GaugeIsCurrent
PROPERTIES
    OpenAdmitsNothing
    BreakerImplements
    HealedCircuitCloses
