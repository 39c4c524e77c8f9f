\* Two requests of any kind, one of two services allowed.
SPECIFICATION FairSpec
CONSTANTS
    core = core
    payment = payment
    Requests = {r1, r2}
    Services = {core, payment}
    Allowed = {core}
    S3Enabled = TRUE
    LastN = 1
INVARIANTS
    TypeOK
    StopsAreReported
    MirrorIsIncidents
    HistoryIsInOrder
    LossIsLocal
    CountsAreReal
PROPERTIES
    AppendOnly
    KeepsPromise
    EveryRequestEnds
