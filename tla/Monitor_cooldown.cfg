\* Two services that crash and slow down, an EventBridge that comes and goes.
SPECIFICATION FairSpec
CONSTANTS
    core = core
    payment = payment
    Order <- TwoServices
    Conditions = {"fast", "gone", "crawling"}
    Cooldown = 2
INVARIANT
    TypeOK
PROPERTIES
    NoDuplicates
    FailureIsReported
