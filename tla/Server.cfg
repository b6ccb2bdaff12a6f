SPECIFICATION Spec
CONSTANTS
    Features = {"s3", "local_fs"}
    Requests = {r1, r2}
    Environments <- MCEnvironments
    Forever = 1000
    MaxTime = 2
    DefaultDrain = 1
    DefaultAdmitted = 2
    DefaultBurst = 2
INVARIANTS
    ServerInv
PROPERTIES
    RedirectServable
    MetricsGuarded
    FreshLostOnlyToRace
    StartupSound
    NothingHangs
CHECK_DEADLOCK FALSE
