SPECIFICATION FairSpec
CONSTANTS
    Requests = {r1, r2, r3}
    Keys = {k1, k2}
    NoRequest = NoRequest
    Traffic <- OneKey
    MaxVersion = 2
    Evictable = {k2}
    StorageFaults = TRUE
    Failures = {"rejected"}
INVARIANTS RegistryInv FollowersShareResult OkMeansStored
PROPERTIES NoJoinOfCompleted RegistryDrains ImplementsContract
CHECK_DEADLOCK FALSE
