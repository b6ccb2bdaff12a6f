SPECIFICATION Spec
CONSTANTS
    Requests = {r1, r2, r3}
    Keys = {k1}
    NoRequest = NoRequest
    MaxVersion = 2
    Evictable = {k1}
    Traffic <- OneKey
    Failures = {"rejected"}
    StorageFaults = TRUE
SYMMETRY RequestSymmetry
INVARIANT RejectionIsBadRequest
CHECK_DEADLOCK FALSE
