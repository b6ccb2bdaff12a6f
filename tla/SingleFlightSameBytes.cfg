SPECIFICATION Spec
CONSTANTS
    Requests = {r1, r2, r3}
    Keys = {k1}
    NoRequest = NoRequest
    MaxVersion = 2
    Evictable = {}
    Traffic <- OneKey
    Failures = {"rejected"}
    StorageFaults = FALSE
SYMMETRY RequestSymmetry
PROPERTY SameKeySameBytes
CHECK_DEADLOCK FALSE
