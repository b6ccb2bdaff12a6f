SPECIFICATION Spec
CONSTANTS
    Uploads = {u1, u2}
    Checks = {c1}
    Gets = {g1}
    Deletes = {d1}
    NoFile = NoFile
    Workloads <- Every
SYMMETRY CallSymmetry
INVARIANTS StoredWhole AckedUploadIsHit TtlHonoured
PROPERTY SoleObjectKept
CHECK_DEADLOCK FALSE
