SPECIFICATION Spec
CONSTANTS
    Uploads = {u1, u2}
    Checks = {c1}
    Gets = {g1}
    Deletes = {d1}
    NoFile = NoFile
    Workloads <- Racing
SYMMETRY CallSymmetry
PROPERTY EvictsOnlyExpired
CHECK_DEADLOCK FALSE
