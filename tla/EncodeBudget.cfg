SPECIFICATION Spec
CONSTANTS
    MaxQuality = 6
    MaxAttempts = 2
    Budgets = {1}
    Sizes = {0, 1, 2, 3}
INVARIANTS EncodeInv OptimalIfUncut
CHECK_DEADLOCK FALSE
