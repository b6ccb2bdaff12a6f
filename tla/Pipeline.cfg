SPECIFICATION FairSpec
CONSTANTS
    Calls = {c1, c2, c3, c4}
    Watermarked = {c1}
    MaxRequests = 3
    MaxDownloads = 1
    MaxProcessing = 1
INVARIANTS PipelineInv NoLostWakeup
PROPERTIES EveryCallAnswered CapacityReturns
CHECK_DEADLOCK FALSE
