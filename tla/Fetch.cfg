SPECIFICATION Spec
CONSTANTS
    Urls <- MCUrls
    Allowlists <- MCAllowlists
    Answers <- MCAnswers
    ExtendsText <- MCExtendsText
    AllowLoopback = FALSE
    AllowLinkLocal = FALSE
    MaxRedirects = 2
    MaxImageSize = 3
    Chunks = {1, 2}
    Lengths = {0, 3, 4}
INVARIANTS FetchInv EveryHopValidated
CHECK_DEADLOCK FALSE
