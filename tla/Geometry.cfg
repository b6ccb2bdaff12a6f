SPECIFICATION RSpec
CONSTANTS
    Jobs <- Everything
    MaxOutput <- OutputLimit
    MaxMegapixels = 4
    Megapixel = 1000
    MaxFrames = 4
    MaxJpegSide = 39
    MaxWebpSide = 12
    MaxBoxesVisited = 17
    MaxExifLen = 10
INVARIANTS GeometryInv ShownAsSource MetadataAsAsked
PROPERTIES NoUpscale NeverDecodesBelowTarget EarlyOrNever NothingClipped
CHECK_DEADLOCK FALSE
