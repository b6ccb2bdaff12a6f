SPECIFICATION Spec
CONSTANTS
    Jobs <- CroppedPhoto
    MaxOutput <- OutputLimit
    MaxMegapixels = 7
    Megapixel = 1000
    MaxFrames = 4
    MaxJpegSide = 39
    MaxWebpSide = 12
    MaxBoxesVisited = 17
    MaxExifLen = 10
INVARIANT FinalSizeAsPredicted
CHECK_DEADLOCK FALSE
