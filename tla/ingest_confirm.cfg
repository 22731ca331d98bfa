SPECIFICATION IngestSpec
CONSTANTS
    first = first
    second = second
    Payload <- MCPayload
    SizeTail <- MCSizeTail
    MaxFrames = 2
    MaxArrivals = 4
INVARIANTS
    EndFramesConfirmed
