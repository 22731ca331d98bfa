SPECIFICATION IngestSpec
CONSTANTS
    first = first
    second = second
    Payload <- MCPayload
    SizeTail <- MCSizeTail
    MaxFrames = 2
    MaxArrivals = 6
SYMMETRY MCSymmetry
INVARIANTS
    ArrivalOrder
    FrameShape
    Bounded
    BucketIsWindow
    ReceivedWhole
PROPERTIES
    ImplementsFrameLog
