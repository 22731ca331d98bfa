SPECIFICATION PathSpec
CONSTANTS
    Payload <- Packet
    SizeTail <- MCSizeTail
    MaxFrames = 2
    MaxArrivals = 20
    MaxSent = 3
    MaxMiddles = 2
    Lossy = {"start", "middle", "end"}
INVARIANTS
    NoMixedFrames
    NoFrameTwice
    WholeFrames
PROPERTIES
    ShownAtItsEnd
