SPECIFICATION FairSpec
CONSTANTS
    Card = {c1, c2}
    MaxCalls = 1
    None = None
INVARIANTS
    TypeOK
    OneInterval
    QuietAfterStop
PROPERTIES
    StopOffered
