SPECIFICATION Spec
CONSTANTS
    c1 = c1
    c2 = c2
    tcp = tcp
    udp = udp
    udp2 = udp2
    timer = timer
    web = web
    Idle = Idle
    CameraSeq <- OneCamera
    Task = {tcp, udp, timer, web}
    Job <- AllJobs
    Program <- MCProgram
    Runs <- EveryRuns
    Lock <- ServerLock
    Rank <- ServerRank
    TopRank <- MCTopRank
INVARIANTS
    OnlyNestedOutOfOrder
    CirclesExplained
    NoTornMessage
CHECK_DEADLOCK FALSE
