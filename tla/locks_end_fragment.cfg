SPECIFICATION Spec
CONSTANTS
    c1 = c1
    c2 = c2
    tcp = tcp
    udp = udp
    udp2 = udp2
    timer = timer
    web = web
    Idle = Idle
    CameraSeq <- OneCamera
    Task = {udp, udp2}
    Job <- AllJobs
    Program <- MCProgram
    Runs <- EndFragmentRuns
    Lock <- ServerLock
    Rank <- ServerRank
    TopRank <- MCTopRank
INVARIANTS
    NoCircularWait
