\* One volume that comes and goes, two programs; the handler may be ended.
SPECIFICATION FairSpec
CONSTANTS
    p1 = p1
    p2 = p2
    Volumes = {v1}
    Programs = {p1, p2}
    ShutdownTicks = 1
    MaxPackets <- MCPackets
    MaxEvents = 2
    LostCost = 2
INVARIANTS TypeOK UseCounts HeldAlive HandlesOwned
PROPERTIES LockPacketsAnswered ShutdownEnds
CHECK_DEADLOCK FALSE
