SPECIFICATION FairSpec
CONSTANTS
    Request <- MCRequest
    Limit <- MCLimit
    MaxWrite <- MCMaxWrite
    PipeSize = 2
    Chunk = 2
    Capacity = 1
    MaxTime = 1
    Isolation = {"Isolated", "InheritSupervisor"}
CHECK_DEADLOCK FALSE
INVARIANTS OutputIsExact NothingLeftRunning NoLateKill
PROPERTIES RunEnds ReadersEnd
