SPECIFICATION Spec
CONSTANTS
    LastKey = 3
    RowsPer = 2
    CtxKeys <- FirstTwo
    Archives <- Flawed
    Late <- Second
    Universe = TRUE
    Concurrency = 2
    Capacity = 1
    FlushThreshold = 2
    max_retries = 1
    MaxFaults = 2
    MaxInterrupts = 1
INVARIANT CursorVouches
 
PROPERTY ReplayInOrder
PROPERTY NoRerun
PROPERTY HaltEnds
 
CHECK_DEADLOCK FALSE
