SPECIFICATION Spec
CONSTANTS
    Sinks <- Workers
    Deployments <- OneProcess
    Datatypes <- OneLeaf
    Declared <- Both
    Shapes <- Prints
    MAX_BUFFERED_SNAPSHOTS = 1
    OVERFLOW_DROP_CHUNK = 1
    FlushThreshold = 1
    MaxSnapshots = 2
    MaxErrors = 0
    MaxCrashes = 1
INVARIANT FlushedIsListed
CHECK_DEADLOCK FALSE
