SPECIFICATION Spec
CONSTANTS
    Sinks <- Workers
    Deployments <- EitherWay
    Datatypes <- TwoLeaves
    Declared <- Both
    Shapes <- Books
    MAX_BUFFERED_SNAPSHOTS = 1
    OVERFLOW_DROP_CHUNK = 1
    FlushThreshold = 1
    MaxSnapshots = 2
    MaxErrors = 1
    MaxCrashes = 1
 
INVARIANT LeafIsSound
INVARIANT CopiesComeFromRetries
 
PROPERTY SweepSparesOtherProcesses
CHECK_DEADLOCK FALSE
