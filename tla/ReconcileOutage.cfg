SPECIFICATION Spec
CONSTANTS
    PageSize = 1
    MAX_PAGES = 3
    PerSecond = 1
    Venues <- JustBinance
    Sweeps <- Unswept
    RingCap = 3
    SeenCap = 1
    WireCap = 2
    RecCap = 1
    TriggerCap = 1
    MaxId = 3
    MaxDrops = 1
    MaxTroubles = 0
INVARIANT OutageRepaired

\* Prints and drops are bounded, and a worker may stop.
CHECK_DEADLOCK FALSE
