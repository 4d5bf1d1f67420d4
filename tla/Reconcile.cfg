SPECIFICATION Spec
CONSTANTS
    PageSize = 1
    MAX_PAGES = 2
    PerSecond = 1
    Venues <- ThreeVenues
    Sweeps <- Swept
    RingCap = 1
    SeenCap = 1
    WireCap = 2
    RecCap = 1
    TriggerCap = 1
    MaxId = 3
    MaxDrops = 1
    MaxTroubles = 1
 
 
PROPERTY RepairLeavesNoHole
PROPERTY TailRepaired

\* Prints and drops are bounded, and a worker may stop.
CHECK_DEADLOCK FALSE
