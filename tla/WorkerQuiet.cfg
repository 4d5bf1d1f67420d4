SPECIFICATION Spec
CONSTANTS
    Feeds <- Book
    NoFeed = NoFeed
    VenueExits <- Silence
    Commands <- StopOnly
    Capacity = 1
    MaxNormalized = 1
    initial_delay = 1
    max_delay = 2
    max_attempts = 1
    Jitter = 50
PROPERTY StopEndsQuiet
CHECK_DEADLOCK FALSE
