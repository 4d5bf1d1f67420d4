SPECIFICATION Spec
CONSTANTS
    Feeds <- Book
    NoFeed = NoFeed
    VenueExits <- Ends
    Commands <- StopOnly
    Capacity = 1
    MaxNormalized = 1
    initial_delay = 1
    max_delay = 2
    max_attempts = 2
    Jitter = 50
 
INVARIANT OutageAccounted
INVARIANT BackoffBounded
PROPERTY FeedEdgesLegal
PROPERTY ShutdownEnds
PROPERTY StopEnds
CHECK_DEADLOCK FALSE
