SPECIFICATION Spec
CONSTANTS
    btc = btc
    eth = eth
    k1 = k1
    k2 = k2
    Pairs <- OnePair
    Keys <- TwoKeys
    Model = "L3"
    Predicate = "Monotonic"
    Source = "RestSnapshot"
    HasSeeder = TRUE
    MaxBuffered = 2
    MaxReseeds = 1
    Faults = FALSE
    MaxVersion = 2
    MaxQueue = 2
INVARIANT L3EmitsVenueBook
