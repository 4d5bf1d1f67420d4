SPECIFICATION Spec
CONSTANTS
    btc = btc
    eth = eth
    k1 = k1
    k2 = k2
    Pairs <- OnePair
    Keys <- TwoKeys
    Model = "SeqDelta"
    Predicate = "RangeInclusive"
    Source = "RestSnapshot"
    HasSeeder = TRUE
    MaxBuffered = 2
    MaxReseeds = 1
    Faults = TRUE
    MaxVersion = 3
    MaxQueue = 2
INVARIANT TypeOK
INVARIANT SeedAccounting
INVARIANT NeverStranded
INVARIANT LiveFeedSynced
 
PROPERTY FeedEdgesLegal
