SPECIFICATION RehydrateSpec
CONSTANTS
    PageSize = 1
    MAX_PAGES = 2
    PerSecond = 2
    WalksUsed <- EitherWalk
    MAX_FETCH_ROUNDS = 2
    MaxNewest = 6
    MaxRuns = 2
    MaxExpired = 6
INVARIANT NothingLeftBehind
INVARIANT ExhaustedIsTrue
CHECK_DEADLOCK FALSE
