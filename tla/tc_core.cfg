SPECIFICATION FairSpec
CONSTANTS
    Readers = {r1, r2}
    Writers = {w1}
    TTL = 2
    Pause = 1
    MaxVersion = 2
    MaxClock = 5
    None = None
INVARIANTS StalenessBounded
PROPERTIES JanitorSparesLive ExpiredIsFreed
