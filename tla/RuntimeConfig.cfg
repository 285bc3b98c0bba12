SPECIFICATION FairSpec
CONSTANTS
    Thread = {t1, t2}
    MaxEdits = 2
    Overridden = {1}
    TTL = 1
    RetryAfter = 3
    Slowness = 1
    MaxClock = 6
INVARIANTS
    TypeOK
PROPERTIES
    SnapshotNeverOlder
    FreshUnlessExcused
    SparesDatabase
    NobodyWaits
\* the clock stops
CHECK_DEADLOCK FALSE
