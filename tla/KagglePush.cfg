\* Two launches that overlap in any way, on one account or on two.
CONSTANTS
    Launch = {l1, l2}
    Account = {a, b}
    MaxAttempts = 3
SPECIFICATION FairSpec
INVARIANTS
    TypeOK
    NoStaleSecrets
PROPERTIES
    ImplementsPush
    PushReturns
\* every launch has returned
CHECK_DEADLOCK FALSE
