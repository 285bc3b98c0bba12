\* A clock of seven instants: room for a start that times out under either
\* timeout, for a second one after it, and for webhooks before and after both.
CONSTANTS
    None = None
    StartTimeouts = {1, 3}
    Uptimes = {0, 2}
    MaxClock = 7
SPECIFICATION FairSpec
INVARIANTS
    TypeOK
    PossibleHistory
PROPERTIES
    ImplementsLifecycle
    StartResolves
