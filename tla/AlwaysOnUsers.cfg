\* A request to start races the supervisor, claims time out while their push
\* is under way and the answers to pushes are lost.  Launches are begun at 0
\* only, but several of them at a time carry the counter on around the ring.
CONSTANTS
    None = None
    a = a
    b = b
    Account = {a, b}
    Settings <- ShortTurns
    Conflict = {"conflict"}
    OtherFailure = {"timeout", "failed", "settings", "tunnel"}
    MaxNumber = 0
    MaxStreak = 3
    Users = {u}
    Supervisor = Supervisor
    Run = {r1, r2}
    Faults = {"start_timeout", "lost_answer", "bad_settings", "probe_miss"}
    Copies = 1
    MaxMisses = 2
    MaxRestarts = 0
    MaxPushes = 3
SPECIFICATION Spec
SYMMETRY RunSymmetry
INVARIANTS
    AlwaysOnTypeOK
    KnownNumbersSpent
    ActiveNumbersDistinct
PROPERTIES
    FailureCountedOnce
