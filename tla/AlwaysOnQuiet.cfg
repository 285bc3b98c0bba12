\* The supervisor alone; webhooks are handled promptly and the start timeout
\* is long enough.  Five launches and more cross the turns of both accounts.
CONSTANTS
    None = None
    a = a
    b = b
    Account = {a, b}
    Settings <- ShortTurnsOrNone
    Conflict = {"conflict"}
    OtherFailure = {"timeout", "failed", "settings", "tunnel"}
    MaxNumber = 3
    MaxStreak = 3
    Users = {}
    Supervisor = Supervisor
    Run = {r1, r2}
    Faults = {"kill", "push_failed", "push_raises", "bad_settings"}
    Copies = 2
    MaxMisses = 3
    MaxRestarts = 0
    MaxPushes = 9
SPECIFICATION FairSpec
INVARIANTS
    AtMostOneLive
PROPERTIES
    PlannedNumberIsFresh
    SessionComesBack
    DeadSessionNoticed
