\* The default turns and limit; every run may be killed while it loads.
CONSTANTS
    None = None
    a = a
    b = b
    Account = {a, b}
    Settings <- DefaultTurns
    Conflict = {"conflict"}
    OtherFailure = {"timeout", "failed", "settings", "tunnel"}
    MaxNumber = 5
    MaxStreak = 3
    Users = {}
    Supervisor = Supervisor
    Run = {r1, r2}
    Faults = {"kill"}
    Copies = 1
    MaxMisses = 3
    MaxRestarts = 0
    MaxPushes = 9
SPECIFICATION Spec
PROPERTIES
    SkipLeavesFailingAccount
