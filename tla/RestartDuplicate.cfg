\* One restart while a run is loading, at the end of an account's turn.
CONSTANTS
    None = None
    a = a
    b = b
    Account = {a, b}
    Settings <- ShortTurns
    Conflict = {"conflict"}
    OtherFailure = {"timeout", "failed", "settings", "tunnel"}
    MaxNumber = 2
    MaxStreak = 3
    Users = {}
    Supervisor = Supervisor
    Run = {r1, r2}
    Faults = {"restart"}
    Copies = 1
    MaxMisses = 3
    MaxRestarts = 1
    MaxPushes = 9
SPECIFICATION Spec
INVARIANTS
    AtMostOneLive
