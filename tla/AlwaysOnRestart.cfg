\* Two restarts within the first turn: two accepted pushes are too few to use
\* up the turn, or to skip the rest of it and be restarted in the next.  The 409
\* of the busy account and the adoption have to keep a second run away.
CONSTANTS
    None = None
    a = a
    b = b
    Account = {a, b}
    Settings <- LongTurns
    Conflict = {"conflict"}
    OtherFailure = {"timeout", "failed", "settings", "tunnel"}
    MaxNumber = 7
    MaxStreak = 3
    Users = {}
    Supervisor = Supervisor
    Run = {r1, r2}
    Faults = {"restart", "lost_webhook", "late_webhook", "kill"}
    Copies = 1
    MaxMisses = 2
    MaxRestarts = 2
    MaxPushes = 2
SPECIFICATION FairSpec
INVARIANTS
    AtMostOneLive
    KnownNumbersSpent
PROPERTIES
    LiveServerAdopted
