\* Numbers up to 20 go twice around the longest ring (3 accounts, turns of 3).
CONSTANTS
    a = a
    b = b
    c = c
    Account = {a, b, c}
    Settings <- MCSettings
    Conflict <- MCConflict
    OtherFailure <- MCOtherFailure
    MaxNumber = 20
    MaxStreak = 4
SPECIFICATION RotationSpec
INVARIANTS
    RotationTypeOK
    FairShares
PROPERTIES
    TurnsInOrder
    SkipStartsNextTurn
    StreakStaysBelowLimit
