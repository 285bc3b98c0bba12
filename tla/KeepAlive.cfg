SPECIFICATION Spec

CONSTANTS
    None = None
    Unset = Unset
    Blank = Blank
    Junk = Junk
    Yes = Yes
    Panels <- MCPanels
    Day = 8
    MinInterval = 1
    DefaultInterval = 2
    DefaultBackoff = 3
    EndDelay = 2
    Slowness = 1
    LaunchTime = 2
    Long = 3

INVARIANTS
    TypeOK
    ReturnsInTime
PROPERTIES
    OnlyWhenWanted
    AttemptsSpaced
