\* The admin pauses again while paused.
SPECIFICATION PauseEagerSpec
CONSTANTS
    Pausers = {"admin"}
    PauseLimits = {2}
    InitialLimit = 2
    Windows = {}
    TimelockDelay = 1
    MaxPending = 1
PROPERTIES
    PauseIsTemporary
