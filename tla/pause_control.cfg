\* Every pauser, the timelock queue and every flag.
SPECIFICATION PauseFairSpec
CONSTANTS
    Pausers = {"admin", "role", "guardian", "siblings", "queue", "multisig", "nonce", "payout"}
    PauseLimits = {0, 2, 3}
    InitialLimit = 0
    Windows = {1, 2}
    TimelockDelay = 1
    MaxPending = 2
INVARIANTS
    PauseTypeOK
PROPERTIES
    ImplementsPoolModes
    ScheduleEndsWithPause
    PauseEnds
