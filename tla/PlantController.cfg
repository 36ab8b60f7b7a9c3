SPECIFICATION Spec
CONSTANTS
    Full = 1
    MaxLevel = 2
    MinSafe = 0
    MaxSafe = 2
    InitLevel = 1
    SeqBound = 2
    Junk = Junk
    NoSetpoint = NoSetpoint
    Payloads <- MCPayloads
INVARIANTS
    TypeOK
    BroadcastModeExplained
    LatchHeld
    LoggedEverySample
PROPERTIES
    EstopSafeFirst
    RowModeExplained
    ImplementsMode
