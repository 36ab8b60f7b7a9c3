SPECIFICATION Spec
CONSTANTS
    None = None
    Full = 1
    MinSafe = 1
    RuleAHeight = 1
    DefaultLevel = 1
    Samples <- MCStates
    Foreign <- MCStatesForeign
    Commands <- MCCommands
    Forecast <- MCForecast
    Cooldown = 2
    FrozenSamples = 2
    CommandWindow = 1
    CommandLimit = 2
    DriftWindow = 1
    DriftLimit = 0
    Subscribed = TRUE
    MaxTime = 2
    MaxSeq = 1
    MaxLives = 1
    MaxWire = 2
    MaxOthers = 1
    MaxCommands = 3
INVARIANT
    WindowsExact
PROPERTIES
    MaintenanceRespected
    LimitsRate
