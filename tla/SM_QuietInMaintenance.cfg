SPECIFICATION Spec
CONSTANTS
    None = None
    Full = 1
    MinSafe = 1
    RuleAHeight = 1
    DefaultLevel = 1
    Samples <- MCStates
    Foreign <- MCNoForeign
    Commands <- MCCommands
    Forecast <- MCForecast
    Cooldown = 2
    FrozenSamples = 2
    CommandWindow = 1
    CommandLimit = 2
    DriftWindow = 1
    DriftLimit = 0
    Subscribed = FALSE
    MaxTime = 1
    MaxSeq = 2
    MaxLives = 1
    MaxWire = 2
    MaxOthers = 0
    MaxCommands = 2
PROPERTY
    QuietInMaintenance
