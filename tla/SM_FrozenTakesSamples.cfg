SPECIFICATION Spec
CONSTANTS
    None = None
    Full = 1
    MinSafe = 1
    RuleAHeight = 1
    DefaultLevel = 1
    Samples <- MCFeed
    Foreign <- MCNoForeign
    Commands <- MCNoCommands
    Forecast <- MCForecast
    Cooldown = 2
    FrozenSamples = 5
    CommandWindow = 1
    CommandLimit = 2
    DriftWindow = 1
    DriftLimit = 0
    Subscribed = TRUE
    MaxTime = 1
    MaxSeq = 4
    MaxLives = 1
    MaxWire = 2
    MaxOthers = 0
    MaxCommands = 0
PROPERTY
    FrozenTakesSamples
