SPECIFICATION Spec
CONSTANTS
    None = None
    Full = 1
    MinSafe = 1
    RuleAHeight = 1
    DefaultLevel = 1
    Samples <- MCFeed
    Foreign <- MCForeign
    Commands <- MCNoCommands
    Forecast <- MCForecast
    Cooldown = 2
    FrozenSamples = 2
    CommandWindow = 1
    CommandLimit = 2
    DriftWindow = 1
    DriftLimit = 0
    Subscribed = TRUE
    MaxTime = 2
    MaxSeq = 2
    MaxLives = 2
    MaxWire = 3
    MaxOthers = 1
    MaxCommands = 0
INVARIANTS
    TypeOK
    SilenceIsEarned
    FrozenExact
    ReplayIffHeard
PROPERTY
    OverPressureAlerted
