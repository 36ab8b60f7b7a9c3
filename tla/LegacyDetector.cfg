SPECIFICATION Spec
CONSTANTS
    None = None
    Full = 2
    MaxLevel = 4
    MinSafe = 1
    MaxSafe = 3
    Inflow = 1
    Outflow <- MCOutflow
    Steps = 3
    RuleAHeight = 2
    StartLevel = 2
    StartValve = 1
    Samples <- MCSamples
    Foreign <- MCForeign
    Commands <- MCCommands
    Cooldown = 2
    FrozenSamples = 2
    StaleAfter = 1
    GapMax = 1
    AgeTolerance = 1
    PredictionDt = 2
    DriftWindow = 0
    DriftLimit = 1
    MaxTime = 2
    MaxSeq = 4
    MaxLives = 2
    MaxWire = 1
    MaxOthers = 2
INVARIANTS
    TypeOK
    FrozenExact
    SequenceVerdictsExact
PROPERTIES
    ForecastExact
    OverfillNotSilent
    StaleContextAlerted
    LimitsRate
