SPECIFICATION Spec
CONSTANTS
    Full = 1
    MaxLevel = 2
    MinSafe = 0
    MaxSafe = 2
    InitLevel = 1
    SeqBound = 2
    Junk = Junk
    NoSetpoint = NoSetpoint
    Payloads <- MCPayloads
PROPERTY
    EstopLatched
