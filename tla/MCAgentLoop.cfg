SPECIFICATION Spec
CONSTANTS
    a = a
    b = b
    Call <- MCCall
    MaxTurns = 4
    MaxToolCalls = 3
    MaxRepeats = 2
    MaxContinuations = 2
    MaxBatch = 3
    EmptyBatches = FALSE
INVARIANTS
    WellFormedRequests
    WithinLimits
    AnswerTurnLeft
PROPERTIES
    ImplementsContract
