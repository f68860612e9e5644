SPECIFICATION Spec
CONSTANTS
    MaxRequests = 2
    MaxAnswers = 2
    MaxPauses = 1
    MaxChanges = 2
INVARIANTS
    OneActionAfterRevocation
    RevokedRunsEndCleanly
    WaitsAreVisible
    OneContinuationPerPause
PROPERTIES
    DecisionsResumeTheirCall
    DisallowedRunsEnd
