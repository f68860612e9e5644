SPECIFICATION Spec
CONSTANTS
    A = A
    B = B
    NoWorker = NoWorker
    PROFILE = {A, B}
    LEAD <- MCLead
    WORKER <- MCWorker
    Profile <- MCProfile
    Lead <- MCLeadOf
    Parent <- MCParent
    Want <- MCWant
    MaxTurns = 3
    MaxWorkers = 2
    MaxActive = 2
    MaxPerProfile = 1
    MaxParks = 2
    MaxDrops = 1
INVARIANTS
    SlotsAreBounded
    TreeStaysWithinItsLimits
PROPERTIES
    WaitingEnds
