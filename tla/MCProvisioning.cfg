SPECIFICATION Spec
CONSTANTS
    None = None
    Foreign = Foreign
    External = {"e1"}
    Manual = {"m"}
    Profile = {"p1", "p2"}
    Op = {"o1", "o2"}
    MaxProfiles = 2
    MaxCuts = 1
    MaxActs = 1
INVARIANTS
    CutsKeepContinuity
    ContinuityMeansAgreement
PROPERTIES
    OwnershipTakesEffectByCommit
    ChangesAreAudited
    OpenOperationsEnd
