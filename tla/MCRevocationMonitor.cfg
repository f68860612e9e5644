SPECIFICATION MonitorSpec
CONSTANTS
    RUN <- MCRuns
    MaxIdentityChanges = 3
INVARIANTS
    RunsAreWatched
PROPERTIES
    LostAuthorityIsRevoked
