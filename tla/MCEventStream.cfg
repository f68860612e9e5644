SPECIFICATION Spec
CONSTANTS
    MaxEvents = 3
    MaxChanges = 2
    MaxConnects = 3
INVARIANTS
    NoLostWakeUp
    NothingRepeatedOrSkipped
    EndedStreamsAreComplete
    OneFrameAfterLoss
PROPERTIES
    EndIsSeen
