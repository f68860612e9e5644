SPECIFICATION Spec
CONSTANTS
  MaxAttempts = 3
  MaxFaults = 1
INVARIANTS PreviousRemains RolledBackIsAsBefore
CHECK_DEADLOCK FALSE
