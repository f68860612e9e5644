SPECIFICATION Spec
CONSTANTS
    p1 = p1
    p2 = p2
    c1 = c1
    NoTurn = NoTurn
    PROC = {p1, p2, c1}
    CLIENT = {c1}
    TURN <- MCTurn
    Home <- MCHome
    MaxCrashes = 0
    MaxFailures = 1
    MaxDeletes = 0
    MaxHangUps = 0
PROPERTIES
    NothingIsForgotten
