SPECIFICATION OutputSpec
CONSTANTS
    NoCap = NoCap
    Worker = {"w1", "w2"}
    Total = 20
    MinGrant = 2
    Plan <- MCPlan
    Asks = {3, 12}
    Cap = {NoCap, 4}
    Overrun = {2}
    MaxReservations = 3
INVARIANTS
    BooksBalance
    SharesStayWithinPlan
    AnswerReachesTheRest
