SPECIFICATION Spec
CONSTANTS
  c1 = c1 c2 = c2 s1 = s1 s2 = s2 w1 = w1
  Nobody = Nobody
  MaxId = 2
  Calls = {c1, c2}
  Servers = {s1, s2}
  Waiters = {w1}
  Home <- MCHome
  Under <- MCUnder
INVARIANTS AnswersAreTheirOwn EndReachesEveryCall ExitsAreNotMissed
PROPERTIES ClosedOutputEndsCalls FreeDirectoriesAreFree
CHECK_DEADLOCK FALSE
