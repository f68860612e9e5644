--------------------------- MODULE MCSessionRuns ---------------------------
(* Two servers and a terminal chat; two turns asked of the first server and  *)
(* one of the chat, while the other server starts up and deletes.            *)
EXTENDS SessionRuns

CONSTANTS p1, p2, c1

MCTurn == 1..3
MCHome == [t \in MCTurn |-> IF t = 3 THEN c1 ELSE p1]
=============================================================================
