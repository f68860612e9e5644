---------------------------- MODULE MCAgentLoop ----------------------------
(* AgentLoop for TLC: two distinct calls, and a run with any of the budgets. *)
EXTENDS AgentLoop

CONSTANTS a, b
MCCall == {a, b}
============================================================================
