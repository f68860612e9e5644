---------------------------- MODULE RunContract ----------------------------
(***************************************************************************)
(* What one run of the agent loop promises its caller, without saying how  *)
(* the loop keeps its conversation: the caller sees a RunOutcome           *)
(* (crates/lightagent-core/src/loop_.rs) that is a completed run, a run    *)
(* waiting for an approval, a run out of time, or an error, and between    *)
(* two outcomes the run takes model turns and runs tool calls within its   *)
(* limits.  AgentLoop implements this module.                              *)
(*                                                                         *)
(* A tool call is named <<turn, index>>: the turn that asked for it and    *)
(* its place in that turn's batch.                                         *)
(***************************************************************************)
EXTENDS Naturals

CONSTANTS TurnLimit,    \* the most model turns the run may take
          CallLimit,    \* the most tool calls the run may execute
          BatchLimit    \* the most calls one turn may ask for

VARIABLES outcome,      \* what the caller has in hand: "running" between outcomes
          turns,        \* model turns taken
          ran,          \* the tool calls executed, as <<turn, index>>
          executions    \* how many times a tool call was executed

vars == <<outcome, turns, ran, executions>>

Init ==
    /\ outcome = "running"
    /\ turns = 0
    /\ ran = {}
    /\ executions = 0

\* The model is asked once more.
TakeTurn ==
    /\ outcome = "running"
    /\ turns < TurnLimit
    /\ turns' = turns + 1
    /\ UNCHANGED <<outcome, ran, executions>>

\* The latest turn's call at place i runs, for the first time: either the policy
\* lets it run unasked, or the caller just granted it.
Run(i) ==
    /\ outcome \in {"running", "awaitingApproval"}
    /\ <<turns, i>> \notin ran
    /\ executions < CallLimit
    /\ ran' = ran \cup {<<turns, i>>}
    /\ executions' = executions + 1
    /\ outcome' = "running"
    /\ UNCHANGED turns

\* The run hands itself to its caller, who owes it an answer.
Suspend ==
    /\ outcome = "running"
    /\ outcome' \in {"awaitingApproval", "outOfTime"}
    /\ UNCHANGED <<turns, ran, executions>>

\* The caller answers without running anything: a denial, or more time.
Proceed ==
    /\ outcome \in {"awaitingApproval", "outOfTime"}
    /\ outcome' = "running"
    /\ UNCHANGED <<turns, ran, executions>>

\* The run ends with a stop reason.
Complete ==
    /\ outcome = "running"
    /\ outcome' = "completed"
    /\ UNCHANGED <<turns, ran, executions>>

\* The run ends with an AgentError: the provider refused the request, or a
\* decision named another approval.
Fail ==
    /\ outcome \in {"running", "awaitingApproval"}
    /\ outcome' = "failed"
    /\ UNCHANGED <<turns, ran, executions>>

Next ==
    \/ TakeTurn
    \/ \E i \in 1..BatchLimit : Run(i)
    \/ Suspend
    \/ Proceed
    \/ Complete
    \/ Fail

Spec == Init /\ [][Next]_vars
============================================================================
