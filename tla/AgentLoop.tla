----------------------------- MODULE AgentLoop -----------------------------
(***************************************************************************)
(* The agent loop: one run of crates/lightagent-core/src/loop_.rs.         *)
(*                                                                         *)
(* A run alternates model turns with batches of tool calls until it ends   *)
(* with a StopReason, pauses for an approval (RunOutcome::AwaitingApproval)*)
(* or pauses on its wall clock (RunOutcome::OutOfTime).  Each await of the *)
(* code (connecting to the provider, the stream, a tool call, the caller's *)
(* answer) is a phase; the code between two awaits is one action.  The     *)
(* wall clock and the cancellation token change between any two actions.   *)
(*                                                                         *)
(* Abstracted: message texts, token counts.  Whether the conversation      *)
(* leaves too little of the context window, or the output pool has too     *)
(* little left, is chosen at each place the code asks.                     *)
(***************************************************************************)
EXTENDS Integers, Sequences, FiniteSets

CONSTANTS Call,              \* distinct (name, arguments) pairs a model may ask for
          MaxTurns,          \* RunLimits.max_turns
          MaxToolCalls,      \* RunLimits.max_tool_calls
          MaxRepeats,        \* RunLimits.max_repeated_identical_calls
          MaxContinuations,  \* GenerationBudget.max_continuations, capped
          MaxBatch,          \* bound: calls in one batch
          EmptyBatches       \* the provider may end a turn with tool_calls and no call

ASSUME LimitsAssumption ==
    /\ MaxTurns \in Nat
    /\ MaxToolCalls \in Nat
    /\ MaxRepeats \in Nat
    /\ MaxContinuations \in Nat
    /\ MaxBatch \in Nat \ {0}

\* The wall clock (RunLimits.wall_clock and its WallClockPolicy), whether
\* GenerationBudget.guards_context(), and whether an output pool is installed.
Budget == [clock : {"none", "pause", "wrapUp"}, guardsContext : BOOLEAN, pool : BOOLEAN]

ASSUME BatchesAssumption == EmptyBatches \in BOOLEAN

VARIABLES budget,         \* the budgets this run was given
          phase,          \* where the run is: the await it is in, or how it ended
          turn,           \* Driver.turn
          toolCallsMade,  \* Driver.tool_calls_made
          callCounts,     \* Driver.call_counts
          messages,       \* Driver.messages, from the user's message on
          pending,        \* Driver.pending's calls; <<>> between batches
          next,           \* the 1-based position of Batch.next in pending
          wrapUp,         \* Driver.wrap_up
          continuing,     \* Driver.continuing is set
          continuations,  \* Driver.continuations
          finish,         \* how the stream just read ended
          reason,         \* the StopReason of the RunCompleted emitted, if any
          overTime,       \* started.elapsed() >= wall clock
          cancelled       \* the cancellation token

loopVars == <<turn, toolCallsMade, callCounts, messages, pending, next,
              wrapUp, continuing, continuations, finish, reason>>
vars == <<budget, phase, loopVars, overTime, cancelled>>

Phase == {"turn", "connecting", "streaming", "finishing", "batch", "tool",
          "approval", "outOfTime", "completed", "failed"}

WrapUp == {"wallClock", "turnBudget", "toolCallBudget", "contextBudget", "outputBudget"}

FinishReason == {"stop", "toolCalls", "length", "incomplete", "error"}

StopReason == {"endTurn", "maxTurns", "maxToolCalls", "repeatedToolCalls",
               "wallClockExceeded", "maxTokens", "contextLimit", "outputBudget",
               "incomplete", "cancelled", "error"}

\* WrapUp::reason: the budget, not the model, ended the run.
StopReasonOf(w) ==
    CASE w = "wallClock"      -> "wallClockExceeded"
      [] w = "turnBudget"     -> "maxTurns"
      [] w = "toolCallBudget" -> "maxToolCalls"
      [] w = "contextBudget"  -> "contextLimit"
      [] w = "outputBudget"   -> "outputBudget"

(***************************************************************************)
(* The conversation.  An assistant message says how many calls it asked    *)
(* for; a tool message says which call of which turn it answers and        *)
(* whether that call ran (a denied or unrun call also leaves a result).    *)
(***************************************************************************)
Message == [role: {"user", "assistant", "tool"}, turn: Nat, calls: Nat,
            index: Nat, ran: BOOLEAN]

UserMessage == [role |-> "user", turn |-> 0, calls |-> 0, index |-> 0, ran |-> FALSE]

Assistant(n) == [role |-> "assistant", turn |-> turn, calls |-> n, index |-> 0, ran |-> FALSE]

ToolResult(i, ran) == [role |-> "tool", turn |-> turn, calls |-> 0, index |-> i, ran |-> ran]

HasToolResults == \E i \in DOMAIN messages : messages[i].role = "tool"

\* A tool message last means the model has not read what its tools returned.
UnreadResults == messages # <<>> /\ messages[Len(messages)].role = "tool"

Init ==
    /\ budget \in Budget
    /\ phase = "turn"
    /\ turn = 0
    /\ toolCallsMade = 0
    /\ callCounts = [c \in Call |-> 0]
    /\ messages = <<UserMessage>>
    /\ pending = <<>>
    /\ next = 1
    /\ wrapUp = "none"
    /\ continuing = FALSE
    /\ continuations = 0
    /\ finish = "none"
    /\ reason = "none"
    /\ overTime = FALSE
    /\ cancelled = FALSE

\* Driver::end: RunCompleted with this reason, and the run is over.
End(r) ==
    /\ phase' = "completed"
    /\ reason' = r

-----------------------------------------------------------------------------
(* Taking a turn: the budgets checked, in the code's order.                *)

HasClock == budget.clock # "none"
PausesOutOfTime == budget.clock = "pause"

ClockRanOut == wrapUp = "none" /\ HasClock /\ overTime

\* Out of time with nothing unread: the run simply ends.
EndOutOfTime ==
    /\ phase = "turn"
    /\ ClockRanOut
    /\ ~UnreadResults
    /\ End(IF continuing THEN "maxTokens" ELSE "wallClockExceeded")
    /\ UNCHANGED <<turn, toolCallsMade, callCounts, messages, pending, next, wrapUp,
                   continuing, continuations, finish, overTime, cancelled, budget>>

\* Out of time with unread results: an interactive caller is asked.
PauseOutOfTime ==
    /\ phase = "turn"
    /\ ClockRanOut
    /\ UnreadResults
    /\ PausesOutOfTime
    /\ phase' = "outOfTime"
    /\ UNCHANGED <<loopVars, overTime, cancelled, budget>>

\* The wrap-up the next turn owes; fewContext and fewOutput are what the
\* context estimate and the pool said.
DueWrapUp(fewContext, fewOutput) ==
    LET gathered == ~continuing /\ HasToolResults IN
    IF wrapUp # "none" THEN wrapUp
    ELSE IF ClockRanOut THEN "wallClock"
    ELSE IF gathered /\ turn + 1 >= MaxTurns THEN "turnBudget"
    ELSE IF gathered /\ budget.guardsContext /\ fewContext THEN "contextBudget"
    ELSE IF gathered /\ budget.pool /\ fewOutput THEN "outputBudget"
    ELSE "none"

\* take_turn up to the request: wrap-ups, the pool reservation, the count.
BeginTurn ==
    /\ phase = "turn"
    /\ ClockRanOut => UnreadResults /\ ~PausesOutOfTime
    /\ \E fewContext, fewOutput \in BOOLEAN : wrapUp' = DueWrapUp(fewContext, fewOutput)
    /\ \/ /\ phase' = "connecting"
          /\ turn' = turn + 1
          /\ UNCHANGED reason
       \/ /\ budget.pool                  \* nothing left to grant
          /\ End("outputBudget")
          /\ UNCHANGED turn
    /\ UNCHANGED <<toolCallsMade, callCounts, messages, pending, next, continuing,
                   continuations, finish, overTime, cancelled, budget>>

\* provider.stream(request, cancel).await?
Connect ==
    /\ phase = "connecting"
    /\ phase' \in {"streaming", "failed"}
    /\ UNCHANGED <<loopVars, overTime, cancelled, budget>>

\* The stream's select is biased: a cancelled run reads nothing more.
StreamCancelled ==
    /\ phase = "streaming"
    /\ cancelled
    /\ End("cancelled")
    /\ UNCHANGED <<turn, toolCallsMade, callCounts, messages, pending, next, wrapUp,
                   continuing, continuations, finish, overTime, cancelled, budget>>

\* The stream yields an error: Error, then RunCompleted.
StreamFails ==
    /\ phase = "streaming"
    /\ ~cancelled
    /\ End("error")
    /\ UNCHANGED <<turn, toolCallsMade, callCounts, messages, pending, next, wrapUp,
                   continuing, continuations, finish, overTime, cancelled, budget>>

\* The stream ends; without a terminal event it is Incomplete.
StreamEnds ==
    /\ phase = "streaming"
    /\ ~cancelled
    /\ phase' = "finishing"
    /\ finish' \in FinishReason
    /\ UNCHANGED <<turn, toolCallsMade, callCounts, messages, pending, next, wrapUp,
                   continuing, continuations, reason, overTime, cancelled, budget>>

-----------------------------------------------------------------------------
(* What the turn ended with.                                               *)

\* Mutant: a continuation may begin when the turn budget is used up.
MayContinue_lastTurn(hasText, hasRoom) ==
    /\ continuations < MaxContinuations
    /\ hasText
    /\ ~cancelled
    /\ turn <= MaxTurns
    /\ ~(HasClock /\ overTime)
    /\ hasRoom

\* may_continue, with hasText /\ hasRoom standing for its data: answer text
\* arrived, no call was asked for, and pool and window have room for more.
MayContinue(hasText, hasRoom) ==
    /\ continuations < MaxContinuations
    /\ hasText
    /\ ~cancelled
    /\ turn < MaxTurns
    /\ ~(HasClock /\ overTime)
    /\ hasRoom

\* An answer cut off at its length limit: the next turn continues it.  Its
\* text joins the answer so far, or starts one.
ContinueAnswer ==
    /\ phase = "finishing"
    /\ finish = "length"
    /\ \E hasText, hasRoom \in BOOLEAN : MayContinue(hasText, hasRoom)
    /\ messages' = IF continuing /\ messages[Len(messages)].role = "assistant"
                     THEN messages
                     ELSE Append(messages, Assistant(0))
    /\ continuing' = TRUE
    /\ continuations' = continuations + 1
    /\ phase' = "turn"
    /\ finish' = "none"
    /\ UNCHANGED <<turn, toolCallsMade, callCounts, pending, next, wrapUp, reason,
                   overTime, cancelled, budget>>

\* The stop reason of a turn that ends the run, by how its stream ended.
FinalReason ==
    CASE finish = "length"                        -> "maxTokens"
      [] finish = "incomplete"                    -> "incomplete"
      [] finish = "error"                         -> "error"
      [] finish \in {"stop", "toolCalls"} /\ wrapUp # "none" -> StopReasonOf(wrapUp)
      [] OTHER                                    -> "endTurn"

\* A wrap-up turn or a continuation is the last one whatever it produced.
TurnIsLast ==
    \/ finish \in {"incomplete", "error", "stop"}
    \/ finish = "toolCalls" /\ (wrapUp # "none" \/ continuing)
    \/ finish = "length" /\ \E hasText, hasRoom \in BOOLEAN : ~MayContinue(hasText, hasRoom)

EndTurn ==
    /\ phase = "finishing"
    /\ TurnIsLast
    /\ End(FinalReason)
    /\ continuing' = FALSE
    /\ finish' = "none"
    /\ UNCHANGED <<turn, toolCallsMade, callCounts, messages, pending, next, wrapUp,
                   continuations, overTime, cancelled, budget>>

Batch == UNION {[1..n -> Call] : n \in (IF EmptyBatches THEN 0 ELSE 1)..MaxBatch}

\* FinishReason::ToolCalls on an ordinary turn: the batch is the next work.
AcceptBatch ==
    /\ phase = "finishing"
    /\ finish = "toolCalls"
    /\ wrapUp = "none"
    /\ ~continuing
    /\ pending' \in Batch
    /\ messages' = Append(messages, Assistant(Len(pending')))
    /\ next' = 1
    /\ phase' = "batch"
    /\ finish' = "none"
    /\ UNCHANGED <<turn, toolCallsMade, callCounts, wrapUp, continuing, continuations,
                   reason, overTime, cancelled, budget>>

-----------------------------------------------------------------------------
(* Processing the batch, one call after another.                           *)

\* Every call handled: another turn, unless the turn budget is used up.
FinishBatch ==
    /\ phase = "batch"
    /\ next > Len(pending)
    /\ pending' = <<>>
    /\ next' = 1
    /\ IF turn >= MaxTurns
         THEN End("maxTurns")
         ELSE phase' = "turn" /\ UNCHANGED reason
    /\ UNCHANGED <<turn, toolCallsMade, callCounts, messages, wrapUp, continuing,
                   continuations, finish, overTime, cancelled, budget>>

\* Mutant: only the call that hit the budget gets a result.
OutOfToolCalls_oneResult ==
    /\ phase = "batch"
    /\ next <= Len(pending)
    /\ toolCallsMade + 1 > MaxToolCalls
    /\ toolCallsMade' = toolCallsMade + 1
    /\ messages' = Append(messages, ToolResult(next, FALSE))
    /\ next' = Len(pending) + 1
    /\ IF turn < MaxTurns
         THEN /\ wrapUp' = IF wrapUp = "none" THEN "toolCallBudget" ELSE wrapUp
              /\ UNCHANGED <<phase, reason>>
         ELSE End("maxToolCalls") /\ UNCHANGED wrapUp
    /\ UNCHANGED <<turn, callCounts, pending, continuing, continuations, finish,
                   overTime, cancelled, budget>>

\* out_of_tool_calls: this call and the rest of the batch do not run, each
\* gets a result, and the run owes an answer if a turn is left for it.
OutOfToolCalls ==
    /\ phase = "batch"
    /\ next <= Len(pending)
    /\ toolCallsMade + 1 > MaxToolCalls
    /\ toolCallsMade' = toolCallsMade + 1
    /\ messages' = messages \o
           [k \in 1..(Len(pending) - next + 1) |-> ToolResult(next + k - 1, FALSE)]
    /\ next' = Len(pending) + 1
    /\ IF turn < MaxTurns
         THEN /\ wrapUp' = IF wrapUp = "none" THEN "toolCallBudget" ELSE wrapUp
              /\ UNCHANGED <<phase, reason>>
         ELSE End("maxToolCalls") /\ UNCHANGED wrapUp
    /\ UNCHANGED <<turn, callCounts, pending, continuing, continuations, finish,
                   overTime, cancelled, budget>>

\* Mutant: the call is not counted against the budget.
CountCall_uncounted ==
    /\ phase = "batch"
    /\ next <= Len(pending)
    /\ toolCallsMade + 1 <= MaxToolCalls
    /\ UNCHANGED toolCallsMade
    /\ callCounts' = [callCounts EXCEPT ![pending[next]] = @ + 1]

\* The checks every call passes first: the call budget and the repeat count.
CountCall ==
    /\ phase = "batch"
    /\ next <= Len(pending)
    /\ toolCallsMade + 1 <= MaxToolCalls
    /\ toolCallsMade' = toolCallsMade + 1
    /\ callCounts' = [callCounts EXCEPT ![pending[next]] = @ + 1]

\* One identical call too many: the run is stuck and ends.
RepeatedCall ==
    /\ CountCall
    /\ callCounts'[pending[next]] > MaxRepeats
    /\ End("repeatedToolCalls")
    /\ UNCHANGED <<turn, messages, pending, next, wrapUp, continuing, continuations,
                   finish, overTime, cancelled, budget>>

\* ApprovalNeed::AutoApprove runs the call, Require suspends the run on it.
StartCall ==
    /\ CountCall
    /\ callCounts'[pending[next]] <= MaxRepeats
    /\ phase' \in {"tool", "approval"}
    /\ UNCHANGED <<turn, messages, pending, next, wrapUp, continuing, continuations,
                   finish, reason, overTime, cancelled, budget>>

\* ApprovalNeed::Deny leaves a result the model reads, and the call is over.
RefuseCall ==
    /\ CountCall
    /\ callCounts'[pending[next]] <= MaxRepeats
    /\ messages' = Append(messages, ToolResult(next, FALSE))
    /\ next' = next + 1
    /\ UNCHANGED <<phase, turn, pending, wrapUp, continuing, continuations,
                   finish, reason, overTime, cancelled, budget>>

\* Mutant: the batch stays on the call that ran.
FinishCall_notAdvanced ==
    /\ phase = "tool"
    /\ messages' = Append(messages, ToolResult(next, TRUE))
    /\ phase' = "batch"
    /\ \/ UNCHANGED wrapUp
       \/ budget.guardsContext /\ wrapUp' = IF wrapUp = "none" THEN "contextBudget" ELSE wrapUp
    /\ UNCHANGED <<next, turn, toolCallsMade, callCounts, pending, continuing,
                   continuations, finish, reason, overTime, cancelled, budget>>

\* run_call returns; fit_to_context may shorten the result and owe an answer.
FinishCall ==
    /\ phase = "tool"
    /\ messages' = Append(messages, ToolResult(next, TRUE))
    /\ next' = next + 1
    /\ phase' = "batch"
    /\ \/ UNCHANGED wrapUp
       \/ budget.guardsContext /\ wrapUp' = IF wrapUp = "none" THEN "contextBudget" ELSE wrapUp
    /\ UNCHANGED <<turn, toolCallsMade, callCounts, pending, continuing, continuations,
                   finish, reason, overTime, cancelled, budget>>

-----------------------------------------------------------------------------
(* The caller's answers, and the run's surroundings.                       *)

\* resume with a grant: the awaited call runs.
Grant ==
    /\ phase = "approval"
    /\ phase' = "tool"
    /\ UNCHANGED <<loopVars, overTime, cancelled, budget>>

\* resume with a denial: a controlled error result, and on with the batch.
Deny ==
    /\ phase = "approval"
    /\ messages' = Append(messages, ToolResult(next, FALSE))
    /\ next' = next + 1
    /\ phase' = "batch"
    /\ UNCHANGED <<turn, toolCallsMade, callCounts, pending, wrapUp, continuing,
                   continuations, finish, reason, overTime, cancelled, budget>>

\* resume with a decision on another approval: AgentError::InvalidApproval.
DecideAnother ==
    /\ phase = "approval"
    /\ phase' = "failed"
    /\ UNCHANGED <<loopVars, overTime, cancelled, budget>>

\* continue_out_of_time with Continuation::Extend restarts the clock.
Extend ==
    /\ phase = "outOfTime"
    /\ overTime' = FALSE
    /\ phase' = "turn"
    /\ UNCHANGED <<loopVars, cancelled, budget>>

\* continue_out_of_time with Continuation::WrapUp takes the answer turn now.
AskForAnswer ==
    /\ phase = "outOfTime"
    /\ wrapUp' = "wallClock"
    /\ phase' = "turn"
    /\ UNCHANGED <<turn, toolCallsMade, callCounts, messages, pending, next, continuing,
                   continuations, finish, reason, overTime, cancelled, budget>>

ClockPasses ==
    /\ HasClock
    /\ ~overTime
    /\ overTime' = TRUE
    /\ UNCHANGED <<phase, loopVars, cancelled, budget>>

Cancel ==
    /\ ~cancelled
    /\ cancelled' = TRUE
    /\ UNCHANGED <<phase, loopVars, overTime, budget>>

\* A run that ended stays as it is.
Ended == phase \in {"completed", "failed"} /\ UNCHANGED vars

LoopStep ==
    \/ EndOutOfTime \/ PauseOutOfTime \/ BeginTurn \/ Connect
    \/ StreamCancelled \/ StreamFails \/ StreamEnds
    \/ ContinueAnswer \/ EndTurn \/ AcceptBatch
    \/ FinishBatch \/ OutOfToolCalls \/ RepeatedCall \/ StartCall \/ RefuseCall \/ FinishCall

CallerStep == Grant \/ Deny \/ DecideAnother \/ Extend \/ AskForAnswer

Next == LoopStep \/ CallerStep \/ ClockPasses \/ Cancel \/ Ended

\* The loop's own steps are fair: nothing blocks it but the provider and a
\* tool.  A tool has a timeout; that the provider answers, or its stream
\* ends, is assumed here.  The caller, the clock and the cancellation are
\* not fair.
Spec == Init /\ [][Next]_vars /\ WF_vars(LoopStep)

-----------------------------------------------------------------------------
(* Properties.                                                             *)

TypeOK ==
    /\ budget \in Budget
    /\ phase \in Phase
    /\ turn \in Nat
    /\ toolCallsMade \in Nat
    /\ callCounts \in [Call -> Nat]
    /\ messages \in Seq(Message)
    /\ pending \in Seq(Call)
    /\ next \in Nat \ {0}
    /\ wrapUp \in WrapUp \cup {"none"}
    /\ continuing \in BOOLEAN
    /\ continuations \in Nat
    /\ finish \in FinishReason \cup {"none"}
    /\ reason \in StopReason \cup {"none"}
    /\ overTime \in BOOLEAN
    /\ cancelled \in BOOLEAN

\* Message p answers the index-th call of the assistant message index places
\* before it.
Answers(p) ==
    LET m == messages[p] IN
    /\ 1 <= m.index /\ m.index < p
    /\ messages[p - m.index].role = "assistant"
    /\ messages[p - m.index].turn = m.turn
    /\ m.index <= messages[p - m.index].calls

\* What a provider requires of the conversation it is sent: every call an
\* assistant message asked for is followed by its own result, in order,
\* before anything else, and no result answers a call nobody asked for.  The
\* code builds this one push at a time, across batches that are cut short by
\* budgets, denials and pauses.
WellFormedRequests ==
    phase \in {"connecting", "streaming"} =>
        /\ \A p \in DOMAIN messages : messages[p].role = "tool" => Answers(p)
        /\ \A p \in DOMAIN messages : \A k \in 1..messages[p].calls :
              /\ p + k <= Len(messages)
              /\ messages[p + k].role = "tool"
              /\ messages[p + k].index = k
        /\ continuing => messages[Len(messages)].role = "assistant"

TurnLimit == IF MaxTurns = 0 THEN 1 ELSE MaxTurns

\* The results of calls that ran; the calls that ran or are running, by turn
\* and place in the batch; and how many times a call was run.
RanResults == {i \in DOMAIN messages : messages[i].ran}

Ran == {<<messages[i].turn, messages[i].index>> : i \in RanResults}
       \cup (IF phase = "tool" THEN {<<turn, next>>} ELSE {})

Executions == Cardinality(RanResults) + (IF phase = "tool" THEN 1 ELSE 0)

\* RunLimits holds over the whole run, whatever pauses, denials,
\* continuations and wrap-ups it went through: no more turns than allowed
\* (a run always gets one), no more calls run than allowed, no call asked
\* for more often than allowed before the run ends, and no more
\* continuations than allowed.
WithinLimits ==
    /\ turn <= TurnLimit
    /\ toolCallsMade <= MaxToolCalls + 1
    /\ Executions <= MaxToolCalls
    /\ (\E c \in Call : callCounts[c] > MaxRepeats) => reason = "repeatedToolCalls"
    /\ continuations <= MaxContinuations

\* An answer the run owes can still be given: when a wrap-up is due, and when
\* the run pauses out of time, a turn is left to take, and a pause always has
\* results to answer from.
AnswerTurnLeft ==
    /\ phase = "turn" /\ wrapUp # "none" => turn < MaxTurns
    /\ phase = "outOfTime" => turn < MaxTurns /\ UnreadResults /\ wrapUp = "none"

\* Once the run owes its answer, no later budget renames the debt and no new
\* batch is accepted: at most the batch in hand finishes.
WrapUpIsFinal ==
    [][wrapUp # "none" =>
          /\ wrapUp' = wrapUp
          /\ pending' # pending => pending' = <<>>]_vars

\* The loop implements what a run promises its caller.
Contract ==
    INSTANCE RunContract WITH
        outcome   <- CASE phase = "approval"  -> "awaitingApproval"
                       [] phase = "outOfTime" -> "outOfTime"
                       [] phase \in {"completed", "failed"} -> phase
                       [] OTHER               -> "running",
        turns     <- turn,
        ran       <- Ran,
        executions <- Executions,
        CallLimit <- MaxToolCalls,
        BatchLimit <- MaxBatch

\* Every call runs at most once, in the turn that asked for it, within the
\* call limit, and only between outcomes; a run that ended never moves.
ImplementsContract == Contract!Spec

=============================================================================
