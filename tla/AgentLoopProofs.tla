-------------------------- MODULE AgentLoopProofs --------------------------
(***************************************************************************)
(* The limits of a run hold for every value of the limits, whatever the    *)
(* provider answers, the caller decides and the clock does.                *)
(***************************************************************************)
EXTENDS AgentLoop, FiniteSetTheorems, SequenceTheorems, TLAPS

-----------------------------------------------------------------------------
(* Type correctness.                                                       *)

LEMMA MessagesAreTyped ==
    ASSUME turn \in Nat
    PROVE  /\ UserMessage \in Message
           /\ \A n \in Nat : Assistant(n) \in Message
BY DEF UserMessage, Assistant, Message

LEMMA TypeInit == Init => TypeOK
<1> SUFFICES ASSUME Init PROVE TypeOK
  OBVIOUS
<1>1. UserMessage \in Message
  BY DEF UserMessage, Message
<1>2. messages \in Seq(Message)
  BY <1>1 DEF Init
<1>3. pending \in Seq(Call) /\ callCounts \in [Call -> Nat]
  BY DEF Init
<1>4. /\ phase \in Phase /\ turn \in Nat /\ toolCallsMade \in Nat /\ next \in Nat \ {0}
      /\ wrapUp \in WrapUp \cup {"none"} /\ finish \in FinishReason \cup {"none"}
      /\ reason \in StopReason \cup {"none"} /\ continuations \in Nat
  BY DEF Init, Phase
<1>5. budget \in Budget /\ continuing \in BOOLEAN /\ overTime \in BOOLEAN /\ cancelled \in BOOLEAN
  BY DEF Init
<1> QED
  BY <1>2, <1>3, <1>4, <1>5 DEF TypeOK

LEMMA BatchesAreSequences == \A s \in Batch : s \in Seq(Call)
BY LimitsAssumption DEF Batch

LEMMA TypeNext == TypeOK /\ [Next]_vars => TypeOK'
<1> SUFFICES ASSUME TypeOK, [Next]_vars PROVE TypeOK'
  OBVIOUS
<1> USE DEF TypeOK
<1>a. ToolResult(next, TRUE) \in Message /\ ToolResult(next, FALSE) \in Message
  BY DEF ToolResult, Message
<1>m. messages \in Seq(Message)
  OBVIOUS
<1>d. /\ Append(messages, ToolResult(next, TRUE)) \in Seq(Message)
      /\ Append(messages, ToolResult(next, FALSE)) \in Seq(Message)
  <2> HIDE DEF TypeOK
  <2> QED
    BY <1>a, <1>m, AppendProperties
<1>b. next + 1 \in Nat \ {0}
  OBVIOUS
<1>c. CountCall => toolCallsMade' \in Nat /\ callCounts' \in [Call -> Nat]
  BY DEF CountCall
<1>0. CASE UNCHANGED vars
  BY <1>0 DEF vars, loopVars
<1>1. CASE EndOutOfTime
  BY <1>1 DEF EndOutOfTime, End, Phase, StopReason
<1>2. CASE PauseOutOfTime
  BY <1>2 DEF PauseOutOfTime, loopVars, Phase
<1>3. CASE BeginTurn
  <2>1. wrapUp' \in WrapUp \cup {"none"}
    BY <1>3 DEF BeginTurn, DueWrapUp, WrapUp
  <2>2. phase' \in Phase /\ turn' \in Nat /\ reason' \in StopReason \cup {"none"}
    BY <1>3 DEF BeginTurn, End, Phase, StopReason
  <2> QED
    BY <1>3, <2>1, <2>2 DEF BeginTurn
<1>4. CASE Connect
  BY <1>4 DEF Connect, loopVars, Phase
<1>5. CASE StreamCancelled
  BY <1>5 DEF StreamCancelled, End, Phase, StopReason
<1>6. CASE StreamFails
  BY <1>6 DEF StreamFails, End, Phase, StopReason
<1>7. CASE StreamEnds
  BY <1>7 DEF StreamEnds, Phase
<1>8. CASE ContinueAnswer
  BY <1>8, MessagesAreTyped DEF ContinueAnswer, Phase
<1>9. CASE EndTurn
  <2>1. phase' \in Phase /\ reason' \in StopReason \cup {"none"}
    BY <1>9 DEF EndTurn, End, FinalReason, StopReasonOf, Phase, StopReason, WrapUp
  <2> QED
    BY <1>9, <2>1 DEF EndTurn
<1>10. CASE AcceptBatch
  <2>1. pending' \in Seq(Call)
    BY <1>10, BatchesAreSequences DEF AcceptBatch
  <2>2. messages' \in Seq(Message)
    BY <1>10, <2>1, MessagesAreTyped DEF AcceptBatch
  <2> QED
    BY <1>10, <2>1, <2>2 DEF AcceptBatch, Phase
<1>11. CASE FinishBatch
  <2>1. phase' \in Phase /\ reason' \in StopReason \cup {"none"}
    BY <1>11 DEF FinishBatch, End, Phase, StopReason
  <2> QED
    BY <1>11, <2>1 DEF FinishBatch
<1>12. CASE OutOfToolCalls
  <2> DEFINE rest == [k \in 1..(Len(pending) - next + 1) |-> ToolResult(next + k - 1, FALSE)]
  <2>0. Len(pending) \in Nat /\ Len(pending) - next + 1 \in Nat
    BY <1>12 DEF OutOfToolCalls
  <2>1. ASSUME NEW k \in 1..(Len(pending) - next + 1)
        PROVE  ToolResult(next + k - 1, FALSE) \in Message
    <3>1. next + k - 1 \in Nat
      BY <2>0
    <3> QED
      BY <3>1 DEF ToolResult, Message
  <2>2. rest \in Seq(Message)
    <3> HIDE DEF TypeOK
    <3>1. rest \in [1..(Len(pending) - next + 1) -> Message]
      BY <2>1
    <3> HIDE DEF rest
    <3> QED
      BY <2>0, <3>1, SeqDef
  <2>3. messages' = messages \o rest
    BY <1>12 DEF OutOfToolCalls
  <2>4. messages' \in Seq(Message)
    <3> HIDE DEF rest, TypeOK
    <3> QED
      BY <2>2, <2>3, <1>m, ConcatProperties
  <2>5. phase' \in Phase /\ reason' \in StopReason \cup {"none"}
        /\ wrapUp' \in WrapUp \cup {"none"}
    BY <1>12 DEF OutOfToolCalls, End, Phase, StopReason, WrapUp
  <2>6. toolCallsMade' \in Nat /\ next' \in Nat \ {0}
    BY <1>12, <2>0 DEF OutOfToolCalls
  <2>7. UNCHANGED <<turn, callCounts, pending, continuing, continuations, finish,
                    overTime, cancelled, budget>>
    BY <1>12 DEF OutOfToolCalls
  <2> QED
    BY <2>4, <2>5, <2>6, <2>7
<1>13. CASE RepeatedCall
  <2>1. phase' \in Phase /\ reason' \in StopReason \cup {"none"}
    BY <1>13 DEF RepeatedCall, End, Phase, StopReason
  <2> QED
    BY <1>13, <1>c, <2>1 DEF RepeatedCall
<1>14. CASE StartCall
  BY <1>14, <1>c DEF StartCall, Phase
<1>15. CASE RefuseCall
  <2>1. messages' \in Seq(Message)
    <3>1. messages' = Append(messages, ToolResult(next, FALSE))
      BY <1>15 DEF RefuseCall
    <3> QED
      BY ONLY <3>1, <1>d
  <2>2. next' \in Nat \ {0}
    BY <1>15, <1>b DEF RefuseCall
  <2>3. UNCHANGED <<phase, turn, pending, wrapUp, continuing, continuations,
                    finish, reason, overTime, cancelled, budget>>
    BY <1>15 DEF RefuseCall
  <2>4. CountCall
    BY <1>15 DEF RefuseCall
  <2> QED
    BY <2>1, <2>2, <2>3, <2>4, <1>c
<1>16. CASE FinishCall
  <2>1. messages' \in Seq(Message)
    <3>1. messages' = Append(messages, ToolResult(next, TRUE))
      BY <1>16 DEF FinishCall
    <3> QED
      BY ONLY <3>1, <1>d
  <2>2. next' \in Nat \ {0} /\ phase' \in Phase /\ wrapUp' \in WrapUp \cup {"none"}
    BY <1>16, <1>b DEF FinishCall, Phase, WrapUp
  <2>3. UNCHANGED <<turn, toolCallsMade, callCounts, pending, continuing, continuations,
                    finish, reason, overTime, cancelled, budget>>
    BY <1>16 DEF FinishCall
  <2> QED
    BY <2>1, <2>2, <2>3
<1>17. CASE Grant
  BY <1>17 DEF Grant, loopVars, Phase
<1>18. CASE Deny
  <2>1. messages' \in Seq(Message)
    <3>1. messages' = Append(messages, ToolResult(next, FALSE))
      BY <1>18 DEF Deny
    <3> QED
      BY ONLY <3>1, <1>d
  <2>2. next' \in Nat \ {0} /\ phase' \in Phase
    BY <1>18, <1>b DEF Deny, Phase
  <2>3. UNCHANGED <<turn, toolCallsMade, callCounts, pending, wrapUp, continuing,
                    continuations, finish, reason, overTime, cancelled, budget>>
    BY <1>18 DEF Deny
  <2> QED
    BY <2>1, <2>2, <2>3
<1>19. CASE DecideAnother
  BY <1>19 DEF DecideAnother, loopVars, Phase
<1>20. CASE Extend
  BY <1>20 DEF Extend, loopVars, Phase
<1>21. CASE AskForAnswer
  BY <1>21 DEF AskForAnswer, Phase, WrapUp
<1>22. CASE ClockPasses
  BY <1>22 DEF ClockPasses, loopVars
<1>23. CASE Cancel
  BY <1>23 DEF Cancel, loopVars
<1> QED
  BY <1>0, <1>1, <1>2, <1>3, <1>4, <1>5, <1>6, <1>7, <1>8, <1>9, <1>10, <1>11, <1>12,
     <1>13, <1>14, <1>15, <1>16, <1>17, <1>18, <1>19, <1>20, <1>21, <1>22, <1>23
     DEF Next, LoopStep, CallerStep, Ended

\* Every variable keeps its type: the type invariant of AgentLoop.
THEOREM TypeCorrect == Spec => []TypeOK
BY TypeInit, TypeNext, PTL DEF Spec

-----------------------------------------------------------------------------
(* Turns: an answer the run owes still has its turn.                       *)

\* A turn is only ever begun with one left, or is the run's first.
TurnInv ==
    /\ turn <= TurnLimit
    /\ phase = "turn" =>
          turn < MaxTurns \/ (turn = 0 /\ wrapUp = "none" /\ ~UnreadResults)
    /\ phase = "outOfTime" => turn < MaxTurns /\ UnreadResults /\ wrapUp = "none"
    /\ continuations <= MaxContinuations

LEMMA TurnInit == Init => TurnInv
BY LimitsAssumption DEF Init, TurnInv, TurnLimit, UnreadResults, UserMessage

LEMMA TurnNext == TypeOK /\ TurnInv /\ [Next]_vars => TurnInv'
<1> SUFFICES ASSUME TypeOK, TurnInv, [Next]_vars PROVE TurnInv'
  OBVIOUS
<1>a. /\ turn \in Nat /\ continuations \in Nat
      /\ MaxTurns \in Nat /\ MaxContinuations \in Nat
  BY LimitsAssumption DEF TypeOK
<1> USE <1>a DEF TurnInv, TurnLimit
<1>0. CASE UNCHANGED vars
  BY <1>0 DEF vars, loopVars, UnreadResults
<1>1. CASE PauseOutOfTime
  BY <1>1 DEF PauseOutOfTime, loopVars, UnreadResults, ClockRanOut
<1>2. CASE BeginTurn
  BY <1>2 DEF BeginTurn, End
<1>3. CASE ContinueAnswer
  BY <1>3 DEF ContinueAnswer, MayContinue
<1>4. CASE AcceptBatch
  BY <1>4 DEF AcceptBatch
<1>5. CASE FinishBatch
  BY <1>5 DEF FinishBatch, End
<1>6. CASE OutOfToolCalls
  BY <1>6 DEF OutOfToolCalls, End
<1>7. CASE RefuseCall
  BY <1>7 DEF RefuseCall, CountCall
<1>8. CASE FinishCall
  BY <1>8 DEF FinishCall
<1>9. CASE Deny
  BY <1>9 DEF Deny
<1>10. CASE Extend
  BY <1>10 DEF Extend, loopVars, UnreadResults
<1>11. CASE AskForAnswer
  BY <1>11 DEF AskForAnswer, UnreadResults
<1>12. CASE ClockPasses \/ Cancel
  BY <1>12 DEF ClockPasses, Cancel, loopVars, UnreadResults
<1>13. CASE Connect \/ Grant \/ DecideAnother
  BY <1>13 DEF Connect, Grant, DecideAnother, loopVars
<1>14. CASE EndOutOfTime \/ StreamCancelled \/ StreamFails \/ StreamEnds
  BY <1>14 DEF EndOutOfTime, StreamCancelled, StreamFails, StreamEnds, End
<1>15. CASE EndTurn \/ RepeatedCall \/ StartCall
  BY <1>15 DEF EndTurn, RepeatedCall, StartCall, CountCall, End
<1> QED
  BY <1>0, <1>1, <1>2, <1>3, <1>4, <1>5, <1>6, <1>7, <1>8, <1>9, <1>10, <1>11, <1>12,
     <1>13, <1>14, <1>15 DEF Next, LoopStep, CallerStep, Ended

LEMMA TurnsInvariant == Spec => []TurnInv
BY TurnInit, TurnNext, TypeCorrect, PTL DEF Spec

\* A wrap-up answer and a pause always leave a turn to answer in, and a pause
\* always has results to answer from (take_turn, continue_out_of_time).
THEOREM AnswersKeepATurn == Spec => []AnswerTurnLeft
<1>1. TurnInv => AnswerTurnLeft
  BY DEF TurnInv, AnswerTurnLeft
<1> QED
  BY <1>1, TurnsInvariant, PTL

-----------------------------------------------------------------------------
(* Calls: what ran was counted first.                                      *)

\* How a message added to the conversation changes the set of calls that ran.
LEMMA RanAfterAppend ==
    ASSUME NEW msgs \in Seq(Message), NEW m \in Message
    PROVE  {i \in DOMAIN Append(msgs, m) : Append(msgs, m)[i].ran} =
           {i \in DOMAIN msgs : msgs[i].ran} \cup
           (IF m.ran THEN {Len(msgs) + 1} ELSE {})
<1>1. /\ Len(Append(msgs, m)) = Len(msgs) + 1
      /\ \A i \in 1..Len(msgs) : Append(msgs, m)[i] = msgs[i]
      /\ Append(msgs, m)[Len(msgs) + 1] = m
      /\ Append(msgs, m) \in Seq(Message)
  BY AppendProperties
<1>2. DOMAIN msgs = 1..Len(msgs) /\ DOMAIN Append(msgs, m) = 1..(Len(msgs) + 1)
      /\ Len(msgs) \in Nat
  BY <1>1
<1>3. 1..(Len(msgs) + 1) = 1..Len(msgs) \cup {Len(msgs) + 1}
  BY <1>2
<1> QED
  BY <1>1, <1>2, <1>3

LEMMA RanResultsFinite ==
    ASSUME messages \in Seq(Message)
    PROVE  IsFiniteSet(RanResults) /\ Cardinality(RanResults) \in Nat
<1>1. IsFiniteSet(1..Len(messages))
  BY FS_Interval
<1>2. RanResults \subseteq 1..Len(messages)
  BY DEF RanResults
<1> QED
  BY <1>1, <1>2, FS_Subset, FS_CardinalityType

\* The call in hand: one that passed the checks and has no result yet.
InHand == IF phase \in {"tool", "approval"} THEN 1 ELSE 0

\* The calls that ran, and the one in hand, were counted, within the budget;
\* past the budget nothing is in hand and the run owes its answer, or ended.
CallInv ==
    /\ phase \in {"tool", "approval"} => next <= Len(pending)
    /\ Cardinality(RanResults) + InHand <= toolCallsMade
    /\ Cardinality(RanResults) + InHand <= MaxToolCalls
    /\ toolCallsMade <= MaxToolCalls + 1
    /\ toolCallsMade > MaxToolCalls =>
          \/ phase \in {"completed", "failed"}
          \/ /\ wrapUp # "none"
             /\ phase \notin {"tool", "approval"}
             /\ phase = "batch" => next > Len(pending)

LEMMA CallInit == Init => CallInv
<1> SUFFICES ASSUME Init PROVE CallInv
  OBVIOUS
<1>1. RanResults = {}
  BY DEF Init, RanResults, UserMessage
<1>2. Cardinality(RanResults) = 0
  BY <1>1, FS_EmptySet
<1> QED
  BY <1>2, LimitsAssumption DEF Init, CallInv, InHand

\* A message that did not run leaves the calls that ran as they were.
LEMMA UnranAppended ==
    ASSUME TypeOK, NEW m \in Message, m.ran = FALSE, messages' = Append(messages, m)
    PROVE  RanResults' = RanResults
<1>1. messages \in Seq(Message)
  BY DEF TypeOK
<1> QED
  BY <1>1, RanAfterAppend DEF RanResults

LEMMA RanAppended ==
    ASSUME TypeOK, NEW m \in Message, m.ran = TRUE, messages' = Append(messages, m)
    PROVE  Cardinality(RanResults') = Cardinality(RanResults) + 1
<1>1. messages \in Seq(Message) /\ Len(messages) \in Nat
  BY DEF TypeOK
<1>2. RanResults' = RanResults \cup {Len(messages) + 1}
  BY <1>1, RanAfterAppend DEF RanResults
<1>3. Len(messages) + 1 \notin RanResults
  BY <1>1 DEF RanResults
<1> QED
  BY <1>1, <1>2, <1>3, RanResultsFinite, FS_AddElement

LEMMA CallNext == TypeOK /\ TypeOK' /\ CallInv /\ [Next]_vars => CallInv'
<1> SUFFICES ASSUME TypeOK, TypeOK', CallInv, [Next]_vars PROVE CallInv'
  OBVIOUS
<1>a. /\ Cardinality(RanResults) \in Nat /\ toolCallsMade \in Nat /\ MaxToolCalls \in Nat
      /\ next \in Nat /\ Len(pending) \in Nat /\ turn \in Nat
  BY RanResultsFinite, LimitsAssumption DEF TypeOK
<1>b. ASSUME UNCHANGED messages PROVE RanResults' = RanResults
  BY <1>b DEF RanResults
<1>c. \A n \in Nat : Assistant(n) \in Message /\ Assistant(n).ran = FALSE
  BY <1>a DEF Assistant, Message
<1>d. \A i \in Nat : /\ ToolResult(i, FALSE) \in Message /\ ToolResult(i, FALSE).ran = FALSE
                      /\ ToolResult(i, TRUE) \in Message /\ ToolResult(i, TRUE).ran = TRUE
  BY <1>a DEF ToolResult, Message
<1> USE <1>a DEF CallInv, InHand
<1>0. CASE UNCHANGED vars
  BY <1>0, <1>b DEF vars, loopVars
<1>1. CASE EndOutOfTime \/ StreamCancelled \/ StreamFails \/ EndTurn
  BY <1>1, <1>b DEF EndOutOfTime, StreamCancelled, StreamFails, EndTurn, End
<1>2. CASE PauseOutOfTime \/ Connect \/ DecideAnother \/ Extend
  BY <1>2, <1>b DEF PauseOutOfTime, Connect, DecideAnother, Extend, loopVars
<1>3. CASE BeginTurn
  <2>1. wrapUp # "none" => wrapUp' # "none"
    BY <1>3 DEF BeginTurn, DueWrapUp
  <2> QED
    BY <1>3, <1>b, <2>1 DEF BeginTurn, End
<1>4. CASE StreamEnds \/ AskForAnswer
  BY <1>4, <1>b DEF StreamEnds, AskForAnswer
<1>5. CASE ContinueAnswer
  <2>1. RanResults' = RanResults
    BY <1>5, <1>b, <1>c, UnranAppended DEF ContinueAnswer
  <2> QED
    BY <1>5, <2>1 DEF ContinueAnswer
<1>6. CASE AcceptBatch
  <2>1. Len(pending') \in Nat
    BY DEF TypeOK
  <2>2. RanResults' = RanResults
    BY <1>6, <1>c, <2>1, UnranAppended DEF AcceptBatch
  <2> QED
    BY <1>6, <2>2 DEF AcceptBatch
<1>7. CASE FinishBatch
  BY <1>7, <1>b DEF FinishBatch, End
<1>8. CASE OutOfToolCalls
  <2> DEFINE n == Len(pending) - next + 1
             rest == [k \in 1..n |-> ToolResult(next + k - 1, FALSE)]
  <2>1. n \in Nat
    BY <1>8 DEF OutOfToolCalls
  <2>2. ASSUME NEW k \in 1..n PROVE rest[k] \in Message /\ rest[k].ran = FALSE
    <3>1. next + k - 1 \in Nat
      BY <2>1
    <3> QED
      BY <3>1, <1>d
  <2>3. rest \in [1..n -> Message]
    BY <2>2
  <2>4. rest \in Seq(Message) /\ Len(rest) = n
    <3> HIDE DEF rest
    <3> QED
      BY <2>1, <2>3, SeqDef
  <2>5. messages' = messages \o rest
    BY <1>8 DEF OutOfToolCalls
  <2>6. messages \in Seq(Message)
    BY DEF TypeOK
  <2> HIDE DEF n, rest
  <2>7. \A i \in 1..(Len(messages) + Len(rest)) :
           messages'[i] = IF i <= Len(messages) THEN messages[i] ELSE rest[i - Len(messages)]
    BY <2>4, <2>5, <2>6, ConcatProperties
  <2>8. DOMAIN messages' = 1..(Len(messages) + n) /\ DOMAIN messages = 1..Len(messages)
        /\ Len(messages) \in Nat
    BY <2>4, <2>5, <2>6, ConcatProperties
  <2>9. ASSUME NEW i \in (Len(messages) + 1)..(Len(messages) + n)
        PROVE  ~messages'[i].ran
    <3>1. i - Len(messages) \in 1..n /\ i \in 1..(Len(messages) + Len(rest)) /\ ~(i <= Len(messages))
      BY <2>1, <2>4, <2>8
    <3>2. messages'[i] = rest[i - Len(messages)]
      BY <2>7, <3>1
    <3> QED
      BY <2>2, <3>1, <3>2
  <2>10. RanResults' = RanResults
    BY <2>1, <2>4, <2>7, <2>8, <2>9 DEF RanResults
  <2> QED
    BY <1>8, <2>10 DEF OutOfToolCalls, End
<1>9. CASE RepeatedCall
  BY <1>9, <1>b DEF RepeatedCall, CountCall, End
<1>10. CASE StartCall
  BY <1>10, <1>b DEF StartCall, CountCall
<1>11. CASE RefuseCall
  <2>1. RanResults' = RanResults
    BY <1>11, <1>d, UnranAppended DEF RefuseCall
  <2> QED
    BY <1>11, <2>1 DEF RefuseCall, CountCall
<1>12. CASE FinishCall
  <2>1. Cardinality(RanResults') = Cardinality(RanResults) + 1
    BY <1>12, <1>d, RanAppended DEF FinishCall
  <2> QED
    BY <1>12, <2>1 DEF FinishCall
<1>13. CASE Grant
  BY <1>13, <1>b DEF Grant, loopVars
<1>14. CASE Deny
  <2>1. RanResults' = RanResults
    BY <1>14, <1>d, UnranAppended DEF Deny
  <2> QED
    BY <1>14, <2>1 DEF Deny
<1>15. CASE ClockPasses \/ Cancel
  BY <1>15, <1>b DEF ClockPasses, Cancel, loopVars
<1> QED
  BY <1>0, <1>1, <1>2, <1>3, <1>4, <1>5, <1>6, <1>7, <1>8, <1>9, <1>10, <1>11, <1>12,
     <1>13, <1>14, <1>15 DEF Next, LoopStep, CallerStep, Ended

\* A call asked for too often ends the run in the same step.
RepeatInv ==
    /\ (\E c \in Call : callCounts[c] > MaxRepeats) => reason = "repeatedToolCalls"
    /\ reason # "none" => phase = "completed"

LEMMA RepeatInit == Init => RepeatInv
BY LimitsAssumption DEF Init, RepeatInv

LEMMA RepeatNext == TypeOK /\ RepeatInv /\ [Next]_vars => RepeatInv'
<1> SUFFICES ASSUME TypeOK, RepeatInv, [Next]_vars PROVE RepeatInv'
  OBVIOUS
<1>a. callCounts \in [Call -> Nat] /\ MaxRepeats \in Nat
  BY LimitsAssumption DEF TypeOK
<1> USE DEF RepeatInv
<1>1. CASE RepeatedCall
  BY <1>1 DEF RepeatedCall, End
<1>2. CASE StartCall \/ RefuseCall
  <2>1. /\ callCounts' = [callCounts EXCEPT ![pending[next]] = @ + 1]
        /\ callCounts'[pending[next]] <= MaxRepeats
        /\ reason' = reason /\ phase = "batch" /\ next <= Len(pending)
    BY <1>2 DEF StartCall, RefuseCall, CountCall
  <2>a. pending[next] \in Call
    BY <2>1 DEF TypeOK
  <2>2. reason = "none"
    BY <2>1
  <2>3. \A c \in Call : c # pending[next] => callCounts'[c] = callCounts[c]
    BY <2>1, <1>a
  <2>4. \A c \in Call : ~(callCounts[c] > MaxRepeats)
    BY <2>2
  <2>5. \A c \in Call : ~(callCounts'[c] > MaxRepeats)
    <3> TAKE c \in Call
    <3>1. callCounts' \in [Call -> Nat]
      BY <2>1, <2>a, <1>a
    <3>2. CASE c = pending[next]
      BY <3>1, <3>2, <2>1, <1>a
    <3>3. CASE c # pending[next]
      BY <3>3, <2>3, <2>4
    <3> QED
      BY <3>2, <3>3
  <2> QED
    BY <2>1, <2>2, <2>5
<1>3. CASE UNCHANGED vars
  BY <1>3 DEF vars, loopVars
<1> QED
  BY <1>1, <1>2, <1>3 DEF Next, LoopStep, CallerStep, Ended, End, loopVars, EndOutOfTime,
     PauseOutOfTime, BeginTurn, Connect, StreamCancelled, StreamFails, StreamEnds,
     ContinueAnswer, EndTurn, AcceptBatch, FinishBatch, OutOfToolCalls, FinishCall, Grant,
     Deny, DecideAnother, Extend, AskForAnswer, ClockPasses, Cancel

\* RunLimits holds over the whole run for every value of the limits: turns,
\* calls asked for, calls run, repeats and continuations (loop_.rs).
THEOREM RunStaysWithinLimits == Spec => []WithinLimits
<1>1. Spec => [](TypeOK /\ CallInv)
  BY CallInit, CallNext, TypeCorrect, PTL DEF Spec
<1>2. Spec => []RepeatInv
  BY RepeatInit, RepeatNext, TypeCorrect, PTL DEF Spec
<1>3. TypeOK /\ TurnInv /\ CallInv /\ RepeatInv => WithinLimits
  <2> SUFFICES ASSUME TypeOK, TurnInv, CallInv, RepeatInv PROVE WithinLimits
    OBVIOUS
  <2>1. Cardinality(RanResults) \in Nat
    BY RanResultsFinite DEF TypeOK
  <2>2. Executions <= MaxToolCalls
    BY <2>1, LimitsAssumption DEF CallInv, InHand, Executions
  <2> QED
    BY <2>2 DEF WithinLimits, TurnInv, CallInv, RepeatInv
<1> QED
  BY <1>1, <1>2, <1>3, TurnsInvariant, PTL

\* The first budget to run out names the run's ending, and no batch is
\* accepted after it (the get_or_insert calls, and the tool-less answer turn).
THEOREM FirstWrapUpStands == Spec => WrapUpIsFinal
<1>1. TurnInv /\ [Next]_vars =>
        [wrapUp # "none" => /\ wrapUp' = wrapUp
                            /\ pending' # pending => pending' = <<>>]_vars
  <2> SUFFICES ASSUME TurnInv, Next, wrapUp # "none"
               PROVE  wrapUp' = wrapUp /\ (pending' # pending => pending' = <<>>)
    OBVIOUS
  <2>1. CASE BeginTurn
    <3>1. PICK c, o \in BOOLEAN : wrapUp' = DueWrapUp(c, o)
      BY <2>1 DEF BeginTurn
    <3>2. DueWrapUp(c, o) = wrapUp
      BY DEF DueWrapUp
    <3> QED
      BY <2>1, <3>1, <3>2 DEF BeginTurn
  <2>2. CASE PauseOutOfTime \/ Connect \/ Grant \/ DecideAnother \/ Extend
             \/ ClockPasses \/ Cancel
    BY <2>2 DEF PauseOutOfTime, Connect, Grant, DecideAnother, Extend, ClockPasses,
       Cancel, loopVars
  <2>3. CASE EndOutOfTime \/ StreamCancelled \/ StreamFails \/ StreamEnds \/ EndTurn
    BY <2>3 DEF EndOutOfTime, StreamCancelled, StreamFails, StreamEnds, EndTurn
  <2>4. CASE ContinueAnswer \/ FinishBatch \/ OutOfToolCalls \/ FinishCall \/ Deny
    BY <2>4 DEF ContinueAnswer, FinishBatch, OutOfToolCalls, FinishCall, Deny
  <2>5. CASE AcceptBatch
    BY <2>5 DEF AcceptBatch
  <2>6. CASE RepeatedCall \/ StartCall \/ RefuseCall
    BY <2>6 DEF RepeatedCall, StartCall, RefuseCall
  <2>7. CASE AskForAnswer
    BY <2>7 DEF AskForAnswer, TurnInv
  <2>8. CASE Ended
    BY <2>8 DEF Ended, vars, loopVars
  <2> QED
    BY <2>1, <2>2, <2>3, <2>4, <2>5, <2>6, <2>7, <2>8 DEF Next, LoopStep, CallerStep
<1> QED
  BY <1>1, TurnsInvariant, PTL DEF Spec, WrapUpIsFinal

-----------------------------------------------------------------------------
(* The conversation: every call asked for is answered, and in its place.   *)

Handling == phase \in {"batch", "tool", "approval"}
Over == phase \in {"completed", "failed"}

\* The message that asked for the batch in hand.
OpenAt == (Len(messages) - next) + 1

\* Calls of earlier turns have their results, and so have those of this batch
\* that come before the one in hand.
ResultsInv == \A p \in 1..Len(messages) : messages[p].role = "tool" => Answers(p)
AskedInv ==
    ~Over => \A p \in 1..Len(messages) : \A k \in 1..messages[p].calls :
                /\ p + k <= Len(messages) =>
                      messages[p + k].role = "tool" /\ messages[p + k].index = k
                /\ p + k > Len(messages) => Handling /\ p = OpenAt
BatchInv ==
    Handling =>
        /\ next <= Len(pending) + 1
        /\ OpenAt \in 1..Len(messages)
        /\ messages[OpenAt].role = "assistant"
        /\ messages[OpenAt].turn = turn
        /\ messages[OpenAt].calls = Len(pending)
ContinuingInv ==
    continuing => /\ ~Handling
                  /\ messages # <<>> /\ messages[Len(messages)].role = "assistant"

ConversationInv == ResultsInv /\ AskedInv /\ BatchInv /\ ContinuingInv

\* No call of the turn in hand ran yet, but those before the one in hand.
OrderInv ==
    /\ Len(pending) <= MaxBatch
    /\ \A p \in 1..Len(messages) : messages[p].ran =>
          /\ messages[p].turn <= turn
          /\ phase \in {"connecting", "streaming", "finishing"} => messages[p].turn < turn
          /\ Handling /\ messages[p].turn = turn => messages[p].index < next

LEMMA MessageFields ==
    ASSUME TypeOK
    PROVE  /\ Len(messages) \in Nat /\ Len(pending) \in Nat
           /\ next \in Nat \ {0} /\ turn \in Nat
           /\ \A p \in 1..Len(messages) :
                 messages[p].index \in Nat /\ messages[p].calls \in Nat /\ messages[p].turn \in Nat
<1>1. messages \in Seq(Message)
  BY DEF TypeOK
<1>2. \A p \in 1..Len(messages) : messages[p] \in Message
  BY <1>1
<1>3. \A p \in 1..Len(messages) :
         messages[p].index \in Nat /\ messages[p].calls \in Nat /\ messages[p].turn \in Nat
  BY <1>2 DEF Message
<1> QED
  BY <1>3 DEF TypeOK

LEMMA ConversationInit == Init => ConversationInv /\ OrderInv
<1> SUFFICES ASSUME Init PROVE ConversationInv /\ OrderInv
  OBVIOUS
<1>1. /\ Len(messages) = 1 /\ messages[1] = UserMessage
      /\ phase = "turn" /\ ~continuing /\ Len(pending) = 0
  BY DEF Init
<1>2. UserMessage.role = "user" /\ UserMessage.calls = 0 /\ ~UserMessage.ran
  BY DEF UserMessage
<1> QED
  BY <1>1, <1>2, LimitsAssumption
     DEF ConversationInv, ResultsInv, AskedInv, BatchInv, ContinuingInv, OrderInv, Handling

\* The results of n calls of the batch in hand, one after the other.
ResultsOf(n) ==
    /\ Len(messages') = Len(messages) + n
    /\ \A i \in 1..Len(messages) : messages'[i] = messages[i]
    /\ \A k \in 1..n :
          /\ messages'[Len(messages) + k].role = "tool"
          /\ messages'[Len(messages) + k].turn = turn
          /\ messages'[Len(messages) + k].index = (next + k) - 1
          /\ messages'[Len(messages) + k].calls = 0

LEMMA ResultsAnswerTheBatch ==
    ASSUME TypeOK, TypeOK', ConversationInv, Handling,
           NEW n \in Nat, ResultsOf(n), next + n <= Len(pending) + 1, next' = next + n,
           UNCHANGED <<pending, turn, continuing>>, phase' \in {"batch", "completed"}
    PROVE  ConversationInv'
<1>1. /\ Len(messages) \in Nat /\ next \in Nat \ {0} /\ Len(pending) \in Nat
      /\ \A p \in 1..Len(messages) : messages[p].index \in Nat /\ messages[p].calls \in Nat
  BY MessageFields
<1>2. /\ Len(messages') = Len(messages) + n
      /\ \A i \in 1..Len(messages) : messages'[i] = messages[i]
      /\ OpenAt \in 1..Len(messages) /\ OpenAt = (Len(messages) - next) + 1
      /\ OpenAt' = OpenAt
  BY <1>1 DEF ResultsOf, ConversationInv, BatchInv, OpenAt
<1>3. ASSUME NEW p \in (Len(messages) + 1)..(Len(messages) + n)
      PROVE  /\ p - Len(messages) \in 1..n
             /\ messages'[p].role = "tool" /\ messages'[p].turn = turn
             /\ messages'[p].calls = 0
             /\ messages'[p].index = (next + (p - Len(messages))) - 1
  <2>1. p - Len(messages) \in 1..n /\ Len(messages) + (p - Len(messages)) = p
    BY <1>1
  <2> QED
    BY <2>1 DEF ResultsOf
<1>4. ResultsInv'
  <2> SUFFICES ASSUME NEW p \in 1..(Len(messages) + n), messages'[p].role = "tool"
               PROVE  Answers(p)'
    BY <1>2 DEF ResultsInv
  <2>1. CASE p <= Len(messages)
    <3>1. p \in 1..Len(messages) /\ messages'[p] = messages[p]
      BY <1>1, <1>2, <2>1
    <3>2. Answers(p)
      BY <3>1 DEF ConversationInv, ResultsInv
    <3>3. p - messages[p].index \in 1..Len(messages)
      BY <1>1, <3>1, <3>2 DEF Answers
    <3>4. messages'[p - messages[p].index] = messages[p - messages[p].index]
      BY <1>2, <3>3
    <3> QED
      BY <3>1, <3>2, <3>4 DEF Answers
  <2>2. CASE p > Len(messages)
    <3>1. p \in (Len(messages) + 1)..(Len(messages) + n)
      BY <1>1, <2>2
    <3>2. /\ messages'[p].turn = turn
          /\ messages'[p].index = (next + (p - Len(messages))) - 1
          /\ p - Len(messages) \in 1..n
      BY <1>3, <3>1
    <3>3. p - messages'[p].index = OpenAt
      BY <1>1, <1>2, <3>1, <3>2
    <3>4. 1 <= messages'[p].index /\ messages'[p].index < p /\ messages'[p].index <= Len(pending)
      BY <1>1, <1>2, <3>1, <3>2
    <3>5. /\ messages'[OpenAt].role = "assistant" /\ messages'[OpenAt].turn = turn
          /\ messages'[OpenAt].calls = Len(pending)
      BY <1>2 DEF ConversationInv, BatchInv
    <3> QED
      BY <3>2, <3>3, <3>4, <3>5 DEF Answers
  <2> QED
    BY <1>1, <2>1, <2>2
<1>5. AskedInv'
  <2> SUFFICES ASSUME phase' = "batch", NEW p \in 1..(Len(messages) + n),
                      NEW k \in 1..messages'[p].calls
               PROVE  /\ p + k <= Len(messages) + n =>
                            messages'[p + k].role = "tool" /\ messages'[p + k].index = k
                      /\ p + k > Len(messages) + n => p = OpenAt
    BY <1>2 DEF AskedInv, Over, Handling
  <2>1. p \in 1..Len(messages) /\ messages'[p] = messages[p] /\ k \in 1..messages[p].calls
    <3>1. CASE p > Len(messages)
      <4>1. messages'[p].calls = 0
        BY <1>1, <1>3, <3>1
      <4> QED
        BY <4>1
    <3> QED
      BY <1>1, <1>2, <3>1
  <2>2. k \in Nat /\ p \in Nat
    BY <1>1, <2>1
  <2>3. ~Over
    BY DEF Handling, Over
  <2>4. CASE p + k <= Len(messages)
    <3>1. p + k \in 1..Len(messages)
      BY <1>1, <2>2, <2>4
    <3>2. messages[p + k].role = "tool" /\ messages[p + k].index = k
      BY <2>1, <2>3, <2>4 DEF ConversationInv, AskedInv
    <3> QED
      BY <1>1, <1>2, <2>2, <2>4, <3>1, <3>2
  <2>5. CASE p + k > Len(messages)
    <3>1. p = OpenAt
      BY <2>1, <2>3, <2>5 DEF ConversationInv, AskedInv
    <3>2. ASSUME p + k <= Len(messages) + n
          PROVE  messages'[p + k].role = "tool" /\ messages'[p + k].index = k
      <4>1. p + k \in (Len(messages) + 1)..(Len(messages) + n)
        BY <1>1, <2>2, <2>5, <3>2
      <4>2. /\ messages'[p + k].role = "tool"
            /\ messages'[p + k].index = (next + ((p + k) - Len(messages))) - 1
        BY <1>3, <4>1
      <4> QED
        BY <1>1, <1>2, <2>2, <3>1, <4>2
    <3> QED
      BY <3>1, <3>2
  <2> QED
    BY <1>1, <2>2, <2>4, <2>5
<1>6. BatchInv'
  <2>1. /\ messages'[OpenAt].role = "assistant" /\ messages'[OpenAt].turn = turn
        /\ messages'[OpenAt].calls = Len(pending)
    BY <1>2 DEF ConversationInv, BatchInv
  <2> QED
    BY <1>1, <1>2, <2>1 DEF BatchInv
<1>7. ContinuingInv'
  BY DEF ConversationInv, ContinuingInv
<1> QED
  BY <1>4, <1>5, <1>6, <1>7 DEF ConversationInv

\* An answer's text, or the message that asks for the next batch.
LEMMA AssistantAppended ==
    ASSUME TypeOK, TypeOK', ConversationInv, ~Handling, ~Over,
           NEW m \in Message, m.role = "assistant", m.turn = turn,
           messages' = Append(messages, m), UNCHANGED turn,
           \/ m.calls = 0 /\ ~Handling'
           \/ Handling' /\ ~continuing' /\ next' = 1 /\ m.calls = Len(pending')
    PROVE  ConversationInv'
<1>1. /\ Len(messages) \in Nat /\ messages \in Seq(Message) /\ Len(pending') \in Nat
      /\ \A p \in 1..Len(messages) : messages[p].index \in Nat /\ messages[p].calls \in Nat
  BY MessageFields DEF TypeOK
<1>2. /\ Len(messages') = Len(messages) + 1
      /\ \A i \in 1..Len(messages) : messages'[i] = messages[i]
      /\ messages'[Len(messages) + 1] = m /\ messages' # <<>>
  BY <1>1, AppendProperties
<1>3. ResultsInv'
  <2> SUFFICES ASSUME NEW p \in 1..(Len(messages) + 1), messages'[p].role = "tool"
               PROVE  Answers(p)'
    BY <1>2 DEF ResultsInv
  <2>1. p \in 1..Len(messages) /\ messages'[p] = messages[p]
    BY <1>1, <1>2
  <2>2. Answers(p)
    BY <2>1 DEF ConversationInv, ResultsInv
  <2>3. p - messages[p].index \in 1..Len(messages)
    BY <1>1, <2>1, <2>2 DEF Answers
  <2>4. messages'[p - messages[p].index] = messages[p - messages[p].index]
    BY <1>2, <2>3
  <2> QED
    BY <2>1, <2>2, <2>4 DEF Answers
<1>4. AskedInv'
  <2> SUFFICES ASSUME NEW p \in 1..(Len(messages) + 1), NEW k \in 1..messages'[p].calls
               PROVE  /\ p + k <= Len(messages) + 1 =>
                            messages'[p + k].role = "tool" /\ messages'[p + k].index = k
                      /\ p + k > Len(messages) + 1 => Handling' /\ p = OpenAt'
    BY <1>2 DEF AskedInv
  <2>1. CASE p <= Len(messages)
    <3>1. p \in 1..Len(messages) /\ messages'[p] = messages[p] /\ k \in 1..messages[p].calls
      BY <1>1, <1>2, <2>1
    <3>2. p + k <= Len(messages) /\ messages[p + k].role = "tool" /\ messages[p + k].index = k
      BY <1>1, <3>1 DEF ConversationInv, AskedInv
    <3>3. p + k \in 1..Len(messages)
      BY <1>1, <3>1, <3>2
    <3> QED
      BY <1>1, <1>2, <3>2, <3>3
  <2>2. CASE p = Len(messages) + 1
    <3>1. m.calls # 0 /\ k \in 1..m.calls /\ m.calls \in Nat
      BY <1>1, <1>2, <2>2 DEF Message
    <3>2. Handling' /\ p = OpenAt'
      BY <1>1, <1>2, <2>2, <3>1 DEF OpenAt
    <3> QED
      BY <1>1, <2>2, <3>1, <3>2
  <2>3. p <= Len(messages) \/ p = Len(messages) + 1
    BY <1>1
  <2> QED
    BY <2>1, <2>2, <2>3
<1>5. BatchInv'
  BY <1>1, <1>2 DEF BatchInv, OpenAt
<1>6. ContinuingInv'
  BY <1>1, <1>2 DEF ContinuingInv
<1> QED
  BY <1>3, <1>4, <1>5, <1>6 DEF ConversationInv

\* A step that leaves the conversation alone.
LEMMA ConversationUnchanged ==
    ASSUME ConversationInv, UNCHANGED <<messages, pending, next>>,
           Handling' => Handling, ~Handling' => ~Handling \/ Over',
           Over => Over', Handling => turn' = turn, continuing' => continuing
    PROVE  ConversationInv'
<1>1. \A p : Answers(p)' <=> Answers(p)
  BY DEF Answers
<1>2. OpenAt' = OpenAt
  BY DEF OpenAt
<1>3. ResultsInv'
  BY <1>1 DEF ConversationInv, ResultsInv
<1>4. AskedInv'
  BY <1>2 DEF ConversationInv, AskedInv
<1>5. BatchInv'
  BY <1>2 DEF ConversationInv, BatchInv
<1>6. ContinuingInv'
  BY DEF ConversationInv, ContinuingInv
<1> QED
  BY <1>3, <1>4, <1>5, <1>6 DEF ConversationInv

LEMMA OneResult ==
    ASSUME TypeOK, NEW ran \in BOOLEAN, messages' = Append(messages, ToolResult(next, ran))
    PROVE  ResultsOf(1)
<1>1. messages \in Seq(Message) /\ Len(messages) \in Nat /\ ToolResult(next, ran) \in Message
      /\ next \in Nat
  BY DEF TypeOK, ToolResult, Message
<1>2. /\ Len(messages') = Len(messages) + 1
      /\ \A i \in 1..Len(messages) : messages'[i] = messages[i]
      /\ messages'[Len(messages) + 1] = ToolResult(next, ran)
  BY <1>1, AppendProperties
<1> QED
  BY <1>1, <1>2 DEF ResultsOf, ToolResult

LEMMA RestOfTheBatch ==
    ASSUME TypeOK, OutOfToolCalls
    PROVE  /\ (Len(pending) - next) + 1 \in Nat
           /\ ResultsOf((Len(pending) - next) + 1)
           /\ \A i \in 1..((Len(pending) - next) + 1) : ~messages'[Len(messages) + i].ran
<1> DEFINE n == (Len(pending) - next) + 1
           rest == [k \in 1..n |-> ToolResult(next + k - 1, FALSE)]
<1>1. n \in Nat /\ next \in Nat
  BY DEF OutOfToolCalls, TypeOK
<1>2. ASSUME NEW k \in 1..n
      PROVE  /\ rest[k] \in Message
             /\ rest[k].role = "tool" /\ rest[k].turn = turn /\ rest[k].calls = 0
             /\ rest[k].index = (next + k) - 1 /\ ~rest[k].ran
  <2>1. (next + k) - 1 \in Nat /\ turn \in Nat /\ next + k - 1 = (next + k) - 1
    BY <1>1 DEF TypeOK
  <2>2. rest[k] = ToolResult((next + k) - 1, FALSE)
    BY <2>1
  <2> HIDE DEF rest
  <2> QED
    BY <2>1, <2>2 DEF ToolResult, Message
<1>3. rest \in [1..n -> Message]
  BY <1>2
<1>4. messages' = messages \o rest
  BY DEF OutOfToolCalls
<1>5. messages \in Seq(Message) /\ Len(messages) \in Nat
  BY DEF TypeOK
<1> HIDE DEF n, rest
<1>6. rest \in Seq(Message) /\ Len(rest) = n
  BY <1>1, <1>3, SeqDef
<1>7. /\ Len(messages') = Len(messages) + n
      /\ \A i \in 1..(Len(messages) + n) :
            messages'[i] = IF i <= Len(messages) THEN messages[i] ELSE rest[i - Len(messages)]
  BY <1>4, <1>5, <1>6, ConcatProperties
<1>8. \A i \in 1..Len(messages) : messages'[i] = messages[i]
  BY <1>1, <1>5, <1>7
<1>9. ASSUME NEW k \in 1..n
      PROVE  messages'[Len(messages) + k] = rest[k]
  <2>1. /\ Len(messages) + k \in 1..(Len(messages) + n) /\ ~(Len(messages) + k <= Len(messages))
        /\ (Len(messages) + k) - Len(messages) = k
    BY <1>1, <1>5
  <2> QED
    BY <1>7, <2>1
<1>10. ResultsOf(n) /\ \A i \in 1..n : ~messages'[Len(messages) + i].ran
  BY <1>2, <1>7, <1>8, <1>9 DEF ResultsOf
<1> QED
  BY <1>1, <1>10 DEF n

LEMMA ConversationNext == TypeOK /\ TypeOK' /\ CallInv /\ ConversationInv /\ [Next]_vars
                              => ConversationInv'
<1> SUFFICES ASSUME TypeOK, TypeOK', CallInv, ConversationInv, [Next]_vars PROVE ConversationInv'
  OBVIOUS
<1>a. turn \in Nat /\ next \in Nat \ {0} /\ Len(pending) \in Nat /\ Len(pending') \in Nat
  BY MessageFields DEF TypeOK
<1>b. \A n \in Nat : /\ Assistant(n) \in Message /\ Assistant(n).role = "assistant"
                     /\ Assistant(n).turn = turn /\ Assistant(n).calls = n
  BY <1>a DEF Assistant, Message
<1> USE DEF Handling, Over
<1>1. CASE EndOutOfTime \/ PauseOutOfTime \/ BeginTurn
  BY <1>1, ConversationUnchanged DEF EndOutOfTime, PauseOutOfTime, BeginTurn, End, loopVars
<1>2. CASE Connect \/ StreamCancelled \/ StreamFails \/ StreamEnds
  BY <1>2, ConversationUnchanged DEF Connect, StreamCancelled, StreamFails, StreamEnds, End, loopVars
<1>3. CASE ContinueAnswer
  <2>1. CASE continuing /\ messages[Len(messages)].role = "assistant"
    <3>1. ~Handling /\ ~Over /\ ~Handling' /\ ~Over' /\ UNCHANGED <<messages, pending, next, turn>>
      BY <1>3, <2>1 DEF ContinueAnswer
    <3> QED
      BY <2>1, <3>1, ConversationUnchanged
  <2>2. CASE ~(continuing /\ messages[Len(messages)].role = "assistant")
    <3>1. messages' = Append(messages, Assistant(0))
      BY <1>3, <2>2 DEF ContinueAnswer
    <3>2. ~Handling /\ ~Over /\ ~Handling' /\ UNCHANGED turn
      BY <1>3 DEF ContinueAnswer
    <3> HIDE DEF Handling, Over
    <3> QED
      BY <1>b, <3>1, <3>2, AssistantAppended
  <2> QED
    BY <2>1, <2>2
<1>4. CASE EndTurn
  BY <1>4, ConversationUnchanged DEF EndTurn, End
<1>5. CASE AcceptBatch
  <2>1. /\ ~Handling /\ ~Over /\ Handling' /\ ~continuing' /\ next' = 1 /\ UNCHANGED turn
        /\ messages' = Append(messages, Assistant(Len(pending')))
    BY <1>5 DEF AcceptBatch
  <2> HIDE DEF Handling, Over
  <2> QED
    BY <1>a, <1>b, <2>1, AssistantAppended
<1>6. CASE FinishBatch
  <2>1. /\ Handling /\ ~Over /\ phase' \in {"completed", "turn"} /\ ~Handling' /\ next > Len(pending)
        /\ UNCHANGED <<messages, continuing>>
    BY <1>6 DEF FinishBatch, End
  <2>a. /\ next <= Len(pending) + 1 /\ OpenAt \in 1..Len(messages)
        /\ messages[OpenAt].calls = Len(pending) /\ ~continuing
    BY <2>1 DEF ConversationInv, BatchInv, ContinuingInv
  <2>b. OpenAt + Len(pending) = Len(messages)
    BY <1>a, <2>1, <2>a, MessageFields DEF OpenAt
  <2>2. OpenAt \in 1..Len(messages) /\ OpenAt + Len(pending) = Len(messages)
        /\ messages[OpenAt].calls = Len(pending) /\ ~continuing
    BY <2>a, <2>b
  <2>3. ASSUME NEW p \in 1..Len(messages), NEW k \in 1..messages[p].calls
        PROVE  /\ p + k <= Len(messages)
               /\ messages[p + k].role = "tool" /\ messages[p + k].index = k
    <3>1. p + k > Len(messages) => p = OpenAt
      BY <2>1 DEF ConversationInv, AskedInv
    <3>2. p + k <= Len(messages)
      BY <2>2, <3>1, MessageFields
    <3> QED
      BY <2>1, <3>2 DEF ConversationInv, AskedInv
  <2>4. AskedInv'
    BY <2>1, <2>3, MessageFields DEF AskedInv
  <2>5. ResultsInv'
    BY <2>1 DEF ConversationInv, ResultsInv, Answers
  <2> QED
    BY <2>1, <2>2, <2>4, <2>5 DEF ConversationInv, BatchInv, ContinuingInv
<1>7. CASE OutOfToolCalls
  <2>1. /\ Handling /\ phase' \in {"batch", "completed"}
        /\ next' = next + ((Len(pending) - next) + 1)
        /\ next + ((Len(pending) - next) + 1) <= Len(pending) + 1
        /\ UNCHANGED <<pending, turn, continuing>>
    BY <1>7, <1>a DEF OutOfToolCalls, End
  <2> HIDE DEF Handling, Over
  <2> QED
    BY <1>7, <2>1, RestOfTheBatch, ResultsAnswerTheBatch
<1>8. CASE RepeatedCall \/ StartCall
  BY <1>8, ConversationUnchanged DEF RepeatedCall, StartCall, CountCall, End
<1>9. CASE RefuseCall \/ FinishCall \/ Deny
  <2>1. /\ Handling /\ phase' = "batch" /\ next' = next + 1
        /\ UNCHANGED <<pending, turn, continuing>>
        /\ \E ran \in BOOLEAN : messages' = Append(messages, ToolResult(next, ran))
    BY <1>9 DEF RefuseCall, FinishCall, Deny, CountCall
  <2>2. next <= Len(pending)
    BY <1>9 DEF RefuseCall, FinishCall, Deny, CountCall, CallInv
  <2>3. ResultsOf(1)
    BY <2>1, OneResult
  <2> HIDE DEF Handling, Over
  <2> QED
    BY <1>a, <2>1, <2>2, <2>3, ResultsAnswerTheBatch
<1>10. CASE Grant \/ DecideAnother \/ Extend \/ AskForAnswer
  BY <1>10, ConversationUnchanged DEF Grant, DecideAnother, Extend, AskForAnswer, loopVars
<1>11. CASE ClockPasses \/ Cancel \/ UNCHANGED vars
  BY <1>11, ConversationUnchanged DEF ClockPasses, Cancel, loopVars, vars
<1> QED
  BY <1>1, <1>2, <1>3, <1>4, <1>5, <1>6, <1>7, <1>8, <1>9, <1>10, <1>11
     DEF Next, LoopStep, CallerStep, Ended

LEMMA ConversationInvariant == Spec => [](TypeOK /\ CallInv /\ ConversationInv)
BY ConversationInit, ConversationNext, CallInit, CallNext, TypeCorrect, PTL DEF Spec

\* Every request carries a conversation in which each call has its own result,
\* right after the message that asked for it and in order, and a continued
\* answer ends with what was answered so far, however batches were cut short.
THEOREM RequestsAreWellFormed == Spec => []WellFormedRequests
<1>1. TypeOK /\ ConversationInv => WellFormedRequests
  <2> SUFFICES ASSUME TypeOK, ConversationInv, phase \in {"connecting", "streaming"}
               PROVE  WellFormedRequests
    BY DEF WellFormedRequests
  <2>1. DOMAIN messages = 1..Len(messages)
    BY DEF TypeOK
  <2> QED
    BY <2>1 DEF ConversationInv, ResultsInv, AskedInv, ContinuingInv, Handling, Over,
       WellFormedRequests
<1> QED
  BY <1>1, ConversationInvariant, PTL

-----------------------------------------------------------------------------
(* The loop implements its contract.                                       *)

\* A step that adds no result of a call that ran.
NothingRan ==
    /\ Len(messages') >= Len(messages)
    /\ \A p \in 1..Len(messages) : messages'[p] = messages[p]
    /\ \A p \in (Len(messages) + 1)..Len(messages') : ~messages'[p].ran

LEMMA NothingRanFacts ==
    ASSUME TypeOK, TypeOK', NothingRan
    PROVE  /\ RanResults' = RanResults
           /\ \A p \in 1..Len(messages') :
                 messages'[p].ran => p \in 1..Len(messages) /\ messages'[p] = messages[p]
<1>1. /\ Len(messages) \in Nat /\ Len(messages') \in Nat
      /\ DOMAIN messages = 1..Len(messages) /\ DOMAIN messages' = 1..Len(messages')
  BY DEF TypeOK
<1>2. \A p \in 1..Len(messages') :
         messages'[p].ran => p \in 1..Len(messages) /\ messages'[p] = messages[p]
  BY <1>1 DEF NothingRan
<1>3. \A p \in 1..Len(messages) : p \in 1..Len(messages') /\ messages'[p] = messages[p]
  BY <1>1 DEF NothingRan
<1> QED
  BY <1>1, <1>2, <1>3 DEF RanResults

LEMMA UnranMessage ==
    ASSUME TypeOK, NEW m \in Message, ~m.ran, messages' = Append(messages, m)
    PROVE  NothingRan
<1>1. messages \in Seq(Message) /\ Len(messages) \in Nat
  BY DEF TypeOK
<1>2. /\ Len(messages') = Len(messages) + 1
      /\ \A i \in 1..Len(messages) : messages'[i] = messages[i]
      /\ messages'[Len(messages) + 1] = m
  BY <1>1, AppendProperties
<1> QED
  BY <1>1, <1>2 DEF NothingRan

\* Every step but the end of a call.
LEMMA OnlyFinishedCallsRan ==
    ASSUME TypeOK, [Next]_vars, ~FinishCall
    PROVE  NothingRan
<1>a. turn \in Nat /\ next \in Nat /\ Len(messages) \in Nat /\ messages \in Seq(Message)
  BY DEF TypeOK
<1>b. Assistant(0) \in Message /\ ~Assistant(0).ran
  BY <1>a DEF Assistant, Message
<1>c. ToolResult(next, FALSE) \in Message /\ ~ToolResult(next, FALSE).ran
  BY <1>a DEF ToolResult, Message
<1>1. CASE UNCHANGED messages
  BY <1>1, <1>a DEF NothingRan
<1>2. CASE messages' = Append(messages, Assistant(0))
  BY <1>2, <1>b, UnranMessage
<1>3. CASE messages' = Append(messages, ToolResult(next, FALSE))
  BY <1>3, <1>c, UnranMessage
<1>4. CASE AcceptBatch
  <2>1. Len(pending') \in Nat /\ messages' = Append(messages, Assistant(Len(pending')))
    BY <1>4, BatchesAreSequences DEF AcceptBatch
  <2>2. Assistant(Len(pending')) \in Message /\ ~Assistant(Len(pending')).ran
    BY <1>a, <2>1 DEF Assistant, Message
  <2> QED
    BY <2>1, <2>2, UnranMessage
<1>5. CASE OutOfToolCalls
  <2>1. /\ (Len(pending) - next) + 1 \in Nat
        /\ ResultsOf((Len(pending) - next) + 1)
        /\ \A i \in 1..((Len(pending) - next) + 1) : ~messages'[Len(messages) + i].ran
    BY <1>5, RestOfTheBatch
  <2>2. ASSUME NEW p \in (Len(messages) + 1)..Len(messages')
        PROVE  ~messages'[p].ran
    <3>1. /\ p - Len(messages) \in 1..((Len(pending) - next) + 1)
          /\ Len(messages) + (p - Len(messages)) = p
      BY <1>a, <2>1 DEF ResultsOf
    <3>2. ~messages'[Len(messages) + (p - Len(messages))].ran
      BY <2>1, <3>1
    <3> QED
      BY <3>1, <3>2
  <2> QED
    BY <1>a, <2>1, <2>2 DEF NothingRan, ResultsOf
<1>6. CASE ContinueAnswer
  BY <1>6, <1>1, <1>2 DEF ContinueAnswer
<1>7. CASE RefuseCall \/ Deny
  BY <1>7, <1>3 DEF RefuseCall, Deny
<1> QED
  BY <1>1, <1>4, <1>5, <1>6, <1>7
     DEF Next, LoopStep, CallerStep, Ended, vars, loopVars, EndOutOfTime, PauseOutOfTime,
         BeginTurn, Connect, StreamCancelled, StreamFails, StreamEnds, EndTurn, FinishBatch,
         RepeatedCall, StartCall, Grant, DecideAnother, Extend, AskForAnswer, ClockPasses,
         Cancel, End

LEMMA CallFinished ==
    ASSUME TypeOK, FinishCall
    PROVE  /\ RanResults' = RanResults \cup {Len(messages) + 1}
           /\ Len(messages) + 1 \notin RanResults
           /\ Len(messages') = Len(messages) + 1
           /\ \A p \in 1..Len(messages) : messages'[p] = messages[p]
           /\ messages'[Len(messages) + 1] = ToolResult(next, TRUE)
<1>1. /\ messages \in Seq(Message) /\ Len(messages) \in Nat
      /\ ToolResult(next, TRUE) \in Message /\ ToolResult(next, TRUE).ran
  BY DEF TypeOK, ToolResult, Message
<1>2. messages' = Append(messages, ToolResult(next, TRUE))
  BY DEF FinishCall
<1>3. RanResults' = RanResults \cup {Len(messages) + 1}
  BY <1>1, <1>2, RanAfterAppend DEF RanResults
<1>4. Len(messages) + 1 \notin RanResults
  BY <1>1 DEF RanResults
<1>5. /\ Len(messages') = Len(messages) + 1
      /\ \A p \in 1..Len(messages) : messages'[p] = messages[p]
      /\ messages'[Len(messages) + 1] = ToolResult(next, TRUE)
  BY <1>1, <1>2, AppendProperties
<1> QED
  BY <1>3, <1>4, <1>5

LEMMA OrderNext == TypeOK /\ TypeOK' /\ OrderInv /\ [Next]_vars => OrderInv'
<1> SUFFICES ASSUME TypeOK, TypeOK', OrderInv, [Next]_vars PROVE OrderInv'
  OBVIOUS
<1>a. turn \in Nat /\ next \in Nat \ {0}
  BY MessageFields
<1>b. Len(pending') <= MaxBatch
  <2>1. pending' = pending \/ pending' = <<>> \/ AcceptBatch
    BY DEF Next, LoopStep, CallerStep, Ended, vars, loopVars, EndOutOfTime, PauseOutOfTime,
           BeginTurn, Connect, StreamCancelled, StreamFails, StreamEnds, ContinueAnswer,
           EndTurn, FinishBatch, OutOfToolCalls, RepeatedCall, StartCall, RefuseCall,
           FinishCall, Grant, Deny, DecideAnother, Extend, AskForAnswer, ClockPasses, Cancel
  <2>2. CASE AcceptBatch
    BY <2>2, LimitsAssumption DEF AcceptBatch, Batch
  <2> QED
    BY <2>1, <2>2, LimitsAssumption DEF OrderInv
<1>1. CASE FinishCall
  <2> SUFFICES ASSUME NEW p \in 1..(Len(messages) + 1), messages'[p].ran
               PROVE  /\ messages'[p].turn <= turn
                      /\ messages'[p].turn = turn => messages'[p].index < next + 1
    BY <1>1, <1>b, CallFinished DEF OrderInv, FinishCall
  <2>1. CASE p = Len(messages) + 1
    BY <1>1, <1>a, <2>1, CallFinished DEF ToolResult
  <2>2. CASE p # Len(messages) + 1
    <3>1. p \in 1..Len(messages) /\ messages'[p] = messages[p]
      BY <1>1, <2>2, CallFinished, MessageFields
    <3> QED
      BY <1>1, <1>a, <3>1, MessageFields DEF OrderInv, Handling, FinishCall
  <2> QED
    BY <2>1, <2>2
<1>2. CASE ~FinishCall
  <2>1. \A p \in 1..Len(messages') :
           messages'[p].ran => p \in 1..Len(messages) /\ messages'[p] = messages[p]
    BY <1>2, OnlyFinishedCallsRan, NothingRanFacts
  <2> SUFFICES ASSUME NEW p \in 1..Len(messages), messages[p].ran
               PROVE  /\ messages[p].turn <= turn'
                      /\ phase' \in {"connecting", "streaming", "finishing"} =>
                            messages[p].turn < turn'
                      /\ Handling' /\ messages[p].turn = turn' => messages[p].index < next'
    BY <1>b, <2>1 DEF OrderInv
  <2>2. /\ messages[p].turn \in Nat /\ messages[p].index \in Nat
        /\ messages[p].turn <= turn
        /\ phase \in {"connecting", "streaming", "finishing"} => messages[p].turn < turn
        /\ Handling /\ messages[p].turn = turn => messages[p].index < next
    BY MessageFields DEF OrderInv
  <2> USE DEF Handling
  <2>3. CASE BeginTurn \/ AcceptBatch
    BY <2>2, <2>3, <1>a DEF BeginTurn, AcceptBatch, End
  <2>4. CASE FinishBatch \/ OutOfToolCalls
    <3>1. /\ phase = "batch" /\ turn' = turn
          /\ \/ phase' = "batch" /\ next' = Len(pending) + 1 /\ next <= Len(pending)
             \/ phase' \in {"turn", "completed"}
      BY <2>4 DEF FinishBatch, OutOfToolCalls, End
    <3>2. Len(pending) \in Nat
      BY MessageFields
    <3> QED
      BY <1>a, <2>2, <3>1, <3>2
  <2>5. CASE RepeatedCall \/ StartCall \/ RefuseCall \/ Deny
    <3>1. /\ phase \in {"batch", "approval"} /\ turn' = turn /\ next' \in {next, next + 1}
          /\ phase' \in {"batch", "tool", "approval", "completed"}
      BY <2>5 DEF RepeatedCall, StartCall, RefuseCall, Deny, CountCall, End
    <3> QED
      BY <1>a, <2>2, <3>1
  <2>6. CASE EndOutOfTime \/ PauseOutOfTime \/ Connect \/ StreamCancelled \/ StreamFails
    BY <2>2, <2>6 DEF EndOutOfTime, PauseOutOfTime, Connect, StreamCancelled, StreamFails,
       End, loopVars
  <2>7. CASE StreamEnds \/ ContinueAnswer \/ EndTurn
    BY <2>2, <2>7 DEF StreamEnds, ContinueAnswer, EndTurn, End
  <2>8. CASE Grant \/ DecideAnother \/ Extend \/ AskForAnswer
    BY <2>2, <2>8 DEF Grant, DecideAnother, Extend, AskForAnswer, loopVars
  <2>9. CASE ClockPasses \/ Cancel \/ UNCHANGED vars
    BY <2>2, <2>9 DEF ClockPasses, Cancel, loopVars, vars
  <2> QED
    BY <1>2, <2>3, <2>4, <2>5, <2>6, <2>7, <2>8, <2>9 DEF Next, LoopStep, CallerStep, Ended
<1> QED
  BY <1>1, <1>2

\* The calls that ran, of which the one in hand is none.
RanPairs == {<<messages[i].turn, messages[i].index>> : i \in RanResults}

LEMMA RanAsBefore ==
    ASSUME TypeOK, TypeOK', NothingRan
    PROVE  RanPairs' = RanPairs /\ Cardinality(RanResults)' = Cardinality(RanResults)
<1>1. RanResults' = RanResults
  BY NothingRanFacts
<1>2. RanResults \subseteq 1..Len(messages)
  BY DEF RanResults, TypeOK
<1>3. \A i \in RanResults : messages'[i] = messages[i]
  BY <1>2 DEF NothingRan
<1> QED
  BY <1>1, <1>3 DEF RanPairs

LEMMA CallInHandIsNew ==
    ASSUME TypeOK, OrderInv, phase \in {"batch", "approval"}
    PROVE  <<turn, next>> \notin RanPairs
<1> SUFFICES ASSUME NEW i \in RanResults, messages[i].turn = turn, messages[i].index = next
             PROVE  FALSE
  BY DEF RanPairs
<1>1. i \in 1..Len(messages) /\ messages[i].ran
  BY DEF RanResults, TypeOK
<1> QED
  BY <1>1, MessageFields DEF OrderInv, Handling

\* The outcome the caller has in hand.
Outcome ==
    CASE phase = "approval"  -> "awaitingApproval"
      [] phase = "outOfTime" -> "outOfTime"
      [] phase \in {"completed", "failed"} -> phase
      [] OTHER               -> "running"

LEMMA StepKeepsContract ==
    ASSUME TypeOK, TypeOK', TurnInv, CallInv, OrderInv, [Next]_vars
    PROVE  \/ UNCHANGED <<Outcome, turn, Ran, Executions>>
           \/ /\ Outcome = "running" /\ turn < TurnLimit /\ turn' = turn + 1
              /\ UNCHANGED <<Outcome, Ran, Executions>>
           \/ /\ Outcome \in {"running", "awaitingApproval"} /\ Outcome' = "running"
              /\ next \in 1..MaxBatch /\ <<turn, next>> \notin Ran
              /\ Ran' = Ran \cup {<<turn, next>>}
              /\ Executions < MaxToolCalls /\ Executions' = Executions + 1
              /\ UNCHANGED turn
           \/ /\ UNCHANGED <<turn, Ran, Executions>>
              /\ \/ /\ Outcome = "running"
                    /\ Outcome' \in {"awaitingApproval", "outOfTime", "completed"}
                 \/ Outcome \in {"awaitingApproval", "outOfTime"} /\ Outcome' = "running"
                 \/ Outcome \in {"running", "awaitingApproval"} /\ Outcome' = "failed"
<1>a. /\ turn \in Nat /\ next \in Nat \ {0} /\ Len(pending) \in Nat
      /\ Cardinality(RanResults) \in Nat /\ {MaxToolCalls, MaxBatch} \subseteq Nat
      /\ MaxTurns \in Nat
  BY MessageFields, RanResultsFinite, LimitsAssumption DEF TypeOK
<1>b. /\ Ran = RanPairs \cup (IF phase = "tool" THEN {<<turn, next>>} ELSE {})
      /\ Executions = Cardinality(RanResults) + (IF phase = "tool" THEN 1 ELSE 0)
      /\ Ran' = RanPairs' \cup (IF phase' = "tool" THEN {<<turn', next'>>} ELSE {})
      /\ Executions' = Cardinality(RanResults)' + (IF phase' = "tool" THEN 1 ELSE 0)
  BY DEF Ran, Executions, RanPairs
<1>c. ~FinishCall => RanPairs' = RanPairs /\ Cardinality(RanResults)' = Cardinality(RanResults)
  BY OnlyFinishedCallsRan, RanAsBefore
<1>d. phase \in {"batch", "approval"} => <<turn, next>> \notin RanPairs
  BY CallInHandIsNew
<1>1. CASE FinishCall
  <2>1. Cardinality(RanResults)' = Cardinality(RanResults) + 1
    BY <1>1, CallFinished, RanResultsFinite, FS_AddElement DEF TypeOK
  <2>2. RanPairs' = RanPairs \cup {<<turn, next>>}
    <3>0. RanResults \subseteq 1..Len(messages)
      BY DEF RanResults, TypeOK
    <3>1. \A i \in RanResults : messages'[i] = messages[i]
      BY <1>1, <3>0, CallFinished
    <3>2. messages'[Len(messages) + 1].turn = turn /\ messages'[Len(messages) + 1].index = next
      BY <1>1, CallFinished DEF ToolResult
    <3> QED
      BY <1>1, <3>1, <3>2, CallFinished DEF RanPairs
  <2>3. phase = "tool" /\ phase' = "batch" /\ UNCHANGED turn
    BY <1>1 DEF FinishCall
  <2> QED
    BY <1>a, <1>b, <2>1, <2>2, <2>3 DEF Outcome
<1>2. CASE BeginTurn
  <2>1. CASE turn' = turn + 1 /\ phase' = "connecting"
    <3>1. turn < TurnLimit
      BY <1>2, <1>a DEF BeginTurn, TurnInv, TurnLimit
    <3> QED
      BY <1>2, <1>a, <1>b, <1>c, <2>1, <3>1 DEF BeginTurn, FinishCall, Outcome
  <2>2. CASE UNCHANGED turn /\ phase' = "completed"
    BY <1>2, <1>b, <1>c, <2>2 DEF BeginTurn, FinishCall, Outcome
  <2> QED
    BY <1>2, <2>1, <2>2 DEF BeginTurn, End
<1>3. CASE StartCall
  <2>1. /\ phase = "batch" /\ phase' \in {"tool", "approval"} /\ UNCHANGED <<turn, next>>
        /\ next <= Len(pending) /\ toolCallsMade + 1 <= MaxToolCalls
    BY <1>3 DEF StartCall, CountCall
  <2>2. next \in 1..MaxBatch /\ Cardinality(RanResults) < MaxToolCalls
    BY <1>a, <2>1 DEF OrderInv, CallInv, InHand, TypeOK
  <2>3. RanPairs' = RanPairs /\ Cardinality(RanResults)' = Cardinality(RanResults)
    BY <1>c, <2>1 DEF FinishCall
  <2>4. CASE phase' = "tool"
    BY <1>a, <1>b, <1>d, <2>1, <2>2, <2>3, <2>4 DEF Outcome
  <2>5. CASE phase' = "approval"
    BY <1>b, <2>1, <2>3, <2>5 DEF Outcome
  <2> QED
    BY <2>1, <2>4, <2>5
<1>4. CASE Grant
  <2>1. phase = "approval" /\ phase' = "tool" /\ UNCHANGED <<turn, next>>
    BY <1>4 DEF Grant, loopVars
  <2>2. next \in 1..MaxBatch /\ Cardinality(RanResults) < MaxToolCalls
    BY <1>a, <2>1 DEF OrderInv, CallInv, InHand
  <2>3. RanPairs' = RanPairs /\ Cardinality(RanResults)' = Cardinality(RanResults)
    BY <1>c, <2>1 DEF FinishCall
  <2> QED
    BY <1>a, <1>b, <1>d, <2>1, <2>2, <2>3 DEF Outcome
<1>5. CASE RefuseCall \/ RepeatedCall \/ OutOfToolCalls \/ FinishBatch
  <2>1. phase = "batch" /\ phase' \in {"batch", "turn", "completed"} /\ UNCHANGED turn
    BY <1>5 DEF RefuseCall, RepeatedCall, OutOfToolCalls, FinishBatch, CountCall, End
  <2> QED
    BY <1>b, <1>c, <2>1 DEF FinishCall, Outcome
<1>6. CASE EndOutOfTime \/ PauseOutOfTime \/ Connect \/ StreamCancelled \/ StreamFails
            \/ StreamEnds \/ ContinueAnswer \/ EndTurn \/ AcceptBatch
  <2>1. /\ phase \in {"turn", "connecting", "streaming", "finishing"}
        /\ \/ phase' \in {"turn", "connecting", "streaming", "finishing", "batch"}
           \/ phase' \in {"completed", "outOfTime", "failed"}
        /\ UNCHANGED turn
    BY <1>6 DEF EndOutOfTime, PauseOutOfTime, Connect, StreamCancelled, StreamFails,
       StreamEnds, ContinueAnswer, EndTurn, AcceptBatch, End, loopVars
  <2> QED
    BY <1>b, <1>c, <2>1 DEF FinishCall, Outcome
<1>7. CASE Deny \/ DecideAnother \/ Extend \/ AskForAnswer
  <2>1. /\ \/ phase = "approval" /\ phase' \in {"batch", "failed"}
           \/ phase = "outOfTime" /\ phase' = "turn"
        /\ UNCHANGED turn
    BY <1>7 DEF Deny, DecideAnother, Extend, AskForAnswer, loopVars
  <2> QED
    BY <1>b, <1>c, <2>1 DEF FinishCall, Outcome
<1>8. CASE ClockPasses \/ Cancel \/ UNCHANGED vars
  <2>1. UNCHANGED <<phase, turn, next, messages>>
    BY <1>8 DEF ClockPasses, Cancel, vars, loopVars
  <2>2. RanPairs' = RanPairs /\ Cardinality(RanResults)' = Cardinality(RanResults)
    BY <2>1 DEF RanPairs, RanResults
  <2> QED
    BY <1>b, <2>1, <2>2 DEF Outcome
<1> QED
  BY <1>1, <1>2, <1>3, <1>4, <1>5, <1>6, <1>7, <1>8 DEF Next, LoopStep, CallerStep, Ended

\* What a caller of the loop may count on, RunContract, is what the loop does:
\* every step of a Driver is a step of the contract or none.
THEOREM LoopImplementsContract == Spec => ImplementsContract
<1> USE DEF Contract!vars
<1>1. Init => Contract!Init
  <2> SUFFICES ASSUME Init PROVE Contract!Init
    OBVIOUS
  <2>1. RanResults = {}
    BY DEF Init, RanResults, UserMessage
  <2>2. Cardinality(RanResults) = 0
    BY <2>1, FS_EmptySet
  <2> QED
    BY <2>1, <2>2 DEF Init, Contract!Init, Ran, Executions
<1>2. TypeOK /\ TypeOK' /\ TurnInv /\ CallInv /\ OrderInv /\ [Next]_vars
         => [Contract!Next]_(Contract!vars)
  <2> SUFFICES ASSUME TypeOK, TypeOK', TurnInv, CallInv, OrderInv, [Next]_vars
               PROVE  [Contract!Next]_(Contract!vars)
    OBVIOUS
  <2> QED
    BY StepKeepsContract
       DEF Outcome, Contract!Next, Contract!TakeTurn, Contract!Run, Contract!Suspend,
           Contract!Proceed, Contract!Complete, Contract!Fail
<1>3. Spec => [](TypeOK /\ TurnInv /\ CallInv /\ OrderInv)
  BY ConversationInit, OrderNext, ConversationInvariant, TurnsInvariant, PTL DEF Spec
<1> QED
  BY <1>1, <1>2, <1>3, PTL DEF Spec, ImplementsContract, Contract!Spec

=============================================================================
