------------------------ MODULE RunSupervisorProofs ------------------------
(***************************************************************************)
(* What holds of a run however its driver, its forwarder, the handlers and *)
(* whoever revokes it interleave, for any number of requests, answers,     *)
(* pauses and changes of its principal.                                    *)
(***************************************************************************)
EXTENDS RunSupervisor, SequenceTheorems, TLAPS

\* A revoked run that already took its action past the check has no other
\* such action under way.
RevokedActionIsTheLast ==
    /\ overruns \in {0, 1}
    /\ overruns = 1 => revoked /\ phase \notin {"connecting", "launching"}

\* A grant in the channel was given by a person.
GrantsAreHeld == \A i \in DOMAIN decisions : decisions[i][2] => decisions[i][1] \in granted

\* The forwarder works on the first event; a driver that waits for it to
\* drain goes on only then.
ForwarderHasItsEvent ==
    /\ forwarding # "idle" => sink # <<>>
    /\ phase \in {"closing", "ended"} => sink = <<>> /\ forwarding = "idle"

\* A pause whose status is still to be shown.
UnshownPause(i) ==
    /\ i \in DOMAIN sink /\ sink[i].kind = "wallClockPaused"
    /\ i > 1 \/ forwarding # "push"

\* Such a pause is the last event, of a run that waits with no continuation on
\* its way; a pause is shown only while the run waits for a continuation.
PausesMatch ==
    /\ continues \in {0, 1}
    /\ ~canContinue => continues = 0
    /\ canContinue /\ Receiving =>
          /\ continues = 1 => phase = "outOfTime"
          /\ status = "awaitingContinue" => phase = "outOfTime" /\ continues = 0
          /\ \A i \in DOMAIN sink : UnshownPause(i) =>
                /\ i = Len(sink) /\ phase = "outOfTime" /\ continues = 0
                /\ status # "awaitingContinue"

\* What a run waits for is the last event, or shown already.
WaitIsLast ==
    /\ phase = "approval" =>
          /\ sink # <<>> => sink[Len(sink)] = Awaiting(awaited)
          /\ sink = <<>> \/ (Len(sink) = 1 /\ forwarding # "idle") => pending = awaited
          /\ sink = <<>> \/ (Len(sink) = 1 /\ forwarding = "push") =>
                status = "awaitingApproval"
    /\ phase = "outOfTime" /\ canContinue /\ continues = 0 =>
          /\ sink # <<>> => sink[Len(sink)] = Plain("wallClockPaused")
          /\ sink = <<>> \/ (Len(sink) = 1 /\ forwarding = "push") =>
                status = "awaitingContinue"

\* Nobody but a person or a revocation cancels, and a run that returned as
\* cancelled says so last.
CancelsHaveAReason ==
    /\ cancelDue => revoked
    /\ cancelled /\ ~asked => revoked
EndIsLast ==
    /\ result = "cancelled" => ~Receiving
    /\ result = "cancelled" /\ ~asked =>
          /\ revoked
          /\ sink # <<>> => sink[Len(sink)] = Completed("cancelled")
          /\ sink = <<>> => log # <<>> /\ log[Len(log)] = Completed("cancelled")
    /\ status = "cancelled" => result = "cancelled" /\ phase = "ended"

-----------------------------------------------------------------------------
(***************************************************************************)
(* Types.                                                                  *)
(***************************************************************************)
LEMMA EventTypes ==
    /\ \A k \in EventKind : Plain(k) \in Event
    /\ \A n \in Nat : Awaiting(n) \in Event
    /\ \A r \in {"ended", "cancelled", "error"} : Completed(r) \in Event
BY DEF Plain, Awaiting, Completed, Event, EventKind

\* What an emission does to the sink.
LEMMA EmitOne ==
    ASSUME NEW e \in Event, sink \in Seq(Event), Emit(<<e>>)
    PROVE  /\ sink' \in Seq(Event) /\ Len(sink') = Len(sink) + 1 /\ Len(sink) \in Nat
           /\ \A i \in 1..Len(sink) : sink'[i] = sink[i]
           /\ sink'[Len(sink')] = e /\ sink' # <<>>
BY DEF Emit

LEMMA EmitTwo ==
    ASSUME NEW d \in Event, NEW e \in Event, sink \in Seq(Event), Emit(<<d, e>>)
    PROVE  /\ sink' \in Seq(Event) /\ Len(sink') = Len(sink) + 2 /\ Len(sink) \in Nat
           /\ \A i \in 1..Len(sink) : sink'[i] = sink[i]
           /\ sink'[Len(sink) + 1] = d /\ sink'[Len(sink')] = e /\ sink' # <<>>
BY DEF Emit

LEMMA EmitNone == ASSUME sink \in Seq(Event), Emit(<<>>) PROVE sink' = sink
BY DEF Emit

\* The types, in three parts: control, what is counted, what is queued.
Control ==
    /\ phase \in {"start", "turn", "connecting", "streaming", "call", "launch", "launching",
                 "tool", "approval", "outOfTime", "returned", "closing", "ended"}
    /\ result \in RunStatus /\ status \in RunStatus
    /\ forwarding \in {"idle", "status", "push"}
    /\ {revocable, canContinue, allowed, revoked, cancelDue, cancelled, asked} \subseteq BOOLEAN
Numbers ==
    /\ {requests, calls, awaited, overruns, pauses, pending, answers, continues, changes}
          \subseteq Nat
    /\ granted \subseteq Nat /\ answering \subseteq Nat
Queues == sink \in Seq(Event) /\ log \in Seq(Event) /\ decisions \in Seq(Nat \X BOOLEAN)

LEMMA TypeParts == TypeOK <=> Control /\ Numbers /\ Queues
BY DEF TypeOK, Control, Numbers, Queues

LEMMA ControlNext == Control /\ [Next]_vars => Control'
<1> SUFFICES ASSUME Control, [Next]_vars PROVE Control'
  OBVIOUS
<1> USE DEF Control, RunStatus, Terminal, stateVars, authVars, optionVars, driverVars
<1>1. CASE DriverStep
  <2>1. CASE Start
    BY <2>1 DEF Start, Verified, Refuse, ReturnRevoked, Return
  <2>2. CASE AskToStream
    BY <2>2 DEF AskToStream, Verified
  <2>3. CASE Connect
    BY <2>3 DEF Connect, Abandons
  <2>4. CASE EndLoop
    BY <2>4 DEF EndLoop, Abandons, Return
  <2>5. CASE AskForCall
    BY <2>5 DEF AskForCall
  <2>6. CASE GateCall
    BY <2>6 DEF GateCall, Verified, Refuse
  <2>7. CASE LaunchCall
    BY <2>7 DEF LaunchCall, Verified, Refuse
  <2>8. CASE StartTool
    BY <2>8 DEF StartTool
  <2>9. CASE FinishTool
    BY <2>9 DEF FinishTool
  <2>10. CASE PauseLoop
    BY <2>10 DEF PauseLoop
  <2>11. CASE EndPause
    BY <2>11 DEF EndPause, Return
  <2>12. CASE WaitCancelled
    BY <2>12 DEF WaitCancelled, ReturnRevoked, Return
  <2>13. CASE TakeContinuation
    BY <2>13 DEF TakeContinuation, Verified, Refuse, ReturnRevoked, Return
  <2>14. CASE TakeDecision
    BY <2>14 DEF TakeDecision, Verified, Refuse, ReturnRevoked, Return
  <2>15. CASE ClearPending
    BY <2>15 DEF ClearPending
  <2>16. CASE PublishStatus
    BY <2>16 DEF PublishStatus
  <2> QED
    BY <1>1, <2>1, <2>2, <2>3, <2>4, <2>5, <2>6, <2>7, <2>8, <2>9, <2>10, <2>11,
       <2>12, <2>13, <2>14, <2>15, <2>16 DEF DriverStep
<1>2. CASE ForwardStep
  <2>1. CASE ForwardPending
    BY <2>1 DEF ForwardPending
  <2>2. CASE ForwardStatus
    BY <2>2 DEF ForwardStatus
  <2>3. CASE ForwardPush
    BY <2>3 DEF ForwardPush
  <2> QED
    BY <1>2, <2>1, <2>2, <2>3 DEF ForwardStep
<1>3. CASE HandlerStep
  <2>1. CASE ReadPending
    BY <2>1 DEF ReadPending, Verified
  <2>2. ASSUME NEW id \in answering, NEW grant \in BOOLEAN, SendDecision(id, grant)
       PROVE  Control'
    BY <2>2 DEF SendDecision, Receiving
  <2>3. CASE Continue
    BY <2>3 DEF Continue, Receiving
  <2>4. CASE Cancel
    BY <2>4 DEF Cancel
  <2> QED
    BY <1>3, <2>1, <2>2, <2>3, <2>4 DEF HandlerStep
<1>4. CASE AuthorityStep
  <2>1. CASE ChangeIdentity
    BY <2>1 DEF ChangeIdentity
  <2>2. CASE Sweep
    BY <2>2 DEF Sweep, RecordRevocation
  <2>3. CASE Revoke
    BY <2>3 DEF Revoke, RecordRevocation
  <2>4. CASE FireCancel
    BY <2>4 DEF FireCancel
  <2> QED
    BY <1>4, <2>1, <2>2, <2>3, <2>4 DEF AuthorityStep
<1>5. CASE UNCHANGED vars
  BY <1>5 DEF vars, driverVars, stateVars, handlerVars, authVars, optionVars
<1> QED
  BY <1>1, <1>2, <1>3, <1>4, <1>5 DEF Next, Rest

LEMMA NumbersNext == Numbers /\ Queues /\ [Next]_vars => Numbers'
<1> SUFFICES ASSUME Numbers, Queues, [Next]_vars PROVE Numbers'
  OBVIOUS
<1> USE DEF Numbers, stateVars, handlerVars, authVars, driverVars
<1>1. CASE DriverStep
  <2>1. CASE Start
    BY <2>1 DEF Start, Verified, Refuse, ReturnRevoked, Return
  <2>2. CASE AskToStream
    BY <2>2 DEF AskToStream, Verified
  <2>3. CASE Connect
    BY <2>3 DEF Connect, Abandons
  <2>4. CASE EndLoop
    BY <2>4 DEF EndLoop, Abandons, Return
  <2>5. CASE AskForCall
    BY <2>5 DEF AskForCall
  <2>6. CASE GateCall
    BY <2>6 DEF GateCall, Verified, Refuse
  <2>7. CASE LaunchCall
    BY <2>7 DEF LaunchCall, Verified, Refuse
  <2>8. CASE StartTool
    BY <2>8 DEF StartTool
  <2>9. CASE FinishTool
    BY <2>9 DEF FinishTool
  <2>10. CASE PauseLoop
    BY <2>10 DEF PauseLoop
  <2>11. CASE EndPause
    BY <2>11 DEF EndPause, Return
  <2>12. CASE WaitCancelled
    BY <2>12 DEF WaitCancelled, ReturnRevoked, Return
  <2>13. CASE TakeContinuation
    <3>1. continues > 0 => continues - 1 \in Nat
      OBVIOUS
    <3> QED
      BY <2>13, <3>1 DEF TakeContinuation, Refuse, ReturnRevoked, Return
  <2>14. CASE TakeDecision
    BY <2>14 DEF TakeDecision, Verified, Refuse, ReturnRevoked, Return
  <2>15. CASE ClearPending
    BY <2>15 DEF ClearPending
  <2>16. CASE PublishStatus
    BY <2>16 DEF PublishStatus
  <2> QED
    BY <1>1, <2>1, <2>2, <2>3, <2>4, <2>5, <2>6, <2>7, <2>8, <2>9, <2>10, <2>11,
       <2>12, <2>13, <2>14, <2>15, <2>16 DEF DriverStep
<1>2. CASE ForwardStep
  <2>1. CASE ForwardPending
    <3>1. Head(sink) \in Event
      BY <2>1 DEF ForwardPending, Queues
    <3>2. Head(sink).approval \in Nat
      BY <3>1 DEF Event
    <3> QED
      BY <2>1, <3>2 DEF ForwardPending
  <2>2. CASE ForwardStatus
    BY <2>2 DEF ForwardStatus
  <2>3. CASE ForwardPush
    BY <2>3 DEF ForwardPush
  <2> QED
    BY <1>2, <2>1, <2>2, <2>3 DEF ForwardStep
<1>3. CASE HandlerStep
  <2>1. CASE ReadPending
    <3>1. answers + 1 \in Nat
      OBVIOUS
    <3>2. answering \cup {pending} \subseteq Nat
      OBVIOUS
    <3> QED
      BY <2>1, <3>1, <3>2 DEF ReadPending
  <2>2. ASSUME NEW id \in answering, NEW grant \in BOOLEAN, SendDecision(id, grant)
       PROVE  Numbers'
    BY <2>2 DEF SendDecision, Receiving
  <2>3. CASE Continue
    BY <2>3 DEF Continue, Receiving
  <2>4. CASE Cancel
    BY <2>4 DEF Cancel
  <2> QED
    BY <1>3, <2>1, <2>2, <2>3, <2>4 DEF HandlerStep
<1>4. CASE AuthorityStep
  <2>1. CASE ChangeIdentity
    BY <2>1 DEF ChangeIdentity
  <2>2. CASE Sweep
    BY <2>2 DEF Sweep, RecordRevocation
  <2>3. CASE Revoke
    BY <2>3 DEF Revoke, RecordRevocation
  <2>4. CASE FireCancel
    BY <2>4 DEF FireCancel
  <2> QED
    BY <1>4, <2>1, <2>2, <2>3, <2>4 DEF AuthorityStep
<1>5. CASE UNCHANGED vars
  BY <1>5 DEF vars, driverVars, stateVars, handlerVars, authVars, optionVars
<1> QED
  BY <1>1, <1>2, <1>3, <1>4, <1>5 DEF Next, Rest

LEMMA QueuesNext ==
    Numbers /\ Queues /\ ForwarderHasItsEvent /\ [Next]_vars => Queues'
<1> SUFFICES ASSUME Numbers, Queues, ForwarderHasItsEvent, [Next]_vars PROVE Queues'
  OBVIOUS
<1> USE EventTypes, EmitOne, EmitTwo, EmitNone
    DEF Queues, EventKind, stateVars, driverVars
<1>1. CASE DriverStep
  <2>1. CASE Start
    BY <2>1 DEF Start, Verified, Refuse, ReturnRevoked, Return
  <2>2. CASE AskToStream
    BY <2>2 DEF AskToStream, Verified
  <2>3. CASE Connect
    BY <2>3 DEF Connect, Abandons
  <2>4. CASE EndLoop
    BY <2>4 DEF EndLoop, Abandons, Return
  <2>5. CASE AskForCall
    BY <2>5 DEF AskForCall
  <2>6. CASE GateCall
    BY <2>6 DEF GateCall, Verified, Refuse, Numbers
  <2>7. CASE LaunchCall
    BY <2>7 DEF LaunchCall, Verified, Refuse
  <2>8. CASE StartTool
    BY <2>8 DEF StartTool
  <2>9. CASE FinishTool
    BY <2>9 DEF FinishTool
  <2>10. CASE PauseLoop
    BY <2>10 DEF PauseLoop
  <2>11. CASE EndPause
    BY <2>11 DEF EndPause, Return
  <2>12. CASE WaitCancelled
    BY <2>12 DEF WaitCancelled, ReturnRevoked, Return
  <2>13. CASE TakeContinuation
    BY <2>13 DEF TakeContinuation, Verified, Refuse, ReturnRevoked, Return
  <2>14. CASE TakeDecision
    BY <2>14 DEF TakeDecision, Verified, Refuse, ReturnRevoked, Return
  <2>15. CASE ClearPending
    BY <2>15 DEF ClearPending
  <2>16. CASE PublishStatus
    BY <2>16 DEF PublishStatus
  <2> QED
    BY <1>1, <2>1, <2>2, <2>3, <2>4, <2>5, <2>6, <2>7, <2>8, <2>9, <2>10, <2>11,
       <2>12, <2>13, <2>14, <2>15, <2>16 DEF DriverStep
<1>2. CASE ForwardStep
  <2>1. CASE ForwardPending
    BY <2>1 DEF ForwardPending
  <2>2. CASE ForwardStatus
    BY <2>2 DEF ForwardStatus
  <2>3. CASE ForwardPush
    <3>1. Head(sink) \in Event
      BY <2>3 DEF ForwardPush, ForwarderHasItsEvent
    <3>2. Append(log, Head(sink)) \in Seq(Event) /\ Tail(sink) \in Seq(Event)
      BY <2>3, <3>1 DEF ForwardPush, ForwarderHasItsEvent
    <3> QED
      BY <2>3, <3>2 DEF ForwardPush
  <2> QED
    BY <1>2, <2>1, <2>2, <2>3 DEF ForwardStep
<1>3. CASE HandlerStep
  <2>1. CASE ReadPending
    BY <2>1 DEF ReadPending, Verified
  <2>2. ASSUME NEW id \in answering, NEW grant \in BOOLEAN, SendDecision(id, grant)
       PROVE  Queues'
    BY <2>2 DEF SendDecision, Receiving, Numbers
  <2>3. CASE Continue
    BY <2>3 DEF Continue, Receiving
  <2>4. CASE Cancel
    BY <2>4 DEF Cancel
  <2> QED
    BY <1>3, <2>1, <2>2, <2>3, <2>4 DEF HandlerStep
<1>4. CASE AuthorityStep
  <2>1. CASE ChangeIdentity
    BY <2>1 DEF ChangeIdentity
  <2>2. CASE Sweep
    BY <2>2 DEF Sweep, RecordRevocation
  <2>3. CASE Revoke
    BY <2>3 DEF Revoke, RecordRevocation
  <2>4. CASE FireCancel
    BY <2>4 DEF FireCancel
  <2> QED
    BY <1>4, <2>1, <2>2, <2>3, <2>4 DEF AuthorityStep
<1>5. CASE UNCHANGED vars
  BY <1>5 DEF vars, driverVars, stateVars, handlerVars, authVars, optionVars
<1> QED
  BY <1>1, <1>2, <1>3, <1>4, <1>5 DEF Next, Rest

-----------------------------------------------------------------------------
(***************************************************************************)
(* Each part of the invariant, in turn.                                    *)
(***************************************************************************)
LEMMA OverrunsNext ==
    RevokedActionIsTheLast /\ [Next]_vars => RevokedActionIsTheLast'
<1> SUFFICES ASSUME RevokedActionIsTheLast, [Next]_vars PROVE RevokedActionIsTheLast'
  OBVIOUS
<1> USE DEF RevokedActionIsTheLast, driverVars, authVars, optionVars
<1>1. CASE DriverStep
  <2>1. CASE Start
    BY <2>1 DEF Start, Verified, Refuse, ReturnRevoked, Return
  <2>2. CASE AskToStream
    BY <2>2 DEF AskToStream, Verified
  <2>3. CASE Connect
    BY <2>3 DEF Connect, Abandons
  <2>4. CASE EndLoop
    BY <2>4 DEF EndLoop, Abandons, Return
  <2>5. CASE AskForCall
    BY <2>5 DEF AskForCall
  <2>6. CASE GateCall
    BY <2>6 DEF GateCall, Verified, Refuse
  <2>7. CASE LaunchCall
    BY <2>7 DEF LaunchCall, Verified, Refuse
  <2>8. CASE StartTool
    BY <2>8 DEF StartTool
  <2>9. CASE FinishTool
    BY <2>9 DEF FinishTool
  <2>10. CASE PauseLoop
    BY <2>10 DEF PauseLoop
  <2>11. CASE EndPause
    BY <2>11 DEF EndPause, Return
  <2>12. CASE WaitCancelled
    BY <2>12 DEF WaitCancelled, ReturnRevoked, Return
  <2>13. CASE TakeContinuation
    BY <2>13 DEF TakeContinuation, Verified, Refuse, ReturnRevoked, Return
  <2>14. CASE TakeDecision
    BY <2>14 DEF TakeDecision, Verified, Refuse, ReturnRevoked, Return
  <2>15. CASE ClearPending
    BY <2>15 DEF ClearPending
  <2>16. CASE PublishStatus
    BY <2>16 DEF PublishStatus
  <2> QED
    BY <1>1, <2>1, <2>2, <2>3, <2>4, <2>5, <2>6, <2>7, <2>8, <2>9, <2>10, <2>11,
       <2>12, <2>13, <2>14, <2>15, <2>16 DEF DriverStep
<1>2. CASE ForwardStep
  <2>1. CASE ForwardPending
    BY <2>1 DEF ForwardPending
  <2>2. CASE ForwardStatus
    BY <2>2 DEF ForwardStatus
  <2>3. CASE ForwardPush
    BY <2>3 DEF ForwardPush
  <2> QED
    BY <1>2, <2>1, <2>2, <2>3 DEF ForwardStep
<1>3. CASE HandlerStep
  <2>1. CASE ReadPending
    BY <2>1 DEF ReadPending, Verified
  <2>2. ASSUME NEW id \in answering, NEW grant \in BOOLEAN, SendDecision(id, grant)
       PROVE  RevokedActionIsTheLast'
    BY <2>2 DEF SendDecision, Receiving
  <2>3. CASE Continue
    BY <2>3 DEF Continue, Receiving
  <2>4. CASE Cancel
    BY <2>4 DEF Cancel
  <2> QED
    BY <1>3, <2>1, <2>2, <2>3, <2>4 DEF HandlerStep
<1>4. CASE AuthorityStep
  <2>1. CASE ChangeIdentity
    BY <2>1 DEF ChangeIdentity
  <2>2. CASE Sweep
    BY <2>2 DEF Sweep, RecordRevocation
  <2>3. CASE Revoke
    BY <2>3 DEF Revoke, RecordRevocation
  <2>4. CASE FireCancel
    BY <2>4 DEF FireCancel
  <2> QED
    BY <1>4, <2>1, <2>2, <2>3, <2>4 DEF AuthorityStep
<1>5. CASE UNCHANGED vars
  BY <1>5 DEF vars, driverVars, stateVars, handlerVars, authVars, optionVars
<1> QED
  BY <1>1, <1>2, <1>3, <1>4, <1>5 DEF Next, Rest

LEMMA GrantsNext == TypeOK /\ GrantsAreHeld /\ [Next]_vars => GrantsAreHeld'
<1> SUFFICES ASSUME TypeOK, GrantsAreHeld, [Next]_vars PROVE GrantsAreHeld'
  OBVIOUS
<1> USE TypeParts DEF Numbers, Queues, GrantsAreHeld, driverVars
<1>1. CASE DriverStep
  <2>1. CASE Start
    BY <2>1 DEF Start, Verified, Refuse, ReturnRevoked, Return
  <2>2. CASE AskToStream
    BY <2>2 DEF AskToStream, Verified
  <2>3. CASE Connect
    BY <2>3 DEF Connect, Abandons
  <2>4. CASE EndLoop
    BY <2>4 DEF EndLoop, Abandons, Return
  <2>5. CASE AskForCall
    BY <2>5 DEF AskForCall
  <2>6. CASE GateCall
    BY <2>6 DEF GateCall, Verified, Refuse
  <2>7. CASE LaunchCall
    BY <2>7 DEF LaunchCall, Verified, Refuse
  <2>8. CASE StartTool
    BY <2>8 DEF StartTool
  <2>9. CASE FinishTool
    BY <2>9 DEF FinishTool
  <2>10. CASE PauseLoop
    BY <2>10 DEF PauseLoop
  <2>11. CASE EndPause
    BY <2>11 DEF EndPause, Return
  <2>12. CASE WaitCancelled
    BY <2>12 DEF WaitCancelled, ReturnRevoked, Return
  <2>13. CASE TakeContinuation
    BY <2>13 DEF TakeContinuation, Verified, Refuse, ReturnRevoked, Return
  <2>14. CASE TakeDecision
    <3>1. decisions' = Tail(decisions) /\ granted' = granted /\ decisions # <<>>
      BY <2>14 DEF TakeDecision, Return, ReturnRevoked
    <3>2. \A i \in DOMAIN Tail(decisions) :
             i + 1 \in DOMAIN decisions /\ Tail(decisions)[i] = decisions[i + 1]
      BY <3>1
    <3> QED
      BY <3>1, <3>2
  <2>15. CASE ClearPending
    BY <2>15 DEF ClearPending
  <2>16. CASE PublishStatus
    BY <2>16 DEF PublishStatus
  <2> QED
    BY <1>1, <2>1, <2>2, <2>3, <2>4, <2>5, <2>6, <2>7, <2>8, <2>9, <2>10, <2>11,
       <2>12, <2>13, <2>14, <2>15, <2>16 DEF DriverStep
<1>2. CASE ForwardStep
  <2>1. CASE ForwardPending
    BY <2>1 DEF ForwardPending
  <2>2. CASE ForwardStatus
    BY <2>2 DEF ForwardStatus
  <2>3. CASE ForwardPush
    BY <2>3 DEF ForwardPush
  <2> QED
    BY <1>2, <2>1, <2>2, <2>3 DEF ForwardStep
<1>3. CASE HandlerStep
  <2>1. CASE ReadPending
    BY <2>1 DEF ReadPending, Verified
  <2>2. ASSUME NEW id \in answering, NEW grant \in BOOLEAN, SendDecision(id, grant)
       PROVE  GrantsAreHeld'
    BY <2>2 DEF SendDecision, Receiving
  <2>3. CASE Continue
    BY <2>3 DEF Continue, Receiving
  <2>4. CASE Cancel
    BY <2>4 DEF Cancel
  <2> QED
    BY <1>3, <2>1, <2>2, <2>3, <2>4 DEF HandlerStep
<1>4. CASE AuthorityStep
  <2>1. CASE ChangeIdentity
    BY <2>1 DEF ChangeIdentity
  <2>2. CASE Sweep
    BY <2>2 DEF Sweep, RecordRevocation
  <2>3. CASE Revoke
    BY <2>3 DEF Revoke, RecordRevocation
  <2>4. CASE FireCancel
    BY <2>4 DEF FireCancel
  <2> QED
    BY <1>4, <2>1, <2>2, <2>3, <2>4 DEF AuthorityStep
<1>5. CASE UNCHANGED vars
  BY <1>5 DEF vars, driverVars, stateVars, handlerVars, authVars, optionVars
<1> QED
  BY <1>1, <1>2, <1>3, <1>4, <1>5 DEF Next, Rest

LEMMA ForwarderNext ==
    TypeOK /\ ForwarderHasItsEvent /\ [Next]_vars => ForwarderHasItsEvent'
<1> SUFFICES ASSUME TypeOK, ForwarderHasItsEvent, [Next]_vars PROVE ForwarderHasItsEvent'
  OBVIOUS
<1> USE TypeParts, EventTypes, EmitOne, EmitTwo, EmitNone
    DEF Queues, EventKind, ForwarderHasItsEvent, driverVars, stateVars
<1>1. CASE DriverStep
  <2>1. CASE Start
    BY <2>1 DEF Start, Verified, Refuse, ReturnRevoked, Return
  <2>2. CASE AskToStream
    BY <2>2 DEF AskToStream, Verified
  <2>3. CASE Connect
    BY <2>3 DEF Connect, Abandons
  <2>4. CASE EndLoop
    BY <2>4 DEF EndLoop, Abandons, Return
  <2>5. CASE AskForCall
    BY <2>5 DEF AskForCall
  <2>6. CASE GateCall
    BY <2>6 DEF GateCall, Verified, Refuse, Numbers
  <2>7. CASE LaunchCall
    BY <2>7 DEF LaunchCall, Verified, Refuse
  <2>8. CASE StartTool
    BY <2>8 DEF StartTool
  <2>9. CASE FinishTool
    BY <2>9 DEF FinishTool
  <2>10. CASE PauseLoop
    BY <2>10 DEF PauseLoop
  <2>11. CASE EndPause
    BY <2>11 DEF EndPause, Return
  <2>12. CASE WaitCancelled
    BY <2>12 DEF WaitCancelled, ReturnRevoked, Return
  <2>13. CASE TakeContinuation
    BY <2>13 DEF TakeContinuation, Verified, Refuse, ReturnRevoked, Return
  <2>14. CASE TakeDecision
    BY <2>14 DEF TakeDecision, Verified, Refuse, ReturnRevoked, Return
  <2>15. CASE ClearPending
    BY <2>15 DEF ClearPending
  <2>16. CASE PublishStatus
    BY <2>16 DEF PublishStatus
  <2> QED
    BY <1>1, <2>1, <2>2, <2>3, <2>4, <2>5, <2>6, <2>7, <2>8, <2>9, <2>10, <2>11,
       <2>12, <2>13, <2>14, <2>15, <2>16 DEF DriverStep
<1>2. CASE ForwardStep
  <2>1. CASE ForwardPending
    BY <2>1 DEF ForwardPending
  <2>2. CASE ForwardStatus
    BY <2>2 DEF ForwardStatus
  <2>3. CASE ForwardPush
    BY <2>3 DEF ForwardPush
  <2> QED
    BY <1>2, <2>1, <2>2, <2>3 DEF ForwardStep
<1>3. CASE HandlerStep
  <2>1. CASE ReadPending
    BY <2>1 DEF ReadPending, Verified
  <2>2. ASSUME NEW id \in answering, NEW grant \in BOOLEAN, SendDecision(id, grant)
       PROVE  ForwarderHasItsEvent'
    BY <2>2 DEF SendDecision, Receiving
  <2>3. CASE Continue
    BY <2>3 DEF Continue, Receiving
  <2>4. CASE Cancel
    BY <2>4 DEF Cancel
  <2> QED
    BY <1>3, <2>1, <2>2, <2>3, <2>4 DEF HandlerStep
<1>4. CASE AuthorityStep
  <2>1. CASE ChangeIdentity
    BY <2>1 DEF ChangeIdentity
  <2>2. CASE Sweep
    BY <2>2 DEF Sweep, RecordRevocation
  <2>3. CASE Revoke
    BY <2>3 DEF Revoke, RecordRevocation
  <2>4. CASE FireCancel
    BY <2>4 DEF FireCancel
  <2> QED
    BY <1>4, <2>1, <2>2, <2>3, <2>4 DEF AuthorityStep
<1>5. CASE UNCHANGED vars
  BY <1>5 DEF vars, driverVars, stateVars, handlerVars, authVars, optionVars
<1> QED
  BY <1>1, <1>2, <1>3, <1>4, <1>5 DEF Next, Rest

LEMMA ReasonsNext == CancelsHaveAReason /\ [Next]_vars => CancelsHaveAReason'
<1> SUFFICES ASSUME CancelsHaveAReason, [Next]_vars PROVE CancelsHaveAReason'
  OBVIOUS
<1> USE DEF CancelsHaveAReason, authVars
<1>1. CASE DriverStep
  <2>1. CASE Start
    BY <2>1 DEF Start, Verified, Refuse, ReturnRevoked, Return
  <2>2. CASE AskToStream
    BY <2>2 DEF AskToStream, Verified
  <2>3. CASE Connect
    BY <2>3 DEF Connect, Abandons
  <2>4. CASE EndLoop
    BY <2>4 DEF EndLoop, Abandons, Return
  <2>5. CASE AskForCall
    BY <2>5 DEF AskForCall
  <2>6. CASE GateCall
    BY <2>6 DEF GateCall, Verified, Refuse
  <2>7. CASE LaunchCall
    BY <2>7 DEF LaunchCall, Verified, Refuse
  <2>8. CASE StartTool
    BY <2>8 DEF StartTool
  <2>9. CASE FinishTool
    BY <2>9 DEF FinishTool
  <2>10. CASE PauseLoop
    BY <2>10 DEF PauseLoop
  <2>11. CASE EndPause
    BY <2>11 DEF EndPause, Return
  <2>12. CASE WaitCancelled
    BY <2>12 DEF WaitCancelled, ReturnRevoked, Return
  <2>13. CASE TakeContinuation
    BY <2>13 DEF TakeContinuation, Verified, Refuse, ReturnRevoked, Return
  <2>14. CASE TakeDecision
    BY <2>14 DEF TakeDecision, Verified, Refuse, ReturnRevoked, Return
  <2>15. CASE ClearPending
    BY <2>15 DEF ClearPending
  <2>16. CASE PublishStatus
    BY <2>16 DEF PublishStatus
  <2> QED
    BY <1>1, <2>1, <2>2, <2>3, <2>4, <2>5, <2>6, <2>7, <2>8, <2>9, <2>10, <2>11,
       <2>12, <2>13, <2>14, <2>15, <2>16 DEF DriverStep
<1>2. CASE ForwardStep
  <2>1. CASE ForwardPending
    BY <2>1 DEF ForwardPending
  <2>2. CASE ForwardStatus
    BY <2>2 DEF ForwardStatus
  <2>3. CASE ForwardPush
    BY <2>3 DEF ForwardPush
  <2> QED
    BY <1>2, <2>1, <2>2, <2>3 DEF ForwardStep
<1>3. CASE HandlerStep
  <2>1. CASE ReadPending
    BY <2>1 DEF ReadPending, Verified
  <2>2. ASSUME NEW id \in answering, NEW grant \in BOOLEAN, SendDecision(id, grant)
       PROVE  CancelsHaveAReason'
    BY <2>2 DEF SendDecision, Receiving
  <2>3. CASE Continue
    BY <2>3 DEF Continue, Receiving
  <2>4. CASE Cancel
    BY <2>4 DEF Cancel
  <2> QED
    BY <1>3, <2>1, <2>2, <2>3, <2>4 DEF HandlerStep
<1>4. CASE AuthorityStep
  <2>1. CASE ChangeIdentity
    BY <2>1 DEF ChangeIdentity
  <2>2. CASE Sweep
    BY <2>2 DEF Sweep, RecordRevocation
  <2>3. CASE Revoke
    BY <2>3 DEF Revoke, RecordRevocation
  <2>4. CASE FireCancel
    BY <2>4 DEF FireCancel
  <2> QED
    BY <1>4, <2>1, <2>2, <2>3, <2>4 DEF AuthorityStep
<1>5. CASE UNCHANGED vars
  BY <1>5 DEF vars, driverVars, stateVars, handlerVars, authVars, optionVars
<1> QED
  BY <1>1, <1>2, <1>3, <1>4, <1>5 DEF Next, Rest

NoPause == \A i \in DOMAIN sink : ~UnshownPause(i)

LEMMA PauseIsLast ==
    ASSUME PausesMatch, canContinue, Receiving,
           phase # "outOfTime" \/ continues = 1 \/ status = "awaitingContinue"
    PROVE  NoPause
BY DEF PausesMatch, NoPause

LEMMA NoPauseStays ==
    ASSUME NoPause, TypeOK, NEW e \in Event, e.kind # "wallClockPaused", Emit(<<e>>),
           forwarding' = forwarding
    PROVE  NoPause'
<1>1. /\ Len(sink') = Len(sink) + 1 /\ Len(sink) \in Nat
      /\ DOMAIN sink = 1..Len(sink) /\ DOMAIN sink' = 1..Len(sink')
      /\ \A i \in 1..Len(sink) : sink'[i] = sink[i]
      /\ sink'[Len(sink')] = e
  BY EmitOne, TypeParts DEF Queues
<1> SUFFICES ASSUME NEW i \in DOMAIN sink', UnshownPause(i)' PROVE FALSE
  BY DEF NoPause
<1>2. i \in 1..Len(sink)
  BY <1>1 DEF UnshownPause
<1>3. UnshownPause(i)
  BY <1>1, <1>2 DEF UnshownPause
<1> QED
  BY <1>1, <1>2, <1>3 DEF NoPause

LEMMA NewPauseIsLast ==
    ASSUME NoPause, TypeOK, Emit(<<Plain("wallClockPaused")>>), forwarding' = forwarding
    PROVE  \A i \in DOMAIN sink' : UnshownPause(i)' => i = Len(sink')
<1>1. /\ Len(sink') = Len(sink) + 1 /\ Len(sink) \in Nat
      /\ DOMAIN sink = 1..Len(sink) /\ DOMAIN sink' = 1..Len(sink')
      /\ \A i \in 1..Len(sink) : sink'[i] = sink[i]
  BY EmitOne, EventTypes, TypeParts DEF Queues, EventKind
<1> SUFFICES ASSUME NEW i \in 1..Len(sink), UnshownPause(i)' PROVE FALSE
  BY <1>1
<1>2. UnshownPause(i)
  BY <1>1 DEF UnshownPause
<1> QED
  BY <1>1, <1>2 DEF NoPause

LEMMA PausesNext ==
    TypeOK /\ PausesMatch /\ ForwarderHasItsEvent /\ [Next]_vars => PausesMatch'
<1> SUFFICES ASSUME TypeOK, PausesMatch, ForwarderHasItsEvent, [Next]_vars
             PROVE  PausesMatch'
  OBVIOUS
<1> USE DEF PausesMatch, UnshownPause, Receiving, driverVars, stateVars, authVars,
      optionVars
<1>1. CASE DriverStep
  <2>1. CASE Start
    BY <2>1 DEF Start, Verified, Refuse, ReturnRevoked, Return
  <2>2. CASE AskToStream
    BY <2>2 DEF AskToStream, Verified
  <2>3. CASE Connect
    BY <2>3 DEF Connect, Abandons
  <2>4. CASE EndLoop
    BY <2>4 DEF EndLoop, Abandons, Return
  <2>5. CASE AskForCall
    BY <2>5 DEF AskForCall
  <2>6. CASE GateCall
    <3>1. CASE canContinue
      <4>1. NoPause
        BY <2>6, <3>1, PauseIsLast DEF GateCall
      <4>2. awaited + 1 \in Nat
        BY TypeParts DEF Numbers
      <4>3. PICK e \in Event : Emit(<<e>>) /\ e.kind # "wallClockPaused"
        BY <2>6, <4>2, EventTypes DEF GateCall, Plain, Awaiting, EventKind
      <4>4. NoPause'
        BY <2>6, <4>1, <4>3, NoPauseStays DEF GateCall
      <4> QED
        BY <2>6, <4>4 DEF GateCall, NoPause, Refuse
    <3> QED
      BY <2>6, <3>1 DEF GateCall, Refuse
  <2>7. CASE LaunchCall
    <3>1. CASE Emit(<<Plain("toolCallCompleted")>>) /\ canContinue
      <4>1. NoPause'
        BY <2>7, <3>1, PauseIsLast, NoPauseStays, EventTypes, TypeParts
        DEF LaunchCall, Plain, Awaiting, EventKind, Numbers
      <4> QED
        BY <2>7, <4>1 DEF LaunchCall, NoPause, Refuse
    <3> QED
      BY <2>7, <3>1 DEF LaunchCall, Refuse
  <2>8. CASE StartTool
    BY <2>8 DEF StartTool
  <2>9. CASE FinishTool
    <3>1. CASE Emit(<<Plain("toolCallCompleted")>>) /\ canContinue
      <4>1. NoPause'
        BY <2>9, <3>1, PauseIsLast, NoPauseStays, EventTypes, TypeParts
        DEF FinishTool, Plain, Awaiting, EventKind, Numbers
      <4> QED
        BY <2>9, <4>1 DEF FinishTool, NoPause
    <3> QED
      BY <2>9, <3>1 DEF FinishTool
  <2>10. CASE PauseLoop
    <3>1. CASE canContinue
      <4>1. \A i \in DOMAIN sink' : UnshownPause(i)' => i = Len(sink')
        BY <2>10, <3>1, PauseIsLast, NewPauseIsLast DEF PauseLoop
      <4> QED
        BY <2>10, <4>1 DEF PauseLoop
    <3> QED
      BY <2>10, <3>1 DEF PauseLoop
  <2>11. CASE EndPause
    BY <2>11 DEF EndPause, Return
  <2>12. CASE WaitCancelled
    BY <2>12 DEF WaitCancelled, ReturnRevoked, Return
  <2>13. CASE TakeContinuation
    <3>1. continues = 1 /\ continues' = 0
      BY <2>13 DEF TakeContinuation
    <3>2. NoPause
      BY <2>13, <3>1, PauseIsLast DEF TakeContinuation
    <3>3. CASE phase' = "returned"
      BY <2>13, <3>1, <3>3 DEF TakeContinuation
    <3>4. CASE phase' = "turn" /\ sink' = sink
      BY <2>13, <3>1, <3>2, <3>4 DEF TakeContinuation, NoPause
    <3> QED
      BY <2>13, <3>3, <3>4 DEF TakeContinuation, ReturnRevoked, Return
  <2>14. CASE TakeDecision
    <3>1. CASE canContinue /\ Receiving'
      <4>1. NoPause
        BY <2>14, <3>1, PauseIsLast DEF TakeDecision
      <4>2. NoPause'
        BY <2>14, <3>1, <4>1, NoPauseStays, EventTypes
        DEF TakeDecision, Plain, EventKind, ReturnRevoked, Return
      <4> QED
        BY <2>14, <3>1, <4>2 DEF TakeDecision, NoPause, Refuse, ReturnRevoked, Return
    <3> QED
      BY <2>14, <3>1 DEF TakeDecision, Refuse, ReturnRevoked, Return
  <2>15. CASE ClearPending
    BY <2>15 DEF ClearPending
  <2>16. CASE PublishStatus
    BY <2>16 DEF PublishStatus
  <2> QED
    BY <1>1, <2>1, <2>2, <2>3, <2>4, <2>5, <2>6, <2>7, <2>8, <2>9, <2>10, <2>11,
       <2>12, <2>13, <2>14, <2>15, <2>16 DEF DriverStep
<1>2. CASE ForwardStep
  <2>1. CASE ForwardPending
    BY <2>1 DEF ForwardPending
  <2>2. CASE ForwardStatus
    <3>1. sink # <<>> /\ sink \in Seq(Event)
      BY <2>2, TypeParts DEF ForwardStatus, ForwarderHasItsEvent, Queues
    <3>2. Head(sink) = sink[1] /\ 1 \in DOMAIN sink
      BY <3>1
    <3>3. \A i \in DOMAIN sink : UnshownPause(i)' => i > 1 /\ UnshownPause(i)
      BY <2>2, <3>1 DEF ForwardStatus
    <3>4. CASE Head(sink).kind = "wallClockPaused"
      <4>1. UnshownPause(1)
        BY <2>2, <3>2, <3>4 DEF ForwardStatus
      <4> HIDE DEF UnshownPause
      <4> QED
        BY <2>2, <3>1, <3>2, <3>3, <3>4, <4>1 DEF ForwardStatus
    <3>5. CASE Head(sink).kind # "wallClockPaused"
      <4> HIDE DEF UnshownPause
      <4> QED
        BY <2>2, <3>3, <3>5 DEF ForwardStatus
    <3> QED
      BY <3>4, <3>5
  <2>3. CASE ForwardPush
    <3>1. sink # <<>> /\ sink \in Seq(Event)
      BY <2>3, TypeParts DEF ForwardPush, ForwarderHasItsEvent, Queues
    <3>2. \A i \in DOMAIN sink' :
             i + 1 \in DOMAIN sink /\ sink'[i] = sink[i + 1] /\ i \in Nat
      BY <2>3, <3>1 DEF ForwardPush
    <3>3. Len(sink') = Len(sink) - 1 /\ Len(sink) \in Nat
      BY <2>3, <3>1 DEF ForwardPush
    <3>4. ASSUME NEW i \in DOMAIN sink', UnshownPause(i)'
          PROVE  UnshownPause(i + 1) /\ i + 1 \in DOMAIN sink
      BY <2>3, <3>2, <3>4 DEF ForwardPush
    <3> HIDE DEF UnshownPause
    <3>5. \A i \in DOMAIN sink' : i + 1 = Len(sink) => i = Len(sink')
      BY <3>2, <3>3
    <3> QED
      BY <2>3, <3>4, <3>5 DEF ForwardPush
  <2> QED
    BY <1>2, <2>1, <2>2, <2>3 DEF ForwardStep
<1>3. CASE HandlerStep
  <2>1. CASE ReadPending
    BY <2>1 DEF ReadPending, Verified
  <2>2. ASSUME NEW id \in answering, NEW grant \in BOOLEAN, SendDecision(id, grant)
       PROVE  PausesMatch'
    BY <2>2 DEF SendDecision, Receiving
  <2>3. CASE Continue
    <3>1. NoPause
      BY <2>3, PauseIsLast DEF Continue
    <3>2. \A i \in DOMAIN sink' : ~UnshownPause(i)'
      BY <2>3, <3>1 DEF Continue, NoPause
    <3> HIDE DEF UnshownPause
    <3> QED
      BY <2>3, <3>2 DEF Continue
  <2>4. CASE Cancel
    BY <2>4 DEF Cancel
  <2> QED
    BY <1>3, <2>1, <2>2, <2>3, <2>4 DEF HandlerStep
<1>4. CASE AuthorityStep
  <2>1. CASE ChangeIdentity
    BY <2>1 DEF ChangeIdentity
  <2>2. CASE Sweep
    BY <2>2 DEF Sweep, RecordRevocation
  <2>3. CASE Revoke
    BY <2>3 DEF Revoke, RecordRevocation
  <2>4. CASE FireCancel
    BY <2>4 DEF FireCancel
  <2> QED
    BY <1>4, <2>1, <2>2, <2>3, <2>4 DEF AuthorityStep
<1>5. CASE UNCHANGED vars
  BY <1>5 DEF vars, driverVars, stateVars, handlerVars, authVars, optionVars
<1> QED
  BY <1>1, <1>2, <1>3, <1>4, <1>5 DEF Next, Rest

LEMMA EmitFresh ==
    ASSUME TypeOK, ForwarderHasItsEvent, NEW e \in Event, Emit(<<e>>),
           forwarding' = forwarding
    PROVE  /\ sink' # <<>> /\ sink'[Len(sink')] = e
           /\ Len(sink') = 1 => forwarding' = "idle"
<1>1. /\ Len(sink') = Len(sink) + 1 /\ sink' # <<>> /\ sink'[Len(sink')] = e
      /\ Len(sink) \in Nat
  BY EmitOne, TypeParts DEF Queues
<1>2. Len(sink') = 1 => sink = <<>>
  BY <1>1, TypeParts DEF Queues
<1> QED
  BY <1>1, <1>2 DEF ForwarderHasItsEvent

LEMMA FirstAndOnly ==
    ASSUME TypeOK, sink # <<>>
    PROVE  /\ Len(sink) \in Nat \ {0}
           /\ Len(sink) = 1 => Head(sink) = sink[Len(sink)] /\ Tail(sink) = <<>>
           /\ Len(sink) # 1 => Tail(sink) # <<>>
                               /\ Tail(sink)[Len(Tail(sink))] = sink[Len(sink)]
<1>1. sink \in Seq(Event) /\ Len(sink) \in Nat \ {0}
  BY TypeParts DEF Queues
<1>2. /\ Tail(sink) \in Seq(Event) /\ Len(Tail(sink)) = Len(sink) - 1
      /\ \A i \in 1 .. Len(Tail(sink)) : Tail(sink)[i] = sink[i + 1]
  BY <1>1
<1>3. Len(sink) = 1 => Head(sink) = sink[Len(sink)]
  BY <1>1
<1>4. Len(sink) = 1 => Tail(sink) = <<>>
  <2>1. Tail(sink) # <<>> => Len(Tail(sink)) \in Nat \ {0}
    BY <1>2, EmptySeq
  <2> QED
    BY <1>1, <1>2, <2>1
<1>5. ASSUME Len(sink) # 1
      PROVE  Tail(sink) # <<>> /\ Tail(sink)[Len(Tail(sink))] = sink[Len(sink)]
  <2>1. /\ Len(Tail(sink)) \in 1 .. Len(Tail(sink)) /\ Len(Tail(sink)) + 1 = Len(sink)
        /\ Len(Tail(sink)) # 0
    BY <1>1, <1>2, <1>5
  <2>2. Tail(sink)[Len(Tail(sink))] = sink[Len(sink)]
    BY <1>2, <2>1
  <2>3. ASSUME Tail(sink) = <<>>
        PROVE  FALSE
    <3>1. Len(<<>>) = 0
      OBVIOUS
    <3>2. Len(Tail(sink)) = 0
      BY <2>3, <3>1, Zenon
    <3> QED
      BY <2>1, <3>2, Zenon
  <2> QED
    BY <2>2, <2>3
<1> QED
  BY <1>1, <1>3, <1>4, <1>5

LEMMA EventFields ==
    /\ \A id : Awaiting(id).kind = "awaitingApproval" /\ Awaiting(id).approval = id
    /\ \A k : Plain(k).kind = k
BY DEF Awaiting, Plain

LEMMA WaitNext ==
    TypeOK /\ WaitIsLast /\ PausesMatch /\ ForwarderHasItsEvent /\ [Next]_vars
        => WaitIsLast'
<1> SUFFICES ASSUME TypeOK, WaitIsLast, PausesMatch, ForwarderHasItsEvent, [Next]_vars
             PROVE  WaitIsLast'
  OBVIOUS
<1> USE DEF WaitIsLast, driverVars, stateVars, authVars, optionVars
<1>1. CASE DriverStep
  <2>1. CASE Start
    BY <2>1 DEF Start, Verified, Refuse, ReturnRevoked, Return
  <2>2. CASE AskToStream
    BY <2>2 DEF AskToStream, Verified
  <2>3. CASE Connect
    BY <2>3 DEF Connect, Abandons
  <2>4. CASE EndLoop
    BY <2>4 DEF EndLoop, Abandons, Return
  <2>5. CASE AskForCall
    BY <2>5 DEF AskForCall
  <2>6. CASE GateCall
    <3>1. CASE phase' = "approval"
      <4>1. awaited' \in Nat /\ Emit(<<Awaiting(awaited')>>)
        BY <2>6, <3>1, TypeParts DEF GateCall, Numbers
      <4>2. /\ sink' # <<>> /\ sink'[Len(sink')] = Awaiting(awaited')
            /\ Len(sink') = 1 => forwarding' = "idle"
        BY <2>6, <4>1, EmitFresh, EventTypes DEF GateCall
      <4> QED
        BY <3>1, <4>2 DEF Awaiting
    <3>2. CASE phase' \in {"turn", "launch"}
      BY <3>2
    <3> QED
      BY <2>6, <3>1, <3>2 DEF GateCall
  <2>7. CASE LaunchCall
    BY <2>7 DEF LaunchCall, Verified, Refuse
  <2>8. CASE StartTool
    BY <2>8 DEF StartTool
  <2>9. CASE FinishTool
    BY <2>9 DEF FinishTool
  <2>10. CASE PauseLoop
    <3>1. /\ sink' # <<>> /\ sink'[Len(sink')] = Plain("wallClockPaused")
          /\ Len(sink') = 1 => forwarding' = "idle"
      BY <2>10, EmitFresh, EventTypes DEF PauseLoop, EventKind
    <3> QED
      BY <2>10, <3>1 DEF PauseLoop, Plain
  <2>11. CASE EndPause
    BY <2>11 DEF EndPause, Return
  <2>12. CASE WaitCancelled
    BY <2>12 DEF WaitCancelled, ReturnRevoked, Return
  <2>13. CASE TakeContinuation
    BY <2>13 DEF TakeContinuation, Verified, Refuse, ReturnRevoked, Return
  <2>14. CASE TakeDecision
    BY <2>14 DEF TakeDecision, Verified, Refuse, ReturnRevoked, Return
  <2>15. CASE ClearPending
    BY <2>15 DEF ClearPending
  <2>16. CASE PublishStatus
    BY <2>16 DEF PublishStatus
  <2> QED
    BY <1>1, <2>1, <2>2, <2>3, <2>4, <2>5, <2>6, <2>7, <2>8, <2>9, <2>10, <2>11,
       <2>12, <2>13, <2>14, <2>15, <2>16 DEF DriverStep
<1>2. CASE ForwardStep
  <2>1. CASE ForwardPending
    <3>1. sink # <<>> /\ (Len(sink) = 1 => Head(sink) = sink[Len(sink)])
      BY <2>1, FirstAndOnly DEF ForwardPending
    <3>2. phase = "approval" /\ Len(sink) = 1 =>
             Head(sink).kind = "awaitingApproval" /\ Head(sink).approval = awaited
      BY <3>1, EventFields
    <3>3. /\ phase' = phase /\ awaited' = awaited /\ sink' = sink /\ status' = status
          /\ canContinue' = canContinue /\ continues' = continues
          /\ forwarding' = "status" /\ forwarding = "idle"
          /\ Head(sink).kind = "awaitingApproval" => pending' = Head(sink).approval
      BY <2>1 DEF ForwardPending
    <3> QED
      BY <3>1, <3>2, <3>3
  <2>2. CASE ForwardStatus
    <3>1. sink # <<>> /\ (Len(sink) = 1 => Head(sink) = sink[Len(sink)])
      BY <2>2, FirstAndOnly DEF ForwardStatus, ForwarderHasItsEvent
    <3>2. /\ phase = "approval" /\ Len(sink) = 1 => Head(sink).kind = "awaitingApproval"
          /\ phase = "outOfTime" /\ canContinue /\ continues = 0 /\ Len(sink) = 1 =>
                Head(sink).kind = "wallClockPaused"
      BY <3>1, EventFields
    <3>3. /\ phase' = phase /\ awaited' = awaited /\ sink' = sink /\ pending' = pending
          /\ canContinue' = canContinue /\ continues' = continues
          /\ forwarding' = "push" /\ forwarding = "status"
          /\ Head(sink).kind = "awaitingApproval" => status' = "awaitingApproval"
          /\ Head(sink).kind = "wallClockPaused" => status' = "awaitingContinue"
      BY <2>2 DEF ForwardStatus
    <3> QED
      BY <3>1, <3>2, <3>3
  <2>3. CASE ForwardPush
    <3>1. sink # <<>>
      BY <2>3 DEF ForwardPush, ForwarderHasItsEvent
    <3>2. /\ sink' # <<>> => sink'[Len(sink')] = sink[Len(sink)]
          /\ sink' = <<>> => Len(sink) = 1
      BY <2>3, <3>1, FirstAndOnly DEF ForwardPush
    <3> QED
      BY <2>3, <3>1, <3>2 DEF ForwardPush, Awaiting, Plain
  <2> QED
    BY <1>2, <2>1, <2>2, <2>3 DEF ForwardStep
<1>3. CASE HandlerStep
  <2>1. CASE ReadPending
    BY <2>1 DEF ReadPending, Verified
  <2>2. ASSUME NEW id \in answering, NEW grant \in BOOLEAN, SendDecision(id, grant)
       PROVE  WaitIsLast'
    BY <2>2 DEF SendDecision, Receiving
  <2>3. CASE Continue
    <3>1. phase' = "outOfTime" /\ continues' = 1
      BY <2>3 DEF Continue, PausesMatch
    <3> QED
      BY <2>3, <3>1
  <2>4. CASE Cancel
    BY <2>4 DEF Cancel
  <2> QED
    BY <1>3, <2>1, <2>2, <2>3, <2>4 DEF HandlerStep
<1>4. CASE AuthorityStep
  <2>1. CASE ChangeIdentity
    BY <2>1 DEF ChangeIdentity
  <2>2. CASE Sweep
    BY <2>2 DEF Sweep, RecordRevocation
  <2>3. CASE Revoke
    BY <2>3 DEF Revoke, RecordRevocation
  <2>4. CASE FireCancel
    BY <2>4 DEF FireCancel
  <2> QED
    BY <1>4, <2>1, <2>2, <2>3, <2>4 DEF AuthorityStep
<1>5. CASE UNCHANGED vars
  BY <1>5 DEF vars, driverVars, stateVars, handlerVars, authVars, optionVars
<1> QED
  BY <1>1, <1>2, <1>3, <1>4, <1>5 DEF Next, Rest

LEMMA RevokedEnd ==
    ASSUME TypeOK, ReturnRevoked
    PROVE  sink' # <<>> /\ sink'[Len(sink')] = Completed("cancelled")
BY EmitTwo, EventTypes, TypeParts DEF ReturnRevoked, Return, Queues, EventKind

LEMMA EndNext ==
    TypeOK /\ EndIsLast /\ CancelsHaveAReason /\ ForwarderHasItsEvent /\ [Next]_vars
        => EndIsLast'
<1> SUFFICES ASSUME TypeOK, EndIsLast, CancelsHaveAReason, ForwarderHasItsEvent, [Next]_vars
             PROVE  EndIsLast'
  OBVIOUS
<1> USE DEF EndIsLast, CancelsHaveAReason, Receiving, driverVars, stateVars, authVars,
        optionVars
<1>1. CASE DriverStep
  <2>1. CASE Start
    <3>1. CASE ReturnRevoked
      <4>1. phase' = "returned" /\ result' = "cancelled" /\ status' = status
            /\ revoked' /\ phase # "ended"
        BY <2>1, <3>1 DEF Start, ReturnRevoked, Return, Refuse
      <4> QED
        BY <3>1, <4>1, RevokedEnd DEF Completed
    <3>2. CASE ~ReturnRevoked
      BY <2>1, <3>2 DEF Start
    <3> QED
      BY <3>1, <3>2
  <2>2. CASE AskToStream
    BY <2>2 DEF AskToStream, Verified
  <2>3. CASE Connect
    BY <2>3 DEF Connect, Abandons
  <2>4. CASE EndLoop
    <3>1. CASE Return("cancelled", <<Completed("cancelled")>>) /\ cancelled
      <4>1. sink' # <<>> /\ sink'[Len(sink')] = Completed("cancelled")
        BY <3>1, EmitOne, EventTypes, TypeParts DEF Return, Queues
      <4> QED
        BY <2>4, <3>1, <4>1 DEF EndLoop, Return, Completed
    <3>2. CASE result' # "cancelled"
      BY <2>4, <3>2 DEF EndLoop, Return
    <3> QED
      BY <2>4, <3>1, <3>2 DEF EndLoop, Return
  <2>5. CASE AskForCall
    BY <2>5 DEF AskForCall
  <2>6. CASE GateCall
    BY <2>6 DEF GateCall, Verified, Refuse
  <2>7. CASE LaunchCall
    BY <2>7 DEF LaunchCall, Verified, Refuse
  <2>8. CASE StartTool
    BY <2>8 DEF StartTool
  <2>9. CASE FinishTool
    BY <2>9 DEF FinishTool
  <2>10. CASE PauseLoop
    BY <2>10 DEF PauseLoop
  <2>11. CASE EndPause
    BY <2>11 DEF EndPause, Return
  <2>12. CASE WaitCancelled
    <3>1. CASE ReturnRevoked /\ revoked
      <4>1. phase' = "returned" /\ result' = "cancelled" /\ status' = status
            /\ revoked' /\ phase # "ended"
        BY <2>12, <3>1 DEF WaitCancelled, ReturnRevoked, Return
      <4> QED
        BY <3>1, <4>1, RevokedEnd DEF Completed
    <3>2. CASE ~revoked
      BY <2>12, <3>2 DEF WaitCancelled, Return
    <3> QED
      BY <2>12, <3>1, <3>2 DEF WaitCancelled
  <2>13. CASE TakeContinuation
    <3>1. CASE ReturnRevoked
      <4>1. phase' = "returned" /\ result' = "cancelled" /\ status' = status
            /\ revoked' /\ phase # "ended"
        BY <2>13, <3>1 DEF TakeContinuation, ReturnRevoked, Return, Refuse
      <4> QED
        BY <3>1, <4>1, RevokedEnd DEF Completed
    <3>2. CASE ~ReturnRevoked
      BY <2>13, <3>2 DEF TakeContinuation
    <3> QED
      BY <3>1, <3>2
  <2>14. CASE TakeDecision
    <3>1. CASE ReturnRevoked
      <4>1. phase' = "returned" /\ result' = "cancelled" /\ status' = status
            /\ revoked' /\ phase # "ended"
        BY <2>14, <3>1 DEF TakeDecision, ReturnRevoked, Return, Refuse
      <4> QED
        BY <3>1, <4>1, RevokedEnd DEF Completed
    <3>2. CASE ~ReturnRevoked
      BY <2>14, <3>2 DEF TakeDecision, Return
    <3> QED
      BY <3>1, <3>2
  <2>15. CASE ClearPending
    BY <2>15 DEF ClearPending
  <2>16. CASE PublishStatus
    BY <2>16 DEF PublishStatus
  <2> QED
    BY <1>1, <2>1, <2>2, <2>3, <2>4, <2>5, <2>6, <2>7, <2>8, <2>9, <2>10, <2>11,
       <2>12, <2>13, <2>14, <2>15, <2>16 DEF DriverStep
<1>2. CASE ForwardStep
  <2>1. CASE ForwardPending
    BY <2>1 DEF ForwardPending
  <2>2. CASE ForwardStatus
    BY <2>2 DEF ForwardStatus
  <2>3. CASE ForwardPush
    <3>1. sink # <<>>
      BY <2>3 DEF ForwardPush, ForwarderHasItsEvent
    <3>2. /\ sink' # <<>> => sink'[Len(sink')] = sink[Len(sink)]
          /\ sink' = <<>> => Head(sink) = sink[Len(sink)]
      BY <2>3, <3>1, FirstAndOnly DEF ForwardPush
    <3>3. log' # <<>> /\ log'[Len(log')] = Head(sink)
      BY <2>3, TypeParts DEF ForwardPush, Queues
    <3> QED
      BY <2>3, <3>1, <3>2, <3>3 DEF ForwardPush, Completed
  <2> QED
    BY <1>2, <2>1, <2>2, <2>3 DEF ForwardStep
<1>3. CASE HandlerStep
  <2>1. CASE ReadPending
    BY <2>1 DEF ReadPending, Verified
  <2>2. ASSUME NEW id \in answering, NEW grant \in BOOLEAN, SendDecision(id, grant)
       PROVE  EndIsLast'
    BY <2>2 DEF SendDecision, Receiving
  <2>3. CASE Continue
    BY <2>3 DEF Continue, Receiving
  <2>4. CASE Cancel
    BY <2>4 DEF Cancel
  <2> QED
    BY <1>3, <2>1, <2>2, <2>3, <2>4 DEF HandlerStep
<1>4. CASE AuthorityStep
  <2>1. CASE ChangeIdentity
    BY <2>1 DEF ChangeIdentity
  <2>2. CASE Sweep
    BY <2>2 DEF Sweep, RecordRevocation
  <2>3. CASE Revoke
    BY <2>3 DEF Revoke, RecordRevocation
  <2>4. CASE FireCancel
    BY <2>4 DEF FireCancel
  <2> QED
    BY <1>4, <2>1, <2>2, <2>3, <2>4 DEF AuthorityStep
<1>5. CASE UNCHANGED vars
  BY <1>5 DEF vars, driverVars, stateVars, handlerVars, authVars, optionVars
<1> QED
  BY <1>1, <1>2, <1>3, <1>4, <1>5 DEF Next, Rest

-----------------------------------------------------------------------------
SupervisorInv ==
    /\ TypeOK /\ RevokedActionIsTheLast /\ GrantsAreHeld /\ ForwarderHasItsEvent
    /\ PausesMatch /\ WaitIsLast /\ CancelsHaveAReason /\ EndIsLast

LEMMA SupervisorInvariant == Spec => []SupervisorInv
<1>1. Init => SupervisorInv
  <2> SUFFICES ASSUME Init PROVE SupervisorInv
    OBVIOUS
  <2>1. TypeOK
    <3>1. Control /\ Numbers
      <4>1. Init => Numbers
        BY DEF Init, Numbers
      <4>2. /\ phase \in {"start"} /\ result \in RunStatus /\ status \in RunStatus
            /\ forwarding = "idle"
        BY DEF Init, RunStatus
      <4>3. {revocable, canContinue, allowed, revoked, cancelDue, cancelled, asked}
               \subseteq BOOLEAN
        BY DEF Init
      <4> QED
        BY <4>1, <4>2, <4>3 DEF Control
    <3>2. Queues
      BY DEF Init, Queues
    <3> QED
      BY <3>1, <3>2 DEF TypeOK, Control, Numbers, Queues
  <2>2. /\ RevokedActionIsTheLast /\ GrantsAreHeld /\ ForwarderHasItsEvent
        /\ PausesMatch /\ WaitIsLast /\ CancelsHaveAReason /\ EndIsLast
    BY
    DEF Init, RevokedActionIsTheLast, GrantsAreHeld, ForwarderHasItsEvent, PausesMatch,
           WaitIsLast, CancelsHaveAReason, EndIsLast, Receiving
  <2> QED
    BY <2>1, <2>2 DEF SupervisorInv
<1>2. SupervisorInv /\ [Next]_vars => SupervisorInv'
  <2> SUFFICES ASSUME SupervisorInv, [Next]_vars PROVE SupervisorInv'
    OBVIOUS
  <2>1. TypeOK'
    <3>1. Control' /\ Numbers' /\ Queues'
      BY ControlNext, NumbersNext, QueuesNext, TypeParts DEF SupervisorInv
    <3> QED
      BY <3>1 DEF TypeOK, Control, Numbers, Queues
  <2>2. RevokedActionIsTheLast' /\ GrantsAreHeld' /\ ForwarderHasItsEvent'
    BY OverrunsNext, GrantsNext, ForwarderNext DEF SupervisorInv
  <2>3. PausesMatch' /\ WaitIsLast'
    BY PausesNext, WaitNext DEF SupervisorInv
  <2>4. CancelsHaveAReason' /\ EndIsLast'
    BY ReasonsNext, EndNext DEF SupervisorInv
  <2> QED
    BY <2>1, <2>2, <2>3, <2>4 DEF SupervisorInv
<1> QED
  BY <1>1, <1>2, PTL DEF Spec

\* The driver, its sink, the run's state and its authority keep their types.
THEOREM TypeCorrect == Spec => []TypeOK
<1>1. SupervisorInv => TypeOK
  BY DEF SupervisorInv
<1> QED
  BY <1>1, SupervisorInvariant, PTL

\* However a revocation races with the run, at most one action that was past
\* its check begins after it.
THEOREM AtMostOneOverrun == Spec => []OneActionAfterRevocation
<1>1. SupervisorInv => OneActionAfterRevocation
  BY DEF SupervisorInv, RevokedActionIsTheLast, OneActionAfterRevocation
<1> QED
  BY <1>1, SupervisorInvariant, PTL

\* A wait that a revocation ends knows why, and the log closes with it.
THEOREM RevocationsAreExplained == Spec => []RevokedRunsEndCleanly
<1>1. SupervisorInv => RevokedRunsEndCleanly
  BY DEF SupervisorInv, EndIsLast, ForwarderHasItsEvent, RevokedRunsEndCleanly
<1> QED
  BY <1>1, SupervisorInvariant, PTL

\* A run that waits for a person shows it, once the forwarder caught up.
THEOREM WaitsAreShown == Spec => []WaitsAreVisible
<1>1. SupervisorInv => WaitsAreVisible
  BY DEF SupervisorInv, WaitIsLast, WaitsAreVisible, Settled
<1> QED
  BY <1>1, SupervisorInvariant, PTL

\* A continuation answers the pause it was sent for and no later one.
THEOREM ContinuationsAreNotKept == Spec => []OneContinuationPerPause
<1>1. SupervisorInv => OneContinuationPerPause
  BY DEF SupervisorInv, PausesMatch, OneContinuationPerPause
<1> QED
  BY <1>1, SupervisorInvariant, PTL

\* No stale decision resumes a run: not after a revocation, and not for a call
\* it was not given for.
THEOREM DecisionsAreTheirOwn == Spec => DecisionsResumeTheirCall
<1>1. SupervisorInv /\ [Next]_vars =>
         [phase = "approval" /\ phase' # "approval" =>
            /\ revoked => phase' = "returned"
            /\ phase' = "launch" => awaited \in granted]_vars
  <2> SUFFICES ASSUME SupervisorInv, [Next]_vars, phase = "approval", phase' # "approval"
               PROVE  /\ revoked => phase' = "returned"
                      /\ phase' = "launch" => awaited \in granted
    OBVIOUS
  <2>1. WaitCancelled \/ TakeDecision
    BY
    DEF Next, DriverStep, ForwardStep, HandlerStep, AuthorityStep, Rest, vars,
        AskForCall, AskToStream, Cancel, ChangeIdentity, ClearPending, Connect,
        Continue, EndLoop, EndPause, FinishTool, FireCancel, ForwardPending,
        ForwardPush, ForwardStatus, GateCall, LaunchCall, PauseLoop, PublishStatus,
        ReadPending, RecordRevocation, Return, ReturnRevoked, Revoke, SendDecision,
        Start, StartTool, Sweep, TakeContinuation, driverVars
  <2>2. CASE WaitCancelled
    BY <2>2 DEF WaitCancelled, ReturnRevoked, Return
  <2>3. CASE TakeDecision
    <3>1. Head(decisions)[2] => Head(decisions)[1] \in granted
      BY <2>3, TypeParts DEF SupervisorInv, GrantsAreHeld, TakeDecision, Queues
    <3> QED
      BY <2>3, <3>1 DEF TakeDecision, Verified, ReturnRevoked, Return
  <2> QED
    BY <2>1, <2>2, <2>3
<1> QED
  BY <1>1, SupervisorInvariant, PTL DEF Spec, DecisionsResumeTheirCall

=============================================================================
