--------------------------- MODULE RunSupervisor ---------------------------
(***************************************************************************)
(* One run as the API server keeps it (crates/lightagent-api/src/          *)
(* manager.rs): the task that drives the agent loop, the forwarder that    *)
(* copies the loop's events into the run's state, the HTTP handlers that   *)
(* answer, continue and cancel it, and the supervisor that revokes it      *)
(* (crates/lightagent-core/src/identity/revocation.rs).                    *)
(*                                                                         *)
(* The driving task shares only channels, the cancellation token and the   *)
(* authorization with the others, and everything the handlers know of the  *)
(* run comes through the forwarder, one event late or more.  A step ends   *)
(* at every await and at every read or write of shared state.              *)
(*                                                                         *)
(* The agent loop appears by the points where it meets the supervisor: a   *)
(* model request, a batch of one call, an approval, a pause.  AgentLoop    *)
(* has the rest of it.                                                     *)
(***************************************************************************)
EXTENDS Naturals, Sequences

CONSTANTS MaxRequests,   \* bound: model requests of the run
          MaxAnswers,    \* bound: respond_approval calls that get to answer
          MaxPauses,     \* bound: pauses on the time budget
          MaxChanges     \* bound: changes of the durable identity state

ASSUME SupervisorAssumption == {MaxRequests, MaxAnswers, MaxPauses, MaxChanges} \subseteq Nat

VARIABLES revocable,  \* started for a remote principal, with an authorization
          canContinue, \* RunOptions.pause_on_time_budget, as the client asked
          phase,      \* where the driving task is
          result,     \* the RunStatus the driver returned
          requests,   \* model requests sent
          calls,      \* tool calls started
          awaited,    \* the number of the latest approval asked for
          granted,    \* the approvals a person granted
          overruns,   \* actions begun after the run was revoked
          sink,       \* events sent by the driver, not yet taken by the forwarder
          forwarding, \* how far the forwarder is with the event it took
          log,        \* RunState.events
          status,     \* RunState.status
          pending,    \* RunState.pending: the approval's number, 0 for none
          answering,  \* approvals read by handlers that have not answered yet
          answers,    \* how many answers were begun
          decisions,  \* the decisions channel: <<approval, granted>>
          continues,  \* the continues channel: continuations not yet taken
          pauses,     \* pauses taken
          allowed,    \* the durable identity state still allows the run
          changes,    \* how often that changed
          revoked,    \* RunAuthorization.revoked is set
          cancelDue,  \* a revocation was recorded and its cancel is still to come
          cancelled,  \* the cancellation token
          asked       \* a person asked for the cancellation

optionVars == <<revocable, canContinue>>
driverVars == <<phase, result, requests, calls, awaited, granted, overruns, pauses>>
stateVars == <<forwarding, log, status, pending>>
handlerVars == <<answering, answers>>
authVars == <<allowed, changes, revoked, cancelDue, cancelled, asked, optionVars>>
vars == <<driverVars, sink, stateVars, handlerVars, decisions, continues, authVars>>

Terminal == {"completed", "cancelled", "failed"}
RunStatus == {"running", "awaitingApproval", "awaitingContinue"} \cup Terminal

EventKind == {"awaitingApproval", "wallClockPaused", "toolCallStarted", "content",
              "toolCallCompleted", "error", "denied", "runCompleted"}
Event == [kind : EventKind, approval : Nat, reason : {"", "ended", "cancelled", "error"}]

Plain(k) == [kind |-> k, approval |-> 0, reason |-> ""]
Awaiting(id) == [kind |-> "awaitingApproval", approval |-> id, reason |-> ""]
Completed(r) == [kind |-> "runCompleted", approval |-> 0, reason |-> r]

Init ==
    /\ revocable \in BOOLEAN /\ canContinue \in BOOLEAN
    /\ phase = "start" /\ result = "running"
    /\ requests = 0 /\ calls = 0 /\ awaited = 0 /\ granted = {} /\ overruns = 0 /\ pauses = 0
    /\ sink = <<>>
    /\ forwarding = "idle" /\ log = <<>> /\ status = "running" /\ pending = 0
    /\ answering = {} /\ answers = 0
    /\ decisions = <<>> /\ continues = 0
    /\ allowed = TRUE /\ changes = 0
    /\ revoked = FALSE /\ cancelDue = FALSE /\ cancelled = FALSE /\ asked = FALSE

-----------------------------------------------------------------------------
(* The driving task.                                                       *)

\* RunAuthorization::verify: what it answers, and what a refusal does.
Verified == ~revoked /\ (revocable => allowed)

Refuse ==
    /\ revoked' = TRUE
    /\ cancelled' = (cancelled \/ ~revoked)
    /\ UNCHANGED <<allowed, changes, cancelDue, asked, optionVars>>

Emit(events) == sink' = sink \o events

\* The driver returns a status, having sent its last events.
Return(s, events) ==
    /\ phase' = "returned"
    /\ result' = s
    /\ Emit(events)
    /\ UNCHANGED <<requests, calls, awaited, granted, overruns, pauses>>

\* revoked(): why, then finished as cancelled.
ReturnRevoked == Return("cancelled", <<Plain("denied"), Completed("cancelled")>>)

\* drive_controlled checks the authorization before anything runs.
Start ==
    /\ phase = "start"
    /\ \/ /\ Verified
          /\ phase' = "turn"
          /\ UNCHANGED <<result, requests, calls, awaited, granted, overruns, pauses,
                         sink, authVars>>
       \/ /\ ~Verified
          /\ Refuse
          /\ ReturnRevoked
    /\ UNCHANGED <<stateVars, handlerVars, decisions, continues>>

\* Mutant: a turn is asked for without a check.
AskToStream_unchecked ==
    /\ phase = "turn"
    /\ requests < MaxRequests
    /\ phase' = "connecting"
    /\ UNCHANGED <<result, requests, calls, awaited, granted, overruns, pauses,
                   sink, stateVars, handlerVars, decisions, continues, authVars>>

\* AuthorizedProvider::stream verifies; a refused turn cancels the run and
\* waits on a stream that never yields.
AskToStream ==
    /\ phase = "turn"
    /\ requests < MaxRequests
    /\ \/ Verified /\ phase' = "connecting" /\ UNCHANGED authVars
       \/ /\ ~Verified
          /\ phase' = "streaming"
          /\ revoked' = TRUE /\ cancelled' = TRUE
          /\ UNCHANGED <<allowed, changes, cancelDue, asked, optionVars>>
    /\ UNCHANGED <<result, requests, calls, awaited, granted, overruns, pauses,
                   sink, stateVars, handlerVars, decisions, continues>>

\* A revocable run abandons a connection still being set up, another waits
\* for the provider's answer whatever happened to it meanwhile.
Abandons == revocable /\ cancelled

\* The biased select of the authorized provider: cancelled, or connected.
Connect ==
    /\ phase = "connecting"
    /\ phase' = "streaming"
    /\ IF Abandons
         THEN UNCHANGED <<requests, overruns>>
         ELSE /\ requests' = requests + 1
              /\ overruns' = IF revoked THEN overruns + 1 ELSE overruns
    /\ UNCHANGED <<result, calls, awaited, granted, pauses, sink, stateVars, handlerVars,
                   decisions, continues, authVars>>

\* The loop ends by itself: out of turns, cancelled, answered, or failed.
EndLoop ==
    /\ \/ phase = "turn" /\ requests >= MaxRequests /\ Return("completed", <<Completed("ended")>>)
       \/ phase = "streaming" /\ cancelled /\ Return("cancelled", <<Completed("cancelled")>>)
       \/ /\ phase = "streaming" /\ ~cancelled
          /\ \/ Return("completed", <<Plain("content"), Completed("ended")>>)
             \/ Return("failed", <<Plain("error"), Completed("error")>>)
       \/ phase = "connecting" /\ ~Abandons
          /\ Return("failed", <<Plain("error"), Completed("error")>>)
    /\ UNCHANGED <<stateVars, handlerVars, decisions, continues, authVars>>

\* The turn asks for a call.
AskForCall ==
    /\ phase = "streaming" /\ ~cancelled
    /\ phase' = "call"
    /\ UNCHANGED <<result, requests, calls, awaited, granted, overruns, pauses,
                   sink, stateVars, handlerVars, decisions, continues, authVars>>

\* approval_for: a refused call leaves an error result, another is run
\* unasked or suspends the run on a fresh approval.
GateCall ==
    /\ phase = "call"
    /\ \/ /\ ~Verified
          /\ Refuse
          /\ phase' = "turn"
          /\ Emit(<<Plain("toolCallCompleted")>>)
          /\ UNCHANGED awaited
       \/ /\ Verified
          /\ phase' = "launch"
          /\ Emit(<<Plain("toolCallStarted")>>)
          /\ UNCHANGED <<awaited, authVars>>
       \/ /\ Verified
          /\ phase' = "approval"
          /\ awaited' = awaited + 1
          /\ Emit(<<Awaiting(awaited + 1)>>)
          /\ UNCHANGED authVars
    /\ UNCHANGED <<result, requests, calls, granted, overruns, pauses, stateVars, handlerVars,
                   decisions, continues>>

\* execute verifies again when the call is launched.
LaunchCall ==
    /\ phase = "launch"
    /\ \/ Verified /\ phase' = "launching" /\ UNCHANGED <<sink, authVars>>
       \/ ~Verified /\ phase' = "turn" /\ Refuse /\ Emit(<<Plain("toolCallCompleted")>>)
    /\ UNCHANGED <<result, requests, calls, awaited, granted, overruns, pauses, stateVars,
                   handlerVars, decisions, continues>>

\* The executor's biased select: cancelled, or the tool starts.
StartTool ==
    /\ phase = "launching"
    /\ phase' = "tool"
    /\ IF cancelled
         THEN UNCHANGED <<calls, overruns>>
         ELSE /\ calls' = calls + 1
              /\ overruns' = IF revoked THEN overruns + 1 ELSE overruns
    /\ UNCHANGED <<result, requests, awaited, granted, pauses, sink, stateVars, handlerVars,
                   decisions, continues, authVars>>

\* The tool returns, times out or is cancelled; the model reads its result.
FinishTool ==
    /\ phase = "tool"
    /\ phase' = "turn"
    /\ Emit(<<Plain("toolCallCompleted")>>)
    /\ UNCHANGED <<result, requests, calls, awaited, granted, overruns, pauses, stateVars,
                   handlerVars, decisions, continues, authVars>>

\* The loop pauses on its time budget with results unread.
PauseLoop ==
    /\ phase = "turn"
    /\ requests > 0 /\ pauses < MaxPauses
    /\ phase' = "outOfTime"
    /\ pauses' = pauses + 1
    /\ Emit(<<Plain("wallClockPaused")>>)
    /\ UNCHANGED <<result, requests, calls, awaited, granted, overruns, stateVars, handlerVars,
                   decisions, continues, authVars>>

\* A pause nobody can continue ends the run.
EndPause ==
    /\ phase = "outOfTime"
    /\ ~canContinue
    /\ Return("completed", <<Completed("ended")>>)
    /\ UNCHANGED <<stateVars, handlerVars, decisions, continues, authVars>>

\* Either wait ends at a cancellation: with the reason when the run was
\* revoked; a plainly cancelled approval wait sends no event at all.
WaitCancelled ==
    /\ cancelled
    /\ \/ phase = "approval"
       \/ phase = "outOfTime" /\ canContinue
    /\ IF revoked THEN ReturnRevoked
       ELSE Return("cancelled", IF phase = "approval" THEN <<>> ELSE <<Completed("cancelled")>>)
    /\ UNCHANGED <<stateVars, handlerVars, decisions, continues, authVars>>

\* A continuation arrives: checked again, then the loop goes on.
TakeContinuation ==
    /\ phase = "outOfTime" /\ canContinue
    /\ continues > 0
    /\ continues' = continues - 1
    /\ \/ /\ Verified
          /\ phase' = "turn"
          /\ UNCHANGED <<result, requests, calls, awaited, granted, overruns, pauses,
                         sink, authVars>>
       \/ ~Verified /\ Refuse /\ ReturnRevoked
    /\ UNCHANGED <<stateVars, handlerVars, decisions>>

\* Mutant: a queued decision is not checked again.
TakeDecision_unchecked ==
    /\ phase = "approval"
    /\ decisions # <<>>
    /\ decisions' = Tail(decisions)
    /\ LET id == Head(decisions)[1]
           grant == Head(decisions)[2]
       IN \/ /\ id # awaited
             /\ Return("failed", <<Plain("error"), Completed("error")>>)
             /\ UNCHANGED authVars
          \/ /\ id = awaited
             /\ IF grant
                  THEN /\ phase' = "launch"
                       /\ Emit(<<Plain("toolCallStarted")>>)
                  ELSE /\ phase' = "turn"
                       /\ Emit(<<Plain("toolCallCompleted")>>)
             /\ UNCHANGED <<result, requests, calls, awaited, granted, overruns, pauses, authVars>>
    /\ UNCHANGED <<stateVars, handlerVars, continues>>

\* A decision arrives: checked again, then resume acts on it, or fails when
\* it names another approval.
TakeDecision ==
    /\ phase = "approval"
    /\ decisions # <<>>
    /\ decisions' = Tail(decisions)
    /\ LET id == Head(decisions)[1]
           grant == Head(decisions)[2]
       IN \/ ~Verified /\ Refuse /\ ReturnRevoked
          \/ /\ Verified /\ id # awaited
             /\ Return("failed", <<Plain("error"), Completed("error")>>)
             /\ UNCHANGED authVars
          \/ /\ Verified /\ id = awaited
             /\ IF grant
                  THEN /\ phase' = "launch"
                       /\ Emit(<<Plain("toolCallStarted")>>)
                  ELSE /\ phase' = "turn"
                       /\ Emit(<<Plain("toolCallCompleted")>>)
             /\ UNCHANGED <<result, requests, calls, awaited, granted, overruns, pauses, authVars>>
    /\ UNCHANGED <<stateVars, handlerVars, continues>>

\* Once the forwarder has drained the sink: pending first, then the status.
ClearPending ==
    /\ phase = "returned"
    /\ sink = <<>> /\ forwarding = "idle"
    /\ phase' = "closing"
    /\ pending' = 0
    /\ UNCHANGED <<result, requests, calls, awaited, granted, overruns, pauses, sink,
                   forwarding, log, status, handlerVars, decisions, continues, authVars>>

PublishStatus ==
    /\ phase = "closing"
    /\ phase' = "ended"
    /\ status' = result
    /\ UNCHANGED <<result, requests, calls, awaited, granted, overruns, pauses, sink,
                   forwarding, log, pending, handlerVars, decisions, continues, authVars>>

-----------------------------------------------------------------------------
(* The forwarder: pending, then status, then the buffer, each behind its   *)
(* own lock, for one event after another.                                  *)

\* Mutant: an approval still shown is not replaced.
ForwardPending_keepsFirst ==
    /\ sink # <<>> /\ forwarding = "idle"
    /\ forwarding' = "status"
    /\ pending' = CASE Head(sink).kind = "awaitingApproval" ->
                     IF pending = 0 THEN Head(sink).approval ELSE pending
                    [] Head(sink).kind \in {"toolCallStarted", "content"} -> 0
                    [] OTHER -> pending
    /\ UNCHANGED <<driverVars, sink, log, status, handlerVars, decisions, continues, authVars>>

ForwardPending ==
    /\ sink # <<>> /\ forwarding = "idle"
    /\ forwarding' = "status"
    /\ pending' = CASE Head(sink).kind = "awaitingApproval" -> Head(sink).approval
                    [] Head(sink).kind \in {"toolCallStarted", "content"} -> 0
                    [] OTHER -> pending
    /\ UNCHANGED <<driverVars, sink, log, status, handlerVars, decisions, continues, authVars>>

ForwardStatus ==
    /\ forwarding = "status"
    /\ forwarding' = "push"
    /\ status' = CASE Head(sink).kind = "awaitingApproval" -> "awaitingApproval"
                   [] Head(sink).kind = "wallClockPaused" -> "awaitingContinue"
                   [] Head(sink).kind \in {"toolCallStarted", "content"} -> "running"
                   [] OTHER -> status
    /\ UNCHANGED <<driverVars, sink, log, pending, handlerVars, decisions, continues, authVars>>

ForwardPush ==
    /\ forwarding = "push"
    /\ forwarding' = "idle"
    /\ log' = Append(log, Head(sink))
    /\ sink' = Tail(sink)
    /\ UNCHANGED <<driverVars, status, pending, handlerVars, decisions, continues, authVars>>

-----------------------------------------------------------------------------
(* The handlers.                                                           *)

\* respond_approval verifies, then reads what is pending.
ReadPending ==
    /\ answers < MaxAnswers
    /\ Verified
    /\ pending # 0
    /\ answers' = answers + 1
    /\ answering' = answering \cup {pending}
    /\ UNCHANGED <<driverVars, sink, stateVars, decisions, continues, authVars>>

\* The driver dropped its receivers when it returned.
Receiving == phase \notin {"returned", "closing", "ended"}

\* decide: a revoked run takes no decision, and neither does a returned one.
SendDecision(id, grant) ==
    /\ id \in answering
    /\ answering' = answering \ {id}
    /\ decisions' = IF ~revoked /\ Receiving THEN Append(decisions, <<id, grant>>)
                    ELSE decisions
    /\ granted' = IF grant THEN granted \cup {id} ELSE granted
    /\ UNCHANGED <<phase, result, requests, calls, awaited, overruns, pauses, sink, stateVars,
                   answers, continues, authVars>>

\* Mutant: a continued run still shows as paused.
Continue_staysPaused ==
    /\ ~revoked
    /\ status = "awaitingContinue"
    /\ canContinue /\ Receiving
    /\ continues' = continues + 1
    /\ UNCHANGED status
    /\ UNCHANGED <<driverVars, sink, forwarding, log, pending, handlerVars, decisions, authVars>>

\* continue_with: under the status lock, so one continuation per pause; a
\* factory that cannot continue a run has dropped the receiver.
Continue ==
    /\ ~revoked
    /\ status = "awaitingContinue"
    /\ canContinue /\ Receiving
    /\ continues' = continues + 1
    /\ status' = "running"
    /\ UNCHANGED <<driverVars, sink, forwarding, log, pending, handlerVars, decisions, authVars>>

\* cancel_run.
Cancel ==
    /\ ~asked
    /\ cancelled' = TRUE /\ asked' = TRUE
    /\ UNCHANGED <<driverVars, sink, stateVars, handlerVars, decisions, continues,
                   allowed, changes, revoked, cancelDue, optionVars>>

-----------------------------------------------------------------------------
(* The identity state, and whoever revokes the run from outside.           *)

ChangeIdentity ==
    /\ revocable /\ changes < MaxChanges
    /\ changes' = changes + 1
    /\ allowed' = ~allowed
    /\ UNCHANGED <<driverVars, sink, stateVars, handlerVars, decisions, continues,
                   revoked, cancelDue, cancelled, asked, optionVars>>

\* Mutant: the run is cancelled with no denial recorded.
RecordRevocation_unrecorded ==
    /\ ~revoked
    /\ cancelDue' = TRUE
    /\ UNCHANGED <<driverVars, sink, stateVars, handlerVars, decisions, continues,
                   allowed, changes, revoked, cancelled, asked, optionVars>>

\* RunAuthorization::revoke records the denial first and cancels second.
RecordRevocation ==
    /\ ~revoked
    /\ revoked' = TRUE
    /\ cancelDue' = TRUE
    /\ UNCHANGED <<driverVars, sink, stateVars, handlerVars, decisions, continues,
                   allowed, changes, cancelled, asked, optionVars>>

FireCancel ==
    /\ cancelDue
    /\ cancelDue' = FALSE
    /\ cancelled' = TRUE
    /\ UNCHANGED <<driverVars, sink, stateVars, handlerVars, decisions, continues,
                   allowed, changes, revoked, asked, optionVars>>

\* Mutant: a sweep passes over a run that waits.
Sweep_runningOnly ==
    /\ revocable /\ ~allowed
    /\ status = "running"
    /\ RecordRevocation

\* A sweep of the monitor, or a handler's verify, finds the run disallowed.
Sweep ==
    /\ revocable /\ ~allowed
    /\ status \notin Terminal
    /\ RecordRevocation

\* An operator revokes the run on purpose (RunManager::revoke).
Revoke ==
    /\ revocable
    /\ status \notin Terminal
    /\ RecordRevocation

-----------------------------------------------------------------------------
DriverStep ==
    \/ Start \/ AskToStream \/ Connect \/ EndLoop \/ AskForCall \/ GateCall \/ LaunchCall
    \/ StartTool \/ FinishTool \/ PauseLoop \/ EndPause \/ WaitCancelled
    \/ TakeContinuation \/ TakeDecision \/ ClearPending \/ PublishStatus

ForwardStep == ForwardPending \/ ForwardStatus \/ ForwardPush

HandlerStep ==
    \/ ReadPending
    \/ \E id \in answering, grant \in BOOLEAN : SendDecision(id, grant)
    \/ Continue
    \/ Cancel

AuthorityStep == ChangeIdentity \/ Sweep \/ Revoke \/ FireCancel

\* Nobody owes the run a step while it waits for a person, or once it ended.
Rest == phase \in {"approval", "outOfTime", "ended"} /\ UNCHANGED vars

Next == DriverStep \/ ForwardStep \/ HandlerStep \/ AuthorityStep \/ Rest

\* A provider or a tool may never come back, unless the cancellation is
\* watched there.
AtTheMercyOfOthers ==
    \/ phase = "connecting" /\ ~Abandons
    \/ phase \in {"streaming", "tool"} /\ ~cancelled

\* The runtime schedules both tasks; the monitor keeps sweeping while the run
\* is active and whoever recorded a revocation goes on to cancel.  Nothing
\* obliges a person, a provider or a tool.
Spec ==
    /\ Init /\ [][Next]_vars
    /\ WF_vars(DriverStep /\ ~AtTheMercyOfOthers) /\ WF_vars(ForwardStep)
    /\ WF_vars(Sweep) /\ WF_vars(FireCancel)

-----------------------------------------------------------------------------
(* Properties.                                                             *)

TypeOK ==
    /\ phase \in {"start", "turn", "connecting", "streaming", "call", "launch", "launching",
                 "tool", "approval", "outOfTime", "returned", "closing", "ended"}
    /\ result \in RunStatus /\ status \in RunStatus
    /\ {requests, calls, awaited, overruns, pauses, pending, answers, continues, changes}
          \subseteq Nat
    /\ granted \subseteq Nat /\ answering \subseteq Nat
    /\ sink \in Seq(Event) /\ log \in Seq(Event)
    /\ forwarding \in {"idle", "status", "push"}
    /\ decisions \in Seq(Nat \X BOOLEAN)
    /\ {revocable, canContinue, allowed, revoked, cancelDue, cancelled, asked} \subseteq BOOLEAN

\* However a revocation races with the run, at most the one action already
\* past its check begins after it: every model request and every tool call
\* verifies the authorization first (AuthorizedProvider, BoundedExecutor).
OneActionAfterRevocation == overruns <= 1

\* "a decision made or queued before a revocation never resumes the run after
\* it" (drive_supervised), although decisions and the cancellation race in an
\* unbiased select; and a grant runs the call it was given for and no other,
\* whatever answers to earlier approvals are still queued.
DecisionsResumeTheirCall ==
    [][phase = "approval" /\ phase' # "approval" =>
          /\ revoked => phase' = "returned"
          /\ phase' = "launch" => awaited \in granted]_vars

\* A run nobody asked to cancel that ends cancelled was revoked, and its log
\* closes with its terminal event: the denial is recorded before the cancel,
\* so a wait that the cancel ends knows why.
RevokedRunsEndCleanly ==
    status = "cancelled" /\ ~asked =>
        revoked /\ log[Len(log)] = Completed("cancelled")

Settled == sink = <<>> /\ forwarding = "idle"

\* A run that waits for a person can be answered: once the forwarder caught
\* up, the approval it waits for is the one pending, and a pause not yet
\* continued shows as paused.
WaitsAreVisible ==
    /\ phase = "approval" /\ Settled => status = "awaitingApproval" /\ pending = awaited
    /\ phase = "outOfTime" /\ canContinue /\ Settled /\ continues = 0 =>
          status = "awaitingContinue"

\* One continuation per pause: it never outlives the pause it answers.
OneContinuationPerPause ==
    /\ continues <= 1
    /\ continues > 0 /\ Receiving => phase = "outOfTime"

\* A run whose principal stays disallowed ends, even one that takes no action.
DisallowedRunsEnd == revocable /\ <>[](~allowed) => <>(status \in Terminal)

=============================================================================
