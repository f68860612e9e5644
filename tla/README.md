# Lightagent in TLA+

Lightagent is an AI agent in Rust: a loop that alternates model turns with tool
calls, a server that runs many of those loops for local and remote users, and a
terminal, an editor adapter and a desktop shell around them. This directory
holds TLA+ modules of its concurrent core, the TLC configurations that check
them on small instances, and proofs for every size of some of them.

Paths below are relative to the repository, `src/` left out.

```
tlc -workers 2 -config MCAgentLoop.cfg MCAgentLoop     # check the loop
tlapm AgentLoopProofs.tla                                   # check the proofs
```

`PROJECT.json` lists every run, every property with a plausible bug that would
break it (the `_`-suffixed definitions of the modules), and the lines of code
each definition stands for.

## 1. The system and its parts

575 files, about 219,000 lines, 135,000 of them Rust. The crates and what they
keep:

| Part | State | Operations | Meets |
| --- | --- | --- | --- |
| **Agent loop** `lightagent-core/src/loop_.rs` | conversation, the current batch and the next call in it, counters of turns, calls, repeats and continuations, the wrap-up in force | `run`, `resume` (a decision), `continue_run`; one turn, one batch | provider (stream), tool executor, event sink, cancellation token, clock, output pool |
| **Run supervision** `lightagent-api/src/manager.rs`, `lightagent-core/src/identity/revocation.rs` | per run: events, status, pending approval, two channels, token, authorization | `start`, `start_supervised`, the driving and the forwarding task, `decide`, `continue_with`, `cancel`, `revoke` | agent loop, HTTP handlers, monitor, identity store |
| **Revalidation monitor** `manager.rs` | count of active revocable runs, the monitor's task | start with the first run, sweep on a timer, stop when none is left | the run map, the authorizations |
| **Event streams** `manager.rs` `wait_from`, `lightagent-api/src/lib.rs` `event_stream` | per subscriber: cursor into the run's buffer, a registered waiter | connect at a position, read, wait, re-check, end | a run's buffer and status |
| **Session turns** `lightagent-api/src/lib.rs` `start_run`, `admit`, `record_run_in_session`, `delete_session`; `lightagent-store/src/session.rs` | the busy set of a process; on disk the session, a run lease and a run journal | begin, recover a journal, save the prompt, run, save the answer, forget, release | several server processes, the terminal chat and the editor on one home |
| **Worker admission and budget** `lightagent-tools/src/budget.rs`, `builtins/delegate.rs` | two kinds of semaphore, a shared turn budget per run | admit, grant, park, resume, conclude | the tool executor, nested loops |
| **Tool executor** `lightagent-tools/src/executor.rs`, `policy.rs` | approved calls | decide on approval, run with a timeout under a token | agent loop, tools |
| **Output pool** `lightagent-core/src/generation.rs`, `allocation.rs` | spent and reserved tokens of a run; the plan: the lead's reserve, the follow-up reserve, a share per role | install a plan, claim and release a share, reserve, charge, forfeit | agent loop, workers |
| **Identity** `lightagent-core/src/identity/` | users, credentials, grants, owners with binding tokens, an audit log, on disk; a marker in each bound directory | transactions with idempotent replay, checks | API, authorizations, provisioning |
| **Provisioning** `lightagent-core/src/provisioning.rs`, `provisioning/continuity.rs` | a ledger of operations, staged and quarantined directories, a stamp that ties the ledger to the identity store | provision, replay, bind, revoke, reconcile, initialize, retire, check | identity store, profile directories |
| **API** `lightagent-api/src/{lib,auth,ops,desktop}.rs` | none of its own beyond the above | HTTP handlers | all of the above |
| **Tools** `lightagent-tools/src/builtins/` | plan and actions broker; the others none | files, patches, terminal, web, research | the host |
| **MCP client** `lightagent-mcp` | per server: pending requests, the lock of its input, a reader task; the list of stopping servers | request, route an answer, end of output, drop, wait for an exit | server processes, extensions |
| **ACP server** `lightagent-acp` | one prompt per session | prompt, cancel | session lease, agent loop |
| **Memory, retrieval** `lightagent-memory`, `lightagent-rag` | files, an index | save, search, refresh | tools |
| **Context packing** `lightagent-store/src/context.rs` | none | which messages fit | session |
| **Configuration, profiles, skills, credentials** `lightagent-core` | files | load, validate | command line |
| **Provider** `lightagent-provider-lightweight` | none | stream decoding | agent loop |
| **Jev, runtime client, extensions** | none or files | advisory calls, installation | command line |
| **Command line** `lightagent` | none | chat, serve, coordinator, workers | all |
| **Release update** `release-update` | the installed binary, the previous one set aside, the unpacked one | download, try out, set aside, swap, or build in place; roll back, commit | files |
| **Desktop, frontend** `desktop/`, `frontend/` | the sidecar process, the profile | start, switch, stop | the API |

How one prompt goes through them: a handler marks the session busy in its
process, takes the session's lease, recovers what a dead process left, saves the
prompt and asks the run manager for a run; the manager starts a task that drives
the loop and one that forwards its events; the loop asks the provider and the
executor, both of which check the run's authorization first; subscribers read
the events over SSE; people answer approvals and pauses through other handlers;
when the task ends, its completion saves the answer, removes the journal, and
releases the lease and the busy entry.

### What is hard, and what makes each part correct

| Part | Hard because | Correct when |
| --- | --- | --- |
| Agent loop | five budgets end a run at different points of a batch, and each must leave room for one more turn | requests are well formed; limits hold across pauses; a run that owes an answer still has a turn for it; no call runs twice |
| Run supervision | four kinds of actors share a run that is described by events which lag behind it | a revoked run does nothing more than the action under way; a decision resumes the call it was given for; what waits for a person is shown; a disallowed run ends |
| Monitor | a run starts while the monitor decides to stop | no run goes unwatched; lost authority is noticed |
| Event streams | `notify_waiters` reaches registered waiters only; connections drop at any await | no lost wake-up; each event once, in order, all of them; one frame at most after the permission is lost |
| Session turns | several servers and clients, crashes, a failing store, clients that hang up | live turns are never taken for dead; answers follow prompts; a regeneration exchanges answers; nothing is left busy |
| Worker pool | slots given up and retaken by parked workers, dropped calls, nested workers | slots and the shared budget are never exceeded; waiting ends |
| Output pool | turns of several agents at once borrow from shares of roles that start, end and overrun meanwhile | the books balance; a share stays within its plan; what is left reaches the answer |
| Identity and provisioning | three durable stores that are not one transaction; a call may be cut at every write; operators and restored copies | a cut leaves stores that follow from each other; ownership takes effect by its commit only; changes are audited; open operations end |
| MCP connections | a late answer, a timeout, a drop and the end of the output race for one map entry; a directory may be moved only when its server is gone | answers are their own call's; the end reaches every call; exits are not missed |
| Release update | every rename may fail and every step may be the last | the previous binary is in place or set aside; a reported roll back was one |

`PROJECT.json` names each of these hazards at its line, with the properties
that watch it.

## 2. Plan

Done, in this order: `RunContract` and `AgentLoop`; `RunSupervisor` and
`RevocationMonitor`; `EventStream`, `SessionRuns`, `WorkerPool`; `OutputPool`;
`McpConnections` and `ReleaseUpdate`; `IdentityStore` and `Provisioning`; proofs
of all of them, so that every safety property of a passing run is also a theorem.

`Provisioning` extends `IdentityStore`, whose transactions are parts of its
calls; `AgentLoop` refines `RunContract`. `RunSupervisor` takes from `AgentLoop`
only that a run asks the provider, runs calls and returns; `WorkerPool` and
`SessionRuns` only that a run ends, within its grant.

Worth adding next:

1. `ActionsBroker`: a dispatch whose answer was lost and is tried again, then
   looked for among the remote service's runs.
2. `McpConnections` with the streamable HTTP transport and its session id; an
   editor's cancellation, which is lost between a prompt's start and the moment
   its token is registered.
3. `IdentityStore` with credentials and grants, and the readers' cache of
   `auth.rs`.
4. The desktop's replacement of the sidecar and its profile switch.
5. Pure algorithms against reference definitions on bounded inputs: patch
   application, context packing, the approval policy.
6. The type invariant of `WorkerPool` as a theorem (section 6 says what is in the
   way), and the parts of the liveness arguments that are safety: that in each
   waiting state some step is possible.

## 3. The modules

A component's module has its state, one action per step of the code and its
properties; `MC<module>.tla` gives it small sets for TLC; `<module>Proofs.tla`
holds its theorems. `PoolProofs` has those of `WorkerPool` and `OutputPool`,
`ManagerProofs` those of `RevocationMonitor` and `EventStream`. `Tally` is the
sum of natural numbers over a finite set, which both pools use. The definitions with a suffix (`Count_forgotten`) are
mutants, the plausible bugs that each property is known to catch; no
specification uses them.

In all modules a step of a Rust task ends at an `await`, and at each access to
state that others share. Between two of those nothing can be observed.

### RunContract and AgentLoop

`RunContract` is what a caller of the loop may count on, in terms of the
`RunOutcome`s it sees: the run is with the loop or with the caller, no call runs
twice, and turns and executed calls are bounded. `AgentLoop` implements it
(`ImplementsContract`), with `outcome` computed from the phase and `ran` and
`executions` from the results in the conversation.

`AgentLoop` is one `Driver` of `loop_.rs`. A phase is an await: connecting and
streaming (`take_turn`), running a tool (`run_call`), being with the caller
(`AwaitingApproval`, `OutOfTime`). The variables are the driver's fields, named
as there; `overTime` and `cancelled` are what it reads of the clock and of the
token, and change between any two actions. The conversation is kept as a
sequence of small records (a role, the turn and its batch, the call a result
answers), because `WellFormedRequests` is about its shape. Texts and token
counts are not kept: where the code asks whether the context leaves too little,
or the pool too little, both answers are possible.

### RunSupervisor

One run of the manager, with four actors: the driving task (`drive_supervised`
and the loop's model requests and calls, through `AuthorizedProvider` and
`BoundedExecutor`), the forwarder, the handlers (`respond_approval`, which reads
the pending approval in one step and decides in another, `continue_with`,
`cancel`), and whoever revokes (`RunAuthorization::revoke`, which records first
and cancels second, a sweep, an operator). The channels are sequences or
counters; `sink` is the unbounded channel between loop and forwarder, so
`status` and `pending` are as stale as in the code.

### RevocationMonitor

All revocable runs of a manager and every monitor task it ever started. `launch`
is three steps (insert, count, ensure the monitor under the lock), the end of a
run three more; a task's sweep lists, filters and checks; it leaves by reading
the count under the lock. `found` is the snapshot a sweep works on.

### EventStream

A run that pushes events and ends, a client that connects at a position of its
own choosing, disconnects and reconnects, and the stream between them at each of
its awaits. The `Notified` future of `wait_from` is "none", "registered" or
"woken" by what `enable` and `notify_waiters` do to it.
Guarded streams re-check their subscriber before every frame and on a timer.

### SessionRuns

Turns of one session in two servers and a client. On disk: transcript and
records of the session, journal, lease (an advisory lock that dies with its
process). In memory: the busy set of a server and its mutex; for a client, a
terminal chat or an editor (`CLIENT`), the session as it holds it (`view`). The
store's own write lock makes each update of the session one step. A client takes
the same lease, saves the prompt, runs, and saves what came of it, each save
applied to the session as saved then or, if it is gone, from its view; it keeps
no journal and recovers none. `Crash` ends a process between any two steps,
`StartUp` is a server that starts and recovers what it may, `Fail` makes a save
or a read fail, `HangUp` drops a handler at its await, as the HTTP library does
when the caller goes away.

### WorkerPool

Workers of several runs and profiles with the two semaphores of `Admission` (a
fair queue each), the turn budget of `TreeBudget`, parking for an approval,
resuming from another tool call, nested workers inside their parent's slot, and
`Drop`, the executor giving a call up at its timeout. A worker's tool-call budget
works exactly as its turn budget and is left out; the tree's clock is either
over or not, at any time.

### OutputPool

The tokens one run may generate. A step is what the pool does under its lock:
dividing what is free by a plan (`Install`, with `allocate` and `split` in
whole numbers, as the code rounds), a worker that claims the share of its role
and returns what it cannot use (`StartWorker`), a turn that reserves from its
own tokens, the free ones, the follow-up reserve and shares not yet claimed
(`Reserve`), is charged with what it used, more than it was granted included
(`Settle`), or is dropped and charged in full (`Forfeit`), and a worker that
ends (`EndWorker`). A plan names a role at most once (`OutputPlan::validate`
refuses another). Between reserving and settling of one turn any other agent may
do anything, so what a turn borrowed may return to a share that has been claimed,
or released, in between. `PlanFor` is the plan a selection of roles
makes, and the run takes its plans from it.

### IdentityStore and Provisioning

`IdentityStore` is the durable identity state as far as ownership goes:
principals, owners with binding tokens, replies kept for replay, the marker of
the last change, and the markers in profile directories. A transaction takes the
lock, may write a binding marker, writes its audit records and commits; whatever
it wrote before a cut stays. An owner is effective only if the directory carries
the token of the record.

`Provisioning` extends it with the ledger, the staged and quarantined
directories and the calls. `call` is the call that holds the ledger's lock, with
the step it is before; each durable write (a save of the ledger, a staged
directory, the rename into place, the identity transaction's audit and commit, a
quarantine) is an action. `Cut` ends a call before any of them, and stands for a
crash as well as for a write that failed. Operators change identities and
create or delete profiles at the same time; `BackUp` and `Restore` put an older
copy of the ledger or of the identity state back; `Check` is
`continuity::evaluate`, after which a gateway serves again. `Reconcile` asks for
no check, as in the code: an operator may run it on a restored copy. `early`
remembers that one ran on copies that the check would have refused (section 5);
no action depends on it. The routes of `lightagent-api/src/provisioning.rs` are
not part of the server's router yet: in this repository only tests build a
`ProvisioningService`.

### McpConnections

Tool servers over standard input and output. A call registers itself in the map
of pending requests, checks that the output is still open, takes the lock of the
input, writes its line and waits; the reader task takes an entry out of the map
(`Route`) and then hands the answer over (`Send`), and fails what is left at the
end of the output. A call may expire or be dropped at each of its awaits; one
dropped while it writes leaves a torn line, after which the server understands
nothing that follows on it. A dropped connection puts its server on the list of
stopping ones until its process is gone, and `wait_for_exit_under` waits for
that list, with tokio's `Notify`, as in `EventStream`.

### ReleaseUpdate

One attempt after another to replace the installed binary, from an archive
(download, try out beside the target, clear an older copy, set aside, rename in)
or with Cargo (copy aside, build over the target, try out). Each file operation
is a step that may fail, a kill may come between any two, and what an attempt
leaves is what the next one finds. Rolling back is a step with its own failure.

## 4. The runs

| Run | Bounds | What it shows |
| --- | --- | --- |
| `AgentLoop` | 4 turns, 3 calls, 2 repeats, 2 continuations, batches up to 3 of 2 calls, every combination of clock, context guard and pool; 650,604 states | a run keeps its limits through approvals and pauses, sends well formed requests, keeps a turn for the answer it owes, and implements `RunContract` |
| `RunSupervisor` | 2 requests, 2 answers, 1 pause, 2 changes of the identity state, remote or local, continuable or not; 413,295 | the races between decision, continuation, cancellation and revocation |
| `RevocationMonitor` | 3 runs, 3 changes; 346,528 | no run is unwatched; lost authority is revoked |
| `EventStream` | 3 events, 3 connections, 2 changes of permission, re-checked or not; 8,620 | no wake-up is lost, streams are complete, also with no timer; one frame at most after the permission is lost |
| `SessionRuns` | 2 servers and a client, turns 1 and 2 in one server and 3 in the client, 1 crash, 1 failure, 1 deletion, 1 hang-up; 518,874 | recovery, the lease, the busy set, the journal and regeneration |
| `SessionRunsUnsaved`, `SessionRunsOvertaken` | the same turns; 1 failure, or 1 crash | findings 1 and 2 |
| `WorkerPool` | 4 workers of 3 runs in 2 profiles, one nested, 2 slots, 1 per profile, 3 turns, 2 parkings, 1 dropped call; 257,465 | slots, budgets, waiting |
| `OutputPool` | 20 tokens, the least grant 2, 2 workers, 3 plans, turns that ask for 3 or 12, workers capped at 4 or not, overruns of 2, 3 turns; 631,664 | the books balance, shares stay within the plan, what is left reaches the answer |
| `Provisioning` | 2 operations over 2 profiles, 1 external identity, 1 manual principal, 1 cut, 1 act of an operator or 1 restored copy; 923,780 | cuts keep continuity; stores that pass the check tell one history, but for what a reconciliation of restored copies that the check refused hides; ownership by commit only; audit first; open operations end, on restored copies too |
| `McpConnections` | 2 calls of one of 2 servers, 1 waiter, 2 request numbers; 913,158 | answers reach their own calls, ends reach every call, exits are seen, free directories are free |
| `ReleaseUpdate` | 3 attempts, 1 fault, kills anywhere; 1,105 | the previous binary remains; a full roll back is one |

What a property says only while something has not happened (`hangUps = 0`,
`Undisturbed`, `~early`) says so itself, so that one run has both kinds of behaviour. What
a run is started with (its budgets, remote or local, guarded or not) is a
variable that never changes, for the same reason.

Why these bounds are enough. Every budget of the loop is reached, alone and
together with another, in the middle of a batch and at its end: that needs two
turns more than one batch, a batch of two or three and one repeat. In the
supervisor two approvals are the least with which a decision can be stale, two
requests the least with which something follows an approval, two changes of the
identity state the least in which authority is lost and comes back. The monitor
needs a run that ends, one that starts meanwhile, and one more for the count to
be wrong by one and not reach zero. A stream needs an event before, during and
after a connection. The session needs two turns in one server for the busy set,
one in a client for the lease and the client's view, and a second server that
starts up while the first works. The worker pool needs two workers of one
profile and one of another so that either semaphore is the one waited for. The
output pool needs three agents, so that a share is lent to the lead while its
role starts and ends, three turns for loan, use and return, and numbers small
enough that an ask of 12 does not fit and one of 3 does. Provisioning needs a second
operation for the one that overtakes, and one cut, since a call leaves nothing
in memory for a second cut to add to. The connections need a second call whose
answer could be taken for the first one's. An update needs a first
attempt that leaves something, a second that finds it, and a third that finds
what the second left; with a second fault the claim is false (section 5).

`CHECK_DEADLOCK` is off in `McpConnections` and `ReleaseUpdate`, where calls
end and attempts run out, so that the system really stops. Elsewhere it is on:
where the code may rest (a run that ended, one that waits for a person, a
subscriber that is up to date, a worker that waits for a slot) the module says so
with a stuttering step (`Rest`, `Ended`) that has these as its guard, so that a
deadlock anywhere else is found; in `OutputPool` and `Provisioning`, which rest
whenever nobody calls, it has none.

### Fairness

* `AgentLoop`: the loop's own steps. A tool has a timeout and the caller of the
  loop answers an approval; that a provider ends its stream is assumed here, and
  not in `RunSupervisor`. What the run checks (`ImplementsContract` and three
  invariants) is safety and does not rest on it.
* `RunSupervisor`: the two tasks, the sweep while the run is active, and the
  second step of a revocation. A provider or a tool need never come back, except
  where the code watches the token meanwhile; a person need never answer.
* `RevocationMonitor`: launching goes on, an ending run ends, a revoked run
  returns (`RunSupervisor` shows it), and the monitor's timer ticks.
* `EventStream`: the stream is polled and what is sent arrives. Its steps
  between registration and reading are strongly fair, because reconnecting
  interrupts them again and again; the number of connections is bounded.
* `SessionRuns`: a turn that began goes on, its run ends, and a server that
  began to start up finishes. A process need not restart, and nobody need ask
  for a turn.
* `WorkerPool`: tokio's semaphores are fair, a wait has a timeout, and a worker
  ends. Nobody need answer for a parked one.
* `Provisioning`: a call that is not cut goes on, a transaction's records are
  written, and an operator's transaction commits or gives up. Reconciliation is
  strongly fair: it is what an operator is told to run while an operation is
  open, and other calls take the lock in between.
* `McpConnections`: tasks that can run are run, and a process that was killed
  goes away. No deadline is relied upon, nor that a server answers.
* `OutputPool` and `ReleaseUpdate` state safety only, and no fairness.

## 5. What the code does other than it says

Two runs are refuted by TLC, each with the line it contradicts in `PROJECT.json`.

1. `SessionRunsUnsaved`, `lib.rs:4071`: a turn whose save failed loses its
   journal as well, so nothing is left of it to recover.
2. `SessionRunsOvertaken`, `lib.rs:3642`: a turn cut in a server, overtaken by a
   turn of a terminal chat, is recorded after it; a regeneration of the
   interrupted record then takes away the answer of the other turn.

Met while modelling, without a run of their own. Where a property of section 4
would otherwise be false, its precondition or a constant says so.

Agent loop and supervision:

* `loop_.rs:669` ends a run limited to one turn as `MaxTurns` with tool results
  no turn answered from; `event.rs:20` says the last turn is an answer from them.
* `manager.rs:807` ends a run that is cancelled while it waits for an approval
  without a terminal event; the comment on `event_stream` says a stream ends
  after one.
* `revocation.rs:243`: a run of the local operator that is cancelled while it
  connects to a silent provider does not end until the provider answers, while
  a remote run does; `provider.rs:244` says cancellation ends the stream.
* `manager.rs:667` sends `Error` and then `RunCompleted` with `Cancelled` for a
  revoked run; `event.rs:135` says `Error` is followed by `StopReason::Error`.
* `manager.rs:1257` leaves a denied approval pending until the next content or
  tool call; `manager.rs:269` reports a second answer to it as delivered.

Sessions and workers:

* `lib.rs:3999`: a process that dies between starting a run and writing its
  journal leaves no trace of the run.
* `lib.rs:3900`: a client that hangs up during admission leaves its session busy
  with no run, until the process ends. `BusyEnds` says so: only a turn that was
  left like this keeps its entry.
* `lib.rs:4071`: a process that dies between saving a turn and removing its
  journal has the turn recorded again, as interrupted, by the recovery; and one
  that dies between recording an interruption and removing the journal
  (`session.rs:652`) leaves it to be recorded again, once per death. Hence the
  bound `1 + crashes` in `RecordedAgainOnlyIfCut`.
* `session.rs:730` says a writer that comes after a deletion finds the session
  missing and writes nothing; `apply` (`session.rs:498`) saves it again.
* `budget.rs:234`: a worker that finds only one of its two slots free keeps it
  while it asks for both; with one slot in all it waits for the one it keeps
  itself. The run has two slots.

Stores and servers:

* `provisioning.rs:1473`: reconciling under a provisioner revoked meanwhile fails
  an operation whose bind was already applied.
* `provisioning.rs:1249`: a replayed change is recorded with the marker the
  identity store has now. Reconciling after a restore and before the service
  takes requests, as `provisioning.rs:1454` and
  `docs/architecture/profile-provisioning.md` say to, on a ledger that the check
  would refuse, moves the stamp past changes the ledger has no record of. The
  check passes from then on, against `continuity.rs:31` ("Every other
  disagreement fails closed."). Dropping `~early` from
  `ContinuityMeansAgreement` makes TLC show it within the bounds of the run: one
  operation is bound, a copy is taken, that operation is revoked and a second one
  bound, the ledger is restored, and the reconciliation of the second, open in
  the copy, leaves the first shown as completed. The other direction no
  reconciliation hides: when the check passes, the identity store has whatever
  the ledger shows, `early` or not.
* `provisioning.rs:65`: a call cut between saving `Failed` and the quarantine
  leaves the profile directory where it is, and no retry moves it.
* `auth.rs:168`: two checks that reload the identity state at once may put the
  older reading in last, so that the check that read the newer one answers from
  the older; lines 91-93 promise that a change applies to the next request.
* `connection.rs:401`: a call dropped while it writes leaves half a line, and the
  next call of that server is answered by nothing but its deadline; entries of
  dropped calls stay in the map until the output ends.
* `release-update/src/lib.rs:162` reports every binary as it was also when
  putting the previous one back failed a second time (`install.rs`, the rename
  after a failed swap), hence one fault in `RolledBackIsAsBefore`.
* `install.rs:278`: a Cargo update that was killed while it built, given again,
  clears the only working copy before it builds (`Transaction` promises that the
  previous binary remains available until the replacement is verified).

## 6. The proofs

TLAPS checks these for every value of the constants that satisfies the
assumptions named. `PROJECT.json` says which property of a run each theorem
states; every invariant below was model-checked before it was proved. The type
invariants (`StoreInv` in `Provisioning`), `WrapUpIsFinal`, `OneMonitor`,
`OneHolder`, `OnlyDroppedCallsStay` and `UpdatedIsVerified` are proved and have no
run.

A module's proof has one lemma or step per action, and below it one step per
part of the invariant that the action can disturb; actions that change few
variables are dealt with by lemmas that say which.

**AgentLoopProofs.** From `LimitsAssumption` (limits are natural numbers, a
batch bound at least one) and `BatchesAssumption`, for every combination of
budgets. That turns stay within the limit depends on where the run is: the limit
is checked before a turn, so between the check and the count `turn` must be
below it; that is `TurnInv`, which also keeps the turn a wrap-up promised. The
number of calls run is bounded by the number counted, and that only because a
batch that exceeds the budget is cut before it is run (`CallInv`). Repeats are
counted per distinct call and checked after counting, so the bound needs the
call at hand set apart (`RepeatInv`). Well formed requests need the conversation
described while it is not well formed: `ConversationInv` says that each result
stands behind the message that asked (`ResultsInv`), that every asking message
but the last has all its results (`AskedInv`), that the batch at hand is the
last message's and answered up to `next` (`BatchInv`), and what may follow a cut
answer (`ContinuingInv`). `OrderInv` bounds the turns named in it. With these,
each step of the loop is shown to be a step of `RunContract` or a stutter, which
needs that the call about to run is not among those that ran.

**RunSupervisorProofs.** From `SupervisorAssumption` (bounds are natural
numbers). `SupervisorInv` relates the driver, the channels and the forwarder.
The part that carries most is `PausesMatch`: a continuation can be queued only
for the pause the run is in, because the status that lets a person continue is
shown only when that pause's event is forwarded and is taken back on sending.
`RevokedActionIsTheLast` allows one action past its check and says it is over
before another check; `CancelsHaveAReason` and `EndIsLast` give the terminal
event of a revoked run; `WaitIsLast` ties what is shown to the last event.

**ManagerProofs.** For the monitor, from `MonitorAssumption` (finitely many
runs). The key is that `active` is exactly the number of runs between being
counted and being uncounted, which needs the cardinality of a finite set to
change by one with each; a task may then leave only when the count read under the
lock is zero, and a run counted later finds either a live task or none, and
starts one.

For the streams, from `StreamAssumption`, for any number of events and
connections. The invariant says where the cursor may be (`CursorInv`), that the
client has all that is before the frame on its way (`FrameInv`), that a waiter
is registered from `enable` on (`WaiterInv`), and that a frame is sent only on a
check that found the permission (`LossInv`).

**PoolProofs.** From `PoolAssumption` (finitely many workers, limits that are
positive) and `OutputAssumption` (finitely many workers, plans of the code's form
that name a role at most once). Sums over
workers are what these invariants are about, and a sum defined by recursion over
a set is out of the prover's reach; `Tally` counts the pairs of an element and a
number up to its value instead, and the first lemmas of the module say of it what
one expects of a sum (it splits at an element, is monotone, is zero where all are
zero), from the theorems about finite cardinalities.

For the slots (`SlotInv`): a worker has the permits its stage says
(`PermitsFitStage`), and those that workers hold of a semaphore, with those a
first try got and keeps, are no more than its capacity (`PermitsStayWithin`). For
a tree's budget (`BudgetInv`): what is left and what the grants take from it make
up at most what the tree began with (`TurnsBalance`), and each grant counts as
one worker (`WorkersBalance`).

For the tokens (`OutputIndInv`): `BooksBalance` alone is not inductive, for a turn
may return what it borrowed to a share that has been released or claimed since.
What is needed with it is that a turn draws no more from its own tokens and the
reserves than it was granted, and only the lead's on what was planned for others
(`TurnsFitGrants`); that a share that runs is held by one worker, which holds no
other (`HoldersFitShares`, `RolesAreNamedOnce`); and `SharesStayWithinPlan`.

**SessionRunsProofs.** From `SessionAssumption`, for any sets of servers,
clients and turns, and any number of faults. `RecoveryInv` has the lease with
one holder (`LeaseIsHeld`), the journal of a run under way or cut
(`JournalIsOfARun`), and no record of an interruption of a turn that is not over,
neither saved nor in a client's view (`InterruptedAreGone`): the view matters
because a client may save it again. It holds because a turn removes its journal
before it gives up the lease. `AnswersFollowTheirPrompts` needs more of the
transcript: which turns regenerate (`RegenerationsBegan`), and that while a run
is between its two saves its prompt is the last message (`PromptIsLast`), for
which the lease must keep everybody else from the session; a hang-up breaks
exactly that, hence `hangUps = 0`.

That a turn is recorded once (`TurnsAreRecordedOnce`) has a counting invariant,
`RecordsFit`: in the session, and in every client's view of it, a turn is recorded
as ended at most once, and not before its stage says so (`mayEnd`); as
interrupted it is recorded only if it was cut, once for each death so far, and
once less while its journal is there and nobody recovers it (`Owed`,
`mayInterrupt`): that is what the recovery to come will use up. An earlier form of the property allowed two
records of a cut turn; with one crash, as in the run, that is the same, and the
attempt to prove it showed that it is false with two. A removal of the journal
that fails while its process lives is not modelled. That a regeneration
exchanges answers (`SavedAnswersAreExchanged`) follows from what is last in the
session (`LatestMatches`) and from the prompt at which the answer is put
(`PromptStands`).

**McpConnectionsProofs.** From `CallsAssumption`, `HomeAssumption` and
`UnderAssumption`. The module falls into two halves with an invariant each. In
`CallInv`, numbers are given once (`IdsAreFresh`, `IdsAreUnique`), so an entry, a
line on its way and an answer in the reader's hand of one number are one call's;
and a call that waits has its sender in the map or in the reader's hand. In
`ExitInv`, a waiter that counted is registered already, so a server that leaves
after the count notifies it.

**ReleaseUpdateProofs.** From `BoundsAssumption`. The invariant follows the
previous binary through the steps: in its place until something is set aside
(`TargetStays`), then the backup (`BackupHolds`), and a roll back finds what the
transaction recorded (`RollBackFinds`). For the claim that a full roll back
restores, the faults so far are part of the invariant.

**ProvisioningProofs.** From `IdentityAssumption`, `ProvisioningAssumption`, and
`NothingIsNone` and `NoCallIsNone`, which say that a model value is no record.
`StoreInv` holds whatever operators, cuts and restored copies do: the stores keep
their shape, no document names a token that was not drawn, records precede the
commit. From it follow `OwnershipTakesEffectByCommit` (a directory cannot carry a
token that a document got by any other way) and `ChangesAreAudited`. `CalmInv`
holds while nobody but the service acts, cuts included: where the directory of
each operation is (`PlacesMatch`), that generations only grow
(`GenerationsGrow`), and how the marker in the identity state, the stamp in the
ledger and the states of the operations are related (`ChangesMatch`). Its key is
`OneIsAhead`: at most the last change is ahead of the ledger, and its operation
cannot fail any more, so that the next call finds it and catches up.
`CallMatches` says the same of a call between two of its writes.

`ContinuityIsAgreement`, which is about stores that operators and restored copies
produced, rests on `AgreeInv`. A copy is an earlier state of its store
(`CopiesAreOlder`). Of any ledger and any document, in place or copied,
`HistoriesMeet` says two things. A document whose sequence number is not below
the ledger's applied all that the ledger shows (`Shows`); this no step undoes.
With the same number they tell the same history, and with the document's one
higher, the same but for that change (`Meets`); this holds until a
reconciliation of restored copies that the check refuses (`early`). Restoring
either store exchanges one pair for another of which the same is known. What
remains is the call at work (`CallsFit`, `TransactionsFit`), which must not move
a stamp past a change that its ledger does not know: while the gateway serves and
while a call is under way, unless `early`, the document is at most one change
ahead (`LiveFollows`), for a call on restored copies began on stores that the
check accepts. The theorem has no hypothesis: its second half says `~early`, as
the property does, and its first half holds for every reconciliation.

### Only model-checked

* Liveness (`DisallowedRunsEnd`, `LostAuthorityIsRevoked`, `EndIsSeen`,
  `BusyEnds`, `WaitingEnds`, `ClosedOutputEndsCalls`, `OpenOperationsEnd`): it
  rests on fairness and so on `ENABLED`, which the prover does not handle.
* The type invariant of `WorkerPool`: that a queue stays a sequence of workers
  after those who gave up leave it (`SelectSeq`, a recursive function of a
  sequence and of an operator) needs induction over the sequence. No other part
  of the invariants depends on the order of a queue; `SlotType` and `BudgetType`
  are the parts of `TypeOK` that the proofs use and keep.

## 7. What is not modelled

* Durations. Which of two clocks runs out first is a choice of the model, so
  margins between timeouts (`delegate.rs:503`, `executor.rs`) are not checked.
* Text, tokens of a provider and wire formats: inputs that the model chooses.
* Panics of tasks other than by process death.
* Of the identity store: credentials, grants, the rotation of the audit log and
  the pruning of replies kept for replay (`MAX_IDEMPOTENCY`).
* Of sessions: creating, renaming, listing, pruning; `/approvals` of the chat
  (`chat.rs:2942`), which applies a flag with no lease and may save a session
  again that was deleted.
* Of the editor server: its protocol, permission requests and cancellation. A
  `session/cancel` that arrives between a prompt's start and the moment its token
  is registered is lost, which is for a module of its own.
* Of the MCP client: the streamable HTTP transport, the handshake and paging. A
  connection without a directory of its own, or dropped where no runtime runs,
  is killed and never listed as stopping (`connection.rs:184`): the first is
  under no directory that anyone waits for, the second comes at the process's
  end.
* The Actions broker and the desktop shell, which have state and retries of
  their own, and are next (section 2).
* The handlers with no state of their own; the file, terminal, web and research
  tools; patch application and context packing, which are functions of their
  arguments; memory and retrieval, files replaced as a whole under a lock;
  configuration, profiles, skills and credentials, the provider's decoding, Jev,
  the runtime client, extensions and the command line's wiring, which are input,
  output and parsing with no interleaving of their own.
* The frontend, packaging, protocol conformance, scripts and test suites, which
  are not the program's core.
