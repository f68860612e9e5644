---------------------------- MODULE EventStream ----------------------------
(***************************************************************************)
(* One subscriber of a run's events: RunState::wait_from                   *)
(* (crates/lightagent-api/src/manager.rs) and the SSE stream built on it   *)
(* (event_stream and run_events, crates/lightagent-api/src/lib.rs).        *)
(*                                                                         *)
(* The run writes: it pushes events under the lock of its buffer and ends  *)
(* by a terminal status, and after either it notifies the waiters that are *)
(* registered at that moment, and no others.  The stream is polled for one *)
(* frame at a time and may at any await be dropped with the connection.    *)
(* An event is its position in the buffer.                                 *)
(***************************************************************************)
EXTENDS Naturals

CONSTANTS MaxEvents,   \* bound: events of the run
          MaxChanges,  \* bound: changes of the subscriber's authorization
          MaxConnects  \* bound: connections the client makes

ASSUME StreamAssumption ==
    MaxEvents \in Nat /\ MaxChanges \in Nat /\ MaxConnects \in Nat

VARIABLES buffered,  \* how many events the run has buffered
          terminal,  \* the run's status is terminal
          writing,   \* the run has a notification to send
          at,        \* where the stream is
          seen,      \* Cursor.seen
          next,      \* Cursor.queue holds the positions next..seen-1
          finished,  \* Cursor.finished
          waiter,    \* the Notified future of wait_from
          frames,    \* the frames sent and not yet received: none or one
          got,       \* the client has the events 0..got-1
          guarded,   \* multi-user: the stream re-checks its subscriber
          permitted, \* the subscriber may read the run
          changes,   \* how often that changed
          connects,  \* connections made
          late        \* frames sent since the permission was lost

runVars == <<buffered, terminal, writing>>
cursorVars == <<seen, next, finished>>
clientVars == <<frames, got, connects>>
guardVars == <<guarded, permitted, changes>>
vars == <<runVars, at, cursorVars, waiter, clientVars, guardVars, late>>

Place == {"closed", "guard", "pop", "enable", "lock", "read", "parked", "ended"}

\* In wait_from.
Waiting == {"enable", "lock", "read", "parked"}
Connected == at \notin {"closed", "ended"}

Init ==
    /\ buffered = 0 /\ terminal = FALSE /\ writing = FALSE
    /\ at = "closed" /\ seen = 0 /\ next = 0 /\ finished = FALSE
    /\ waiter = "none" /\ frames = {} /\ got = 0 /\ connects = 0
    /\ guarded \in BOOLEAN /\ permitted = TRUE /\ changes = 0 /\ late = 0

-----------------------------------------------------------------------------
(* The run.                                                                *)

\* push_event: under the buffer's lock, which a reader may hold.
Push ==
    /\ ~writing /\ ~terminal /\ buffered < MaxEvents
    /\ at # "read"
    /\ buffered' = buffered + 1
    /\ writing' = TRUE
    /\ UNCHANGED <<terminal, at, cursorVars, waiter, clientVars, guardVars, late>>

\* Mutant: the end of the run wakes nobody.
EndRun_silent ==
    /\ ~writing /\ ~terminal
    /\ terminal' = TRUE
    /\ UNCHANGED <<buffered, writing, at, cursorVars, waiter, clientVars, guardVars, late>>

\* set_status with a terminal status: the last write of the run.
EndRun ==
    /\ ~writing /\ ~terminal
    /\ terminal' = TRUE
    /\ writing' = TRUE
    /\ UNCHANGED <<buffered, at, cursorVars, waiter, clientVars, guardVars, late>>

\* set_status with another status: nothing a subscriber is sent, but it is
\* notified as well.
ChangeStatus ==
    /\ ~writing /\ ~terminal
    /\ writing' = TRUE
    /\ UNCHANGED <<buffered, terminal, at, cursorVars, waiter, clientVars, guardVars, late>>

\* notify_waiters, after the lock is released.
NotifyWaiters ==
    /\ writing
    /\ writing' = FALSE
    /\ waiter' = IF waiter = "registered" THEN "woken" ELSE waiter
    /\ UNCHANGED <<buffered, terminal, at, cursorVars, clientVars, guardVars, late>>

-----------------------------------------------------------------------------
(* The stream.                                                             *)

Min2(a, b) == IF a <= b THEN a ELSE b

\* Mutant: the last event the client has is sent again.
Start_inclusive(last) == Min2(IF last = 0 THEN 0 ELSE last - 1, buffered)

\* The position after the last event the client reports, no later than the
\* end of the buffer (resume_position, run_events).
Start(last) == Min2(last, buffered)

\* The client connects, reporting what it has, nothing, or too much.
Connect ==
    /\ at = "closed"
    /\ connects < MaxConnects
    /\ guarded => permitted
    /\ \E last \in {got, 0, MaxEvents + 1} :
          /\ next' = Start(last)
          /\ seen' = Start(last)
          /\ got' = IF last <= got THEN last ELSE Start(last)
    /\ connects' = connects + 1
    /\ at' = "guard"
    /\ finished' = FALSE
    /\ UNCHANGED <<runVars, waiter, frames, guardVars, late>>

\* A poll: the subscriber is checked first ...
Guard ==
    /\ at = "guard"
    /\ frames = {}
    /\ at' = IF guarded /\ ~permitted THEN "closed" ELSE "pop"
    /\ UNCHANGED <<runVars, cursorVars, waiter, clientVars, guardVars, late>>

\* Mutant: the queue is emptied on one check.
Pop_unguarded ==
    /\ at = "pop" /\ frames = {}
    /\ IF next < seen
         THEN /\ frames' = {next}
              /\ next' = next + 1
              /\ late' = IF permitted THEN 0 ELSE late + 1
              /\ at' = IF next + 1 < seen THEN "pop" ELSE "guard"
         ELSE /\ at' = IF finished THEN "ended" ELSE "enable"
              /\ UNCHANGED <<frames, next, late>>
    /\ UNCHANGED <<runVars, seen, finished, waiter, got, connects, guardVars>>

\* ... then the next event of the queue is sent, or more are waited for.
Pop ==
    /\ at = "pop"
    /\ IF next < seen
         THEN /\ frames' = {next}
              /\ next' = next + 1
              /\ late' = IF permitted THEN 0 ELSE late + 1
              /\ at' = "guard"
         ELSE /\ at' = IF finished THEN "ended" ELSE "enable"
              /\ UNCHANGED <<frames, next, late>>
    /\ UNCHANGED <<runVars, seen, finished, waiter, got, connects, guardVars>>

\* Mutant: the state is read before the waiter is registered.
Enable_unregistered ==
    /\ at = "enable"
    /\ at' = "lock"
    /\ UNCHANGED <<runVars, cursorVars, waiter, clientVars, guardVars, late>>

\* wait_from registers before it reads the state ...
Enable ==
    /\ at = "enable"
    /\ at' = "lock"
    /\ waiter' = "registered"
    /\ UNCHANGED <<runVars, cursorVars, clientVars, guardVars, late>>

LockEvents ==
    /\ at = "lock"
    /\ at' = "read"
    /\ UNCHANGED <<runVars, cursorVars, waiter, clientVars, guardVars, late>>

\* Mutant: a terminal status ends the stream with events still queued.
Read_endsAtOnce ==
    /\ at = "read"
    /\ IF buffered > seen \/ terminal
         THEN /\ seen' = buffered
              /\ finished' = terminal
              /\ waiter' = "none"
              /\ at' = IF terminal THEN "ended" ELSE "guard"
         ELSE /\ at' = "parked"
              /\ UNCHANGED <<seen, finished, waiter>>
    /\ UNCHANGED <<runVars, next, clientVars, guardVars, late>>

\* ... reads the status with the buffer still locked, and returns with what
\* is new or waits.
Read ==
    /\ at = "read"
    /\ IF buffered > seen \/ terminal
         THEN /\ seen' = buffered
              /\ finished' = terminal
              /\ waiter' = "none"
              /\ at' = IF next = buffered /\ terminal THEN "ended" ELSE "guard"
         ELSE /\ at' = "parked"
              /\ UNCHANGED <<seen, finished, waiter>>
    /\ UNCHANGED <<runVars, next, clientVars, guardVars, late>>

Wake ==
    /\ at = "parked"
    /\ waiter = "woken"
    /\ at' = "enable"
    /\ waiter' = "none"
    /\ UNCHANGED <<runVars, cursorVars, clientVars, guardVars, late>>

\* A guarded stream gives up a wait when its timer fires or the supervisor
\* asks, to check its subscriber again.
Recheck ==
    /\ guarded
    /\ at \in Waiting
    /\ at' = "guard"
    /\ waiter' = "none"
    /\ UNCHANGED <<runVars, cursorVars, clientVars, guardVars, late>>

-----------------------------------------------------------------------------
(* The client, and the subscriber's authorization.                         *)

Receive ==
    /\ frames # {}
    /\ frames' = {}
    /\ got' = got + 1
    /\ UNCHANGED <<runVars, at, cursorVars, waiter, connects, guardVars, late>>

\* The connection drops, with a frame it may have been carrying.
Disconnect ==
    /\ Connected
    /\ at' = "closed"
    /\ waiter' = "none"
    /\ frames' = {}
    /\ UNCHANGED <<runVars, cursorVars, got, connects, guardVars, late>>

ChangePermission ==
    /\ guarded
    /\ changes < MaxChanges
    /\ changes' = changes + 1
    /\ permitted' = ~permitted
    /\ late' = 0
    /\ UNCHANGED <<guarded, runVars, at, cursorVars, waiter, clientVars>>

-----------------------------------------------------------------------------
StreamStep == Guard \/ Pop \/ Enable \/ LockEvents \/ Read \/ Wake

\* The client has stopped: it is through with the stream, or does not come
\* back.  A run that is still going owes nobody an event.
Rest ==
    /\ ~writing
    /\ \/ ~Connected
       \/ at = "parked" /\ waiter = "registered"
    /\ UNCHANGED vars

Next ==
    \/ Push \/ EndRun \/ ChangeStatus \/ NotifyWaiters
    \/ Connect \/ StreamStep \/ Recheck
    \/ Receive \/ Disconnect \/ ChangePermission
    \/ Rest

\* Tasks are scheduled, a timer fires, and a client that stays connected
\* reads.  The run need not end and the client need not come.  The timer is
\* no help to a wait it interrupts too early, hence the strong fairness of
\* the stream's own steps.
Spec ==
    /\ Init /\ [][Next]_vars
    /\ WF_vars(NotifyWaiters) /\ WF_vars(Receive) /\ WF_vars(Recheck)
    /\ WF_vars(Guard) /\ WF_vars(Pop) /\ WF_vars(Wake)
    /\ SF_vars(Enable) /\ SF_vars(LockEvents) /\ SF_vars(Read)

-----------------------------------------------------------------------------
(* Properties.                                                             *)

TypeOK ==
    /\ buffered \in Nat /\ seen \in Nat /\ next \in Nat /\ got \in Nat
    /\ connects \in Nat /\ changes \in Nat /\ late \in Nat
    /\ terminal \in BOOLEAN /\ writing \in BOOLEAN /\ finished \in BOOLEAN
    /\ guarded \in BOOLEAN /\ permitted \in BOOLEAN
    /\ at \in Place
    /\ waiter \in {"none", "registered", "woken"}
    /\ frames \in SUBSET Nat

\* "every change is either seen by the read or delivered to the waiter": a
\* waiter nobody is about to wake has nothing to miss.
NoLostWakeUp ==
    at = "parked" /\ waiter # "woken" /\ ~writing => buffered = seen /\ ~terminal

\* "a reconnect resumes in order with nothing repeated or skipped": the frame
\* on its way is the one the client is to read next, over any number of
\* connections that drop with a frame in flight.
NothingRepeatedOrSkipped == frames \subseteq {got}

\* A stream that ends of itself has sent the whole run: the terminal status
\* is read before the buffer can grow, and the queue is emptied first.
EndedStreamsAreComplete == at = "ended" => terminal /\ got = buffered

\* At most the frame already past its check is sent to a subscriber who lost
\* the run, however much is queued.
OneFrameAfterLoss == guarded => late <= 1

\* Whoever stays connected sees the run end, also when nothing wakes the
\* stream but the notification.
EndIsSeen == terminal ~> ~Connected

=============================================================================
