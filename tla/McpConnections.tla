--------------------------- MODULE McpConnections ---------------------------
(***************************************************************************)
(* Tool servers spoken to over their standard input and output             *)
(* (lightagent-mcp/src/connection.rs).  Each server has one connection:    *)
(* calls register themselves in a map of pending requests, write one line  *)
(* under a lock of the server's input and wait for a reader task to route  *)
(* the answer.  A dropped connection kills its server, which is then       *)
(* listed as stopping until its process is gone; whoever is about to move  *)
(* the server's directory waits for that list to empty.                    *)
(*                                                                         *)
(* A request is identified by its number on the wire, an answer by the     *)
(* call whose question it answers.  The server may answer late, in any     *)
(* order, or never; it may stop speaking, stop reading or exit at any      *)
(* time.                                                                   *)
(***************************************************************************)
EXTENDS Naturals

CONSTANTS Calls,      \* the tool calls of a runtime, one request each
          Servers,    \* the servers it spawned
          Home,       \* the server a call is sent to
          Waiters,    \* operations on an extension's directory
          Under,      \* the servers that ran from a waiter's directory
          MaxId,      \* bound: the requests of one connection
          Nobody

ASSUME CallsAssumption == Nobody \notin Calls /\ MaxId \in Nat
ASSUME HomeAssumption == Home \in [Calls -> Servers]
ASSUME UnderAssumption == Under \in [Waiters -> SUBSET Servers]

Ids == 1..MaxId

VARIABLES
    step,       \* where each call is in `request`
    id,         \* the number of its request, 0 before it has one
    reply,      \* the call its answer answers, Nobody while it has none
    outcome,    \* how it ended
    nextId,     \* per connection: the next number
    pending,    \* per connection: the call registered under each number
    writer,     \* who holds the lock of the server's input
    torn,       \* a line of the input was begun and abandoned
    heard,      \* requests the server has read and not answered: <<id, call>>
    reader,     \* the reader task
    hand,       \* an answer routed and not yet sent: <<call, answered call>>
    alive,      \* the server's process runs
    conn,       \* the connection, then the stopped server's place in STOPPING
    wait,       \* where each waiter is in `wait_for_exit_under`
    told        \* the waiter's registration has been notified

callVars == <<step, id, reply, outcome>>
connVars == <<nextId, pending, writer, torn, heard, reader, hand>>
exitVars == <<alive, conn, wait, told>>
vars == <<callVars, connVars, exitVars>>

Steps == {"idle", "registered", "queued", "writing", "waiting", "late",
          "reporting", "ended"}
Outcomes == {"none", "answered", "closed", "unwritten", "timeout", "dropped"}
Maybe == Calls \cup {Nobody}

TypeOK ==
    /\ step \in [Calls -> Steps]
    /\ id \in [Calls -> Ids \cup {0}]
    /\ reply \in [Calls -> Maybe]
    /\ outcome \in [Calls -> Outcomes]
    /\ nextId \in [Servers -> Nat \ {0}]
    /\ pending \in [Servers -> [Ids -> Maybe]]
    /\ writer \in [Servers -> Maybe]
    /\ torn \in [Servers -> BOOLEAN]
    /\ heard \in [Servers -> SUBSET (Ids \X Calls)]
    /\ reader \in [Servers -> {"reading", "carrying", "ended", "cleared"}]
    /\ hand \in [Servers -> Maybe \X Maybe]
    /\ alive \in [Servers -> BOOLEAN]
    /\ conn \in [Servers -> {"held", "stopping", "leaving", "gone"}]
    /\ wait \in [Waiters -> {"idle", "counting", "counted", "parked", "ok",
                           "expired"}]
    /\ told \in [Waiters -> BOOLEAN]

Empty == [i \in Ids |-> Nobody]

Init ==
    /\ step = [c \in Calls |-> "idle"]
    /\ id = [c \in Calls |-> 0]
    /\ reply = [c \in Calls |-> Nobody]
    /\ outcome = [c \in Calls |-> "none"]
    /\ nextId = [s \in Servers |-> 1]
    /\ pending = [s \in Servers |-> Empty]
    /\ writer = [s \in Servers |-> Nobody]
    /\ torn = [s \in Servers |-> FALSE]
    /\ heard = [s \in Servers |-> {}]
    /\ reader = [s \in Servers |-> "reading"]
    /\ hand = [s \in Servers |-> <<Nobody, Nobody>>]
    /\ alive = [s \in Servers |-> TRUE]
    /\ conn = [s \in Servers |-> "held"]
    /\ wait = [w \in Waiters |-> "idle"]
    /\ told = [w \in Waiters |-> FALSE]

-----------------------------------------------------------------------------
(***************************************************************************)
(* The request of a call.                                                  *)
(***************************************************************************)
Closed(s) == reader[s] \in {"ended", "cleared"}

\* The sender of a call's channel is in the map or in the reader's hand; once
\* it is in neither, the channel is cut.
SenderLives(c) ==
    \/ \E i \in Ids : pending[Home[c]][i] = c
    \/ hand[Home[c]][1] = c

Moves(c, to) == step' = [step EXCEPT ![c] = to]
Ends(c, how) ==
    /\ Moves(c, "ended")
    /\ outcome' = [outcome EXCEPT ![c] = how]
Unregisters(c) ==
    pending' = [pending EXCEPT ![Home[c]][id[c]] = Nobody]
ReleasesInput(c) == writer' = [writer EXCEPT ![Home[c]] = Nobody]

\* A freed number given to the next request, as if the map were a table.
FreshId_reused(s) == CHOOSE i \in Ids : /\ pending[s][i] = Nobody
                                        /\ \A j \in 1..(i - 1) : pending[s][j] # Nobody
FreshId(s) == nextId[s]

Register(c) ==
    LET s == Home[c] IN
    /\ step[c] = "idle" /\ conn[s] = "held" /\ nextId[s] \in Ids
    /\ Moves(c, "registered")
    /\ id' = [id EXCEPT ![c] = FreshId(s)]
    /\ nextId' = [nextId EXCEPT ![s] = @ + 1]
    /\ pending' = [pending EXCEPT ![s][FreshId(s)] = c]
    /\ UNCHANGED <<reply, outcome, writer, torn, heard, reader, hand, exitVars>>

\* The check of the closed flag made before the request is in the map: what
\* ends after it is not seen.
CheckClosed_early(c) ==
    /\ step[c] = "registered"
    /\ Moves(c, "queued")
    /\ UNCHANGED <<id, reply, outcome, connVars, exitVars>>

CheckClosed(c) ==
    /\ step[c] = "registered"
    /\ \/ Closed(Home[c]) /\ Moves(c, "reporting") /\ Unregisters(c)
       \/ ~Closed(Home[c]) /\ Moves(c, "queued") /\ UNCHANGED pending
    /\ UNCHANGED <<id, reply, outcome, nextId, writer, torn, heard, reader, hand,
                   exitVars>>

TakeInput(c) ==
    /\ step[c] = "queued" /\ writer[Home[c]] = Nobody
    /\ Moves(c, "writing")
    /\ writer' = [writer EXCEPT ![Home[c]] = c]
    /\ UNCHANGED <<id, reply, outcome, nextId, pending, torn, heard, reader, hand,
                   exitVars>>

\* A line that follows the beginning of another one is part of it: the server
\* reads one line that is no request, and the call waits for nothing.
Write(c) ==
    LET s == Home[c] IN
    /\ step[c] = "writing" /\ alive[s]
    /\ Moves(c, "waiting") /\ ReleasesInput(c)
    /\ torn' = [torn EXCEPT ![s] = FALSE]
    /\ heard' = [heard EXCEPT ![s] = IF torn[s] THEN @ ELSE @ \cup {<<id[c], c>>}]
    /\ UNCHANGED <<id, reply, outcome, nextId, pending, reader, hand, exitVars>>

\* The server has exited or closed its input.
WriteFails(c) ==
    LET s == Home[c] IN
    /\ step[c] = "writing"
    /\ ReleasesInput(c) /\ Unregisters(c)
    /\ IF ~alive[s] \/ Closed(s)
       THEN Moves(c, "reporting") /\ UNCHANGED outcome
       ELSE Ends(c, "unwritten")
    /\ UNCHANGED <<id, reply, nextId, torn, heard, reader, hand, exitVars>>

Answered(c) ==
    /\ step[c] = "waiting" /\ reply[c] # Nobody
    /\ Ends(c, "answered")
    /\ UNCHANGED <<id, reply, connVars, exitVars>>

CutOff(c) ==
    /\ step[c] = "waiting" /\ reply[c] = Nobody /\ ~SenderLives(c)
    /\ Moves(c, "reporting")
    /\ UNCHANGED <<id, reply, outcome, connVars, exitVars>>

\* The deadline passes with the channel open and empty; the answer may still
\* arrive before the request is taken out of the map, and is lost then.
Expires(c) ==
    /\ step[c] = "waiting" /\ reply[c] = Nobody /\ SenderLives(c)
    /\ Moves(c, "late")
    /\ UNCHANGED <<id, reply, outcome, connVars, exitVars>>

Forget(c) ==
    /\ step[c] = "late"
    /\ Ends(c, "timeout") /\ Unregisters(c)
    /\ UNCHANGED <<id, reply, nextId, writer, torn, heard, reader, hand, exitVars>>

\* `closed` waits for the end of the server's stderr, for a bounded time.
Report(c) ==
    /\ step[c] = "reporting"
    /\ Ends(c, "closed")
    /\ UNCHANGED <<id, reply, connVars, exitVars>>

\* The executor drops the call at its own timeout or when the run is
\* cancelled, at whichever await it is: nothing takes its request out of the
\* map, and a line may be left half written.
Dropped(c) ==
    LET s == Home[c] IN
    /\ step[c] \in {"queued", "writing", "waiting", "reporting"}
    /\ Ends(c, "dropped")
    /\ IF step[c] = "writing"
       THEN /\ ReleasesInput(c)
            /\ \E begun \in BOOLEAN : torn' = [torn EXCEPT ![s] = @ \/ begun]
       ELSE UNCHANGED <<writer, torn>>
    /\ UNCHANGED <<id, reply, nextId, pending, heard, reader, hand, exitVars>>

-----------------------------------------------------------------------------
(***************************************************************************)
(* The reader task.  An answer may be in the pipe when its server exits.   *)
(***************************************************************************)
Route(s) == \E line \in heard[s] :
    LET c == pending[s][line[1]] IN
    /\ reader[s] = "reading"
    /\ heard' = [heard EXCEPT ![s] = @ \ {line}]
    /\ IF c = Nobody
       THEN UNCHANGED <<pending, reader, hand>>
       ELSE /\ pending' = [pending EXCEPT ![s][line[1]] = Nobody]
            /\ hand' = [hand EXCEPT ![s] = <<c, line[2]>>]
            /\ reader' = [reader EXCEPT ![s] = "carrying"]
    /\ UNCHANGED <<callVars, nextId, writer, torn, exitVars>>

Send(s) ==
    /\ reader[s] = "carrying"
    /\ reply' = [reply EXCEPT ![hand[s][1]] = hand[s][2]]
    /\ hand' = [hand EXCEPT ![s] = <<Nobody, Nobody>>]
    /\ reader' = [reader EXCEPT ![s] = "reading"]
    /\ UNCHANGED <<step, id, outcome, nextId, pending, writer, torn, heard, exitVars>>

\* The server exited, closed its output or wrote what is not text.
OutputEnds(s) ==
    /\ reader[s] = "reading"
    /\ reader' = [reader EXCEPT ![s] = "ended"]
    /\ UNCHANGED <<callVars, nextId, pending, writer, torn, heard, hand, exitVars>>

FailPending(s) ==
    /\ reader[s] = "ended"
    /\ pending' = [pending EXCEPT ![s] = Empty]
    /\ reader' = [reader EXCEPT ![s] = "cleared"]
    /\ UNCHANGED <<callVars, nextId, writer, torn, heard, hand, exitVars>>

-----------------------------------------------------------------------------
(***************************************************************************)
(* Stopping servers and waiting for them.                                  *)
(***************************************************************************)
Exit(s) ==
    /\ alive[s]
    /\ alive' = [alive EXCEPT ![s] = FALSE]
    /\ UNCHANGED <<callVars, connVars, conn, wait, told>>

\* Drop of the connection, which a call in flight keeps.
Stop(s) ==
    /\ conn[s] = "held"
    /\ \A c \in Calls : Home[c] = s => step[c] \in {"idle", "ended"}
    /\ conn' = [conn EXCEPT ![s] = IF alive[s] THEN "stopping" ELSE "gone"]
    /\ UNCHANGED <<callVars, connVars, alive, wait, told>>

\* The stopped server listed no longer although its process was only told to
\* stop.
Reaped_unwaited(s) ==
    /\ conn[s] = "stopping"
    /\ conn' = [conn EXCEPT ![s] = "leaving"]
    /\ UNCHANGED <<callVars, connVars, alive, wait, told>>

Reaped(s) ==
    /\ conn[s] = "stopping" /\ ~alive[s]
    /\ conn' = [conn EXCEPT ![s] = "leaving"]
    /\ UNCHANGED <<callVars, connVars, alive, wait, told>>

\* Registered only by the await itself, after the count.
Registered_late == {w \in Waiters : wait[w] = "parked"}
Registered == {w \in Waiters : wait[w] \in {"counting", "counted", "parked"}}

NotifyExited(s) ==
    /\ conn[s] = "leaving"
    /\ conn' = [conn EXCEPT ![s] = "gone"]
    /\ told' = [w \in Waiters |-> told[w] \/ w \in Registered]
    /\ UNCHANGED <<callVars, connVars, alive, wait>>

StoppingUnder(w) == {s \in Under[w] : conn[s] = "stopping"}

\* A waiter registers, for the first time or again after it was woken.
Enable(w) ==
    /\ wait[w] = "idle" \/ (wait[w] = "parked" /\ told[w])
    /\ wait' = [wait EXCEPT ![w] = "counting"]
    /\ told' = [told EXCEPT ![w] = FALSE]
    /\ UNCHANGED <<callVars, connVars, alive, conn>>

Count(w) ==
    /\ wait[w] = "counting"
    /\ wait' = [wait EXCEPT ![w] = IF StoppingUnder(w) = {} THEN "ok" ELSE "counted"]
    /\ UNCHANGED <<callVars, connVars, alive, conn, told>>

Sleep(w) ==
    /\ wait[w] = "counted"
    /\ wait' = [wait EXCEPT ![w] = "parked"]
    /\ UNCHANGED <<callVars, connVars, alive, conn, told>>

GiveUp(w) ==
    /\ wait[w] = "parked" /\ ~told[w]
    /\ wait' = [wait EXCEPT ![w] = "expired"]
    /\ UNCHANGED <<callVars, connVars, alive, conn, told>>

-----------------------------------------------------------------------------
CallNext(c) ==
    \/ Register(c) \/ CheckClosed(c) \/ TakeInput(c) \/ Write(c) \/ WriteFails(c)
    \/ Answered(c) \/ CutOff(c) \/ Expires(c) \/ Forget(c) \/ Report(c) \/ Dropped(c)
ServerNext(s) ==
    \/ Route(s) \/ Send(s) \/ OutputEnds(s) \/ FailPending(s)
    \/ Exit(s) \/ Stop(s) \/ Reaped(s) \/ NotifyExited(s)
WaiterNext(w) == Enable(w) \/ Count(w) \/ Sleep(w) \/ GiveUp(w)

Next == \/ \E c \in Calls : CallNext(c)
        \/ \E s \in Servers : ServerNext(s)
        \/ \E w \in Waiters : WaiterNext(w)

\* Tasks that can run are run, and the processes that were killed or have
\* exited go away.  No deadline is relied upon: neither Expires, nor GiveUp,
\* nor a Dropped of the executor is fair.
Fairness ==
    /\ \A c \in Calls : /\ WF_vars(Answered(c)) /\ WF_vars(CutOff(c))
                        /\ WF_vars(Report(c)) /\ WF_vars(Forget(c))
    /\ \A s \in Servers : /\ WF_vars(Send(s)) /\ WF_vars(FailPending(s))
                          /\ WF_vars(Reaped(s)) /\ WF_vars(NotifyExited(s))
                          /\ WF_vars(conn[s] # "held" /\ Exit(s))
    /\ \A w \in Waiters : WF_vars(Enable(w) \/ Count(w) \/ Sleep(w))

Spec == Init /\ [][Next]_vars /\ Fairness

-----------------------------------------------------------------------------
(***************************************************************************)
(* What the connections promise.                                           *)
(***************************************************************************)
\* An answer that comes late, after its request was given up or dropped,
\* reaches nobody else: whatever a call receives answers its own question
\* (the routing by id of the reader task).
AnswersAreTheirOwn == \A c \in Calls : reply[c] \in {c, Nobody}

\* A call that ended by itself is no longer in the map of pending requests;
\* only a dropped one leaves its entry behind, until the output ends.
OnlyDroppedCallsStay ==
    \A s \in Servers : \A i \in Ids :
        LET c == pending[s][i] IN
        c # Nobody => outcome[c] \in {"none", "dropped"}

\* Once the reader has failed what was pending, no call waits on a sender in
\* the map: the end is seen by the check after registering, or drops the
\* sender.
EndReachesEveryCall ==
    \A s \in Servers : reader[s] = "cleared" =>
        \A i \in Ids : LET c == pending[s][i] IN c # Nobody => step[c] = "registered"

\* When a server's output has ended, a call that waits for its answer ends,
\* without its deadline.
ClosedOutputEndsCalls ==
    \A c \in Calls : (step[c] = "waiting" /\ Closed(Home[c])) ~> step[c] = "ended"

\* A directory reported free is free: no server that was stopped before runs
\* from it.
FreeDirectoriesAreFree ==
    [][\A w \in Waiters : wait[w] = "counting" /\ wait'[w] = "ok" =>
          \A s \in Under[w] : conn[s] # "held" => ~alive[s]]_vars

\* A waiter sleeps unnotified only while a server is still to leave: an exit
\* between its count and its sleep is not missed.
ExitsAreNotMissed ==
    \A w \in Waiters : wait[w] = "parked" /\ ~told[w] =>
        \E s \in Under[w] : conn[s] \in {"stopping", "leaving"}

=============================================================================
