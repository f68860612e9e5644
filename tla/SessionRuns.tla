---------------------------- MODULE SessionRuns ----------------------------
(***************************************************************************)
(* The turns of one session, in every process that shares its home: in     *)
(* servers, start_run, admit, record_run_in_session and delete_session     *)
(* (crates/lightagent-api/src/lib.rs); in clients that hold the session    *)
(* open, a terminal chat (crates/lightagent/src/chat.rs) or an editor      *)
(* (crates/lightagent-acp/src/server.rs).  They meet at the session store, *)
(* its run lease and its run journal (crates/lightagent-store/src/         *)
(* session.rs).                                                            *)
(*                                                                         *)
(* A process may die between any two steps.  What it leaves is on disk:    *)
(* the saved session and the journal.  Its busy set and its lease go with  *)
(* it.  The store's write lock is held for one update of the saved         *)
(* session, which is therefore one step.  A client may also hang up: the   *)
(* server then drops the handler where it awaits, with the guards it holds *)
(* but not what it handed to another task.                                 *)
(***************************************************************************)
EXTENDS Naturals, Sequences, FiniteSets, SequencesExt

CONSTANTS PROC,         \* the processes
          CLIENT,       \* those of them that are terminal chats or editors
          TURN,         \* the turns clients ask for
          Home,         \* the process each turn is asked of
          NoTurn,       \* a model value: nobody
          MaxCrashes,   \* bound: processes that die
          MaxFailures,  \* bound: saves and reads of the store that fail
          MaxDeletes,   \* bound: deletions of the session
          MaxHangUps    \* bound: clients that hang up while start_run awaits

ASSUME SessionAssumption ==
    /\ CLIENT \subseteq PROC
    /\ Home \in [TURN -> PROC] /\ NoTurn \notin TURN \cup PROC
    /\ TURN \cap PROC = {}
    /\ MaxCrashes \in Nat /\ MaxFailures \in Nat
    /\ MaxDeletes \in Nat /\ MaxHangUps \in Nat

VARIABLES stage,     \* how far each turn is
          replaced,  \* per turn: the record it regenerates, or NoRecord
          outcome,   \* per turn: what its run came to
          messages,  \* the saved session: its transcript ...
          runs,      \* ... and its run records
          exists,    \* the session's file exists
          journal,   \* the run journal, or NoJournal
          view,      \* per client: the session as it holds it
          lease,     \* who holds the run lease: a turn, a process or nobody
          busy,      \* the processes with the session in their busy set
          busyLock,  \* per process: the turn that holds its busy set
          process,   \* per process: "up", "down", or how far its startup is
          crashes, failures, deletes, hangUps

diskVars == <<messages, runs, exists, journal>>
lockVars == <<lease, busy, busyLock>>
boundVars == <<crashes, failures, deletes, hangUps>>
turnVars == <<stage, replaced, outcome>>
vars == <<turnVars, diskVars, view, lockVars, process, boundVars>>

SERVER == PROC \ CLIENT

\* A record is named by its turn and by whether the run wrote it or recovery
\* did (which knows the run by another id).
Reason == {"ended", "interrupted"}
Record == [turn : TURN, reason : Reason]
NoRecord == [turn |-> NoTurn, reason |-> "ended"]
Message == [role : {"user", "assistant"}, turn : TURN]
NoJournal == [turn |-> NoTurn, replacing |-> FALSE]

\* What a run leaves to save: a finished answer, the text of a run that did
\* not complete, or no text.
Outcome == {"answer", "partial", "nothing"}

\* "orphaned": the handler is gone, the admission it handed over is not.
\* "left": both are gone, since the client hung up.
\* "dead" and "cut": its process died, before or after the run had started.
Cuttable == {"launched", "running", "terminal", "recorded", "cleared", "unleased"}
Stage == {"idle", "busy", "leased", "recovering", "recovered", "refused",
          "unleasedEarly", "admitted", "denied", "orphaned", "left", "done", "dead", "cut"}
         \cup Cuttable \cup {"asked", "answering", "answered", "saved"}

Init ==
    /\ stage = [t \in TURN |-> "idle"]
    /\ replaced = [t \in TURN |-> NoRecord]
    /\ outcome = [t \in TURN |-> "nothing"]
    /\ messages = <<>> /\ runs = <<>> /\ exists = TRUE
    /\ journal = NoJournal /\ lease = NoTurn
    /\ view = [c \in CLIENT |-> [messages |-> <<>>, runs |-> <<>>]]
    /\ busy = {} /\ busyLock = [p \in PROC |-> NoTurn]
    /\ process = [p \in PROC |-> "up"]
    /\ crashes = 0 /\ failures = 0 /\ deletes = 0 /\ hangUps = 0

Go(t, from, to) == stage[t] = from /\ stage' = [stage EXCEPT ![t] = to]
Fail ==
    /\ failures < MaxFailures /\ failures' = failures + 1
    /\ UNCHANGED <<crashes, deletes, hangUps>>

-----------------------------------------------------------------------------
(* The saved session.                                                      *)

Interrupted(t) == [turn |-> t, reason |-> "interrupted"]
Ended(t) == [turn |-> t, reason |-> "ended"]
Prompt(t) == [role |-> "user", turn |-> t]
Answer(t) == [role |-> "assistant", turn |-> t]

\* take_latest_answer: the record is the latest and the transcript ends with
\* a prompt and an answer.
CanTake(record) ==
    /\ runs # <<>> /\ Last(runs) = record
    /\ Len(messages) >= 2
    /\ messages[Len(messages) - 1].role = "user"
    /\ Last(messages).role = "assistant"

\* record_run_events: an answer if there is any text, and a record.
Recorded(t, ms, rs) ==
    /\ messages' = IF outcome[t] # "nothing" THEN Append(ms, Answer(t)) ELSE ms
    /\ runs' = Append(rs, Ended(t))

-----------------------------------------------------------------------------
(* start_run, one await or one access to shared state at a time.           *)

Replacing(t) == replaced[t] # NoRecord

\* The busy set is locked, until the turn is admitted or refused.
Begin(t) ==
    /\ Home[t] \in SERVER /\ process[Home[t]] = "up"
    /\ busyLock[Home[t]] = NoTurn
    /\ \/ /\ Home[t] \in busy
          /\ Go(t, "idle", "done")
          /\ UNCHANGED <<replaced, busy, busyLock>>
       \/ /\ Home[t] \notin busy
          /\ Go(t, "idle", "busy")
          /\ busy' = busy \cup {Home[t]}
          /\ busyLock' = [busyLock EXCEPT ![Home[t]] = t]
          /\ \E record \in {NoRecord} \cup Range(runs) :
                replaced' = [replaced EXCEPT ![t] = record]
    /\ UNCHANGED <<outcome, diskVars, lease, process, boundVars, view>>

\* The session's lease, refused when another process holds it.
TakeLease(t) ==
    /\ \/ lease = NoTurn /\ Go(t, "busy", "leased") /\ lease' = t
       \/ lease # NoTurn /\ Go(t, "busy", "unleasedEarly") /\ UNCHANGED lease
    /\ UNCHANGED <<replaced, outcome, diskVars, busy, busyLock, process, boundVars,
                   view>>

\* recover_interrupted, first half: a journal left behind names a turn that
\* is recorded as interrupted, unless it would have replaced an answer.
Recover ==
    /\ journal # NoJournal
    /\ runs' = IF ~journal.replacing /\ exists
                 THEN Append(runs, Interrupted(journal.turn)) ELSE runs
    /\ UNCHANGED <<messages, exists, journal>>

\* A store that fails leaves the journal, and the turn goes on.
RecoverTurn(t) ==
    /\ \/ /\ journal = NoJournal /\ Go(t, "leased", "recovered")
          /\ UNCHANGED <<diskVars, boundVars>>
       \/ Recover /\ Go(t, "leased", "recovering") /\ UNCHANGED boundVars
       \/ /\ journal # NoJournal /\ Go(t, "leased", "recovered")
          /\ Fail /\ UNCHANGED diskVars
    /\ UNCHANGED <<replaced, outcome, lockVars, process, view>>

\* Second half: the journal goes.
ForgetJournal(t) ==
    /\ Go(t, "recovering", "recovered")
    /\ journal' = NoJournal
    /\ UNCHANGED <<replaced, outcome, messages, runs, exists, lockVars, process,
                   boundVars, view>>

\* Mutant: the answer to replace goes when the turn is admitted.
Admitted_takesAnswer(t) ==
    /\ exists
    /\ IF Replacing(t)
         THEN CanTake(replaced[t]) /\ messages' = Front(messages)
         ELSE messages' = Append(messages, Prompt(t))

\* admit: a prompt is saved with the session as it is now; a regeneration
\* only reads.
Admitted(t) ==
    /\ exists
    /\ IF Replacing(t)
         THEN CanTake(replaced[t]) /\ UNCHANGED messages
         ELSE messages' = Append(messages, Prompt(t))

\* The busy set is unlocked with the turn admitted.
Admit(t) ==
    /\ Go(t, "recovered", "admitted")
    /\ Admitted(t)
    /\ busyLock' = [busyLock EXCEPT ![Home[t]] = NoTurn]
    /\ UNCHANGED <<replaced, outcome, runs, exists, journal, lease, busy, process,
                   boundVars, view>>

RefuseTurn(t) ==
    /\ Go(t, "recovered", "refused")
    /\ \/ (~exists \/ (Replacing(t) /\ ~CanTake(replaced[t]))) /\ UNCHANGED boundVars
       \/ Fail
    /\ UNCHANGED <<replaced, outcome, diskVars, lockVars, process, view>>

\* The lease goes before the busy entry.
DropLeaseEarly(t) ==
    /\ Go(t, "refused", "unleasedEarly")
    /\ lease' = NoTurn
    /\ UNCHANGED <<replaced, outcome, diskVars, busy, busyLock, process, boundVars,
                   view>>

\* Mutant: a refused turn forgets its busy entry.
UnbusyEarly_keepsEntry(t) ==
    /\ Go(t, "unleasedEarly", "done")
    /\ busyLock' = [busyLock EXCEPT ![Home[t]] = NoTurn]
    /\ UNCHANGED <<replaced, outcome, diskVars, lease, busy, process, boundVars, view>>

UnbusyEarly(t) ==
    /\ Go(t, "unleasedEarly", "done")
    /\ busy' = busy \ {Home[t]}
    /\ busyLock' = [busyLock EXCEPT ![Home[t]] = NoTurn]
    /\ UNCHANGED <<replaced, outcome, diskVars, lease, process, boundVars, view>>

\* The client hangs up while the handler awaits the admission, or the start
\* of the run.  The lease and the lock of the busy set go with the handler,
\* the entry in it stays.
HangUp(t) ==
    /\ hangUps < MaxHangUps
    /\ hangUps' = hangUps + 1
    /\ \/ Go(t, "recovered", "orphaned")
       \/ Go(t, "admitted", "left")
       \/ Go(t, "denied", "left")
    /\ lease' = IF lease = t THEN NoTurn ELSE lease
    /\ busyLock' = [p \in PROC |-> IF busyLock[p] = t THEN NoTurn ELSE busyLock[p]]
    /\ UNCHANGED <<replaced, outcome, diskVars, busy, process, crashes, failures,
                   deletes, view>>

\* The admission goes on without its handler and its lease.
AdmitOrphan(t) ==
    /\ Go(t, "orphaned", "left")
    /\ Admitted(t) \/ UNCHANGED messages
    /\ UNCHANGED <<replaced, outcome, runs, exists, journal, lockVars, process,
                   boundVars, view>>

\* The run starts, or its principal is refused after all.
Launch(t) ==
    /\ \/ Go(t, "admitted", "launched") /\ UNCHANGED lease
       \/ Go(t, "admitted", "denied") /\ lease' = NoTurn
    /\ UNCHANGED <<replaced, outcome, diskVars, busy, busyLock, process, boundVars,
                   view>>

\* The journal names it; a journal that cannot be written is let be.
JournalRun(t) ==
    /\ Go(t, "launched", "running")
    /\ \/ /\ journal' = [turn |-> t, replacing |-> Replacing(t)]
          /\ UNCHANGED boundVars
       \/ UNCHANGED journal /\ Fail
    /\ UNCHANGED <<replaced, outcome, messages, runs, exists, lockVars, process, view>>

-----------------------------------------------------------------------------
(* record_run_in_session.                                                  *)

EndRun(t) ==
    /\ Go(t, "running", "terminal")
    /\ \E o \in Outcome : outcome' = [outcome EXCEPT ![t] = o]
    /\ UNCHANGED <<replaced, diskVars, lockVars, process, boundVars, view>>

\* The record that is to go is still the latest, and there is an answer to
\* put in its place.
Exchanges(t) ==
    /\ Replacing(t)
    /\ outcome[t] = "answer"
    /\ CanTake(replaced[t])

\* One update of the session as it is saved now; a regeneration that has no
\* answer, and a session that is gone, are left as they are.
RecordRun(t) ==
    /\ Go(t, "terminal", "recorded")
    /\ \/ /\ exists /\ ~Replacing(t)
          /\ Recorded(t, messages, runs)
          /\ UNCHANGED boundVars
       \/ /\ exists /\ Exchanges(t)
          /\ Recorded(t, Front(messages), Front(runs))
          /\ UNCHANGED boundVars
       \/ /\ ~exists \/ (Replacing(t) /\ ~Exchanges(t))
          /\ UNCHANGED <<messages, runs, boundVars>>
       \/ Fail /\ UNCHANGED <<messages, runs>>
    /\ UNCHANGED <<replaced, outcome, exists, journal, lockVars, process, view>>

\* Mutant: the journal stays behind.
ClearJournal_forgotten(t) ==
    /\ Go(t, "recorded", "cleared")
    /\ UNCHANGED <<replaced, outcome, diskVars, lockVars, process, boundVars, view>>

ClearJournal(t) ==
    /\ Go(t, "recorded", "cleared")
    /\ journal' = NoJournal
    /\ UNCHANGED <<replaced, outcome, messages, runs, exists, lockVars, process,
                   boundVars, view>>

DropLease(t) ==
    /\ Go(t, "cleared", "unleased")
    /\ lease' = NoTurn
    /\ UNCHANGED <<replaced, outcome, diskVars, busy, busyLock, process, boundVars,
                   view>>

Unbusy(t) ==
    /\ busyLock[Home[t]] = NoTurn
    /\ Go(t, "unleased", "done") \/ Go(t, "denied", "done")
    /\ busy' = busy \ {Home[t]}
    /\ UNCHANGED <<replaced, outcome, diskVars, lease, busyLock, process, boundVars,
                   view>>

-----------------------------------------------------------------------------
(* A turn of a client that holds the session open: no journal, and nothing *)
(* recovered before it.                                                    *)

\* SessionStore::apply: the session as saved now, or a session that is gone
\* as the client holds it, with a change; the client sees what was saved.
Base(c) == IF exists THEN [messages |-> messages, runs |-> runs] ELSE view[c]
SavesAll(c, session) ==
    /\ messages' = session.messages /\ runs' = session.runs /\ exists' = TRUE
    /\ view' = [view EXCEPT ![c] = session]

WithPrompt(session, t) ==
    [messages |-> Append(session.messages, Prompt(t)), runs |-> session.runs]
WithRecord(session, t) ==
    [messages |-> IF outcome[t] = "nothing" THEN session.messages
                  ELSE Append(session.messages, Answer(t)),
     runs |-> Append(session.runs, Ended(t))]

\* Mutant: an editor that does not look for a run elsewhere.
OpenTurn_unleased(t) ==
    /\ Home[t] \in CLIENT /\ process[Home[t]] = "up"
    /\ \A u \in TURN : Home[u] = Home[t] => stage[u] \in {"idle", "done"}
    /\ Go(t, "idle", "asked")
    /\ UNCHANGED <<replaced, outcome, diskVars, view, lockVars, process, boundVars>>

\* One at a time in a client, and nothing is sent while another has the lease.
OpenTurn(t) ==
    /\ Home[t] \in CLIENT /\ process[Home[t]] = "up"
    /\ \A u \in TURN : Home[u] = Home[t] => stage[u] \in {"idle", "done"}
    /\ \/ lease = NoTurn /\ Go(t, "idle", "asked") /\ lease' = t
       \/ lease # NoTurn /\ Go(t, "idle", "done") /\ UNCHANGED lease
    /\ UNCHANGED <<replaced, outcome, diskVars, view, busy, busyLock, process,
                   boundVars>>

\* An editor that cannot save answers with an error, a chat ends.
SavePrompt(t) ==
    /\ \/ /\ Go(t, "asked", "answering")
          /\ SavesAll(Home[t], WithPrompt(Base(Home[t]), t))
          /\ UNCHANGED boundVars
       \/ Go(t, "asked", "saved") /\ Fail /\ UNCHANGED <<messages, runs, exists, view>>
    /\ UNCHANGED <<replaced, outcome, journal, lockVars, process>>

\* A paused run keeps the lease, until it ends or is dropped with what it did.
EndAnswer(t) ==
    /\ Go(t, "answering", "answered")
    /\ \E o \in Outcome : outcome' = [outcome EXCEPT ![t] = o]
    /\ UNCHANGED <<replaced, diskVars, view, lockVars, process, boundVars>>

\* What cannot be saved stays in the client's view.
SaveTurn(t) ==
    /\ Go(t, "answered", "saved")
    /\ \/ SavesAll(Home[t], WithRecord(Base(Home[t]), t)) /\ UNCHANGED boundVars
       \/ /\ view' = [view EXCEPT ![Home[t]] = WithRecord(@, t)]
          /\ Fail /\ UNCHANGED <<messages, runs, exists>>
    /\ UNCHANGED <<replaced, outcome, journal, lockVars, process>>

CloseTurn(t) ==
    /\ Go(t, "saved", "done")
    /\ lease' = NoTurn
    /\ UNCHANGED <<replaced, outcome, diskVars, view, busy, busyLock, process,
                   boundVars>>

ClientStep(t) == SavePrompt(t) \/ EndAnswer(t) \/ SaveTurn(t) \/ CloseTurn(t)

-----------------------------------------------------------------------------
(* Deletion, death and startup.                                            *)

\* delete_session: refused while this process has a run of the session.
Delete(p) ==
    /\ p \in SERVER /\ process[p] = "up" /\ busyLock[p] = NoTurn /\ p \notin busy
    /\ exists /\ deletes < MaxDeletes
    /\ deletes' = deletes + 1
    /\ exists' = FALSE
    /\ messages' = <<>> /\ runs' = <<>>
    /\ UNCHANGED <<turnVars, journal, lockVars, process, crashes, failures, hangUps,
                   view>>

\* Everything the process held goes, and its turns with it.
Crash(p) ==
    /\ process[p] # "down" /\ crashes < MaxCrashes
    /\ crashes' = crashes + 1
    /\ process' = [process EXCEPT ![p] = "down"]
    /\ stage' = [t \in TURN |->
          IF Home[t] # p \/ stage[t] \in {"idle", "done"} THEN stage[t]
          ELSE IF stage[t] \in Cuttable \cup {"cut"} THEN "cut" ELSE "dead"]
    /\ lease' = IF lease = p \/ \E t \in TURN : lease = t /\ Home[t] = p
                  THEN NoTurn ELSE lease
    /\ busy' = busy \ {p}
    /\ busyLock' = [busyLock EXCEPT ![p] = NoTurn]
    /\ UNCHANGED <<replaced, outcome, diskVars, failures, deletes, hangUps, view>>

Startup(p, from, to) == process[p] = from /\ process' = [process EXCEPT ![p] = to]

\* Mutant: recovery at startup takes sessions whose lease is held.
StartUp_ignoresLease(p) ==
    /\ p \in SERVER
    /\ IF journal # NoJournal
         THEN Startup(p, "down", "leased") /\ lease' = p
         ELSE Startup(p, "down", "up") /\ UNCHANGED lease
    /\ UNCHANGED <<turnVars, diskVars, busy, busyLock, boundVars, view>>

\* recover_all_interrupted, as a server starts: a session whose lease is held
\* is left alone.
StartUp(p) ==
    /\ p \in SERVER
    /\ IF journal # NoJournal /\ lease = NoTurn
         THEN Startup(p, "down", "leased") /\ lease' = p
         ELSE Startup(p, "down", "up") /\ UNCHANGED lease
    /\ UNCHANGED <<turnVars, diskVars, busy, busyLock, boundVars, view>>

RecoverAtStart(p) ==
    /\ \/ Recover /\ Startup(p, "leased", "recovered") /\ UNCHANGED boundVars
       \/ UNCHANGED diskVars /\ Startup(p, "leased", "forgotten")
          /\ (IF journal = NoJournal THEN UNCHANGED boundVars ELSE Fail)
    /\ UNCHANGED <<turnVars, lockVars, view>>

ForgetAtStart(p) ==
    /\ Startup(p, "recovered", "forgotten")
    /\ journal' = NoJournal
    /\ UNCHANGED <<turnVars, messages, runs, exists, lockVars, boundVars, view>>

EndStartUp(p) ==
    /\ Startup(p, "forgotten", "up")
    /\ lease' = NoTurn
    /\ UNCHANGED <<turnVars, diskVars, busy, busyLock, boundVars, view>>

-----------------------------------------------------------------------------
TurnStep(t) ==
    \/ TakeLease(t) \/ RecoverTurn(t) \/ ForgetJournal(t) \/ Admit(t) \/ RefuseTurn(t)
    \/ DropLeaseEarly(t) \/ UnbusyEarly(t) \/ Launch(t) \/ JournalRun(t) \/ EndRun(t)
    \/ AdmitOrphan(t) \/ RecordRun(t) \/ ClearJournal(t) \/ DropLease(t) \/ Unbusy(t)

StartStep(p) == RecoverAtStart(p) \/ ForgetAtStart(p) \/ EndStartUp(p)

\* Every turn asked for has been dealt with.
Rest == (\A t \in TURN : stage[t] \in {"idle", "left", "done", "dead", "cut"}) /\ UNCHANGED vars

Next ==
    \/ \E t \in TURN : Begin(t) \/ TurnStep(t) \/ HangUp(t)
    \/ \E t \in TURN : OpenTurn(t) \/ ClientStep(t)
    \/ \E p \in PROC : Delete(p) \/ Crash(p) \/ StartUp(p) \/ StartStep(p)
    \/ Rest

\* A turn that began is carried on, and its run ends (RunSupervisor: it does
\* when it is cancelled; AgentLoop: within its limits).
Spec ==
    /\ Init /\ [][Next]_vars
    /\ \A t \in TURN : WF_vars(TurnStep(t)) /\ WF_vars(ClientStep(t))
    /\ \A p \in PROC : WF_vars(StartStep(p))

-----------------------------------------------------------------------------
(* Properties.                                                             *)

TypeOK ==
    /\ stage \in [TURN -> Stage]
    /\ replaced \in [TURN -> Record \cup {NoRecord}]
    /\ outcome \in [TURN -> Outcome]
    /\ messages \in Seq(Message) /\ runs \in Seq(Record) /\ exists \in BOOLEAN
    /\ journal \in [turn : TURN, replacing : BOOLEAN] \cup {NoJournal}
    /\ view \in [CLIENT -> [messages : Seq(Message), runs : Seq(Record)]]
    /\ lease \in TURN \cup PROC \cup {NoTurn}
    /\ busy \subseteq PROC /\ busyLock \in [PROC -> TURN \cup {NoTurn}]
    /\ process \in [PROC -> {"up", "down", "leased", "recovered", "forgotten"}]
    /\ crashes \in Nat /\ failures \in Nat /\ deletes \in Nat /\ hangUps \in Nat

Live(t) == stage[t] \notin {"idle", "left", "done", "dead", "cut"}
RecordsOf(t) == {i \in DOMAIN runs : runs[i].turn = t}

\* Recovery never takes a turn for dead that a process still works on: the
\* journal goes before the lease does.  (recover_interrupted: "The caller
\* holds id's run lease, so no live turn owns the journal.")
LiveTurnsAreNotInterrupted ==
    \A t \in TURN : Live(t) => Interrupted(t) \notin Range(runs)

\* Turns of the session follow one another, in every process: an answer
\* comes right after the prompt it answers, unless a client hung up.
AnswersFollowTheirPrompts ==
    hangUps = 0 => \A i \in DOMAIN messages :
        LET t == messages[i].turn IN
        messages[i].role = "assistant" =>
            /\ i > 1 /\ messages[i - 1].role = "user"
            /\ ~Replacing(t) => messages[i - 1] = Prompt(t)

TakenAway(t) ==
    Answer(t) \in Range(messages) /\ Answer(t) \notin Range(messages') /\ exists'

\* A saved answer is never taken away, only exchanged for another, together
\* with its record (record_run_in_session: "A failed, cancelled or empty run
\* leaves the session exactly as it was, so the saved answer survives."): not
\* by another turn, in whichever process, unless what is regenerated never ended.
AnswersAreExchanged ==
    [][\A t \in TURN : TakenAway(t) /\ Last(runs).reason = "ended" =>
          /\ Len(messages') = Len(messages) /\ Last(messages').role = "assistant"
          /\ Len(runs') = Len(runs) /\ Last(runs').turn = Last(messages').turn
          /\ Last(runs).turn = t]_vars

\* The journal is taken from a turn that has no record.
Forgotten ==
    /\ journal # NoJournal /\ journal' # journal
    /\ ~journal.replacing /\ exists' /\ RecordsOf(journal.turn) = {}

\* A turn is recorded once, as what it came to or as interrupted; again only
\* when its process died with its journal in place, and then once more for it
\* and for each process that died between recording the interruption and
\* removing the journal.
RecordedAgainOnlyIfCut ==
    \A t \in TURN : Cardinality(RecordsOf(t)) <= IF stage[t] = "cut" THEN 1 + crashes ELSE 1

\* A session does not stay busy: every way through start_run gives the entry
\* and the lease back, and so does the end of a process.  Only a turn whose
\* client hung up before its run started keeps the entry, until its process ends.
BusyEnds ==
    \A p \in PROC : p \in busy ~> p \notin busy \/ \E t \in TURN : Home[t] = p /\ stage[t] = "left"

-----------------------------------------------------------------------------
(* What comments say, and the code does not.                               *)

\* record_run_in_session, as it removes the journal: "The turn is recorded (or
\* kept out of the session on purpose): nothing is left to recover."
NothingIsForgotten == [][~Forgotten]_vars

\* take_latest_answer: "Remove the session's latest answer, and the record of
\* the run that wrote it".
AnswersGoWithTheirRecord == [][\A t \in TURN : TakenAway(t) => Last(runs).turn = t]_vars

=============================================================================
