------------------------- MODULE SessionRunsProofs -------------------------
(***************************************************************************)
(* No turn that a process still works on is ever recorded as interrupted,  *)
(* for any number of processes, turns, crashes, failures, deletions and    *)
(* hang-ups: what the run lease and the order in which a turn gives up its *)
(* journal and its lease are for.  A turn is recorded once, and again only *)
(* by a recovery after a death; a regeneration exchanges the answer.       *)
(***************************************************************************)
EXTENDS SessionRuns, FiniteSetTheorems, TLAPS

\* Between these stages a turn holds the lease.
Holding == {"leased", "recovering", "recovered", "refused", "admitted", "launched",
            "running", "terminal", "recorded", "cleared",
            "asked", "answering", "answered", "saved"}
Gone(t) == stage[t] \in {"left", "done", "dead", "cut"}

\* The lease has one holder: a turn, or a server that recovers as it starts.
LeaseIsHeld ==
    /\ \A t \in TURN : stage[t] \in Holding => lease = t
    /\ \A p \in PROC : process[p] \in {"leased", "recovered", "forgotten"} => lease = p

\* Who changes the session as a client is one.
ClientsTurn ==
    \A t \in TURN : stage[t] \in {"asked", "answering", "answered", "saved"} =>
        Home[t] \in CLIENT

\* A journal is that of a run under way, or of one that its process took along.
JournalIsOfARun ==
    journal # NoJournal =>
        /\ journal.turn \in TURN
        /\ stage[journal.turn] \in {"running", "terminal", "recorded", "cut"}

\* Nobody holds a record of an interruption of a turn that is not over: not
\* the saved session, and no client that may save its own.
NotOnRecord(t) ==
    /\ Interrupted(t) \notin Range(runs)
    /\ \A c \in CLIENT : Interrupted(t) \notin Range(view[c].runs)
InterruptedAreGone == \A t \in TURN : ~Gone(t) => NotOnRecord(t)

RecoveryInv ==
    /\ TypeOK /\ LeaseIsHeld /\ ClientsTurn /\ JournalIsOfARun /\ InterruptedAreGone

-----------------------------------------------------------------------------
(***************************************************************************)
(* What Append and Front do to the records of a session.                   *)
(***************************************************************************)
LEMMA AppendRange ==
    ASSUME NEW S, NEW s \in Seq(S), NEW x \in S
    PROVE  Append(s, x) \in Seq(S) /\ Range(Append(s, x)) = Range(s) \cup {x}
<1>1. /\ Append(s, x) \in Seq(S) /\ Len(Append(s, x)) = Len(s) + 1 /\ Len(s) \in Nat
      /\ \A i \in 1..Len(s) : Append(s, x)[i] = s[i]
      /\ Append(s, x)[Len(s) + 1] = x
  OBVIOUS
<1>2. DOMAIN s = 1..Len(s) /\ DOMAIN Append(s, x) = 1..Len(s) + 1
  BY <1>1
<1>3. 1..Len(s) + 1 = (1..Len(s)) \cup {Len(s) + 1}
  BY <1>1
<1> QED
  BY <1>1, <1>2, <1>3 DEF Range

LEMMA FrontRange ==
    ASSUME NEW S, NEW s \in Seq(S), s # <<>>
    PROVE  Front(s) \in Seq(S) /\ Range(Front(s)) \subseteq Range(s)
<1>1. Len(s) \in Nat \ {0} /\ DOMAIN s = 1..Len(s) /\ \A i \in 1..Len(s) : s[i] \in S
  OBVIOUS
<1>2. Front(s) = [i \in 1..Len(s) - 1 |-> s[i]]
  BY <1>1 DEF Front
<1>3. Front(s) \in Seq(S)
  BY <1>1, <1>2
<1>4. Range(Front(s)) \subseteq Range(s)
  BY <1>1, <1>2 DEF Range
<1> QED
  BY <1>3, <1>4

-----------------------------------------------------------------------------
(***************************************************************************)
(* Types: the saved session with what clients hold of it, what is counted, *)
(* and the rest.                                                           *)
(***************************************************************************)
SessionType ==
    /\ messages \in Seq(Message) /\ runs \in Seq(Record)
    /\ view \in [CLIENT -> [messages : Seq(Message), runs : Seq(Record)]]
CountType == crashes \in Nat /\ failures \in Nat /\ deletes \in Nat /\ hangUps \in Nat
ControlType ==
    /\ stage \in [TURN -> Stage]
    /\ replaced \in [TURN -> Record \cup {NoRecord}]
    /\ outcome \in [TURN -> Outcome]
    /\ exists \in BOOLEAN
    /\ journal \in [turn : TURN, replacing : BOOLEAN] \cup {NoJournal}
    /\ lease \in TURN \cup PROC \cup {NoTurn}
    /\ busy \subseteq PROC /\ busyLock \in [PROC -> TURN \cup {NoTurn}]
    /\ process \in [PROC -> {"up", "down", "leased", "recovered", "forgotten"}]

LEMMA TypeParts == TypeOK <=> SessionType /\ CountType /\ ControlType
BY DEF TypeOK, SessionType, CountType, ControlType

LEMMA RecordTypes ==
    ASSUME NEW t \in TURN
    PROVE  Ended(t) \in Record /\ Interrupted(t) \in Record
           /\ Prompt(t) \in Message /\ Answer(t) \in Message
BY DEF Ended, Interrupted, Prompt, Answer, Record, Message, Reason

LEMMA TypeInit == Init => TypeOK
BY SessionAssumption DEF Init, TypeOK, Stage, Record, Message, Outcome

LEMMA CountTypeNext == CountType /\ [Next]_vars => CountType'
<1> SUFFICES ASSUME CountType, [Next]_vars PROVE CountType'
  OBVIOUS
<1> USE DEF CountType
<1>1. CASE UNCHANGED boundVars
  BY <1>1 DEF boundVars
<1>2. CASE Fail
  BY <1>2 DEF Fail
<1>3. ASSUME NEW t \in TURN, Begin(t) \/ TurnStep(t) \/ OpenTurn(t) \/ ClientStep(t)
      PROVE  UNCHANGED boundVars \/ Fail
  BY <1>3
  DEF Begin, OpenTurn, TurnStep, ClientStep, TakeLease, RecoverTurn, ForgetJournal,
      Admit, RefuseTurn, DropLeaseEarly, UnbusyEarly, Launch, JournalRun, EndRun,
      AdmitOrphan, RecordRun, ClearJournal, DropLease, Unbusy, SavePrompt, EndAnswer,
      SaveTurn, CloseTurn
<1>4. ASSUME NEW p \in PROC, StartUp(p) \/ StartStep(p)
      PROVE  UNCHANGED boundVars \/ Fail
  BY <1>4 DEF StartUp, StartStep, RecoverAtStart, ForgetAtStart, EndStartUp
<1>5. ASSUME NEW t \in TURN, HangUp(t) PROVE CountType'
  BY <1>5 DEF HangUp
<1>6. ASSUME NEW p \in PROC, Delete(p) \/ Crash(p) PROVE CountType'
  BY <1>6 DEF Delete, Crash
<1> QED
  BY <1>1, <1>2, <1>3, <1>4, <1>5, <1>6 DEF Next, Rest, vars

LEMMA SessionTypeNext == TypeOK /\ ClientsTurn /\ [Next]_vars => SessionType'
<1> SUFFICES ASSUME TypeOK, ClientsTurn, [Next]_vars PROVE SessionType'
  OBVIOUS
<1> USE TypeParts DEF SessionType
<1>1. CASE UNCHANGED <<messages, runs, view>>
  BY <1>1
<1>2. CASE Recover /\ UNCHANGED view
  <2>1. journal.turn \in TURN
    BY <1>2 DEF Recover, ControlType, NoJournal
  <2>2. runs' \in Seq(Record)
    BY <1>2, <2>1, RecordTypes DEF Recover
  <2> QED
    BY <1>2, <2>2 DEF Recover
<1>3. ASSUME NEW t \in TURN, Admitted(t) \/ UNCHANGED messages, UNCHANGED <<runs, view>>
      PROVE  SessionType'
  BY <1>3, RecordTypes DEF Admitted
<1>4. ASSUME NEW t \in TURN, RecordRun(t) PROVE SessionType'
  <2>1. CASE Recorded(t, messages, runs)
    BY <1>4, <2>1, RecordTypes DEF RecordRun, Recorded
  <2>2. CASE Recorded(t, Front(messages), Front(runs)) /\ CanTake(replaced[t])
    <3>1. messages # <<>> /\ runs # <<>>
      BY <2>2 DEF CanTake
    <3>2. Front(messages) \in Seq(Message) /\ Front(runs) \in Seq(Record)
      BY <3>1, FrontRange
    <3> QED
      BY <1>4, <2>2, <3>2, RecordTypes DEF RecordRun, Recorded
  <2> QED
    BY <1>4, <1>1, <2>1, <2>2 DEF RecordRun, Exchanges
<1>5. ASSUME NEW t \in TURN, SavePrompt(t) PROVE SessionType'
  <2>1. Home[t] \in CLIENT
    BY <1>5 DEF ClientsTurn, SavePrompt, Go
  <2>2. Base(Home[t]) \in [messages : Seq(Message), runs : Seq(Record)]
    BY <2>1 DEF Base
  <2>3. ASSUME NEW session \in [messages : Seq(Message), runs : Seq(Record)]
        PROVE  WithPrompt(session, t) \in [messages : Seq(Message), runs : Seq(Record)]
    BY RecordTypes DEF WithPrompt
  <2> QED
    BY <1>5, <1>1, <2>1, <2>2, <2>3 DEF SavePrompt, SavesAll
<1>6. ASSUME NEW t \in TURN, SaveTurn(t) PROVE SessionType'
  <2>1. Home[t] \in CLIENT
    BY <1>6 DEF ClientsTurn, SaveTurn, Go
  <2>2. /\ Base(Home[t]) \in [messages : Seq(Message), runs : Seq(Record)]
        /\ view[Home[t]] \in [messages : Seq(Message), runs : Seq(Record)]
    BY <2>1 DEF Base
  <2>3. ASSUME NEW session \in [messages : Seq(Message), runs : Seq(Record)]
        PROVE  WithRecord(session, t) \in [messages : Seq(Message), runs : Seq(Record)]
    BY RecordTypes DEF WithRecord
  <2> QED
    BY <1>6, <2>1, <2>2, <2>3 DEF SaveTurn, SavesAll
<1>7. ASSUME NEW t \in TURN, TurnStep(t) PROVE SessionType'
  BY <1>7, <1>1, <1>2, <1>3, <1>4
  DEF TurnStep, diskVars, TakeLease, RecoverTurn, ForgetJournal, Admit, RefuseTurn,
      DropLeaseEarly, UnbusyEarly, Launch, JournalRun, EndRun, AdmitOrphan,
      ClearJournal, DropLease, Unbusy
<1>8. ASSUME NEW t \in TURN, Begin(t) \/ HangUp(t) \/ OpenTurn(t) \/ ClientStep(t)
      PROVE  SessionType'
  BY <1>8, <1>1, <1>5, <1>6
  DEF Begin, HangUp, OpenTurn, ClientStep, EndAnswer, CloseTurn, diskVars
<1>9. ASSUME NEW p \in PROC, Delete(p) PROVE SessionType'
  BY <1>9 DEF Delete
<1>10. ASSUME NEW p \in PROC, Crash(p) \/ StartUp(p) \/ StartStep(p) PROVE SessionType'
  BY <1>10, <1>1, <1>2
  DEF Crash, StartUp, StartStep, RecoverAtStart, ForgetAtStart, EndStartUp, diskVars
<1> QED
  BY <1>1, <1>7, <1>8, <1>9, <1>10 DEF Next, Rest, vars, diskVars

LEMMA ControlTypeNext == SessionType /\ ControlType /\ [Next]_vars => ControlType'
<1> SUFFICES ASSUME SessionType, ControlType, [Next]_vars PROVE ControlType'
  OBVIOUS
<1> USE SessionAssumption DEF ControlType, Go, Stage, diskVars, lockVars, turnVars
<1>1. ASSUME NEW t \in TURN, TurnStep(t) PROVE ControlType'
  <2>1. CASE TakeLease(t)
    BY <2>1 DEF TakeLease, Cuttable
  <2>2. CASE RecoverTurn(t)
    BY <2>2 DEF RecoverTurn, Cuttable, Recover
  <2>3. CASE ForgetJournal(t)
    BY <2>3 DEF ForgetJournal, Cuttable
  <2>4. CASE Admit(t)
    BY <2>4 DEF Admit, Cuttable
  <2>5. CASE RefuseTurn(t)
    BY <2>5 DEF RefuseTurn, Cuttable
  <2>6. CASE DropLeaseEarly(t)
    BY <2>6 DEF DropLeaseEarly, Cuttable
  <2>7. CASE UnbusyEarly(t)
    BY <2>7 DEF UnbusyEarly, Cuttable
  <2>8. CASE Launch(t)
    BY <2>8 DEF Launch, Cuttable
  <2>9. CASE JournalRun(t)
    <3>1. Replacing(t) \in BOOLEAN
      BY DEF Replacing
    <3> QED
      BY <2>9, <3>1 DEF JournalRun, Cuttable
  <2>10. CASE EndRun(t)
    BY <2>10 DEF EndRun, Cuttable
  <2>11. CASE AdmitOrphan(t)
    BY <2>11 DEF AdmitOrphan, Cuttable
  <2>12. CASE RecordRun(t)
    BY <2>12 DEF RecordRun, Cuttable
  <2>13. CASE ClearJournal(t)
    BY <2>13 DEF ClearJournal, Cuttable
  <2>14. CASE DropLease(t)
    BY <2>14 DEF DropLease, Cuttable
  <2>15. CASE Unbusy(t)
    BY <2>15 DEF Unbusy, Cuttable
  <2> QED
    BY <1>1, <2>1, <2>2, <2>3, <2>4, <2>5, <2>6, <2>7, <2>8, <2>9, <2>10, <2>11,
       <2>12, <2>13, <2>14, <2>15 DEF TurnStep
<1>2. ASSUME NEW t \in TURN, ClientStep(t) PROVE ControlType'
  <2>1. CASE SavePrompt(t)
    BY <2>1 DEF SavePrompt, SavesAll
  <2>2. CASE EndAnswer(t)
    BY <2>2 DEF EndAnswer
  <2>3. CASE SaveTurn(t)
    BY <2>3 DEF SaveTurn, SavesAll
  <2>4. CASE CloseTurn(t)
    BY <2>4 DEF CloseTurn
  <2> QED
    BY <1>2, <2>1, <2>2, <2>3, <2>4 DEF ClientStep
<1>3. ASSUME NEW t \in TURN, Begin(t) PROVE ControlType'
  <2>1. Range(runs) \subseteq Record
    BY DEF Range, SessionType
  <2> QED
    BY <1>3, <2>1 DEF Begin
<1>4. ASSUME NEW t \in TURN, HangUp(t) PROVE ControlType'
  BY <1>4 DEF HangUp
<1>5. ASSUME NEW t \in TURN, OpenTurn(t) PROVE ControlType'
  BY <1>5 DEF OpenTurn
<1>6. ASSUME NEW p \in PROC, Delete(p) PROVE ControlType'
  BY <1>6 DEF Delete
<1>7. ASSUME NEW p \in PROC, Crash(p) PROVE ControlType'
  BY <1>7 DEF Crash
<1>8. ASSUME NEW p \in PROC, StartUp(p) PROVE ControlType'
  BY <1>8 DEF StartUp, Startup
<1>9. ASSUME NEW p \in PROC, RecoverAtStart(p) PROVE ControlType'
  BY <1>9 DEF RecoverAtStart, Recover, Startup
<1>10. ASSUME NEW p \in PROC, ForgetAtStart(p) PROVE ControlType'
  BY <1>10 DEF ForgetAtStart, Startup
<1>11. ASSUME NEW p \in PROC, EndStartUp(p) PROVE ControlType'
  BY <1>11 DEF EndStartUp, Startup
<1>12. CASE UNCHANGED vars
  BY <1>12 DEF vars
<1> QED
  BY <1>1, <1>2, <1>3, <1>4, <1>5, <1>6, <1>7, <1>8, <1>9, <1>10, <1>11, <1>12
  DEF Next, Rest, StartStep

-----------------------------------------------------------------------------
(***************************************************************************)
(* The lease has one holder.                                               *)
(***************************************************************************)
LEMMA LeaseNext == TypeOK /\ LeaseIsHeld /\ [Next]_vars => LeaseIsHeld'
<1> SUFFICES ASSUME TypeOK, LeaseIsHeld, [Next]_vars PROVE LeaseIsHeld'
  OBVIOUS
<1> USE SessionAssumption, TypeParts DEF ControlType, LeaseIsHeld, Holding, Go,
      lockVars, turnVars
<1>1. ASSUME NEW t \in TURN, TurnStep(t) PROVE LeaseIsHeld'
  <2>1. CASE TakeLease(t)
    BY <2>1 DEF TakeLease
  <2>2. CASE RecoverTurn(t)
    BY <2>2 DEF RecoverTurn
  <2>3. CASE ForgetJournal(t)
    BY <2>3 DEF ForgetJournal
  <2>4. CASE Admit(t)
    BY <2>4 DEF Admit
  <2>5. CASE RefuseTurn(t)
    BY <2>5 DEF RefuseTurn
  <2>6. CASE DropLeaseEarly(t)
    BY <2>6 DEF DropLeaseEarly
  <2>7. CASE UnbusyEarly(t)
    BY <2>7 DEF UnbusyEarly
  <2>8. CASE Launch(t)
    BY <2>8 DEF Launch
  <2>9. CASE JournalRun(t)
    BY <2>9 DEF JournalRun
  <2>10. CASE EndRun(t)
    BY <2>10 DEF EndRun
  <2>11. CASE AdmitOrphan(t)
    BY <2>11 DEF AdmitOrphan
  <2>12. CASE RecordRun(t)
    BY <2>12 DEF RecordRun
  <2>13. CASE ClearJournal(t)
    BY <2>13 DEF ClearJournal
  <2>14. CASE DropLease(t)
    BY <2>14 DEF DropLease
  <2>15. CASE Unbusy(t)
    BY <2>15 DEF Unbusy
  <2> QED
    BY <1>1, <2>1, <2>2, <2>3, <2>4, <2>5, <2>6, <2>7, <2>8, <2>9, <2>10, <2>11,
       <2>12, <2>13, <2>14, <2>15 DEF TurnStep
<1>2. ASSUME NEW t \in TURN, ClientStep(t) PROVE LeaseIsHeld'
  <2>1. CASE SavePrompt(t)
    BY <2>1 DEF SavePrompt
  <2>2. CASE EndAnswer(t)
    BY <2>2 DEF EndAnswer
  <2>3. CASE SaveTurn(t)
    BY <2>3 DEF SaveTurn
  <2>4. CASE CloseTurn(t)
    BY <2>4 DEF CloseTurn
  <2> QED
    BY <1>2, <2>1, <2>2, <2>3, <2>4 DEF ClientStep
<1>3. ASSUME NEW t \in TURN, Begin(t) PROVE LeaseIsHeld'
  BY <1>3 DEF Begin
<1>4. ASSUME NEW t \in TURN, HangUp(t) PROVE LeaseIsHeld'
  BY <1>4 DEF HangUp
<1>5. ASSUME NEW t \in TURN, OpenTurn(t) PROVE LeaseIsHeld'
  BY <1>5 DEF OpenTurn
<1>6. ASSUME NEW p \in PROC, Delete(p) PROVE LeaseIsHeld'
  BY <1>6 DEF Delete
<1>7. ASSUME NEW p \in PROC, Crash(p) PROVE LeaseIsHeld'
  BY <1>7 DEF Crash, Cuttable
<1>8. ASSUME NEW p \in PROC, StartUp(p) PROVE LeaseIsHeld'
  BY <1>8 DEF StartUp, Startup
<1>9. ASSUME NEW p \in PROC, RecoverAtStart(p) PROVE LeaseIsHeld'
  BY <1>9 DEF RecoverAtStart, Startup
<1>10. ASSUME NEW p \in PROC, ForgetAtStart(p) PROVE LeaseIsHeld'
  BY <1>10 DEF ForgetAtStart, Startup
<1>11. ASSUME NEW p \in PROC, EndStartUp(p) PROVE LeaseIsHeld'
  BY <1>11 DEF EndStartUp, Startup
<1>12. CASE UNCHANGED vars
  BY <1>12 DEF vars, turnVars, diskVars
<1> QED
  BY <1>1, <1>2, <1>3, <1>4, <1>5, <1>6, <1>7, <1>8, <1>9, <1>10, <1>11, <1>12
  DEF Next, Rest, StartStep

LEMMA ClientsNext == TypeOK /\ ClientsTurn /\ [Next]_vars => ClientsTurn'
<1> SUFFICES ASSUME TypeOK, ClientsTurn, [Next]_vars PROVE ClientsTurn'
  OBVIOUS
<1> USE TypeParts DEF ControlType, ClientsTurn, Go, turnVars
<1>1. ASSUME NEW t \in TURN, TurnStep(t) PROVE ClientsTurn'
  <2>1. CASE TakeLease(t)
    BY <2>1 DEF TakeLease
  <2>2. CASE RecoverTurn(t)
    BY <2>2 DEF RecoverTurn
  <2>3. CASE ForgetJournal(t)
    BY <2>3 DEF ForgetJournal
  <2>4. CASE Admit(t)
    BY <2>4 DEF Admit
  <2>5. CASE RefuseTurn(t)
    BY <2>5 DEF RefuseTurn
  <2>6. CASE DropLeaseEarly(t)
    BY <2>6 DEF DropLeaseEarly
  <2>7. CASE UnbusyEarly(t)
    BY <2>7 DEF UnbusyEarly
  <2>8. CASE Launch(t)
    BY <2>8 DEF Launch
  <2>9. CASE JournalRun(t)
    BY <2>9 DEF JournalRun
  <2>10. CASE EndRun(t)
    BY <2>10 DEF EndRun
  <2>11. CASE AdmitOrphan(t)
    BY <2>11 DEF AdmitOrphan
  <2>12. CASE RecordRun(t)
    BY <2>12 DEF RecordRun
  <2>13. CASE ClearJournal(t)
    BY <2>13 DEF ClearJournal
  <2>14. CASE DropLease(t)
    BY <2>14 DEF DropLease
  <2>15. CASE Unbusy(t)
    BY <2>15 DEF Unbusy
  <2> QED
    BY <1>1, <2>1, <2>2, <2>3, <2>4, <2>5, <2>6, <2>7, <2>8, <2>9, <2>10, <2>11,
       <2>12, <2>13, <2>14, <2>15 DEF TurnStep
<1>2. ASSUME NEW t \in TURN, ClientStep(t) PROVE ClientsTurn'
  <2>1. CASE SavePrompt(t)
    BY <2>1 DEF SavePrompt
  <2>2. CASE EndAnswer(t)
    BY <2>2 DEF EndAnswer
  <2>3. CASE SaveTurn(t)
    BY <2>3 DEF SaveTurn
  <2>4. CASE CloseTurn(t)
    BY <2>4 DEF CloseTurn
  <2> QED
    BY <1>2, <2>1, <2>2, <2>3, <2>4 DEF ClientStep
<1>3. ASSUME NEW t \in TURN, Begin(t) PROVE ClientsTurn'
  BY <1>3 DEF Begin
<1>4. ASSUME NEW t \in TURN, HangUp(t) PROVE ClientsTurn'
  BY <1>4 DEF HangUp
<1>5. ASSUME NEW t \in TURN, OpenTurn(t) PROVE ClientsTurn'
  BY <1>5 DEF OpenTurn
<1>6. ASSUME NEW p \in PROC, Delete(p) PROVE ClientsTurn'
  BY <1>6 DEF Delete
<1>7. ASSUME NEW p \in PROC, Crash(p) PROVE ClientsTurn'
  BY <1>7 DEF Crash, Cuttable
<1>8. ASSUME NEW p \in PROC, StartUp(p) PROVE ClientsTurn'
  BY <1>8 DEF StartUp, Startup
<1>9. ASSUME NEW p \in PROC, RecoverAtStart(p) PROVE ClientsTurn'
  BY <1>9 DEF RecoverAtStart, Startup
<1>10. ASSUME NEW p \in PROC, ForgetAtStart(p) PROVE ClientsTurn'
  BY <1>10 DEF ForgetAtStart, Startup
<1>11. ASSUME NEW p \in PROC, EndStartUp(p) PROVE ClientsTurn'
  BY <1>11 DEF EndStartUp, Startup
<1>12. CASE UNCHANGED vars
  BY <1>12 DEF vars, turnVars, diskVars
<1> QED
  BY <1>1, <1>2, <1>3, <1>4, <1>5, <1>6, <1>7, <1>8, <1>9, <1>10, <1>11, <1>12
  DEF Next, Rest, StartStep

LEMMA JournalNext == TypeOK /\ JournalIsOfARun /\ [Next]_vars => JournalIsOfARun'
<1> SUFFICES ASSUME TypeOK, JournalIsOfARun, [Next]_vars PROVE JournalIsOfARun'
  OBVIOUS
<1> USE TypeParts DEF ControlType, JournalIsOfARun, Go, turnVars, diskVars
<1>1. ASSUME NEW t \in TURN, TurnStep(t) PROVE JournalIsOfARun'
  <2>1. CASE TakeLease(t)
    BY <2>1 DEF TakeLease
  <2>2. CASE RecoverTurn(t)
    BY <2>2 DEF RecoverTurn, Recover
  <2>3. CASE ForgetJournal(t)
    BY <2>3 DEF ForgetJournal
  <2>4. CASE Admit(t)
    BY <2>4 DEF Admit
  <2>5. CASE RefuseTurn(t)
    BY <2>5 DEF RefuseTurn
  <2>6. CASE DropLeaseEarly(t)
    BY <2>6 DEF DropLeaseEarly
  <2>7. CASE UnbusyEarly(t)
    BY <2>7 DEF UnbusyEarly
  <2>8. CASE Launch(t)
    BY <2>8 DEF Launch
  <2>9. CASE JournalRun(t)
    BY <2>9 DEF JournalRun
  <2>10. CASE EndRun(t)
    BY <2>10 DEF EndRun
  <2>11. CASE AdmitOrphan(t)
    BY <2>11 DEF AdmitOrphan
  <2>12. CASE RecordRun(t)
    BY <2>12 DEF RecordRun
  <2>13. CASE ClearJournal(t)
    BY <2>13 DEF ClearJournal
  <2>14. CASE DropLease(t)
    BY <2>14 DEF DropLease
  <2>15. CASE Unbusy(t)
    BY <2>15 DEF Unbusy
  <2> QED
    BY <1>1, <2>1, <2>2, <2>3, <2>4, <2>5, <2>6, <2>7, <2>8, <2>9, <2>10, <2>11,
       <2>12, <2>13, <2>14, <2>15 DEF TurnStep
<1>2. ASSUME NEW t \in TURN, ClientStep(t) PROVE JournalIsOfARun'
  <2>1. CASE SavePrompt(t)
    BY <2>1 DEF SavePrompt, SavesAll
  <2>2. CASE EndAnswer(t)
    BY <2>2 DEF EndAnswer
  <2>3. CASE SaveTurn(t)
    BY <2>3 DEF SaveTurn, SavesAll
  <2>4. CASE CloseTurn(t)
    BY <2>4 DEF CloseTurn
  <2> QED
    BY <1>2, <2>1, <2>2, <2>3, <2>4 DEF ClientStep
<1>3. ASSUME NEW t \in TURN, Begin(t) PROVE JournalIsOfARun'
  BY <1>3 DEF Begin
<1>4. ASSUME NEW t \in TURN, HangUp(t) PROVE JournalIsOfARun'
  BY <1>4 DEF HangUp
<1>5. ASSUME NEW t \in TURN, OpenTurn(t) PROVE JournalIsOfARun'
  BY <1>5 DEF OpenTurn
<1>6. ASSUME NEW p \in PROC, Delete(p) PROVE JournalIsOfARun'
  BY <1>6 DEF Delete
<1>7. ASSUME NEW p \in PROC, Crash(p) PROVE JournalIsOfARun'
  BY <1>7 DEF Crash, Cuttable
<1>8. ASSUME NEW p \in PROC, StartUp(p) PROVE JournalIsOfARun'
  BY <1>8 DEF StartUp, Startup
<1>9. ASSUME NEW p \in PROC, RecoverAtStart(p) PROVE JournalIsOfARun'
  BY <1>9 DEF RecoverAtStart, Recover, Startup
<1>10. ASSUME NEW p \in PROC, ForgetAtStart(p) PROVE JournalIsOfARun'
  BY <1>10 DEF ForgetAtStart, Startup
<1>11. ASSUME NEW p \in PROC, EndStartUp(p) PROVE JournalIsOfARun'
  BY <1>11 DEF EndStartUp, Startup
<1>12. CASE UNCHANGED vars
  BY <1>12 DEF vars, turnVars, diskVars
<1> QED
  BY <1>1, <1>2, <1>3, <1>4, <1>5, <1>6, <1>7, <1>8, <1>9, <1>10, <1>11, <1>12
  DEF Next, Rest, StartStep

-----------------------------------------------------------------------------
(***************************************************************************)
(* Nothing but a recovery puts an interruption on record, and a recovery   *)
(* finds the journal of a turn that is gone.                               *)
(***************************************************************************)
LEMMA GoneStays == TypeOK /\ [Next]_vars => \A u \in TURN : Gone(u) => Gone(u)'
<1> DEFINE Stays == \A u \in TURN : Gone(u) => Gone(u)'
<1> SUFFICES ASSUME TypeOK, [Next]_vars PROVE Stays
  OBVIOUS
<1> USE TypeParts DEF ControlType, Gone, Go, turnVars
<1>1. ASSUME NEW t \in TURN, TurnStep(t) PROVE Stays
  <2>1. CASE TakeLease(t)
    BY <2>1 DEF TakeLease
  <2>2. CASE RecoverTurn(t)
    BY <2>2 DEF RecoverTurn
  <2>3. CASE ForgetJournal(t)
    BY <2>3 DEF ForgetJournal
  <2>4. CASE Admit(t)
    BY <2>4 DEF Admit
  <2>5. CASE RefuseTurn(t)
    BY <2>5 DEF RefuseTurn
  <2>6. CASE DropLeaseEarly(t)
    BY <2>6 DEF DropLeaseEarly
  <2>7. CASE UnbusyEarly(t)
    BY <2>7 DEF UnbusyEarly
  <2>8. CASE Launch(t)
    BY <2>8 DEF Launch
  <2>9. CASE JournalRun(t)
    BY <2>9 DEF JournalRun
  <2>10. CASE EndRun(t)
    BY <2>10 DEF EndRun
  <2>11. CASE AdmitOrphan(t)
    BY <2>11 DEF AdmitOrphan
  <2>12. CASE RecordRun(t)
    BY <2>12 DEF RecordRun
  <2>13. CASE ClearJournal(t)
    BY <2>13 DEF ClearJournal
  <2>14. CASE DropLease(t)
    BY <2>14 DEF DropLease
  <2>15. CASE Unbusy(t)
    BY <2>15 DEF Unbusy
  <2> QED
    BY <1>1, <2>1, <2>2, <2>3, <2>4, <2>5, <2>6, <2>7, <2>8, <2>9, <2>10, <2>11,
       <2>12, <2>13, <2>14, <2>15 DEF TurnStep
<1>2. ASSUME NEW t \in TURN, ClientStep(t) PROVE Stays
  <2>1. CASE SavePrompt(t)
    BY <2>1 DEF SavePrompt
  <2>2. CASE EndAnswer(t)
    BY <2>2 DEF EndAnswer
  <2>3. CASE SaveTurn(t)
    BY <2>3 DEF SaveTurn
  <2>4. CASE CloseTurn(t)
    BY <2>4 DEF CloseTurn
  <2> QED
    BY <1>2, <2>1, <2>2, <2>3, <2>4 DEF ClientStep
<1>3. ASSUME NEW t \in TURN, Begin(t) PROVE Stays
  BY <1>3 DEF Begin
<1>4. ASSUME NEW t \in TURN, HangUp(t) PROVE Stays
  BY <1>4 DEF HangUp
<1>5. ASSUME NEW t \in TURN, OpenTurn(t) PROVE Stays
  BY <1>5 DEF OpenTurn
<1>6. ASSUME NEW p \in PROC, Delete(p) PROVE Stays
  BY <1>6 DEF Delete
<1>7. ASSUME NEW p \in PROC, Crash(p) PROVE Stays
  BY <1>7 DEF Crash, Cuttable
<1>8. ASSUME NEW p \in PROC, StartUp(p) PROVE Stays
  BY <1>8 DEF StartUp, Startup
<1>9. ASSUME NEW p \in PROC, RecoverAtStart(p) PROVE Stays
  BY <1>9 DEF RecoverAtStart, Startup
<1>10. ASSUME NEW p \in PROC, ForgetAtStart(p) PROVE Stays
  BY <1>10 DEF ForgetAtStart, Startup
<1>11. ASSUME NEW p \in PROC, EndStartUp(p) PROVE Stays
  BY <1>11 DEF EndStartUp, Startup
<1>12. CASE UNCHANGED vars
  BY <1>12 DEF vars, turnVars, diskVars
<1> QED
  BY <1>1, <1>2, <1>3, <1>4, <1>5, <1>6, <1>7, <1>8, <1>9, <1>10, <1>11, <1>12
  DEF Next, Rest, StartStep

\* A turn or a server has the lease to recover what was left behind.
LeasedToRecover ==
    \/ \E t \in TURN : stage[t] = "leased"
    \/ \E p \in PROC : process[p] = "leased"

\* No record but of a recovery says a turn was interrupted.
LEMMA OtherRecords ==
    ASSUME TypeOK, ClientsTurn, [Next]_vars, NEW u \in TURN, NotOnRecord(u),
           ~(journal # NoJournal /\ journal.turn = u /\ LeasedToRecover)
    PROVE  NotOnRecord(u)'
<1> USE TypeParts DEF SessionType
<1>0. \A t \in TURN :
         Interrupted(u) # Ended(t) /\ (Interrupted(u) = Interrupted(t) => t = u)
  BY DEF Interrupted, Ended
<1>1. CASE UNCHANGED <<runs, view>>
  BY <1>1 DEF NotOnRecord, Interrupted
<1>2. CASE Recover /\ LeasedToRecover /\ UNCHANGED view
  <2>1. journal.turn \in TURN /\ journal.turn # u
    BY <1>2 DEF Recover, ControlType, NoJournal
  <2>2. Range(runs') \subseteq Range(runs) \cup {Interrupted(journal.turn)}
    BY <1>2, <2>1, RecordTypes, AppendRange DEF Recover
  <2> QED
    BY <1>0, <1>2, <2>1, <2>2 DEF NotOnRecord, Interrupted
<1>3. ASSUME NEW t \in TURN, RecordRun(t) PROVE NotOnRecord(u)'
  <2>1. CASE Recorded(t, messages, runs)
    <3>1. Range(runs') = Range(runs) \cup {Ended(t)}
      BY <2>1, RecordTypes, AppendRange DEF Recorded
    <3> QED
      BY <1>0, <1>3, <3>1 DEF RecordRun, NotOnRecord, Interrupted
  <2>2. CASE Recorded(t, Front(messages), Front(runs)) /\ CanTake(replaced[t])
    <3>1. Front(runs) \in Seq(Record) /\ Range(Front(runs)) \subseteq Range(runs)
      BY <2>2, FrontRange DEF CanTake
    <3>2. Range(runs') = Range(Front(runs)) \cup {Ended(t)}
      BY <2>2, <3>1, RecordTypes, AppendRange DEF Recorded
    <3> QED
      BY <1>0, <1>3, <3>1, <3>2 DEF RecordRun, NotOnRecord, Interrupted
  <2> QED
    BY <1>1, <1>3, <2>1, <2>2 DEF RecordRun, Exchanges
<1>4. ASSUME NEW t \in TURN, SavePrompt(t) PROVE NotOnRecord(u)'
  <2>1. Home[t] \in CLIENT
    BY <1>4 DEF ClientsTurn, SavePrompt, Go
  <2>2. Interrupted(u) \notin Range(WithPrompt(Base(Home[t]), t).runs)
    BY <2>1 DEF WithPrompt, Base, NotOnRecord
  <2> HIDE DEF SessionType
  <2>3. CASE SavesAll(Home[t], WithPrompt(Base(Home[t]), t))
    BY <2>1, <2>2, <2>3 DEF SavesAll, NotOnRecord, Interrupted, SessionType
  <2> QED
    BY <1>1, <1>4, <2>3 DEF SavePrompt
<1>5. ASSUME NEW t \in TURN, SaveTurn(t) PROVE NotOnRecord(u)'
  <2>1. Home[t] \in CLIENT
    BY <1>5 DEF ClientsTurn, SaveTurn, Go
  <2>2. ASSUME NEW session, session.runs \in Seq(Record),
               Interrupted(u) \notin Range(session.runs)
        PROVE  Interrupted(u) \notin Range(WithRecord(session, t).runs)
    BY <1>0, <2>2, RecordTypes, AppendRange DEF WithRecord
  <2>3. Interrupted(u) \notin Range(WithRecord(Base(Home[t]), t).runs)
    BY <2>1, <2>2 DEF Base, NotOnRecord
  <2>4. Interrupted(u) \notin Range(WithRecord(view[Home[t]], t).runs)
    BY <2>1, <2>2 DEF NotOnRecord
  <2>5. CASE SavesAll(Home[t], WithRecord(Base(Home[t]), t))
    BY <2>1, <2>3, <2>5 DEF SavesAll, NotOnRecord, Interrupted
  <2>6. CASE view' = [view EXCEPT ![Home[t]] = WithRecord(@, t)] /\ UNCHANGED runs
    BY <2>1, <2>4, <2>6 DEF NotOnRecord, Interrupted
  <2> QED
    BY <1>5, <2>5, <2>6 DEF SaveTurn
<1>6. ASSUME NEW t \in TURN, TurnStep(t) PROVE NotOnRecord(u)'
  BY <1>6, <1>1, <1>2, <1>3
  DEF TurnStep, LeasedToRecover, Go, diskVars, TakeLease, RecoverTurn, ForgetJournal,
      Admit, RefuseTurn, DropLeaseEarly, UnbusyEarly, Launch, JournalRun, EndRun,
      AdmitOrphan, ClearJournal, DropLease, Unbusy
<1>7. ASSUME NEW t \in TURN, Begin(t) \/ HangUp(t) \/ OpenTurn(t) \/ ClientStep(t)
      PROVE  NotOnRecord(u)'
  BY <1>7, <1>1, <1>4, <1>5
  DEF Begin, HangUp, OpenTurn, ClientStep, EndAnswer, CloseTurn, diskVars
<1>8. ASSUME NEW p \in PROC, Delete(p) PROVE NotOnRecord(u)'
  BY <1>8 DEF Delete, NotOnRecord, Interrupted, Range
<1>9. ASSUME NEW p \in PROC, Crash(p) \/ StartUp(p) \/ StartStep(p)
      PROVE  NotOnRecord(u)'
  BY <1>9, <1>1, <1>2
  DEF LeasedToRecover, Startup, Crash, StartUp, StartStep, RecoverAtStart,
      ForgetAtStart, EndStartUp, diskVars
<1> QED
  BY <1>1, <1>6, <1>7, <1>8, <1>9 DEF Next, Rest, vars, diskVars

\* A journal found with the lease in hand is that of a turn that is gone.
LEMMA OwnerIsGone ==
    ASSUME TypeOK, LeaseIsHeld, JournalIsOfARun, journal # NoJournal, LeasedToRecover
    PROVE  Gone(journal.turn)
BY SessionAssumption DEF LeasedToRecover, LeaseIsHeld, Holding, JournalIsOfARun, Gone

LEMMA InterruptedNext ==
    TypeOK /\ ClientsTurn /\ LeaseIsHeld /\ JournalIsOfARun /\ InterruptedAreGone
        /\ [Next]_vars => InterruptedAreGone'
<1> SUFFICES ASSUME TypeOK, ClientsTurn, LeaseIsHeld, JournalIsOfARun,
                    InterruptedAreGone, [Next]_vars, NEW u \in TURN, ~Gone(u)'
             PROVE  NotOnRecord(u)'
  BY DEF InterruptedAreGone
<1>1. ~Gone(u)
  BY GoneStays
<1>2. NotOnRecord(u)
  BY <1>1 DEF InterruptedAreGone
<1>3. ~(journal # NoJournal /\ journal.turn = u /\ LeasedToRecover)
  BY <1>1, OwnerIsGone
<1> QED
  BY <1>2, <1>3, OtherRecords

-----------------------------------------------------------------------------
LEMMA RecoveryInvariant == Spec => []RecoveryInv
<1>1. Init => RecoveryInv
  <2> SUFFICES ASSUME Init PROVE RecoveryInv
    OBVIOUS
  <2>1. TypeOK
    BY TypeInit
  <2>2. LeaseIsHeld /\ ClientsTurn /\ JournalIsOfARun
    BY DEF Init, LeaseIsHeld, Holding, ClientsTurn, JournalIsOfARun
  <2>3. InterruptedAreGone
    BY DEF Init, InterruptedAreGone, NotOnRecord, Interrupted, Range
  <2> QED
    BY <2>1, <2>2, <2>3 DEF RecoveryInv
<1>2. RecoveryInv /\ [Next]_vars => RecoveryInv'
  <2> SUFFICES ASSUME RecoveryInv, [Next]_vars PROVE RecoveryInv'
    OBVIOUS
  <2>1. TypeOK'
    <3>1. SessionType' /\ CountType' /\ ControlType'
      BY SessionTypeNext, CountTypeNext, ControlTypeNext, TypeParts DEF RecoveryInv
    <3> QED
      BY <3>1 DEF TypeOK, SessionType, CountType, ControlType
  <2>2. LeaseIsHeld' /\ ClientsTurn'
    BY LeaseNext, ClientsNext DEF RecoveryInv
  <2>3. JournalIsOfARun' /\ InterruptedAreGone'
    BY JournalNext, InterruptedNext DEF RecoveryInv
  <2> QED
    BY <2>1, <2>2, <2>3 DEF RecoveryInv
<1> QED
  BY <1>1, <1>2, PTL DEF Spec

\* The saved session, the journal, the lease and the busy sets keep their types.
THEOREM TypeCorrect == Spec => []TypeOK
<1>1. RecoveryInv => TypeOK
  BY DEF RecoveryInv
<1> QED
  BY <1>1, RecoveryInvariant, PTL

OneHolder == \A t, u \in TURN : stage[t] \in Holding /\ stage[u] \in Holding => t = u

\* Two turns, in whichever processes, never hold the session at once.
THEOREM LeaseIsExclusive == Spec => []OneHolder
<1>1. RecoveryInv => OneHolder
  BY DEF RecoveryInv, LeaseIsHeld, OneHolder
<1> QED
  BY <1>1, RecoveryInvariant, PTL

\* Recovery never takes a turn for dead that a process still works on.
THEOREM NoLiveTurnIsInterrupted == Spec => []LiveTurnsAreNotInterrupted
<1>1. RecoveryInv => LiveTurnsAreNotInterrupted
  BY
  DEF RecoveryInv, InterruptedAreGone, Gone, NotOnRecord, Live,
      LiveTurnsAreNotInterrupted
<1> QED
  BY <1>1, RecoveryInvariant, PTL

-----------------------------------------------------------------------------
(***************************************************************************)
(* The conversation: whoever holds the lease finds its prompt where it put *)
(* it, so that its answer comes right after.                               *)
(***************************************************************************)
FollowIn(ms, regenerations) ==
    \A i \in DOMAIN ms : ms[i].role = "assistant" =>
        /\ i > 1 /\ ms[i - 1].role = "user"
        /\ ms[i].turn \notin regenerations => ms[i - 1] = Prompt(ms[i].turn)
EndsWith(ms, m) == ms # <<>> /\ Last(ms) = m

Regenerations == {t \in TURN : Replacing(t)}
RegenerationsBegan ==
    \A t \in TURN : Replacing(t) => stage[t] # "idle" /\ Home[t] \in SERVER

\* Between these stages the turn's prompt is the last that was said.
Prompted == {"admitted", "launched", "running", "terminal", "answering", "answered"}

AnswersFollow ==
    /\ FollowIn(messages, Regenerations)
    /\ \A c \in CLIENT : FollowIn(view[c].messages, Regenerations)
PromptIsLast ==
    \A t \in TURN :
        /\ exists /\ stage[t] \in Prompted /\ ~Replacing(t) =>
              EndsWith(messages, Prompt(t))
        /\ stage[t] \in {"answering", "answered"} =>
              EndsWith(view[Home[t]].messages, Prompt(t))
NobodyHungUp == hangUps = 0 => \A t \in TURN : stage[t] # "orphaned"
Conversation ==
    RegenerationsBegan /\ NobodyHungUp /\ (hangUps = 0 => AnswersFollow /\ PromptIsLast)

LEMMA FollowMore ==
    ASSUME NEW ms, NEW R, NEW S, R \subseteq S, FollowIn(ms, R)
    PROVE  FollowIn(ms, S)
BY DEF FollowIn

LEMMA PromptEnds ==
    ASSUME NEW ms \in Seq(Message), NEW t \in TURN
    PROVE  EndsWith(Append(ms, Prompt(t)), Prompt(t))
BY RecordTypes DEF EndsWith, Last

LEMMA FollowPrompt ==
    ASSUME NEW ms \in Seq(Message), NEW R, FollowIn(ms, R), NEW t \in TURN
    PROVE  FollowIn(Append(ms, Prompt(t)), R)
<1> DEFINE a == Append(ms, Prompt(t))
<1>1. /\ a \in Seq(Message) /\ Len(a) = Len(ms) + 1 /\ Len(ms) \in Nat
      /\ \A i \in 1..Len(ms) : a[i] = ms[i]
      /\ a[Len(ms) + 1] = Prompt(t)
  BY RecordTypes
<1>2. DOMAIN ms = 1..Len(ms) /\ DOMAIN a = 1..Len(ms) + 1
  BY <1>1
<1> HIDE DEF a
<1>3. Prompt(t).role # "assistant"
  BY DEF Prompt
<1> SUFFICES ASSUME NEW i \in DOMAIN a, a[i].role = "assistant"
             PROVE  /\ i > 1 /\ a[i - 1].role = "user"
                    /\ a[i].turn \notin R => a[i - 1] = Prompt(a[i].turn)
  BY DEF FollowIn, a
<1>4. i \in 1..Len(ms) /\ a[i] = ms[i]
  BY <1>1, <1>2, <1>3
<1>5. /\ i > 1 /\ ms[i - 1].role = "user"
      /\ ms[i].turn \notin R => ms[i - 1] = Prompt(ms[i].turn)
  BY <1>2, <1>4 DEF FollowIn
<1>6. a[i - 1] = ms[i - 1]
  BY <1>1, <1>4, <1>5
<1> QED
  BY <1>4, <1>5, <1>6

LEMMA FollowAnswer ==
    ASSUME NEW ms \in Seq(Message), NEW R, FollowIn(ms, R), NEW t \in TURN,
           ms # <<>>, Last(ms).role = "user", t \notin R => Last(ms) = Prompt(t)
    PROVE  FollowIn(Append(ms, Answer(t)), R)
<1> DEFINE a == Append(ms, Answer(t))
<1>1. /\ a \in Seq(Message) /\ Len(a) = Len(ms) + 1 /\ Len(ms) \in Nat \ {0}
      /\ \A i \in 1..Len(ms) : a[i] = ms[i]
      /\ a[Len(ms) + 1] = Answer(t)
  BY RecordTypes
<1>2. DOMAIN ms = 1..Len(ms) /\ DOMAIN a = 1..Len(ms) + 1
  BY <1>1
<1> HIDE DEF a
<1> SUFFICES ASSUME NEW i \in DOMAIN a, a[i].role = "assistant"
             PROVE  /\ i > 1 /\ a[i - 1].role = "user"
                    /\ a[i].turn \notin R => a[i - 1] = Prompt(a[i].turn)
  BY DEF FollowIn, a
<1>3. CASE i = Len(ms) + 1
  <2>1. i > 1 /\ a[i - 1] = Last(ms)
    BY <1>1, <1>3 DEF Last
  <2>2. a[i].turn = t
    BY <1>1, <1>3 DEF Answer
  <2> QED
    BY <2>1, <2>2
<1>4. CASE i \in 1..Len(ms)
  <2>1. /\ i > 1 /\ ms[i - 1].role = "user"
        /\ ms[i].turn \notin R => ms[i - 1] = Prompt(ms[i].turn)
    BY <1>1, <1>2, <1>4 DEF FollowIn
  <2>2. a[i] = ms[i] /\ a[i - 1] = ms[i - 1]
    BY <1>1, <1>4, <2>1
  <2> QED
    BY <2>1, <2>2
<1> QED
  BY <1>1, <1>2, <1>3, <1>4

LEMMA FollowFront ==
    ASSUME NEW ms \in Seq(Message), NEW R, FollowIn(ms, R), Len(ms) >= 2,
           ms[Len(ms) - 1].role = "user"
    PROVE  /\ Front(ms) \in Seq(Message) /\ FollowIn(Front(ms), R)
           /\ Front(ms) # <<>> /\ Last(Front(ms)).role = "user"
<1>1. Len(ms) \in Nat /\ DOMAIN ms = 1..Len(ms)
  OBVIOUS
<1>2. Front(ms) \in Seq(Message)
  BY FrontRange
<1>3. /\ Len(Front(ms)) = Len(ms) - 1 /\ DOMAIN Front(ms) = 1..Len(ms) - 1
      /\ \A i \in 1..Len(ms) - 1 : Front(ms)[i] = ms[i]
  BY <1>1 DEF Front
<1>4. FollowIn(Front(ms), R)
  <2> SUFFICES ASSUME NEW i \in 1..Len(ms) - 1, ms[i].role = "assistant"
               PROVE  /\ i > 1 /\ Front(ms)[i - 1].role = "user"
                      /\ ms[i].turn \notin R => Front(ms)[i - 1] = Prompt(ms[i].turn)
    BY <1>3 DEF FollowIn
  <2>1. /\ i > 1 /\ ms[i - 1].role = "user"
        /\ ms[i].turn \notin R => ms[i - 1] = Prompt(ms[i].turn)
    BY <1>1 DEF FollowIn
  <2> QED
    BY <1>1, <1>3, <2>1
<1>5. Front(ms) # <<>> /\ Last(Front(ms)).role = "user"
  BY <1>1, <1>3 DEF Last
<1> QED
  BY <1>2, <1>4, <1>5

LEMMA RegenerationsNext ==
    TypeOK /\ RegenerationsBegan /\ [Next]_vars => RegenerationsBegan'
<1> SUFFICES ASSUME TypeOK, RegenerationsBegan, [Next]_vars PROVE RegenerationsBegan'
  OBVIOUS
<1> USE TypeParts DEF ControlType, RegenerationsBegan, Replacing, NoRecord, Go, turnVars
<1>1. ASSUME NEW t \in TURN, TurnStep(t) PROVE RegenerationsBegan'
  <2>1. CASE TakeLease(t)
    BY <2>1 DEF TakeLease
  <2>2. CASE RecoverTurn(t)
    BY <2>2 DEF RecoverTurn
  <2>3. CASE ForgetJournal(t)
    BY <2>3 DEF ForgetJournal
  <2>4. CASE Admit(t)
    BY <2>4 DEF Admit
  <2>5. CASE RefuseTurn(t)
    BY <2>5 DEF RefuseTurn
  <2>6. CASE DropLeaseEarly(t)
    BY <2>6 DEF DropLeaseEarly
  <2>7. CASE UnbusyEarly(t)
    BY <2>7 DEF UnbusyEarly
  <2>8. CASE Launch(t)
    BY <2>8 DEF Launch
  <2>9. CASE JournalRun(t)
    BY <2>9 DEF JournalRun
  <2>10. CASE EndRun(t)
    BY <2>10 DEF EndRun
  <2>11. CASE AdmitOrphan(t)
    BY <2>11 DEF AdmitOrphan
  <2>12. CASE RecordRun(t)
    BY <2>12 DEF RecordRun
  <2>13. CASE ClearJournal(t)
    BY <2>13 DEF ClearJournal
  <2>14. CASE DropLease(t)
    BY <2>14 DEF DropLease
  <2>15. CASE Unbusy(t)
    BY <2>15 DEF Unbusy
  <2> QED
    BY <1>1, <2>1, <2>2, <2>3, <2>4, <2>5, <2>6, <2>7, <2>8, <2>9, <2>10, <2>11,
       <2>12, <2>13, <2>14, <2>15 DEF TurnStep
<1>2. ASSUME NEW t \in TURN, ClientStep(t) PROVE RegenerationsBegan'
  <2>1. CASE SavePrompt(t)
    BY <2>1 DEF SavePrompt
  <2>2. CASE EndAnswer(t)
    BY <2>2 DEF EndAnswer
  <2>3. CASE SaveTurn(t)
    BY <2>3 DEF SaveTurn
  <2>4. CASE CloseTurn(t)
    BY <2>4 DEF CloseTurn
  <2> QED
    BY <1>2, <2>1, <2>2, <2>3, <2>4 DEF ClientStep
<1>3. ASSUME NEW t \in TURN, Begin(t) PROVE RegenerationsBegan'
  BY <1>3 DEF Begin
<1>4. ASSUME NEW t \in TURN, HangUp(t) PROVE RegenerationsBegan'
  BY <1>4 DEF HangUp
<1>5. ASSUME NEW t \in TURN, OpenTurn(t) PROVE RegenerationsBegan'
  BY <1>5 DEF OpenTurn
<1>6. ASSUME NEW p \in PROC, Delete(p) PROVE RegenerationsBegan'
  BY <1>6 DEF Delete
<1>7. ASSUME NEW p \in PROC, Crash(p) PROVE RegenerationsBegan'
  BY <1>7 DEF Crash, Cuttable
<1>8. ASSUME NEW p \in PROC, StartUp(p) PROVE RegenerationsBegan'
  BY <1>8 DEF StartUp, Startup
<1>9. ASSUME NEW p \in PROC, RecoverAtStart(p) PROVE RegenerationsBegan'
  BY <1>9 DEF RecoverAtStart, Startup
<1>10. ASSUME NEW p \in PROC, ForgetAtStart(p) PROVE RegenerationsBegan'
  BY <1>10 DEF ForgetAtStart, Startup
<1>11. ASSUME NEW p \in PROC, EndStartUp(p) PROVE RegenerationsBegan'
  BY <1>11 DEF EndStartUp, Startup
<1>12. CASE UNCHANGED vars
  BY <1>12 DEF vars, turnVars, diskVars
<1> QED
  BY <1>1, <1>2, <1>3, <1>4, <1>5, <1>6, <1>7, <1>8, <1>9, <1>10, <1>11, <1>12
  DEF Next, Rest, StartStep

LEMMA HangUpNext ==
    TypeOK /\ NobodyHungUp /\ [Next]_vars => NobodyHungUp' /\ hangUps <= hangUps'
<1> DEFINE Goal == NobodyHungUp' /\ hangUps <= hangUps'
<1> SUFFICES ASSUME TypeOK, NobodyHungUp, [Next]_vars PROVE Goal
  OBVIOUS
<1> USE TypeParts DEF ControlType, CountType, NobodyHungUp, Go, turnVars, boundVars,
      Fail
<1>1. ASSUME NEW t \in TURN, TurnStep(t) PROVE Goal
  <2>1. CASE TakeLease(t)
    BY <2>1 DEF TakeLease
  <2>2. CASE RecoverTurn(t)
    BY <2>2 DEF RecoverTurn
  <2>3. CASE ForgetJournal(t)
    BY <2>3 DEF ForgetJournal
  <2>4. CASE Admit(t)
    BY <2>4 DEF Admit
  <2>5. CASE RefuseTurn(t)
    BY <2>5 DEF RefuseTurn
  <2>6. CASE DropLeaseEarly(t)
    BY <2>6 DEF DropLeaseEarly
  <2>7. CASE UnbusyEarly(t)
    BY <2>7 DEF UnbusyEarly
  <2>8. CASE Launch(t)
    BY <2>8 DEF Launch
  <2>9. CASE JournalRun(t)
    BY <2>9 DEF JournalRun
  <2>10. CASE EndRun(t)
    BY <2>10 DEF EndRun
  <2>11. CASE AdmitOrphan(t)
    BY <2>11 DEF AdmitOrphan
  <2>12. CASE RecordRun(t)
    BY <2>12 DEF RecordRun
  <2>13. CASE ClearJournal(t)
    BY <2>13 DEF ClearJournal
  <2>14. CASE DropLease(t)
    BY <2>14 DEF DropLease
  <2>15. CASE Unbusy(t)
    BY <2>15 DEF Unbusy
  <2> QED
    BY <1>1, <2>1, <2>2, <2>3, <2>4, <2>5, <2>6, <2>7, <2>8, <2>9, <2>10, <2>11,
       <2>12, <2>13, <2>14, <2>15 DEF TurnStep
<1>2. ASSUME NEW t \in TURN, ClientStep(t) PROVE Goal
  <2>1. CASE SavePrompt(t)
    BY <2>1 DEF SavePrompt
  <2>2. CASE EndAnswer(t)
    BY <2>2 DEF EndAnswer
  <2>3. CASE SaveTurn(t)
    BY <2>3 DEF SaveTurn
  <2>4. CASE CloseTurn(t)
    BY <2>4 DEF CloseTurn
  <2> QED
    BY <1>2, <2>1, <2>2, <2>3, <2>4 DEF ClientStep
<1>3. ASSUME NEW t \in TURN, Begin(t) PROVE Goal
  BY <1>3 DEF Begin
<1>4. ASSUME NEW t \in TURN, HangUp(t) PROVE Goal
  BY <1>4 DEF HangUp
<1>5. ASSUME NEW t \in TURN, OpenTurn(t) PROVE Goal
  BY <1>5 DEF OpenTurn
<1>6. ASSUME NEW p \in PROC, Delete(p) PROVE Goal
  BY <1>6 DEF Delete
<1>7. ASSUME NEW p \in PROC, Crash(p) PROVE Goal
  BY <1>7 DEF Crash, Cuttable
<1>8. ASSUME NEW p \in PROC, StartUp(p) PROVE Goal
  BY <1>8 DEF StartUp, Startup
<1>9. ASSUME NEW p \in PROC, RecoverAtStart(p) PROVE Goal
  BY <1>9 DEF RecoverAtStart, Startup
<1>10. ASSUME NEW p \in PROC, ForgetAtStart(p) PROVE Goal
  BY <1>10 DEF ForgetAtStart, Startup
<1>11. ASSUME NEW p \in PROC, EndStartUp(p) PROVE Goal
  BY <1>11 DEF EndStartUp, Startup
<1>12. CASE UNCHANGED vars
  BY <1>12 DEF vars, turnVars, diskVars
<1> QED
  BY <1>1, <1>2, <1>3, <1>4, <1>5, <1>6, <1>7, <1>8, <1>9, <1>10, <1>11, <1>12
  DEF Next, Rest, StartStep

\* Regenerations are never taken back.
LEMMA RegenerationsStay ==
    TypeOK /\ RegenerationsBegan /\ [Next]_vars =>
        Regenerations \subseteq Regenerations'
<1> DEFINE Goal == \A t \in TURN : Replacing(t) => Replacing(t)'
<1> SUFFICES ASSUME TypeOK, RegenerationsBegan, [Next]_vars PROVE Goal
  BY DEF Regenerations
<1> USE TypeParts DEF ControlType, RegenerationsBegan, Replacing, NoRecord, Go, turnVars
<1>1. ASSUME NEW t \in TURN, TurnStep(t) PROVE Goal
  <2>1. CASE TakeLease(t)
    BY <2>1 DEF TakeLease
  <2>2. CASE RecoverTurn(t)
    BY <2>2 DEF RecoverTurn
  <2>3. CASE ForgetJournal(t)
    BY <2>3 DEF ForgetJournal
  <2>4. CASE Admit(t)
    BY <2>4 DEF Admit
  <2>5. CASE RefuseTurn(t)
    BY <2>5 DEF RefuseTurn
  <2>6. CASE DropLeaseEarly(t)
    BY <2>6 DEF DropLeaseEarly
  <2>7. CASE UnbusyEarly(t)
    BY <2>7 DEF UnbusyEarly
  <2>8. CASE Launch(t)
    BY <2>8 DEF Launch
  <2>9. CASE JournalRun(t)
    BY <2>9 DEF JournalRun
  <2>10. CASE EndRun(t)
    BY <2>10 DEF EndRun
  <2>11. CASE AdmitOrphan(t)
    BY <2>11 DEF AdmitOrphan
  <2>12. CASE RecordRun(t)
    BY <2>12 DEF RecordRun
  <2>13. CASE ClearJournal(t)
    BY <2>13 DEF ClearJournal
  <2>14. CASE DropLease(t)
    BY <2>14 DEF DropLease
  <2>15. CASE Unbusy(t)
    BY <2>15 DEF Unbusy
  <2> QED
    BY <1>1, <2>1, <2>2, <2>3, <2>4, <2>5, <2>6, <2>7, <2>8, <2>9, <2>10, <2>11,
       <2>12, <2>13, <2>14, <2>15 DEF TurnStep
<1>2. ASSUME NEW t \in TURN, ClientStep(t) PROVE Goal
  <2>1. CASE SavePrompt(t)
    BY <2>1 DEF SavePrompt
  <2>2. CASE EndAnswer(t)
    BY <2>2 DEF EndAnswer
  <2>3. CASE SaveTurn(t)
    BY <2>3 DEF SaveTurn
  <2>4. CASE CloseTurn(t)
    BY <2>4 DEF CloseTurn
  <2> QED
    BY <1>2, <2>1, <2>2, <2>3, <2>4 DEF ClientStep
<1>3. ASSUME NEW t \in TURN, Begin(t) PROVE Goal
  BY <1>3 DEF Begin
<1>4. ASSUME NEW t \in TURN, HangUp(t) PROVE Goal
  BY <1>4 DEF HangUp
<1>5. ASSUME NEW t \in TURN, OpenTurn(t) PROVE Goal
  BY <1>5 DEF OpenTurn
<1>6. ASSUME NEW p \in PROC, Delete(p) PROVE Goal
  BY <1>6 DEF Delete
<1>7. ASSUME NEW p \in PROC, Crash(p) PROVE Goal
  BY <1>7 DEF Crash, Cuttable
<1>8. ASSUME NEW p \in PROC, StartUp(p) PROVE Goal
  BY <1>8 DEF StartUp, Startup
<1>9. ASSUME NEW p \in PROC, RecoverAtStart(p) PROVE Goal
  BY <1>9 DEF RecoverAtStart, Startup
<1>10. ASSUME NEW p \in PROC, ForgetAtStart(p) PROVE Goal
  BY <1>10 DEF ForgetAtStart, Startup
<1>11. ASSUME NEW p \in PROC, EndStartUp(p) PROVE Goal
  BY <1>11 DEF EndStartUp, Startup
<1>12. CASE UNCHANGED vars
  BY <1>12 DEF vars, turnVars, diskVars
<1> QED
  BY <1>1, <1>2, <1>3, <1>4, <1>5, <1>6, <1>7, <1>8, <1>9, <1>10, <1>11, <1>12
  DEF Next, Rest, StartStep

\* The prompt of the turn that holds the lease stays where it is.
LEMMA PromptNext ==
    TypeOK /\ LeaseIsHeld /\ ClientsTurn /\ RegenerationsBegan /\ PromptIsLast
        /\ [Next]_vars /\ (\A t \in TURN : stage[t] # "orphaned") => PromptIsLast'
<1> SUFFICES ASSUME TypeOK, LeaseIsHeld, ClientsTurn, RegenerationsBegan, PromptIsLast,
                    [Next]_vars, \A t \in TURN : stage[t] # "orphaned"
             PROVE  PromptIsLast'
  OBVIOUS
<1> USE TypeParts DEF ControlType, LeaseIsHeld, Holding, Prompted, PromptIsLast,
        EndsWith, Prompt, Replacing, NoRecord, Go, turnVars, diskVars
<1>1. ASSUME NEW t \in TURN, TurnStep(t) PROVE PromptIsLast'
  <2>1. CASE TakeLease(t)
    BY <2>1 DEF TakeLease
  <2>2. CASE RecoverTurn(t)
    BY <2>2 DEF RecoverTurn, Recover
  <2>3. CASE ForgetJournal(t)
    BY <2>3 DEF ForgetJournal
  <2>4. CASE Admit(t)
    <3>0. EndsWith(Append(messages, Prompt(t)), Prompt(t))
      BY PromptEnds DEF SessionType
    <3>1. CASE Replacing(t)
      BY <2>4, <3>1 DEF Admit, Admitted
    <3>2. CASE ~Replacing(t)
      BY <2>4, <3>0, <3>2 DEF Admit, Admitted
    <3> QED
      BY <3>1, <3>2
  <2>5. CASE RefuseTurn(t)
    BY <2>5 DEF RefuseTurn
  <2>6. CASE DropLeaseEarly(t)
    BY <2>6 DEF DropLeaseEarly
  <2>7. CASE UnbusyEarly(t)
    BY <2>7 DEF UnbusyEarly
  <2>8. CASE Launch(t)
    BY <2>8 DEF Launch
  <2>9. CASE JournalRun(t)
    BY <2>9 DEF JournalRun
  <2>10. CASE EndRun(t)
    BY <2>10 DEF EndRun
  <2>11. CASE AdmitOrphan(t)
    BY <2>11 DEF AdmitOrphan, Admitted
  <2>12. CASE RecordRun(t)
    BY <2>12 DEF RecordRun
  <2>13. CASE ClearJournal(t)
    BY <2>13 DEF ClearJournal
  <2>14. CASE DropLease(t)
    BY <2>14 DEF DropLease
  <2>15. CASE Unbusy(t)
    BY <2>15 DEF Unbusy
  <2> QED
    BY <1>1, <2>1, <2>2, <2>3, <2>4, <2>5, <2>6, <2>7, <2>8, <2>9, <2>10, <2>11,
       <2>12, <2>13, <2>14, <2>15 DEF TurnStep
<1>2. ASSUME NEW t \in TURN, ClientStep(t) PROVE PromptIsLast'
  <2>1. CASE SavePrompt(t)
    <3>1. CASE SavesAll(Home[t], WithPrompt(Base(Home[t]), t))
      <4>1. Home[t] \in CLIENT
        BY <2>1 DEF ClientsTurn, SavePrompt
      <4>2. Base(Home[t]).messages \in Seq(Message)
        BY <4>1 DEF Base, SessionType
      <4>3. /\ EndsWith(messages, Prompt(t))'
            /\ EndsWith(view[Home[t]].messages, Prompt(t))'
        BY <3>1, <4>1, <4>2, PromptEnds DEF SavesAll, WithPrompt, SessionType
      <4> QED
        BY <2>1, <4>3 DEF SavePrompt
    <3> QED
      BY <2>1, <3>1 DEF SavePrompt
  <2>2. CASE EndAnswer(t)
    BY <2>2 DEF EndAnswer
  <2>3. CASE SaveTurn(t)
    BY <2>3 DEF SaveTurn, SavesAll, ClientsTurn
  <2>4. CASE CloseTurn(t)
    BY <2>4 DEF CloseTurn
  <2> QED
    BY <1>2, <2>1, <2>2, <2>3, <2>4 DEF ClientStep
<1>3. ASSUME NEW t \in TURN, Begin(t) PROVE PromptIsLast'
  BY <1>3 DEF Begin
<1>4. ASSUME NEW t \in TURN, HangUp(t) PROVE PromptIsLast'
  BY <1>4 DEF HangUp
<1>5. ASSUME NEW t \in TURN, OpenTurn(t) PROVE PromptIsLast'
  BY <1>5 DEF OpenTurn
<1>6. ASSUME NEW p \in PROC, Delete(p) PROVE PromptIsLast'
  BY <1>6 DEF Delete
<1>7. ASSUME NEW p \in PROC, Crash(p) PROVE PromptIsLast'
  BY <1>7 DEF Crash, Cuttable
<1>8. ASSUME NEW p \in PROC, StartUp(p) PROVE PromptIsLast'
  BY <1>8 DEF StartUp, Startup
<1>9. ASSUME NEW p \in PROC, RecoverAtStart(p) PROVE PromptIsLast'
  BY <1>9 DEF RecoverAtStart, Recover, Startup
<1>10. ASSUME NEW p \in PROC, ForgetAtStart(p) PROVE PromptIsLast'
  BY <1>10 DEF ForgetAtStart, Startup
<1>11. ASSUME NEW p \in PROC, EndStartUp(p) PROVE PromptIsLast'
  BY <1>11 DEF EndStartUp, Startup
<1>12. CASE UNCHANGED vars
  BY <1>12 DEF vars, turnVars, diskVars
<1> QED
  BY <1>1, <1>2, <1>3, <1>4, <1>5, <1>6, <1>7, <1>8, <1>9, <1>10, <1>11, <1>12
  DEF Next, Rest, StartStep

\* Every answer goes right after its prompt, on disk and as clients hold it.
LEMMA AnswersNext ==
    TypeOK /\ ClientsTurn /\ RegenerationsBegan /\ PromptIsLast /\ AnswersFollow
        /\ [Next]_vars => AnswersFollow'
<1> SUFFICES ASSUME TypeOK, ClientsTurn, RegenerationsBegan, PromptIsLast,
                    AnswersFollow, [Next]_vars
             PROVE  AnswersFollow'
  OBVIOUS
<1>0. Regenerations \subseteq Regenerations'
  BY RegenerationsStay
<1> DEFINE Fine(ms) == FollowIn(ms, Regenerations')
<1>1. Fine(messages) /\ \A c \in CLIENT : Fine(view[c].messages)
  BY <1>0, FollowMore DEF AnswersFollow
<1> USE TypeParts DEF SessionType
<1> HIDE DEF Fine
<1>2. ASSUME NEW ms, Fine(ms), messages' = ms, UNCHANGED view PROVE AnswersFollow'
  BY <1>1, <1>2 DEF AnswersFollow, Fine
<1>3. CASE UNCHANGED <<messages, view>>
  BY <1>1, <1>2, <1>3
<1>4. ASSUME NEW t \in TURN, Admitted(t) \/ UNCHANGED messages, UNCHANGED view
      PROVE  AnswersFollow'
  <2>1. Fine(Append(messages, Prompt(t)))
    BY <1>1, FollowPrompt DEF Fine
  <2> QED
    BY <1>2, <1>3, <1>4, <2>1 DEF Admitted
<1>5. ASSUME NEW t \in TURN, RecordRun(t) PROVE AnswersFollow'
  <2>1. ASSUME exists, ~Replacing(t) PROVE Fine(Append(messages, Answer(t)))
    <3>1. EndsWith(messages, Prompt(t))
      BY <1>5, <2>1 DEF PromptIsLast, Prompted, RecordRun, Go
    <3> QED
      BY <1>1, <3>1, FollowAnswer DEF Fine, EndsWith, Prompt
  <2>2. ASSUME CanTake(replaced[t]), Replacing(t)
        PROVE  Fine(Append(Front(messages), Answer(t))) /\ Fine(Front(messages))
    <3>1. /\ Front(messages) \in Seq(Message) /\ Fine(Front(messages))
          /\ Front(messages) # <<>> /\ Last(Front(messages)).role = "user"
      BY <1>1, <2>2, FollowFront DEF Fine, CanTake
    <3>2. t \in Regenerations'
      BY <1>0, <2>2 DEF Regenerations
    <3> QED
      BY <3>1, <3>2, FollowAnswer DEF Fine
  <2> QED
    BY <1>2, <1>3, <1>5, <1>1, <2>1, <2>2 DEF RecordRun, Recorded, Exchanges
<1>6. ASSUME NEW t \in TURN, NEW session, Fine(session.messages),
             SavesAll(Home[t], session), Home[t] \in CLIENT
      PROVE  AnswersFollow'
  BY <1>1, <1>6 DEF SavesAll, AnswersFollow, Fine
<1>7. ASSUME NEW t \in TURN, SavePrompt(t) PROVE AnswersFollow'
  <2>1. Home[t] \in CLIENT
    BY <1>7 DEF ClientsTurn, SavePrompt, Go
  <2>2. Fine(WithPrompt(Base(Home[t]), t).messages)
    BY <1>1, <2>1, FollowPrompt DEF WithPrompt, Base, Fine
  <2> QED
    BY <1>3, <1>6, <1>7, <2>1, <2>2 DEF SavePrompt
<1>8. ASSUME NEW t \in TURN, SaveTurn(t) PROVE AnswersFollow'
  <2>1. Home[t] \in CLIENT /\ ~Replacing(t) /\ stage[t] = "answered"
    BY <1>8 DEF ClientsTurn, RegenerationsBegan, SERVER, SaveTurn, Go
  <2>2. ASSUME NEW session, session.messages \in Seq(Message), Fine(session.messages),
               EndsWith(session.messages, Prompt(t))
        PROVE  Fine(WithRecord(session, t).messages)
    BY <2>2, FollowAnswer DEF WithRecord, Fine, EndsWith, Prompt
  <2>3. Fine(WithRecord(Base(Home[t]), t).messages)
    BY <1>1, <2>1, <2>2 DEF Base, PromptIsLast, Prompted
  <2>4. Fine(WithRecord(view[Home[t]], t).messages)
    BY <1>1, <2>1, <2>2 DEF PromptIsLast
  <2>5. CASE SavesAll(Home[t], WithRecord(Base(Home[t]), t))
    BY <1>6, <2>1, <2>3, <2>5
  <2>6. CASE view' = [view EXCEPT ![Home[t]] = WithRecord(@, t)] /\ UNCHANGED messages
    BY <1>1, <2>1, <2>4, <2>6 DEF AnswersFollow, Fine
  <2> QED
    BY <1>8, <2>5, <2>6 DEF SaveTurn
<1>9. ASSUME NEW t \in TURN, TurnStep(t) PROVE AnswersFollow'
  BY <1>9, <1>3, <1>4, <1>5
  DEF TurnStep, diskVars, Recover, TakeLease, RecoverTurn, ForgetJournal, Admit,
      RefuseTurn, DropLeaseEarly, UnbusyEarly, Launch, JournalRun, EndRun,
      AdmitOrphan, ClearJournal, DropLease, Unbusy
<1>10. ASSUME NEW t \in TURN, Begin(t) \/ HangUp(t) \/ OpenTurn(t) \/ ClientStep(t)
       PROVE  AnswersFollow'
  BY <1>10, <1>3, <1>7, <1>8
  DEF Begin, HangUp, OpenTurn, ClientStep, EndAnswer, CloseTurn, diskVars
<1>11. ASSUME NEW p \in PROC, Delete(p) PROVE AnswersFollow'
  <2>1. Fine(<<>>)
    BY DEF Fine, FollowIn
  <2> QED
    BY <1>2, <1>11, <2>1 DEF Delete
<1>12. ASSUME NEW p \in PROC, Crash(p) \/ StartUp(p) \/ StartStep(p)
       PROVE  AnswersFollow'
  BY <1>12, <1>3
  DEF Crash, StartUp, StartStep, RecoverAtStart, ForgetAtStart, EndStartUp, Recover,
      diskVars
<1> QED
  BY <1>3, <1>9, <1>10, <1>11, <1>12 DEF Next, Rest, vars, diskVars

LEMMA ConversationInvariant == Spec => []Conversation
<1>1. Init => Conversation
  BY DEF Init, Conversation, RegenerationsBegan, Replacing, NobodyHungUp, AnswersFollow,
         PromptIsLast, Prompted, FollowIn
<1>2. RecoveryInv /\ Conversation /\ [Next]_vars => Conversation'
  <2> SUFFICES ASSUME RecoveryInv, Conversation, [Next]_vars PROVE Conversation'
    OBVIOUS
  <2>1. RegenerationsBegan'
    BY RegenerationsNext DEF RecoveryInv, Conversation
  <2>2. NobodyHungUp' /\ (hangUps' = 0 => hangUps = 0)
    BY HangUpNext, TypeParts DEF RecoveryInv, Conversation, CountType
  <2>3. ASSUME hangUps' = 0 PROVE AnswersFollow' /\ PromptIsLast'
    <3>1. AnswersFollow /\ PromptIsLast /\ \A t \in TURN : stage[t] # "orphaned"
      BY <2>2, <2>3 DEF Conversation, NobodyHungUp
    <3> QED
      BY <3>1, AnswersNext, PromptNext DEF RecoveryInv, Conversation
  <2> QED
    BY <2>1, <2>2, <2>3 DEF Conversation
<1> QED
  BY <1>1, <1>2, RecoveryInvariant, PTL DEF Spec

\* An answer comes right after the prompt it answers, whichever processes
\* take turns, unless a client hung up.
THEOREM AnswersComeAfterPrompts == Spec => []AnswersFollowTheirPrompts
<1>1. Conversation => AnswersFollowTheirPrompts
  <2> SUFFICES ASSUME AnswersFollow PROVE hangUps = 0 => AnswersFollowTheirPrompts
    BY DEF Conversation, AnswersFollowTheirPrompts
  <2> QED
    BY DEF AnswersFollow, FollowIn, AnswersFollowTheirPrompts, Regenerations
<1> QED
  BY <1>1, ConversationInvariant, PTL

-----------------------------------------------------------------------------
(***************************************************************************)
(* What is on record of a turn: its end once at most, and an interruption  *)
(* once for each process that died with the journal in place.              *)
(***************************************************************************)
At(s, r) == {i \in DOMAIN s : s[i] = r}
Count(s, r) == Cardinality(At(s, r))

LEMMA PlacesAreFinite ==
    ASSUME NEW S, NEW s \in Seq(S), NEW W, W \subseteq DOMAIN s
    PROVE  IsFiniteSet(W) /\ Cardinality(W) \in Nat
<1>1. DOMAIN s = 1..Len(s) /\ Len(s) \in Nat
  OBVIOUS
<1>2. IsFiniteSet(1..Len(s))
  BY <1>1, FS_Interval
<1>3. IsFiniteSet(W)
  BY <1>1, <1>2, FS_Subset
<1> QED
  BY <1>3, FS_CardinalityType

LEMMA CountIsNatural ==
    ASSUME NEW S, NEW s \in Seq(S), NEW r
    PROVE  IsFiniteSet(At(s, r)) /\ Count(s, r) \in Nat
<1>1. At(s, r) \subseteq DOMAIN s
  BY DEF At
<1> QED
  BY <1>1, PlacesAreFinite DEF Count

LEMMA CountAppend ==
    ASSUME NEW S, NEW s \in Seq(S), NEW x \in S, NEW r
    PROVE  Count(Append(s, x), r) = Count(s, r) + (IF x = r THEN 1 ELSE 0)
<1> DEFINE a == Append(s, x)
<1>1. /\ a \in Seq(S) /\ Len(a) = Len(s) + 1 /\ Len(s) \in Nat
      /\ \A i \in 1..Len(s) : a[i] = s[i]
      /\ a[Len(s) + 1] = x
      /\ DOMAIN s = 1..Len(s) /\ DOMAIN a = 1..Len(a)
  OBVIOUS
<1> HIDE DEF a
<1>2. DOMAIN a = DOMAIN s \cup {Len(s) + 1} /\ Len(s) + 1 \notin DOMAIN s
  BY <1>1
<1>3. CASE x = r
  <2>1. At(a, r) = At(s, r) \cup {Len(s) + 1} /\ Len(s) + 1 \notin At(s, r)
    BY <1>1, <1>2, <1>3 DEF At
  <2>2. IsFiniteSet(At(s, r)) /\ Count(s, r) \in Nat
    BY CountIsNatural
  <2> QED
    BY <1>3, <2>1, <2>2, FS_AddElement DEF Count, a
<1>4. CASE x # r
  <2>1. At(a, r) = At(s, r)
    BY <1>1, <1>2, <1>4 DEF At
  <2>2. Count(s, r) \in Nat
    BY CountIsNatural
  <2> QED
    BY <1>4, <2>1, <2>2 DEF Count, a
<1> QED
  BY <1>3, <1>4

LEMMA CountFront ==
    ASSUME NEW S, NEW s \in Seq(S), s # <<>>, NEW r
    PROVE  Count(Front(s), r) <= Count(s, r)
<1>1. Len(s) \in Nat \ {0} /\ DOMAIN s = 1..Len(s)
  OBVIOUS
<1>2. Front(s) = [i \in 1..Len(s) - 1 |-> s[i]]
  BY <1>1 DEF Front
<1>3. At(Front(s), r) \subseteq At(s, r)
  BY <1>1, <1>2 DEF At
<1> QED
  BY <1>3, CountIsNatural, FS_Subset DEF Count

LEMMA CountNone == ASSUME NEW r PROVE Count(<<>>, r) = 0
<1>1. At(<<>>, r) = {}
  BY DEF At
<1> QED
  BY <1>1, FS_EmptySet DEF Count

\* How often a turn may be on record: as ended once it has been recorded, as
\* interrupted once it was cut, and again for each death in a recovery of it.
Unrecorded == {"idle", "busy", "leased", "recovering", "recovered", "refused",
               "unleasedEarly", "admitted", "denied", "orphaned", "launched", "running",
               "terminal", "asked", "answering", "answered"}
Recovering ==
    \/ \E t \in TURN : stage[t] = "recovering"
    \/ \E p \in PROC : process[p] = "recovered"
Owed(t) == journal # NoJournal /\ journal.turn = t /\ ~Recovering

mayEnd == [t \in TURN |-> IF stage[t] \in Unrecorded THEN 0 ELSE 1]
mayInterrupt == [t \in TURN |-> IF stage[t] # "cut" THEN 0
                                ELSE IF Owed(t) THEN crashes - 1 ELSE crashes]
FitsIn(s, ended, interrupted) ==
    \A t \in TURN : /\ Count(s, Ended(t)) <= ended[t]
                    /\ Count(s, Interrupted(t)) <= interrupted[t]
RecordsFit ==
    /\ FitsIn(runs, mayEnd, mayInterrupt)
    /\ \A c \in CLIENT : FitsIn(view[c].runs, mayEnd, mayInterrupt)

LEMMA LimitTypes ==
    ASSUME TypeOK
    PROVE  /\ \A t \in TURN : mayEnd[t] \in Nat /\ mayInterrupt[t] \in Int
           /\ mayEnd \in [TURN -> Nat] /\ mayInterrupt \in [TURN -> Int]
BY DEF TypeOK, mayEnd, mayInterrupt

LEMMA FitsMore ==
    ASSUME NEW s \in Seq(Record), NEW e \in [TURN -> Nat], NEW i \in [TURN -> Int],
           FitsIn(s, e, i), NEW e2 \in [TURN -> Nat], NEW i2 \in [TURN -> Int],
           \A t \in TURN : e[t] <= e2[t] /\ i[t] <= i2[t]
    PROVE  FitsIn(s, e2, i2)
<1>1. \A t \in TURN : Count(s, Ended(t)) \in Nat /\ Count(s, Interrupted(t)) \in Nat
  BY CountIsNatural
<1> QED
  BY <1>1 DEF FitsIn

LEMMA FitsLess ==
    ASSUME NEW s \in Seq(Record), NEW e \in [TURN -> Nat], NEW i \in [TURN -> Int],
           FitsIn(s, e, i), s # <<>>
    PROVE  Front(s) \in Seq(Record) /\ FitsIn(Front(s), e, i)
<1>1. Front(s) \in Seq(Record)
  BY FrontRange
<1>2. \A r : Count(Front(s), r) <= Count(s, r)
  BY CountFront
<1>3. \A t \in TURN : /\ Count(s, Ended(t)) \in Nat /\ Count(s, Interrupted(t)) \in Nat
                      /\ Count(Front(s), Ended(t)) \in Nat
                      /\ Count(Front(s), Interrupted(t)) \in Nat
  BY <1>1, CountIsNatural
<1> QED
  BY <1>1, <1>2, <1>3 DEF FitsIn

LEMMA FitsEnd ==
    ASSUME NEW s \in Seq(Record), NEW e \in [TURN -> Nat], NEW i \in [TURN -> Int],
           FitsIn(s, e, i), NEW e2 \in [TURN -> Nat], NEW i2 \in [TURN -> Int],
           \A t \in TURN : e[t] <= e2[t] /\ i[t] <= i2[t],
           NEW u \in TURN, e[u] + 1 <= e2[u]
    PROVE  FitsIn(Append(s, Ended(u)), e2, i2)
<1>1. ASSUME NEW t \in TURN
      PROVE  /\ Ended(u) # Interrupted(t) /\ (Ended(u) = Ended(t) => t = u)
             /\ Ended(u) \in Record
             /\ Count(s, Ended(t)) \in Nat /\ Count(s, Interrupted(t)) \in Nat
             /\ Count(Append(s, Ended(u)), Ended(t))
                    = Count(s, Ended(t)) + (IF Ended(u) = Ended(t) THEN 1 ELSE 0)
             /\ Count(Append(s, Ended(u)), Interrupted(t)) = Count(s, Interrupted(t))
  <2>1. Ended(u) # Interrupted(t) /\ (Ended(u) = Ended(t) => t = u)
    BY DEF Ended, Interrupted
  <2>2. Ended(u) \in Record
    BY RecordTypes
  <2>3. Count(s, Ended(t)) \in Nat /\ Count(s, Interrupted(t)) \in Nat
    BY CountIsNatural
  <2>4. Count(Append(s, Ended(u)), Ended(t))
            = Count(s, Ended(t)) + (IF Ended(u) = Ended(t) THEN 1 ELSE 0)
    BY <2>2, CountAppend
  <2>5. Count(Append(s, Ended(u)), Interrupted(t))
            = Count(s, Interrupted(t)) + (IF Ended(u) = Interrupted(t) THEN 1 ELSE 0)
    BY <2>2, CountAppend
  <2> QED
    BY <2>1, <2>2, <2>3, <2>4, <2>5
<1>2. ASSUME NEW t \in TURN
      PROVE  /\ Count(Append(s, Ended(u)), Ended(t)) <= e2[t]
             /\ Count(Append(s, Ended(u)), Interrupted(t)) <= i2[t]
  <2>1. /\ Count(s, Ended(t)) <= e[t] /\ Count(s, Interrupted(t)) <= i[t]
        /\ e[t] \in Nat /\ i[t] \in Int /\ e2[t] \in Nat /\ i2[t] \in Int
        /\ e[t] <= e2[t] /\ i[t] <= i2[t]
    BY DEF FitsIn
  <2>2. CASE t = u
    BY <1>1, <2>1, <2>2
  <2>3. CASE t # u
    BY <1>1, <2>1, <2>3
  <2> QED
    BY <2>2, <2>3
<1> QED
  BY <1>2 DEF FitsIn

LEMMA FitsInterruption ==
    ASSUME NEW s \in Seq(Record), NEW e \in [TURN -> Nat], NEW i \in [TURN -> Int],
           FitsIn(s, e, i), NEW e2 \in [TURN -> Nat], NEW i2 \in [TURN -> Int],
           \A t \in TURN : e[t] <= e2[t] /\ i[t] <= i2[t],
           NEW u \in TURN, i[u] + 1 <= i2[u]
    PROVE  FitsIn(Append(s, Interrupted(u)), e2, i2)
<1>1. ASSUME NEW t \in TURN
      PROVE  /\ Interrupted(u) = Interrupted(t) => t = u
             /\ Count(s, Ended(t)) \in Nat /\ Count(s, Interrupted(t)) \in Nat
             /\ Count(Append(s, Interrupted(u)), Interrupted(t))
                   = Count(s, Interrupted(t)) + (IF Interrupted(u) = Interrupted(t) THEN 1 ELSE 0)
             /\ Count(Append(s, Interrupted(u)), Ended(t)) = Count(s, Ended(t))
  <2>1. Interrupted(u) # Ended(t) /\ (Interrupted(u) = Interrupted(t) => t = u)
    BY DEF Ended, Interrupted
  <2>2. Interrupted(u) \in Record
    BY RecordTypes
  <2>3. Count(s, Ended(t)) \in Nat /\ Count(s, Interrupted(t)) \in Nat
    BY CountIsNatural
  <2>4. Count(Append(s, Interrupted(u)), Interrupted(t))
            = Count(s, Interrupted(t)) + (IF Interrupted(u) = Interrupted(t) THEN 1 ELSE 0)
    BY <2>2, CountAppend
  <2>5. Count(Append(s, Interrupted(u)), Ended(t))
            = Count(s, Ended(t)) + (IF Interrupted(u) = Ended(t) THEN 1 ELSE 0)
    BY <2>2, CountAppend
  <2> QED
    BY <2>1, <2>3, <2>4, <2>5
<1>2. ASSUME NEW t \in TURN
      PROVE  /\ Count(Append(s, Interrupted(u)), Ended(t)) <= e2[t]
             /\ Count(Append(s, Interrupted(u)), Interrupted(t)) <= i2[t]
  <2>1. /\ Count(s, Ended(t)) <= e[t] /\ Count(s, Interrupted(t)) <= i[t]
        /\ e[t] \in Nat /\ i[t] \in Int /\ e2[t] \in Nat /\ i2[t] \in Int
        /\ e[t] <= e2[t] /\ i[t] <= i2[t]
    BY DEF FitsIn
  <2>2. CASE t = u
    BY <1>1, <2>1, <2>2
  <2>3. CASE t # u
    BY <1>1, <2>1, <2>3
  <2> QED
    BY <2>2, <2>3
<1> QED
  BY <1>2 DEF FitsIn

\* What was recorded stays so, and it takes a death to be cut, or to owe a
\* recovery again.
LEMMA RecordedStays == TypeOK /\ [Next]_vars =>
    \A u \in TURN : /\ stage[u] \notin Unrecorded => stage'[u] \notin Unrecorded
                    /\ stage[u] = "cut" => stage'[u] = "cut"
<1> DEFINE Stays == \A u \in TURN : /\ stage[u] \notin Unrecorded => stage'[u] \notin Unrecorded
                                    /\ stage[u] = "cut" => stage'[u] = "cut"
<1> SUFFICES ASSUME TypeOK, [Next]_vars PROVE Stays
  OBVIOUS
<1> USE TypeParts DEF ControlType, Unrecorded, Go, turnVars
<1>1. ASSUME NEW t \in TURN, TurnStep(t) PROVE Stays
  <2>1. CASE TakeLease(t)
    BY <2>1 DEF TakeLease
  <2>2. CASE RecoverTurn(t)
    BY <2>2 DEF RecoverTurn
  <2>3. CASE ForgetJournal(t)
    BY <2>3 DEF ForgetJournal
  <2>4. CASE Admit(t)
    BY <2>4 DEF Admit
  <2>5. CASE RefuseTurn(t)
    BY <2>5 DEF RefuseTurn
  <2>6. CASE DropLeaseEarly(t)
    BY <2>6 DEF DropLeaseEarly
  <2>7. CASE UnbusyEarly(t)
    BY <2>7 DEF UnbusyEarly
  <2>8. CASE Launch(t)
    BY <2>8 DEF Launch
  <2>9. CASE JournalRun(t)
    BY <2>9 DEF JournalRun
  <2>10. CASE EndRun(t)
    BY <2>10 DEF EndRun
  <2>11. CASE AdmitOrphan(t)
    BY <2>11 DEF AdmitOrphan
  <2>12. CASE RecordRun(t)
    BY <2>12 DEF RecordRun
  <2>13. CASE ClearJournal(t)
    BY <2>13 DEF ClearJournal
  <2>14. CASE DropLease(t)
    BY <2>14 DEF DropLease
  <2>15. CASE Unbusy(t)
    BY <2>15 DEF Unbusy
  <2> QED
    BY <1>1, <2>1, <2>2, <2>3, <2>4, <2>5, <2>6, <2>7, <2>8, <2>9, <2>10, <2>11,
       <2>12, <2>13, <2>14, <2>15 DEF TurnStep
<1>2. ASSUME NEW t \in TURN, ClientStep(t) PROVE Stays
  <2>1. CASE SavePrompt(t)
    BY <2>1 DEF SavePrompt
  <2>2. CASE EndAnswer(t)
    BY <2>2 DEF EndAnswer
  <2>3. CASE SaveTurn(t)
    BY <2>3 DEF SaveTurn
  <2>4. CASE CloseTurn(t)
    BY <2>4 DEF CloseTurn
  <2> QED
    BY <1>2, <2>1, <2>2, <2>3, <2>4 DEF ClientStep
<1>3. ASSUME NEW t \in TURN, Begin(t) PROVE Stays
  BY <1>3 DEF Begin
<1>4. ASSUME NEW t \in TURN, HangUp(t) PROVE Stays
  BY <1>4 DEF HangUp
<1>5. ASSUME NEW t \in TURN, OpenTurn(t) PROVE Stays
  BY <1>5 DEF OpenTurn
<1>6. ASSUME NEW p \in PROC, Delete(p) PROVE Stays
  BY <1>6 DEF Delete
<1>7. ASSUME NEW p \in PROC, Crash(p) PROVE Stays
  BY <1>7 DEF Crash, Cuttable
<1>8. ASSUME NEW p \in PROC, StartUp(p) PROVE Stays
  BY <1>8 DEF StartUp, Startup
<1>9. ASSUME NEW p \in PROC, RecoverAtStart(p) PROVE Stays
  BY <1>9 DEF RecoverAtStart, Startup
<1>10. ASSUME NEW p \in PROC, ForgetAtStart(p) PROVE Stays
  BY <1>10 DEF ForgetAtStart, Startup
<1>11. ASSUME NEW p \in PROC, EndStartUp(p) PROVE Stays
  BY <1>11 DEF EndStartUp, Startup
<1>12. CASE UNCHANGED vars
  BY <1>12 DEF vars, turnVars, diskVars
<1> QED
  BY <1>1, <1>2, <1>3, <1>4, <1>5, <1>6, <1>7, <1>8, <1>9, <1>10, <1>11, <1>12
  DEF Next, Rest, StartStep

LEMMA OwedStays == TypeOK /\ [Next]_vars =>
    \/ crashes' = crashes + 1
    \/ crashes' = crashes /\ \A u \in TURN :
          stage'[u] = "cut" => stage[u] = "cut" /\ (Owed(u)' => Owed(u))
<1> DEFINE Stays == \/ crashes' = crashes + 1
                    \/ crashes' = crashes /\ \A u \in TURN :
                          stage'[u] = "cut" => stage[u] = "cut" /\ (Owed(u)' => Owed(u))
<1> SUFFICES ASSUME TypeOK, [Next]_vars PROVE Stays
  OBVIOUS
<1> USE TypeParts DEF ControlType, Owed, Recovering, NoJournal, Go, Fail,
    turnVars, lockVars, boundVars, diskVars
<1>1. ASSUME NEW t \in TURN, TurnStep(t) PROVE Stays
  <2>1. CASE TakeLease(t)
    BY <2>1 DEF TakeLease
  <2>2. CASE RecoverTurn(t)
    BY <2>2 DEF RecoverTurn, Recover
  <2>3. CASE ForgetJournal(t)
    BY <2>3 DEF ForgetJournal
  <2>4. CASE Admit(t)
    BY <2>4 DEF Admit
  <2>5. CASE RefuseTurn(t)
    BY <2>5 DEF RefuseTurn
  <2>6. CASE DropLeaseEarly(t)
    BY <2>6 DEF DropLeaseEarly
  <2>7. CASE UnbusyEarly(t)
    BY <2>7 DEF UnbusyEarly
  <2>8. CASE Launch(t)
    BY <2>8 DEF Launch
  <2>9. CASE JournalRun(t)
    BY <2>9 DEF JournalRun
  <2>10. CASE EndRun(t)
    BY <2>10 DEF EndRun
  <2>11. CASE AdmitOrphan(t)
    BY <2>11 DEF AdmitOrphan
  <2>12. CASE RecordRun(t)
    BY <2>12 DEF RecordRun
  <2>13. CASE ClearJournal(t)
    BY <2>13 DEF ClearJournal
  <2>14. CASE DropLease(t)
    BY <2>14 DEF DropLease
  <2>15. CASE Unbusy(t)
    BY <2>15 DEF Unbusy
  <2> QED
    BY <1>1, <2>1, <2>2, <2>3, <2>4, <2>5, <2>6, <2>7, <2>8, <2>9, <2>10, <2>11,
       <2>12, <2>13, <2>14, <2>15 DEF TurnStep
<1>2. ASSUME NEW t \in TURN, ClientStep(t) PROVE Stays
  <2>1. CASE SavePrompt(t)
    BY <2>1 DEF SavePrompt
  <2>2. CASE EndAnswer(t)
    BY <2>2 DEF EndAnswer
  <2>3. CASE SaveTurn(t)
    BY <2>3 DEF SaveTurn
  <2>4. CASE CloseTurn(t)
    BY <2>4 DEF CloseTurn
  <2> QED
    BY <1>2, <2>1, <2>2, <2>3, <2>4 DEF ClientStep
<1>3. ASSUME NEW t \in TURN, Begin(t) PROVE Stays
  BY <1>3 DEF Begin
<1>4. ASSUME NEW t \in TURN, HangUp(t) PROVE Stays
  BY <1>4 DEF HangUp
<1>5. ASSUME NEW t \in TURN, OpenTurn(t) PROVE Stays
  BY <1>5 DEF OpenTurn
<1>6. ASSUME NEW p \in PROC, Delete(p) PROVE Stays
  BY <1>6 DEF Delete
<1>7. ASSUME NEW p \in PROC, Crash(p) PROVE Stays
  BY <1>7 DEF Crash, Cuttable
<1>8. ASSUME NEW p \in PROC, StartUp(p) PROVE Stays
  BY <1>8 DEF StartUp, Startup
<1>9. ASSUME NEW p \in PROC, RecoverAtStart(p) PROVE Stays
  BY <1>9 DEF RecoverAtStart, Recover, Startup
<1>10. ASSUME NEW p \in PROC, ForgetAtStart(p) PROVE Stays
  BY <1>10 DEF ForgetAtStart, Startup
<1>11. ASSUME NEW p \in PROC, EndStartUp(p) PROVE Stays
  BY <1>11 DEF EndStartUp, Startup
<1>12. CASE UNCHANGED vars
  BY <1>12 DEF vars, turnVars, diskVars
<1> QED
  BY <1>1, <1>2, <1>3, <1>4, <1>5, <1>6, <1>7, <1>8, <1>9, <1>10, <1>11, <1>12
  DEF Next, Rest, StartStep

LEMMA LimitsGrow ==
    ASSUME TypeOK, [Next]_vars
    PROVE  \A u \in TURN : mayEnd[u] <= mayEnd'[u] /\ mayInterrupt[u] <= mayInterrupt'[u]
<1> SUFFICES ASSUME NEW u \in TURN
             PROVE  mayEnd[u] <= mayEnd'[u] /\ mayInterrupt[u] <= mayInterrupt'[u]
  OBVIOUS
<1>1. crashes \in Nat
  BY TypeParts DEF CountType
<1>2. /\ mayEnd[u] = IF stage[u] \in Unrecorded THEN 0 ELSE 1
      /\ mayEnd'[u] = IF stage'[u] \in Unrecorded THEN 0 ELSE 1
      /\ stage[u] \notin Unrecorded => stage'[u] \notin Unrecorded
  BY RecordedStays DEF mayEnd
<1>3. mayEnd[u] <= mayEnd'[u]
  BY <1>2
<1>4. /\ mayInterrupt[u] = IF stage[u] # "cut" THEN 0
                           ELSE IF Owed(u) THEN crashes - 1 ELSE crashes
      /\ mayInterrupt'[u] = IF stage'[u] # "cut" THEN 0
                            ELSE IF Owed(u)' THEN crashes' - 1 ELSE crashes'
      /\ stage[u] = "cut" => stage'[u] = "cut"
  BY RecordedStays DEF mayInterrupt
<1>5. CASE crashes' = crashes + 1
  BY <1>1, <1>3, <1>4, <1>5
<1>6. CASE crashes' = crashes /\ (stage'[u] = "cut" => stage[u] = "cut" /\ (Owed(u)' => Owed(u)))
  BY <1>1, <1>3, <1>4, <1>6
<1> QED
  BY <1>5, <1>6, OwedStays

\* A recovery pays what was owed.
LEMMA RecoveryPays ==
    ASSUME TypeOK, LeaseIsHeld, JournalIsOfARun, [Next]_vars, journal # NoJournal,
           LeasedToRecover, Recovering', UNCHANGED <<journal, crashes>>
    PROVE  /\ journal.turn \in TURN
           /\ mayInterrupt[journal.turn] + 1 <= mayInterrupt'[journal.turn]
<1>1. journal.turn \in TURN /\ stage[journal.turn] = "cut"
  BY OwnerIsGone DEF JournalIsOfARun, Gone
<1>2. stage'[journal.turn] = "cut"
  BY <1>1, RecordedStays
<1>3. ~Recovering
  BY SessionAssumption DEF LeasedToRecover, Recovering, LeaseIsHeld, Holding
<1>4. crashes \in Nat
  BY TypeParts DEF CountType
<1> QED
  BY <1>1, <1>2, <1>3, <1>4 DEF mayInterrupt, Owed

LEMMA RecordsNext ==
    ASSUME TypeOK, LeaseIsHeld, ClientsTurn, JournalIsOfARun, RecordsFit, [Next]_vars
    PROVE  RecordsFit'
<1>0. TypeOK'
  <2>1. SessionType' /\ CountType' /\ ControlType'
    BY SessionTypeNext, CountTypeNext, ControlTypeNext, TypeParts
  <2> QED
    BY <2>1 DEF TypeOK, SessionType, CountType, ControlType
<1>a. /\ mayEnd \in [TURN -> Nat] /\ mayInterrupt \in [TURN -> Int]
      /\ mayEnd' \in [TURN -> Nat] /\ mayInterrupt' \in [TURN -> Int]
      /\ \A u \in TURN : mayEnd[u] <= mayEnd'[u] /\ mayInterrupt[u] <= mayInterrupt'[u]
  <2>1. mayEnd' \in [TURN -> Nat] /\ mayInterrupt' \in [TURN -> Int]
    BY <1>0 DEF TypeOK, mayEnd, mayInterrupt
  <2> QED
    BY <2>1, LimitTypes, LimitsGrow
<1>b. /\ runs \in Seq(Record)
      /\ \A c \in CLIENT : view[c].runs \in Seq(Record)
      /\ FitsIn(runs, mayEnd, mayInterrupt)
      /\ \A c \in CLIENT : FitsIn(view[c].runs, mayEnd, mayInterrupt)
  BY TypeParts DEF SessionType, RecordsFit
<1> DEFINE Fine(rs) == FitsIn(rs, mayEnd', mayInterrupt')
<1>1. Fine(runs) /\ \A c \in CLIENT : Fine(view[c].runs)
  BY <1>a, <1>b, FitsMore
<1> HIDE DEF Fine
<1>2. ASSUME NEW rs, Fine(rs), runs' = rs, UNCHANGED view PROVE RecordsFit'
  BY <1>1, <1>2 DEF RecordsFit, Fine
<1>3. CASE UNCHANGED <<runs, view>>
  BY <1>1, <1>2, <1>3
<1>4. CASE Recover /\ LeasedToRecover /\ Recovering' /\ UNCHANGED <<view, crashes>>
  <2>1. /\ journal.turn \in TURN /\ journal # NoJournal
        /\ mayInterrupt[journal.turn] + 1 <= mayInterrupt'[journal.turn]
    BY <1>4, RecoveryPays DEF Recover
  <2>2. Fine(Append(runs, Interrupted(journal.turn)))
    BY <1>a, <1>b, <2>1, FitsInterruption DEF Fine
  <2> QED
    BY <1>1, <1>2, <1>4, <2>2 DEF Recover
<1>5. ASSUME NEW t \in TURN, NEW rs \in Seq(Record), FitsIn(rs, mayEnd, mayInterrupt),
             stage[t] \in Unrecorded, stage'[t] \notin Unrecorded
      PROVE  Fine(Append(rs, Ended(t)))
  <2>1. mayEnd[t] + 1 <= mayEnd'[t]
    BY <1>5 DEF mayEnd
  <2> QED
    BY <1>5, <1>a, <2>1, FitsEnd DEF Fine
<1>6. ASSUME NEW t \in TURN, RecordRun(t) PROVE RecordsFit'
  <2>1. stage[t] \in Unrecorded /\ stage'[t] \notin Unrecorded
    BY <1>6 DEF RecordRun, Go, Unrecorded, TypeOK
  <2>2. Fine(Append(runs, Ended(t)))
    BY <1>5, <1>b, <2>1
  <2>3. ASSUME CanTake(replaced[t]) PROVE Fine(Append(Front(runs), Ended(t)))
    <3>1. runs # <<>>
      BY <2>3 DEF CanTake
    <3>2. Front(runs) \in Seq(Record) /\ FitsIn(Front(runs), mayEnd, mayInterrupt)
      BY <1>a, <1>b, <3>1, FitsLess
    <3> QED
      BY <1>5, <2>1, <3>2
  <2> QED
    BY <1>2, <1>3, <1>6, <2>2, <2>3 DEF RecordRun, Recorded, Exchanges
<1>7. ASSUME NEW t \in TURN, NEW session, Fine(session.runs),
             SavesAll(Home[t], session), Home[t] \in CLIENT
      PROVE  RecordsFit'
  BY <1>1, <1>7, TypeParts DEF SavesAll, RecordsFit, Fine, SessionType
<1>8. ASSUME NEW t \in TURN, SavePrompt(t) PROVE RecordsFit'
  <2>1. Home[t] \in CLIENT
    BY <1>8 DEF ClientsTurn, SavePrompt, Go
  <2>2. Fine(WithPrompt(Base(Home[t]), t).runs)
    BY <1>1, <2>1 DEF WithPrompt, Base
  <2> QED
    BY <1>3, <1>7, <1>8, <2>1, <2>2 DEF SavePrompt
<1>9. ASSUME NEW t \in TURN, SaveTurn(t) PROVE RecordsFit'
  <2>1. /\ Home[t] \in CLIENT /\ stage[t] \in Unrecorded /\ stage'[t] \notin Unrecorded
    BY <1>9 DEF ClientsTurn, SaveTurn, Go, Unrecorded, TypeOK
  <2>2. Fine(WithRecord(Base(Home[t]), t).runs)
    BY <1>5, <1>b, <2>1 DEF WithRecord, Base
  <2>3. Fine(WithRecord(view[Home[t]], t).runs)
    BY <1>5, <1>b, <2>1 DEF WithRecord
  <2>4. CASE SavesAll(Home[t], WithRecord(Base(Home[t]), t))
    BY <1>7, <2>1, <2>2, <2>4
  <2>5. CASE view' = [view EXCEPT ![Home[t]] = WithRecord(@, t)] /\ UNCHANGED runs
    BY <1>1, <2>1, <2>3, <2>5, TypeParts DEF RecordsFit, Fine, SessionType
  <2> QED
    BY <1>9, <2>4, <2>5 DEF SaveTurn
<1>10. ASSUME NEW t \in TURN, TurnStep(t) PROVE RecordsFit'
  <2>1. CASE RecoverTurn(t)
    <3>1. CASE Recover /\ Go(t, "leased", "recovering") /\ UNCHANGED boundVars
      <4>1. LeasedToRecover /\ Recovering'
        BY <3>1 DEF LeasedToRecover, Recovering, Go, TypeOK
      <4> QED
        BY <1>4, <2>1, <3>1, <4>1 DEF RecoverTurn, boundVars
    <3> QED
      BY <1>3, <2>1, <3>1 DEF RecoverTurn, diskVars
  <2> QED
    BY <1>10, <1>3, <1>6, <2>1
    DEF TurnStep, diskVars, TakeLease, ForgetJournal, Admit, RefuseTurn, DropLeaseEarly,
        UnbusyEarly, Launch, JournalRun, EndRun, AdmitOrphan, ClearJournal, DropLease, Unbusy
<1>11. ASSUME NEW t \in TURN, Begin(t) \/ HangUp(t) \/ OpenTurn(t) \/ ClientStep(t)
       PROVE  RecordsFit'
  BY <1>11, <1>3, <1>8, <1>9
  DEF Begin, HangUp, OpenTurn, ClientStep, EndAnswer, CloseTurn, diskVars
<1>12. ASSUME NEW p \in PROC, Delete(p) PROVE RecordsFit'
  <2>1. Fine(<<>>)
    <3> SUFFICES ASSUME NEW u \in TURN
                 PROVE  /\ Count(<<>>, Ended(u)) <= mayEnd'[u]
                        /\ Count(<<>>, Interrupted(u)) <= mayInterrupt'[u]
      BY DEF Fine, FitsIn
    <3>1. /\ Count(runs, Ended(u)) <= mayEnd'[u] /\ Count(runs, Interrupted(u)) <= mayInterrupt'[u]
          /\ mayEnd'[u] \in Nat /\ mayInterrupt'[u] \in Int
      BY <1>1, <1>a DEF Fine, FitsIn
    <3>2. Count(runs, Ended(u)) \in Nat /\ Count(runs, Interrupted(u)) \in Nat
      BY <1>b, CountIsNatural
    <3>3. Count(<<>>, Ended(u)) = 0 /\ Count(<<>>, Interrupted(u)) = 0
      BY CountNone
    <3> QED
      BY <3>1, <3>2, <3>3
  <2> QED
    BY <1>2, <1>12, <2>1 DEF Delete
<1>13. ASSUME NEW p \in PROC, Crash(p) \/ StartUp(p) \/ StartStep(p)
       PROVE  RecordsFit'
  <2>1. CASE RecoverAtStart(p)
    <3>1. CASE Recover /\ Startup(p, "leased", "recovered") /\ UNCHANGED boundVars
      <4>1. LeasedToRecover /\ Recovering'
        BY <3>1 DEF LeasedToRecover, Recovering, Startup, TypeOK
      <4> QED
        BY <1>4, <2>1, <3>1, <4>1 DEF RecoverAtStart, boundVars
    <3> QED
      BY <1>3, <2>1, <3>1 DEF RecoverAtStart, diskVars
  <2> QED
    BY <1>13, <1>3, <2>1
    DEF Crash, StartUp, StartStep, ForgetAtStart, EndStartUp, diskVars
<1> QED
  BY <1>3, <1>10, <1>11, <1>12, <1>13 DEF Next, Rest, vars, diskVars

LEMMA RecordsInvariant == Spec => []RecordsFit
<1>1. Init => RecordsFit
  <2> SUFFICES ASSUME Init PROVE RecordsFit
    OBVIOUS
  <2>1. \A t \in TURN : mayEnd[t] = 0 /\ mayInterrupt[t] = 0
    BY DEF Init, mayEnd, mayInterrupt, Unrecorded
  <2>2. FitsIn(<<>>, mayEnd, mayInterrupt)
    BY <2>1, CountNone DEF FitsIn
  <2> QED
    BY <2>2 DEF Init, RecordsFit
<1>2. RecoveryInv /\ RecordsFit /\ [Next]_vars => RecordsFit'
  BY RecordsNext DEF RecoveryInv
<1> QED
  BY <1>1, <1>2, RecoveryInvariant, PTL DEF Spec

\* A turn has one record, and more only when its process died with its journal
\* in place: one for each process that died then or in a recovery of it.
THEOREM TurnsAreRecordedOnce == Spec => []RecordedAgainOnlyIfCut
<1>1. ASSUME TypeOK, RecordsFit, NEW t \in TURN
      PROVE  Cardinality(RecordsOf(t)) <= IF stage[t] = "cut" THEN 1 + crashes ELSE 1
  <2>1. runs \in Seq(Record) /\ crashes \in Nat
    BY <1>1, TypeParts DEF SessionType, CountType
  <2>2. RecordsOf(t) = At(runs, Ended(t)) \cup At(runs, Interrupted(t))
    <3>1. \A i \in DOMAIN runs : runs[i] \in Record
      BY <2>1
    <3>2. \A r \in Record : r.turn = t <=> r = Ended(t) \/ r = Interrupted(t)
      BY DEF Record, Reason, Ended, Interrupted
    <3> QED
      BY <3>1, <3>2 DEF RecordsOf, At
  <2>3. /\ IsFiniteSet(At(runs, Ended(t))) /\ IsFiniteSet(At(runs, Interrupted(t)))
        /\ Count(runs, Ended(t)) \in Nat /\ Count(runs, Interrupted(t)) \in Nat
    BY <2>1, CountIsNatural
  <2>4. Cardinality(RecordsOf(t)) <= Count(runs, Ended(t)) + Count(runs, Interrupted(t))
    <3>1. /\ Cardinality(RecordsOf(t)) = Count(runs, Ended(t)) + Count(runs, Interrupted(t))
                - Cardinality(At(runs, Ended(t)) \cap At(runs, Interrupted(t)))
      BY <2>2, <2>3, FS_Union DEF Count
    <3>2. Cardinality(At(runs, Ended(t)) \cap At(runs, Interrupted(t))) \in Nat
      BY <2>3, FS_Intersection, FS_CardinalityType
    <3> QED
      BY <2>3, <3>1, <3>2
  <2>5. Count(runs, Ended(t)) <= 1
    BY <1>1, <2>3 DEF RecordsFit, FitsIn, mayEnd
  <2>6. /\ stage[t] # "cut" => Count(runs, Interrupted(t)) <= 0
        /\ stage[t] = "cut" => Count(runs, Interrupted(t)) <= crashes
    BY <1>1, <2>1, <2>3 DEF RecordsFit, FitsIn, mayInterrupt
  <2>7. Cardinality(RecordsOf(t)) \in Nat
    BY <2>2, <2>3, FS_Union, FS_CardinalityType
  <2> QED
    BY <2>1, <2>3, <2>4, <2>5, <2>6, <2>7
<1>2. RecoveryInv /\ RecordsFit => RecordedAgainOnlyIfCut
  BY <1>1 DEF RecoveryInv, RecordedAgainOnlyIfCut
<1> QED
  BY <1>2, RecoveryInvariant, RecordsInvariant, PTL

-----------------------------------------------------------------------------
(***************************************************************************)
(* What a regeneration takes away is the answer of the record it takes:    *)
(* even when clients hung up, and prompts of others came in between.       *)
(***************************************************************************)
EndsInPrompt(ms) == ms # <<>> /\ Last(ms).role = "user"
Matches(ms, rs) ==
    /\ ms # <<>> /\ Last(ms).role = "assistant"
    /\ rs # <<>> /\ Last(rs).reason = "ended"
    => Last(rs).turn = Last(ms).turn

LatestMatches ==
    /\ ~exists => messages = <<>>
    /\ Matches(messages, runs)
    /\ \A c \in CLIENT : Matches(view[c].messages, view[c].runs)
PromptStands ==
    \A t \in TURN :
        /\ exists /\ stage[t] \in Prompted /\ ~Replacing(t) => EndsInPrompt(messages)
        /\ stage[t] \in {"answering", "answered"} => EndsInPrompt(view[Home[t]].messages)

LEMMA AskedLast ==
    ASSUME NEW ms \in Seq(Message), NEW t \in TURN
    PROVE  EndsInPrompt(Append(ms, Prompt(t)))
BY PromptEnds DEF EndsWith, EndsInPrompt, Prompt

LEMMA LastOfAppend ==
    ASSUME NEW S, NEW s \in Seq(S), NEW x \in S
    PROVE  Append(s, x) # <<>> /\ Last(Append(s, x)) = x /\ Len(Append(s, x)) = Len(s) + 1
BY DEF Last

LEMMA AnsweredMatches ==
    ASSUME NEW ms \in Seq(Message), NEW rs \in Seq(Record), NEW t \in TURN
    PROVE  Matches(Append(ms, Answer(t)), Append(rs, Ended(t)))
<1>1. Last(Append(ms, Answer(t))) = Answer(t) /\ Last(Append(rs, Ended(t))) = Ended(t)
  BY RecordTypes, LastOfAppend
<1> QED
  BY <1>1 DEF Matches, Answer, Ended

LEMMA PromptStandsNext ==
    ASSUME TypeOK, LeaseIsHeld, ClientsTurn, RegenerationsBegan, PromptStands, [Next]_vars
    PROVE  PromptStands'
<1> USE TypeParts DEF ControlType, LeaseIsHeld, Holding, Prompted, PromptStands,
        Replacing, NoRecord, Go, turnVars, diskVars
<1>0. \A t \in TURN : EndsInPrompt(Append(messages, Prompt(t)))
  BY AskedLast DEF SessionType
<1>1. ASSUME NEW t \in TURN, TurnStep(t) PROVE PromptStands'
  <2>1. CASE TakeLease(t)
    BY <2>1 DEF TakeLease
  <2>2. CASE RecoverTurn(t)
    BY <2>2 DEF RecoverTurn, Recover
  <2>3. CASE ForgetJournal(t)
    BY <2>3 DEF ForgetJournal
  <2>4. CASE Admit(t)
    <3>1. CASE Replacing(t)
      BY <2>4, <3>1 DEF Admit, Admitted
    <3>2. CASE ~Replacing(t)
      BY <1>0, <2>4, <3>2 DEF Admit, Admitted
    <3> QED
      BY <3>1, <3>2
  <2>5. CASE RefuseTurn(t)
    BY <2>5 DEF RefuseTurn
  <2>6. CASE DropLeaseEarly(t)
    BY <2>6 DEF DropLeaseEarly
  <2>7. CASE UnbusyEarly(t)
    BY <2>7 DEF UnbusyEarly
  <2>8. CASE Launch(t)
    BY <2>8 DEF Launch
  <2>9. CASE JournalRun(t)
    BY <2>9 DEF JournalRun
  <2>10. CASE EndRun(t)
    BY <2>10 DEF EndRun
  <2>11. CASE AdmitOrphan(t)
    <3>1. CASE UNCHANGED messages
      BY <2>11, <3>1 DEF AdmitOrphan
    <3>2. CASE messages' = Append(messages, Prompt(t))
      BY <1>0, <2>11, <3>2 DEF AdmitOrphan
    <3> QED
      BY <2>11, <3>1, <3>2 DEF AdmitOrphan, Admitted
  <2>12. CASE RecordRun(t)
    BY <2>12 DEF RecordRun
  <2>13. CASE ClearJournal(t)
    BY <2>13 DEF ClearJournal
  <2>14. CASE DropLease(t)
    BY <2>14 DEF DropLease
  <2>15. CASE Unbusy(t)
    BY <2>15 DEF Unbusy
  <2> QED
    BY <1>1, <2>1, <2>2, <2>3, <2>4, <2>5, <2>6, <2>7, <2>8, <2>9, <2>10, <2>11,
       <2>12, <2>13, <2>14, <2>15 DEF TurnStep
<1>2. ASSUME NEW t \in TURN, ClientStep(t) PROVE PromptStands'
  <2>1. CASE SavePrompt(t)
    <3>1. CASE SavesAll(Home[t], WithPrompt(Base(Home[t]), t))
      <4>1. Home[t] \in CLIENT
        BY <2>1 DEF ClientsTurn, SavePrompt
      <4>2. Base(Home[t]).messages \in Seq(Message)
        BY <4>1 DEF Base, SessionType
      <4>3. EndsInPrompt(messages)' /\ EndsInPrompt(view[Home[t]].messages)'
        BY <3>1, <4>1, <4>2, AskedLast DEF SavesAll, WithPrompt, SessionType
      <4> QED
        BY <2>1, <4>3 DEF SavePrompt
    <3> QED
      BY <2>1, <3>1 DEF SavePrompt
  <2>2. CASE EndAnswer(t)
    BY <2>2 DEF EndAnswer
  <2>3. CASE SaveTurn(t)
    BY <2>3 DEF SaveTurn, SavesAll, ClientsTurn
  <2>4. CASE CloseTurn(t)
    BY <2>4 DEF CloseTurn
  <2> QED
    BY <1>2, <2>1, <2>2, <2>3, <2>4 DEF ClientStep
<1>3. ASSUME NEW t \in TURN, Begin(t) PROVE PromptStands'
  BY <1>3 DEF Begin
<1>4. ASSUME NEW t \in TURN, HangUp(t) PROVE PromptStands'
  BY <1>4 DEF HangUp
<1>5. ASSUME NEW t \in TURN, OpenTurn(t) PROVE PromptStands'
  BY <1>5 DEF OpenTurn
<1>6. ASSUME NEW p \in PROC, Delete(p) PROVE PromptStands'
  BY <1>6 DEF Delete
<1>7. ASSUME NEW p \in PROC, Crash(p) PROVE PromptStands'
  BY <1>7 DEF Crash, Cuttable
<1>8. ASSUME NEW p \in PROC, StartUp(p) PROVE PromptStands'
  BY <1>8 DEF StartUp, Startup
<1>9. ASSUME NEW p \in PROC, RecoverAtStart(p) PROVE PromptStands'
  BY <1>9 DEF RecoverAtStart, Recover, Startup
<1>10. ASSUME NEW p \in PROC, ForgetAtStart(p) PROVE PromptStands'
  BY <1>10 DEF ForgetAtStart, Startup
<1>11. ASSUME NEW p \in PROC, EndStartUp(p) PROVE PromptStands'
  BY <1>11 DEF EndStartUp, Startup
<1>12. CASE UNCHANGED vars
  BY <1>12 DEF vars, turnVars, diskVars
<1> QED
  BY <1>1, <1>2, <1>3, <1>4, <1>5, <1>6, <1>7, <1>8, <1>9, <1>10, <1>11, <1>12
  DEF Next, Rest, StartStep

LEMMA LatestNext ==
    ASSUME TypeOK, ClientsTurn, RegenerationsBegan, PromptStands, LatestMatches, [Next]_vars
    PROVE  LatestMatches'
<1>a. /\ messages \in Seq(Message) /\ runs \in Seq(Record)
      /\ \A c \in CLIENT : view[c].messages \in Seq(Message) /\ view[c].runs \in Seq(Record)
      /\ view \in [CLIENT -> [messages : Seq(Message), runs : Seq(Record)]]
  BY TypeParts DEF SessionType
<1>b. \A ms \in Seq(Message) : \A rs : EndsInPrompt(ms) => Matches(ms, rs)
  BY DEF EndsInPrompt, Matches
<1>1. CASE UNCHANGED <<messages, runs, exists, view>>
  BY <1>1 DEF LatestMatches
<1>2. CASE Recover /\ UNCHANGED view
  <2>1. CASE UNCHANGED runs
    BY <1>1, <1>2, <2>1 DEF Recover
  <2>2. CASE runs' = Append(runs, Interrupted(journal.turn))
    <3>1. journal.turn \in TURN
      BY <1>2, TypeParts DEF Recover, ControlType, NoJournal
    <3>2. Last(runs').reason = "interrupted"
      BY <1>a, <2>2, <3>1, RecordTypes, LastOfAppend DEF Interrupted
    <3> QED
      BY <1>2, <3>2 DEF Recover, LatestMatches, Matches
  <2> QED
    BY <1>2, <2>1, <2>2 DEF Recover
<1>3. ASSUME NEW t \in TURN, Admitted(t) \/ UNCHANGED messages, UNCHANGED <<runs, exists, view>>
      PROVE  LatestMatches'
  <2>1. CASE UNCHANGED messages
    BY <1>1, <1>3, <2>1
  <2>2. CASE exists /\ messages' = Append(messages, Prompt(t))
    <3>1. EndsInPrompt(messages')
      BY <1>a, <2>2, AskedLast
    <3>2. Matches(messages', runs')
      BY <3>1 DEF EndsInPrompt, Matches
    <3> QED
      BY <1>3, <2>2, <3>2 DEF LatestMatches
  <2> QED
    BY <1>3, <2>1, <2>2 DEF Admitted
<1>4. ASSUME NEW t \in TURN, NEW ms \in Seq(Message), NEW rs \in Seq(Record), Matches(ms, rs),
             EndsInPrompt(ms)
      PROVE  Matches(IF outcome[t] # "nothing" THEN Append(ms, Answer(t)) ELSE ms,
                     Append(rs, Ended(t)))
  BY <1>4, AnsweredMatches DEF Matches, EndsInPrompt
<1>5. ASSUME NEW t \in TURN, RecordRun(t) PROVE LatestMatches'
  <2>1. CASE exists /\ ~Replacing(t) /\ Recorded(t, messages, runs)
    <3>1. EndsInPrompt(messages)
      BY <1>5, <2>1 DEF PromptStands, Prompted, RecordRun, Go
    <3>2. Matches(messages', runs')
      BY <1>4, <1>a, <2>1, <3>1 DEF Recorded, LatestMatches
    <3> QED
      BY <1>5, <2>1, <3>2 DEF RecordRun, LatestMatches
  <2>2. CASE exists /\ Exchanges(t) /\ Recorded(t, Front(messages), Front(runs))
    <3>1. messages # <<>> /\ runs # <<>>
      BY <2>2 DEF Exchanges, CanTake
    <3>2. Front(messages) \in Seq(Message) /\ Front(runs) \in Seq(Record)
      BY <1>a, <3>1, FrontRange
    <3>3. Matches(messages', runs')
      BY <2>2, <3>2, AnsweredMatches DEF Recorded, Exchanges
    <3> QED
      BY <1>5, <2>2, <3>3 DEF RecordRun, LatestMatches
  <2>3. CASE UNCHANGED <<messages, runs>>
    BY <1>1, <1>5, <2>3 DEF RecordRun
  <2> QED
    BY <1>5, <2>1, <2>2, <2>3 DEF RecordRun
<1>6. ASSUME NEW t \in TURN, NEW session, Matches(session.messages, session.runs),
             SavesAll(Home[t], session), Home[t] \in CLIENT
      PROVE  LatestMatches'
  BY <1>6, <1>a DEF SavesAll, LatestMatches
<1>7. ASSUME NEW t \in TURN, SavePrompt(t) PROVE LatestMatches'
  <2>1. Home[t] \in CLIENT
    BY <1>7 DEF ClientsTurn, SavePrompt, Go
  <2>2. Base(Home[t]).messages \in Seq(Message)
    BY <1>a, <2>1 DEF Base
  <2>3. EndsInPrompt(WithPrompt(Base(Home[t]), t).messages)
    BY <2>2, AskedLast DEF WithPrompt
  <2>4. Matches(WithPrompt(Base(Home[t]), t).messages, WithPrompt(Base(Home[t]), t).runs)
    BY <2>3 DEF EndsInPrompt, Matches
  <2> QED
    BY <1>1, <1>6, <1>7, <2>1, <2>4 DEF SavePrompt
<1>8. ASSUME NEW t \in TURN, SaveTurn(t) PROVE LatestMatches'
  <2>1. Home[t] \in CLIENT /\ ~Replacing(t) /\ stage[t] = "answered"
    BY <1>8 DEF ClientsTurn, RegenerationsBegan, SERVER, SaveTurn, Go
  <2>2. ASSUME NEW session, session.messages \in Seq(Message), session.runs \in Seq(Record),
               Matches(session.messages, session.runs), EndsInPrompt(session.messages)
        PROVE  Matches(WithRecord(session, t).messages, WithRecord(session, t).runs)
    BY <1>4, <2>2 DEF WithRecord
  <2>3. Matches(WithRecord(Base(Home[t]), t).messages, WithRecord(Base(Home[t]), t).runs)
    BY <1>a, <2>1, <2>2 DEF Base, PromptStands, Prompted, LatestMatches
  <2>4. Matches(WithRecord(view[Home[t]], t).messages, WithRecord(view[Home[t]], t).runs)
    BY <1>a, <2>1, <2>2 DEF PromptStands, LatestMatches
  <2>5. CASE SavesAll(Home[t], WithRecord(Base(Home[t]), t))
    BY <1>6, <2>1, <2>3, <2>5
  <2>6. CASE view' = [view EXCEPT ![Home[t]] = WithRecord(@, t)]
             /\ UNCHANGED <<messages, runs, exists>>
    BY <1>a, <2>1, <2>4, <2>6 DEF LatestMatches
  <2> QED
    BY <1>8, <2>5, <2>6 DEF SaveTurn
<1>9. ASSUME NEW t \in TURN, TurnStep(t) PROVE LatestMatches'
  BY <1>9, <1>1, <1>2, <1>3, <1>5
  DEF TurnStep, diskVars, TakeLease, RecoverTurn, ForgetJournal, Admit, RefuseTurn,
      DropLeaseEarly, UnbusyEarly, Launch, JournalRun, EndRun, AdmitOrphan,
      ClearJournal, DropLease, Unbusy
<1>10. ASSUME NEW t \in TURN, Begin(t) \/ HangUp(t) \/ OpenTurn(t) \/ ClientStep(t)
       PROVE  LatestMatches'
  BY <1>10, <1>1, <1>7, <1>8
  DEF Begin, HangUp, OpenTurn, ClientStep, EndAnswer, CloseTurn, diskVars
<1>11. ASSUME NEW p \in PROC, Delete(p) PROVE LatestMatches'
  BY <1>11 DEF Delete, LatestMatches, Matches
<1>12. ASSUME NEW p \in PROC, Crash(p) \/ StartUp(p) \/ StartStep(p)
       PROVE  LatestMatches'
  BY <1>12, <1>1, <1>2
  DEF Crash, StartUp, StartStep, RecoverAtStart, ForgetAtStart, EndStartUp, diskVars
<1> QED
  BY <1>1, <1>9, <1>10, <1>11, <1>12 DEF Next, Rest, vars, diskVars

LEMMA LatestInvariant == Spec => [](PromptStands /\ LatestMatches)
<1>1. Init => PromptStands /\ LatestMatches
  BY DEF Init, PromptStands, LatestMatches, Matches, Prompted
<1>2. RecoveryInv /\ Conversation /\ PromptStands /\ LatestMatches /\ [Next]_vars
         => PromptStands' /\ LatestMatches'
  BY PromptStandsNext, LatestNext DEF RecoveryInv, Conversation
<1> QED
  BY <1>1, <1>2, RecoveryInvariant, ConversationInvariant, PTL DEF Spec

\* What a step does to the saved transcript.
LEMMA TranscriptSteps ==
    ASSUME TypeOK, ClientsTurn, LatestMatches, [Next]_vars
    PROVE  \/ UNCHANGED messages
           \/ \E m \in Message : messages' = Append(messages, m)
           \/ ~exists'
           \/ messages = <<>>
           \/ \E u \in TURN : Exchanges(u) /\ Recorded(u, Front(messages), Front(runs))
<1> DEFINE Goal == \/ UNCHANGED messages
                   \/ \E m \in Message : messages' = Append(messages, m)
                   \/ ~exists'
                   \/ messages = <<>>
                   \/ \E u \in TURN : Exchanges(u) /\ Recorded(u, Front(messages), Front(runs))
<1>1. CASE UNCHANGED messages
  BY <1>1
<1>2. ASSUME NEW t \in TURN, Admitted(t) PROVE Goal
  BY <1>2, RecordTypes DEF Admitted
<1>3. ASSUME NEW t \in TURN, RecordRun(t) PROVE Goal
  <2>1. CASE Recorded(t, messages, runs)
    BY <2>1, RecordTypes DEF Recorded
  <2>2. CASE Exchanges(t) /\ Recorded(t, Front(messages), Front(runs))
    BY <2>2
  <2> QED
    BY <1>3, <2>1, <2>2 DEF RecordRun
<1>4. ASSUME NEW t \in TURN, SavePrompt(t) PROVE Goal
  <2>1. CASE SavesAll(Home[t], WithPrompt(Base(Home[t]), t))
    BY <2>1, RecordTypes DEF SavesAll, WithPrompt, Base, LatestMatches
  <2> QED
    BY <1>4, <2>1 DEF SavePrompt
<1>5. ASSUME NEW t \in TURN, SaveTurn(t) PROVE Goal
  <2>1. CASE SavesAll(Home[t], WithRecord(Base(Home[t]), t))
    BY <2>1, RecordTypes DEF SavesAll, WithRecord, Base, LatestMatches
  <2> QED
    BY <1>5, <2>1 DEF SaveTurn
<1>6. ASSUME NEW t \in TURN, TurnStep(t) PROVE Goal
  BY <1>6, <1>1, <1>2, <1>3
  DEF TurnStep, diskVars, Recover, TakeLease, RecoverTurn, ForgetJournal, Admit,
      RefuseTurn, DropLeaseEarly, UnbusyEarly, Launch, JournalRun, EndRun,
      AdmitOrphan, ClearJournal, DropLease, Unbusy
<1>7. ASSUME NEW t \in TURN, Begin(t) \/ HangUp(t) \/ OpenTurn(t) \/ ClientStep(t)
      PROVE  Goal
  BY <1>7, <1>1, <1>4, <1>5
  DEF Begin, HangUp, OpenTurn, ClientStep, EndAnswer, CloseTurn, diskVars
<1>8. ASSUME NEW p \in PROC, Delete(p) PROVE Goal
  BY <1>8 DEF Delete
<1>9. ASSUME NEW p \in PROC, Crash(p) \/ StartUp(p) \/ StartStep(p) PROVE Goal
  BY <1>9, <1>1
  DEF Crash, StartUp, StartStep, RecoverAtStart, ForgetAtStart, EndStartUp, Recover,
      diskVars
<1> QED
  BY <1>1, <1>6, <1>7, <1>8, <1>9 DEF Next, Rest, vars, diskVars

LEMMA AnswerExchanged ==
    ASSUME TypeOK, ClientsTurn, LatestMatches, [Next]_vars, NEW t \in TURN, TakenAway(t),
           Last(runs).reason = "ended"
    PROVE  /\ Len(messages') = Len(messages) /\ Last(messages').role = "assistant"
           /\ Len(runs') = Len(runs) /\ Last(runs').turn = Last(messages').turn
           /\ Last(runs).turn = t
<1>1. /\ messages \in Seq(Message) /\ runs \in Seq(Record)
      /\ Answer(t) \in Range(messages) /\ Answer(t) \notin Range(messages') /\ exists'
  BY TypeParts DEF SessionType, TakenAway
<1>2. \A m \in Message : Range(messages) \subseteq Range(Append(messages, m))
  BY <1>1, AppendRange
<1>3. messages # <<>>
  BY <1>1 DEF Range
<1>4. PICK u \in TURN : Exchanges(u) /\ Recorded(u, Front(messages), Front(runs))
  BY <1>1, <1>2, <1>3, TranscriptSteps
<1>5. /\ outcome[u] = "answer" /\ runs # <<>> /\ Last(messages).role = "assistant"
      /\ messages' = Append(Front(messages), Answer(u))
      /\ runs' = Append(Front(runs), Ended(u))
  BY <1>4 DEF Exchanges, CanTake, Recorded
<1>6. /\ Front(messages) \in Seq(Message) /\ Len(Front(messages)) + 1 = Len(messages)
      /\ Front(runs) \in Seq(Record) /\ Len(Front(runs)) + 1 = Len(runs)
  <2>1. \A S : \A s \in Seq(S) : s # <<>> => Len(Front(s)) + 1 = Len(s)
    <3> SUFFICES ASSUME NEW S, NEW s \in Seq(S), s # <<>> PROVE Len(Front(s)) + 1 = Len(s)
      OBVIOUS
    <3>1. Len(s) \in Nat \ {0} /\ Front(s) = [i \in 1..Len(s) - 1 |-> s[i]]
      BY DEF Front
    <3>2. Front(s) \in Seq(S) /\ DOMAIN Front(s) = 1..Len(s) - 1
      BY <3>1, FrontRange
    <3> QED
      BY <3>1, <3>2
  <2> QED
    BY <1>1, <1>3, <1>5, <2>1, FrontRange
<1>7. /\ Last(messages') = Answer(u) /\ Len(messages') = Len(messages)
      /\ Last(runs') = Ended(u) /\ Len(runs') = Len(runs)
  BY <1>5, <1>6, RecordTypes, LastOfAppend
<1>8. Last(messages) = Answer(t)
  <2>1. Range(messages') = Range(Front(messages)) \cup {Answer(u)}
    BY <1>5, <1>6, RecordTypes, AppendRange
  <2>2. PICK i \in DOMAIN messages : messages[i] = Answer(t)
    BY <1>1 DEF Range
  <2>3. Len(messages) \in Nat \ {0} /\ DOMAIN messages = 1..Len(messages)
    BY <1>1, <1>3
  <2>4. i = Len(messages)
    <3> SUFFICES ASSUME i # Len(messages) PROVE FALSE
      OBVIOUS
    <3>1. /\ Front(messages) = [j \in 1..Len(messages) - 1 |-> messages[j]]
          /\ i \in 1..Len(messages) - 1
      BY <1>1, <1>3, <2>2, <2>3 DEF Front
    <3>2. Answer(t) \in Range(Front(messages))
      BY <2>2, <3>1 DEF Range
    <3> QED
      BY <1>1, <2>1, <3>2
  <2> QED
    BY <2>2, <2>4 DEF Last
<1>9. Last(runs).turn = t
  BY <1>3, <1>5, <1>8 DEF LatestMatches, Matches, Answer
<1> QED
  BY <1>7, <1>9 DEF Answer, Ended

\* A saved answer is only ever exchanged for another, together with its record,
\* in whichever processes turns run, fail, are cut and hung up on, unless what
\* is regenerated never ended.
THEOREM SavedAnswersAreExchanged == Spec => AnswersAreExchanged
<1>1. RecoveryInv /\ LatestMatches /\ [Next]_vars =>
          [\A t \in TURN : TakenAway(t) /\ Last(runs).reason = "ended" =>
              /\ Len(messages') = Len(messages) /\ Last(messages').role = "assistant"
              /\ Len(runs') = Len(runs) /\ Last(runs').turn = Last(messages').turn
              /\ Last(runs).turn = t]_vars
  BY AnswerExchanged DEF RecoveryInv
<1> QED
  BY <1>1, RecoveryInvariant, LatestInvariant, PTL DEF Spec, AnswersAreExchanged

=============================================================================
