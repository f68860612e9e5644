--------------------------- MODULE ManagerProofs ---------------------------
(***************************************************************************)
(* The run manager's two watchers (crates/lightagent-api/src/manager.rs):  *)
(* the revalidation monitor watches every driven run, and is alone, for    *)
(* any number of runs launched, ended and disallowed at any time; and what *)
(* a subscriber gets, whatever the length of the run, the number of its    *)
(* connections and the moments they drop.                                  *)
(***************************************************************************)
EXTENDS RevocationMonitor, EventStream, FiniteSetTheorems, SequenceTheorems, TLAPS

(***************************************************************************)
(* The monitor.                                                            *)
(***************************************************************************)
\* The count is the number of runs between being counted and uncounted, the
\* lock holds a task that lives, and only a dropped manager makes it leave.
MonitorInv ==
    /\ active = Cardinality(Counted)
    /\ task # 0 => task \in Live
    /\ OneMonitor
    /\ \A i \in DOMAIN taskAt : taskAt[i] = "leaving" => ~manager
    /\ RunsAreWatched

MonitorIndInv == MonitorTypeOK /\ MonitorInv

-----------------------------------------------------------------------------
(* What the two kinds of steps do.                                         *)

LEMMA TasksAreNumbered ==
    ASSUME MonitorTypeOK
    PROVE  DOMAIN taskAt = 1..Len(taskAt) /\ DOMAIN found = 1..Len(taskAt) /\ Len(taskAt) \in Nat
BY LenProperties DEF MonitorTypeOK

\* A run that moves between two stages stays a run of the program.
LEMMA MovesAreTyped ==
    ASSUME MonitorTypeOK, NEW r \in RUN, NEW from, NEW to \in Stage, Move(r, from, to)
    PROVE  /\ stage' \in [RUN -> Stage]
           /\ stage[r] = from /\ stage'[r] = to
           /\ \A q \in RUN \ {r} : stage'[q] = stage[q]
BY DEF MonitorTypeOK, Move

\* A monitor that moves between two places leaves the others where they are.
LEMMA StepsAreTyped ==
    ASSUME MonitorTypeOK, NEW i \in DOMAIN taskAt, NEW from, NEW to \in TaskPlace, Step(i, from, to)
    PROVE  /\ taskAt' \in Seq(TaskPlace) /\ Len(taskAt') = Len(taskAt) /\ DOMAIN taskAt' = DOMAIN taskAt
           /\ taskAt[i] = from /\ taskAt'[i] = to
           /\ \A j \in DOMAIN taskAt \ {i} : taskAt'[j] = taskAt[j]
<1>1. i \in 1..Len(taskAt) /\ taskAt \in Seq(TaskPlace)
  BY TasksAreNumbered DEF MonitorTypeOK
<1>2. taskAt' = [taskAt EXCEPT ![i] = to] /\ taskAt[i] = from
  BY DEF Step
<1>3. /\ taskAt' \in Seq(TaskPlace) /\ Len(taskAt') = Len(taskAt)
      /\ \A j \in 1..Len(taskAt) : taskAt'[j] = IF j = i THEN to ELSE taskAt[j]
  BY <1>1, <1>2, ExceptSeq
<1>4. DOMAIN taskAt = 1..Len(taskAt) /\ DOMAIN taskAt' = 1..Len(taskAt')
  BY <1>1, <1>3, LenProperties
<1> QED
  BY <1>1, <1>2, <1>3, <1>4

\* What is found by a sweep stays a sequence of sets of runs.
LEMMA FindingsAreTyped ==
    ASSUME MonitorTypeOK, NEW i \in DOMAIN taskAt, NEW S \in SUBSET RUN
    PROVE  /\ [found EXCEPT ![i] = S] \in Seq(SUBSET RUN)
           /\ Len([found EXCEPT ![i] = S]) = Len(taskAt)
<1>1. i \in 1..Len(found) /\ found \in Seq(SUBSET RUN) /\ Len(found) = Len(taskAt)
  BY TasksAreNumbered DEF MonitorTypeOK
<1> QED
  BY <1>1, ExceptSeq

-----------------------------------------------------------------------------
(* Type correctness.                                                       *)

LEMMA MonitorTypeInit == MonitorInit => MonitorTypeOK
<1> SUFFICES ASSUME MonitorInit PROVE MonitorTypeOK
  OBVIOUS
<1>1. <<>> \in Seq(TaskPlace) /\ <<>> \in Seq(SUBSET RUN)
  BY EmptySeq
<1> QED
  BY <1>1, MonitorAssumption DEF MonitorInit, MonitorTypeOK, Stage

LEMMA MonitorTypeNext ==
    ASSUME MonitorIndInv, [MonitorNext]_allMonitorVars
    PROVE  MonitorTypeOK'
<1> USE DEF MonitorIndInv
<1>c. active \in Nat /\ identityChanges \in Nat /\ task \in Nat
  BY DEF MonitorTypeOK
<1>f. IsFiniteSet(Counted)
  BY MonitorAssumption, FS_Subset DEF Counted
<1>0. CASE UNCHANGED allMonitorVars
  BY <1>0 DEF MonitorTypeOK, allMonitorVars, watchedVars, identityVars, monitorVars
<1>1. ASSUME NEW r \in RUN, Insert(r) PROVE MonitorTypeOK'
  BY <1>1, MovesAreTyped DEF Insert, MonitorTypeOK, identityVars, monitorVars, Stage
<1>2. ASSUME NEW r \in RUN, Count(r) PROVE MonitorTypeOK'
  BY <1>2, <1>c, MovesAreTyped DEF Count, MonitorTypeOK, identityVars, monitorVars, Stage
<1>3. ASSUME NEW r \in RUN, EnsureMonitor(r) PROVE MonitorTypeOK'
  <2>1. stage' \in [RUN -> Stage]
    BY <1>3, MovesAreTyped DEF EnsureMonitor, Stage
  <2>2. /\ Append(taskAt, "asleep") \in Seq(TaskPlace) /\ Len(Append(taskAt, "asleep")) = Len(taskAt) + 1
        /\ Append(found, {}) \in Seq(SUBSET RUN) /\ Len(Append(found, {})) = Len(taskAt) + 1
    <3>1. /\ taskAt \in Seq(TaskPlace) /\ "asleep" \in TaskPlace
          /\ found \in Seq(SUBSET RUN) /\ {} \in SUBSET RUN /\ Len(found) = Len(taskAt)
      BY DEF MonitorTypeOK, TaskPlace
    <3> QED
      BY <3>1, AppendProperties
  <2>3. Len(taskAt) + 1 \in Nat
    BY TasksAreNumbered
  <2> QED
    BY <1>3, <2>1, <2>2, <2>3 DEF EnsureMonitor, MonitorTypeOK, identityVars, monitorVars
<1>4. ASSUME NEW r \in RUN, Return(r) PROVE MonitorTypeOK'
  BY <1>4, MovesAreTyped DEF Return, MonitorTypeOK, identityVars, monitorVars, Stage
<1>5. ASSUME NEW r \in RUN, Uncount(r) PROVE MonitorTypeOK'
  <2>1. stage' \in [RUN -> Stage] /\ stage[r] = "returned"
    BY <1>5, MovesAreTyped DEF Uncount, Stage
  <2>2. active - 1 \in Nat
    <3>1. Counted # {}
      BY <2>1 DEF Counted
    <3>2. Cardinality(Counted) # 0
      BY <3>1, <1>f, FS_EmptySet
    <3> QED
      BY <3>2, <1>c DEF MonitorInv
  <2> QED
    BY <1>5, <2>1, <2>2 DEF Uncount, MonitorTypeOK, identityVars, monitorVars
<1>6. ASSUME NEW r \in RUN, Finish(r) PROVE MonitorTypeOK'
  BY <1>6, MovesAreTyped DEF Finish, MonitorTypeOK, identityVars, monitorVars, Stage
<1>7. ASSUME NEW r \in RUN, ChangeIdentity(r) PROVE MonitorTypeOK'
  BY <1>7, <1>c DEF ChangeIdentity, MonitorTypeOK, watchedVars, monitorVars
<1>8. CASE DropManager
  BY <1>8 DEF DropManager, MonitorTypeOK, watchedVars, monitorVars
<1>9. ASSUME NEW i \in DOMAIN taskAt, Tick(i) PROVE MonitorTypeOK'
  <2>1. taskAt' \in Seq(TaskPlace) /\ Len(taskAt') = Len(taskAt)
    BY <1>9, StepsAreTyped DEF Tick, TaskPlace
  <2> QED
    BY <1>9, <2>1 DEF Tick, MonitorTypeOK, watchedVars, identityVars
<1>10. ASSUME NEW i \in DOMAIN taskAt, Upgrade(i) PROVE MonitorTypeOK'
  <2>1. taskAt' \in Seq(TaskPlace) /\ Len(taskAt') = Len(taskAt)
    BY <1>10, StepsAreTyped DEF Upgrade, TaskPlace
  <2> QED
    BY <1>10, <2>1 DEF Upgrade, MonitorTypeOK, watchedVars, identityVars
<1>11. ASSUME NEW i \in DOMAIN taskAt, List(i) PROVE MonitorTypeOK'
  <2>1. taskAt' \in Seq(TaskPlace) /\ Len(taskAt') = Len(taskAt)
    BY <1>11, StepsAreTyped DEF List, TaskPlace
  <2>2. found' \in Seq(SUBSET RUN) /\ Len(found') = Len(taskAt)
    BY <1>11, FindingsAreTyped DEF List
  <2> QED
    BY <1>11, <2>1, <2>2 DEF List, MonitorTypeOK, watchedVars, identityVars
<1>12. ASSUME NEW i \in DOMAIN taskAt, Filter(i) PROVE MonitorTypeOK'
  <2>1. taskAt' \in Seq(TaskPlace) /\ Len(taskAt') = Len(taskAt)
    BY <1>12, StepsAreTyped DEF Filter, TaskPlace
  <2>2. found[i] \in SUBSET RUN
    BY TasksAreNumbered, ElementOfSeq DEF MonitorTypeOK
  <2>3. found' \in Seq(SUBSET RUN) /\ Len(found') = Len(taskAt)
    BY <1>12, <2>2, FindingsAreTyped DEF Filter
  <2> QED
    BY <1>12, <2>1, <2>3 DEF Filter, MonitorTypeOK, watchedVars, identityVars
<1>13. ASSUME NEW i \in DOMAIN taskAt, Check(i) PROVE MonitorTypeOK'
  <2>1. taskAt' \in Seq(TaskPlace) /\ Len(taskAt') = Len(taskAt)
    BY <1>13, StepsAreTyped DEF Check, TaskPlace
  <2>2. found[i] \in SUBSET RUN
    BY TasksAreNumbered, ElementOfSeq DEF MonitorTypeOK
  <2>3. found' \in Seq(SUBSET RUN) /\ Len(found') = Len(taskAt)
    BY <1>13, FindingsAreTyped DEF Check
  <2> QED
    BY <1>13, <2>1, <2>2, <2>3 DEF Check, MonitorTypeOK, identityVars
<1>14. ASSUME NEW i \in DOMAIN taskAt, StopOrGoOn(i) PROVE MonitorTypeOK'
  <2>1. taskAt' \in Seq(TaskPlace) /\ Len(taskAt') = Len(taskAt) /\ task' \in Nat
    BY <1>14, <1>c, StepsAreTyped DEF StopOrGoOn, TaskPlace
  <2> QED
    BY <1>14, <2>1 DEF StopOrGoOn, MonitorTypeOK, watchedVars, identityVars
<1>15. ASSUME NEW i \in DOMAIN taskAt, Leave(i) PROVE MonitorTypeOK'
  <2>1. taskAt' \in Seq(TaskPlace) /\ Len(taskAt') = Len(taskAt) /\ task' \in Nat
    BY <1>15, <1>c, StepsAreTyped DEF Leave, TaskPlace
  <2> QED
    BY <1>15, <2>1 DEF Leave, MonitorTypeOK, watchedVars, identityVars
<1>16. CASE MonitorRest
  BY <1>16, <1>0 DEF MonitorRest
<1> QED
  BY <1>0, <1>1, <1>2, <1>3, <1>4, <1>5, <1>6, <1>7, <1>8, <1>9, <1>10, <1>11, <1>12,
     <1>13, <1>14, <1>15, <1>16
     DEF MonitorNext, LaunchStep, EndStep, MonitorStep

-----------------------------------------------------------------------------
(* The monitor.                                                            *)

LEMMA MonitorInvInit == MonitorInit => MonitorInv
<1> SUFFICES ASSUME MonitorInit PROVE MonitorInv
  OBVIOUS
<1>1. Counted = {}
  BY DEF MonitorInit, Counted
<1>2. active = Cardinality(Counted)
  BY <1>1, FS_EmptySet DEF MonitorInit
<1>3. DOMAIN taskAt = {}
  BY DEF MonitorInit
<1> QED
  BY <1>2, <1>3 DEF MonitorInit, MonitorInv, OneMonitor, RunsAreWatched, Live

\* Steps of the monitor itself, and of what only it looks at, leave the
\* counted runs and the count alone.
LEMMA CountStands ==
    ASSUME MonitorInv, UNCHANGED <<stage, active>>
    PROVE  (active = Cardinality(Counted))'
BY DEF MonitorInv, Counted

\* A task that moves without stopping changes nothing about who is live.
LEMMA LiveStands ==
    ASSUME MonitorTypeOK, MonitorInv, NEW i \in DOMAIN taskAt, NEW from \in TaskPlace \ {"stopped"},
           NEW to \in TaskPlace \ {"stopped"}, Step(i, from, to),
           to = "leaving" => ~manager, UNCHANGED <<stage, active, task, manager>>
    PROVE  MonitorInv'
<1>1. /\ DOMAIN taskAt' = DOMAIN taskAt /\ taskAt[i] = from /\ taskAt'[i] = to
      /\ \A j \in DOMAIN taskAt \ {i} : taskAt'[j] = taskAt[j]
  BY StepsAreTyped
<1>2. Live' = Live
  BY <1>1 DEF Live
<1>3. \A j \in DOMAIN taskAt' : taskAt'[j] = "leaving" => ~manager'
  BY <1>1 DEF MonitorInv
<1> QED
  BY <1>2, <1>3, CountStands DEF MonitorInv, OneMonitor, RunsAreWatched

\* A task that gives up its place leaves nobody behind who needs it.
LEMMA StoppingIsSafe ==
    ASSUME MonitorTypeOK, MonitorInv, NEW i \in DOMAIN taskAt, NEW from \in TaskPlace \ {"stopped"},
           Step(i, from, "stopped"), task' = 0, UNCHANGED <<stage, active, manager>>,
           ~manager \/ Counted = {}
    PROVE  MonitorInv'
<1>1. /\ DOMAIN taskAt' = DOMAIN taskAt /\ taskAt[i] = from /\ taskAt'[i] = "stopped"
      /\ \A j \in DOMAIN taskAt \ {i} : taskAt'[j] = taskAt[j]
  BY StepsAreTyped DEF TaskPlace
<1>2. Live = {i}
  BY <1>1 DEF Live, MonitorInv, OneMonitor
<1>3. Live' = {}
  BY <1>1, <1>2 DEF Live
<1>4. \A j \in DOMAIN taskAt' : taskAt'[j] = "leaving" => ~manager'
  BY <1>1 DEF MonitorInv
<1>5. RunsAreWatched'
  BY DEF RunsAreWatched, Counted
<1> QED
  BY <1>3, <1>4, <1>5, CountStands DEF MonitorInv, OneMonitor

LEMMA MonitorInvNext ==
    ASSUME MonitorIndInv, [MonitorNext]_allMonitorVars
    PROVE  MonitorInv'
<1> USE DEF MonitorIndInv
<1>f. IsFiniteSet(Counted) /\ active = Cardinality(Counted)
  BY MonitorAssumption, FS_Subset DEF Counted, MonitorInv
<1>0. CASE UNCHANGED allMonitorVars
  BY <1>0 DEF MonitorInv, OneMonitor, RunsAreWatched, Live, Counted, allMonitorVars, watchedVars,
              identityVars, monitorVars
<1>1. ASSUME NEW r \in RUN, Insert(r) PROVE MonitorInv'
  <2>1. /\ stage[r] = "none" /\ stage'[r] = "inserted"
        /\ \A q \in RUN \ {r} : stage'[q] = stage[q]
    BY <1>1, MovesAreTyped DEF Insert, Stage
  <2>2. Counted' = Counted /\ Live' = Live
    BY <1>1, <2>1 DEF Insert, Counted, Live, monitorVars
  <2> QED
    BY <1>1, <2>1, <2>2 DEF Insert, MonitorInv, OneMonitor, RunsAreWatched, identityVars,
                            monitorVars
<1>2. ASSUME NEW r \in RUN, Count(r) PROVE MonitorInv'
  <2>1. /\ stage[r] = "inserted" /\ stage'[r] = "counted"
        /\ \A q \in RUN \ {r} : stage'[q] = stage[q]
    BY <1>2, MovesAreTyped DEF Count, Stage
  <2>2. Counted' = Counted \cup {r} /\ r \notin Counted
    BY <2>1 DEF Counted
  <2>3. active' = Cardinality(Counted')
    BY <1>2, <1>f, <2>2, FS_AddElement DEF Count
  <2>4. Live' = Live
    BY <1>2 DEF Count, Live, monitorVars
  <2> QED
    BY <1>2, <2>1, <2>3, <2>4 DEF Count, MonitorInv, OneMonitor, RunsAreWatched,
                                  identityVars, monitorVars
<1>3. ASSUME NEW r \in RUN, EnsureMonitor(r) PROVE MonitorInv'
  <2>1. /\ stage[r] = "counted" /\ stage'[r] = "driving"
        /\ \A q \in RUN \ {r} : stage'[q] = stage[q]
    BY <1>3, MovesAreTyped DEF EnsureMonitor, Stage
  <2>2. Counted' = Counted
    BY <2>1 DEF Counted
  <2>3. CASE task # 0 /\ taskAt[task] # "stopped"
    <3>1. UNCHANGED <<taskAt, task>> /\ task \in Live /\ Live' = Live
      BY <1>3, <2>3 DEF EnsureMonitor, MonitorInv, Live, monitorVars
    <3> QED
      BY <1>3, <2>2, <3>1 DEF EnsureMonitor, MonitorInv, OneMonitor, RunsAreWatched,
                              identityVars
  <2>4. CASE ~(task # 0 /\ taskAt[task] # "stopped")
    <3>1. task = 0 /\ Live = {}
      BY <2>4, TasksAreNumbered DEF MonitorInv, Live, OneMonitor
    <3>2. taskAt' = Append(taskAt, "asleep") /\ task' = Len(taskAt) + 1
      BY <1>3, <2>4 DEF EnsureMonitor
    <3>3. /\ taskAt \in Seq(TaskPlace) /\ "asleep" \in TaskPlace
      BY DEF MonitorTypeOK, TaskPlace
    <3>4. /\ taskAt' \in Seq(TaskPlace) /\ Len(taskAt') = Len(taskAt) + 1
          /\ \A j \in 1..Len(taskAt) : taskAt'[j] = taskAt[j]
          /\ taskAt'[Len(taskAt) + 1] = "asleep"
      BY <3>2, <3>3, AppendProperties
    <3>5. DOMAIN taskAt' = 1..(Len(taskAt) + 1) /\ DOMAIN taskAt = 1..Len(taskAt) /\ Len(taskAt) \in Nat
      BY <3>4, LenProperties, TasksAreNumbered
    <3>6. Live' = {task'}
      BY <3>1, <3>2, <3>4, <3>5 DEF Live
    <3>7. \A j \in DOMAIN taskAt' : taskAt'[j] = "leaving" => ~manager'
      BY <1>3, <3>4, <3>5 DEF EnsureMonitor, MonitorInv, identityVars
    <3> QED
      BY <1>3, <2>2, <3>6, <3>7 DEF EnsureMonitor, MonitorInv, OneMonitor, RunsAreWatched
  <2> QED
    BY <2>3, <2>4
<1>4. ASSUME NEW r \in RUN, Return(r) PROVE MonitorInv'
  <2>1. /\ stage[r] = "driving" /\ stage'[r] = "returned"
        /\ \A q \in RUN \ {r} : stage'[q] = stage[q]
    BY <1>4, MovesAreTyped DEF Return, Stage
  <2>2. Counted' = Counted /\ Live' = Live
    BY <1>4, <2>1 DEF Return, Counted, Live, monitorVars
  <2> QED
    BY <1>4, <2>1, <2>2 DEF Return, MonitorInv, OneMonitor, RunsAreWatched, identityVars,
                            monitorVars
<1>5. ASSUME NEW r \in RUN, Uncount(r) PROVE MonitorInv'
  <2>1. /\ stage[r] = "returned" /\ stage'[r] = "uncounted"
        /\ \A q \in RUN \ {r} : stage'[q] = stage[q]
    BY <1>5, MovesAreTyped DEF Uncount, Stage
  <2>2. Counted' = Counted \ {r} /\ r \in Counted
    BY <2>1 DEF Counted
  <2>3. active' = Cardinality(Counted')
    BY <1>5, <1>f, <2>2, FS_RemoveElement DEF Uncount
  <2>4. Live' = Live
    BY <1>5 DEF Uncount, Live, monitorVars
  <2> QED
    BY <1>5, <2>1, <2>3, <2>4 DEF Uncount, MonitorInv, OneMonitor, RunsAreWatched,
                                  identityVars, monitorVars
<1>6. ASSUME NEW r \in RUN, Finish(r) PROVE MonitorInv'
  <2>1. /\ stage[r] = "uncounted" /\ stage'[r] = "ended"
        /\ \A q \in RUN \ {r} : stage'[q] = stage[q]
    BY <1>6, MovesAreTyped DEF Finish, Stage
  <2>2. Counted' = Counted /\ Live' = Live
    BY <1>6, <2>1 DEF Finish, Counted, Live, monitorVars
  <2> QED
    BY <1>6, <2>1, <2>2 DEF Finish, MonitorInv, OneMonitor, RunsAreWatched, identityVars,
                            monitorVars
<1>7. ASSUME NEW r \in RUN, ChangeIdentity(r) PROVE MonitorInv'
  BY <1>7 DEF ChangeIdentity, MonitorInv, OneMonitor, RunsAreWatched, Live, Counted,
              watchedVars, monitorVars
<1>8. CASE DropManager
  BY <1>8 DEF DropManager, MonitorInv, OneMonitor, RunsAreWatched, Live, Counted, watchedVars,
              monitorVars
<1>9. ASSUME NEW i \in DOMAIN taskAt, Tick(i) PROVE MonitorInv'
  BY <1>9, LiveStands DEF Tick, TaskPlace, watchedVars, identityVars
<1>10. ASSUME NEW i \in DOMAIN taskAt, Upgrade(i) PROVE MonitorInv'
  <2>1. CASE manager
    BY <1>10, <2>1, LiveStands DEF Upgrade, TaskPlace, watchedVars, identityVars
  <2>2. CASE ~manager
    BY <1>10, <2>2, LiveStands DEF Upgrade, TaskPlace, watchedVars, identityVars
  <2> QED
    BY <2>1, <2>2
<1>11. ASSUME NEW i \in DOMAIN taskAt, List(i) PROVE MonitorInv'
  BY <1>11, LiveStands DEF List, TaskPlace, watchedVars, identityVars
<1>12. ASSUME NEW i \in DOMAIN taskAt, Filter(i) PROVE MonitorInv'
  BY <1>12, LiveStands DEF Filter, TaskPlace, watchedVars, identityVars
<1>13. ASSUME NEW i \in DOMAIN taskAt, Check(i) PROVE MonitorInv'
  BY <1>13, LiveStands DEF Check, TaskPlace, identityVars
<1>14. ASSUME NEW i \in DOMAIN taskAt, StopOrGoOn(i) PROVE MonitorInv'
  <2>1. CASE active = 0
    <3>1. Counted = {}
      BY <2>1, <1>f, FS_EmptySet
    <3> QED
      BY <1>14, <2>1, <3>1, StoppingIsSafe DEF StopOrGoOn, TaskPlace, watchedVars, identityVars
  <2>2. CASE active # 0
    BY <1>14, <2>2, LiveStands DEF StopOrGoOn, TaskPlace, watchedVars, identityVars
  <2> QED
    BY <2>1, <2>2
<1>15. ASSUME NEW i \in DOMAIN taskAt, Leave(i) PROVE MonitorInv'
  <2>1. ~manager
    BY <1>15 DEF Leave, Step, MonitorInv
  <2> QED
    BY <1>15, <2>1, StoppingIsSafe DEF Leave, TaskPlace, watchedVars, identityVars
<1>16. CASE MonitorRest
  BY <1>16, <1>0 DEF MonitorRest
<1> QED
  BY <1>0, <1>1, <1>2, <1>3, <1>4, <1>5, <1>6, <1>7, <1>8, <1>9, <1>10, <1>11, <1>12,
     <1>13, <1>14, <1>15, <1>16
     DEF MonitorNext, LaunchStep, EndStep, MonitorStep

-----------------------------------------------------------------------------
LEMMA MonitorInvHolds == MonitorSpec => []MonitorIndInv
<1>1. MonitorInit => MonitorIndInv
  BY MonitorTypeInit, MonitorInvInit DEF MonitorIndInv
<1>2. MonitorIndInv /\ [MonitorNext]_allMonitorVars => MonitorIndInv'
  BY MonitorTypeNext, MonitorInvNext DEF MonitorIndInv
<1> QED
  BY <1>1, <1>2, PTL DEF MonitorSpec

\* However many runs there are, the monitor's state stays of its type; the
\* count of active runs never goes below zero.
THEOREM MonitorTypeCorrect == MonitorSpec => []MonitorTypeOK
<1>1. MonitorIndInv => MonitorTypeOK
  BY DEF MonitorIndInv
<1> QED
  BY <1>1, MonitorInvHolds, PTL

\* "a run starting while the monitor stops is never left unwatched", for any
\* number of runs starting, ending and stopping the monitor concurrently.
THEOREM NoRunLeftUnwatched == MonitorSpec => []RunsAreWatched
<1>1. MonitorIndInv => RunsAreWatched
  BY DEF MonitorIndInv, MonitorInv
<1> QED
  BY <1>1, MonitorInvHolds, PTL

\* At no time do two monitor tasks run, and a live one is the one the lock
\* holds.
THEOREM MonitorIsAlone == MonitorSpec => []OneMonitor
<1>1. MonitorIndInv => OneMonitor
  BY DEF MonitorIndInv, MonitorInv
<1> QED
  BY <1>1, MonitorInvHolds, PTL

-----------------------------------------------------------------------------
(***************************************************************************)
(* A subscriber.                                                           *)
(***************************************************************************)
\* The cursor is a place in the buffer, and a finished one is its end.
CursorInv ==
    /\ next <= seen /\ seen <= buffered /\ got <= buffered
    /\ finished => terminal /\ seen = buffered
    /\ at = "ended" => terminal /\ next = buffered

\* Only a stream at its check may have a frame on its way, and the client has
\* everything before that frame, or before the cursor.
FrameInv ==
    /\ at # "guard" => frames = {}
    /\ at # "closed" => \/ frames = {} /\ next = got
                        \/ frames = {got} /\ next = got + 1

\* From its registration to the return of wait_from a waiter is registered.
WaiterInv ==
    /\ at \in {"lock", "read", "parked"} => waiter # "none"
    /\ NoLostWakeUp

\* A frame is only sent on a check that found the permission.
LossInv ==
    /\ permitted => late = 0
    /\ guarded /\ at = "pop" => late = 0
    /\ OneFrameAfterLoss

Inv == TypeOK /\ CursorInv /\ FrameInv /\ WaiterInv /\ LossInv

LEMMA InvInit == Init => Inv
<1> SUFFICES ASSUME Init PROVE Inv
  OBVIOUS
<1>1. TypeOK
  BY DEF Init, TypeOK, Place
<1>2. CursorInv /\ FrameInv /\ WaiterInv
  BY DEF Init, CursorInv, FrameInv, WaiterInv, NoLostWakeUp
<1>3. LossInv
  BY DEF Init, LossInv, OneFrameAfterLoss
<1> QED
  BY <1>1, <1>2, <1>3 DEF Inv

\* A connection starts inside the buffer, at what the client has if it says so.
LEMMA StartsInside ==
    ASSUME TypeOK, NEW last \in Nat
    PROVE  /\ Start(last) \in Nat /\ Start(last) <= buffered
           /\ last <= buffered => Start(last) = last
BY DEF TypeOK, Start, Min2

LEMMA TypeNext == TypeOK /\ [Next]_vars => TypeOK'
<1> SUFFICES ASSUME TypeOK, [Next]_vars PROVE TypeOK'
  OBVIOUS
<1> USE DEF TypeOK
<1>1. CASE Push
  BY <1>1 DEF Push, cursorVars, clientVars, guardVars
<1>2. CASE EndRun
  BY <1>2 DEF EndRun, cursorVars, clientVars, guardVars
<1>16. CASE ChangeStatus
  BY <1>16 DEF ChangeStatus, cursorVars, clientVars, guardVars
<1>3. CASE NotifyWaiters
  BY <1>3 DEF NotifyWaiters, cursorVars, clientVars, guardVars
<1>4. CASE Connect
  <2>1. PICK last \in {got, 0, MaxEvents + 1} :
            /\ next' = Start(last) /\ seen' = Start(last)
            /\ got' = IF last <= got THEN last ELSE Start(last)
    BY <1>4 DEF Connect
  <2>2. last \in Nat
    BY StreamAssumption
  <2>3. Start(last) \in Nat
    BY <2>2, StartsInside
  <2>4. next' \in Nat /\ seen' \in Nat /\ got' \in Nat
    BY <2>1, <2>2, <2>3
  <2>5. connects' \in Nat /\ at' \in Place
    BY <1>4 DEF Connect, Place
  <2>7. finished' \in BOOLEAN
    BY <1>4 DEF Connect
  <2>6. UNCHANGED <<runVars, waiter, frames, guardVars, late>>
    BY <1>4 DEF Connect
  <2> QED
    BY <2>4, <2>5, <2>6, <2>7 DEF runVars, guardVars
<1>5. CASE Guard
  BY <1>5 DEF Guard, Place, runVars, cursorVars, clientVars, guardVars
<1>6. CASE Pop
  <2>1. at' \in Place
    BY <1>6 DEF Pop, Place
  <2>2. next' \in Nat /\ late' \in Nat
    BY <1>6 DEF Pop
  <2>3. frames' \in SUBSET Nat
    BY <1>6 DEF Pop
  <2>4. UNCHANGED <<runVars, seen, finished, waiter, got, connects, guardVars>>
    BY <1>6 DEF Pop
  <2> QED
    BY <2>1, <2>2, <2>3, <2>4 DEF runVars, guardVars
<1>7. CASE Enable
  BY <1>7 DEF Enable, Place, runVars, cursorVars, clientVars, guardVars
<1>8. CASE LockEvents
  BY <1>8 DEF LockEvents, Place, runVars, cursorVars, clientVars, guardVars
<1>9. CASE Read
  BY <1>9 DEF Read, Place, runVars, clientVars, guardVars
<1>10. CASE Wake
  BY <1>10 DEF Wake, Place, runVars, cursorVars, clientVars, guardVars
<1>11. CASE Recheck
  BY <1>11 DEF Recheck, Place, runVars, cursorVars, clientVars, guardVars
<1>12. CASE Receive
  BY <1>12 DEF Receive, runVars, cursorVars, guardVars
<1>13. CASE Disconnect
  BY <1>13 DEF Disconnect, Place, runVars, cursorVars, guardVars
<1>14. CASE ChangePermission
  BY <1>14 DEF ChangePermission, runVars, cursorVars, clientVars
<1>15. CASE Rest \/ UNCHANGED vars
  BY <1>15 DEF Rest, vars, runVars, cursorVars, clientVars, guardVars
<1> QED
  BY <1>1, <1>2, <1>3, <1>4, <1>5, <1>6, <1>7, <1>8, <1>9, <1>10, <1>11, <1>12, <1>13,
     <1>14, <1>15, <1>16 DEF Next, StreamStep

\* Each step keeps all of it: one case per action.
LEMMA InvNext ==
    ASSUME Inv, [Next]_vars
    PROVE  (CursorInv /\ FrameInv /\ WaiterInv /\ LossInv)'
<1> USE DEF Inv, TypeOK, CursorInv, FrameInv, WaiterInv, LossInv, NoLostWakeUp,
            OneFrameAfterLoss
<1>1. CASE Push
  BY <1>1 DEF Push, cursorVars, clientVars, guardVars
<1>2. CASE EndRun
  BY <1>2 DEF EndRun, cursorVars, clientVars, guardVars
<1>16. CASE ChangeStatus
  BY <1>16 DEF ChangeStatus, cursorVars, clientVars, guardVars
<1>3. CASE NotifyWaiters
  BY <1>3 DEF NotifyWaiters, cursorVars, clientVars, guardVars
<1>4. CASE Connect
  <2>1. PICK last \in {got, 0, MaxEvents + 1} :
            /\ next' = Start(last) /\ seen' = Start(last)
            /\ got' = IF last <= got THEN last ELSE Start(last)
    BY <1>4 DEF Connect
  <2>2. last \in Nat
    BY StreamAssumption
  <2>3. /\ Start(last) \in Nat /\ Start(last) <= buffered
        /\ last <= got => Start(last) = last
    BY <2>2, StartsInside
  <2>4. frames = {} /\ at = "closed" /\ at' = "guard"
    BY <1>4 DEF Connect
  <2> QED
    BY <1>4, <2>1, <2>2, <2>3, <2>4 DEF Connect, runVars, guardVars
<1>5. CASE Guard
  BY <1>5 DEF Guard, runVars, cursorVars, clientVars, guardVars
<1>6. CASE Pop
  <2>1. frames = {} /\ next = got /\ at = "pop"
    BY <1>6 DEF Pop
  <2>2. UNCHANGED <<runVars, seen, finished, waiter, got, connects, guardVars>>
    BY <1>6 DEF Pop
  <2>3. CursorInv'
    <3>1. CASE next < seen
      BY <1>6, <2>1, <2>2, <3>1 DEF Pop, runVars
    <3>2. CASE ~(next < seen)
      BY <1>6, <2>1, <2>2, <3>2 DEF Pop, runVars
    <3> QED
      BY <3>1, <3>2
  <2>4. FrameInv'
    BY <1>6, <2>1, <2>2 DEF Pop
  <2>5. WaiterInv'
    BY <1>6, <2>1, <2>2 DEF Pop, runVars
  <2>6. LossInv'
    <3>1. CASE permitted
      BY <1>6, <2>2, <3>1 DEF Pop, guardVars
    <3>2. CASE ~permitted
      BY <1>6, <2>1, <2>2, <3>2 DEF Pop, guardVars
    <3> QED
      BY <3>1, <3>2
  <2> QED
    BY <2>3, <2>4, <2>5, <2>6
<1>7. CASE Enable
  BY <1>7 DEF Enable, runVars, cursorVars, clientVars, guardVars
<1>8. CASE LockEvents
  BY <1>8 DEF LockEvents, runVars, cursorVars, clientVars, guardVars
<1>9. CASE Read
  BY <1>9 DEF Read, runVars, clientVars, guardVars
<1>10. CASE Wake
  BY <1>10 DEF Wake, runVars, cursorVars, clientVars, guardVars
<1>11. CASE Recheck
  BY <1>11 DEF Recheck, Waiting, runVars, cursorVars, clientVars, guardVars
<1>12. CASE Receive
  <2>1. at = "guard" /\ frames = {got} /\ next = got + 1
    BY <1>12 DEF Receive
  <2>2. frames' = {} /\ got' = got + 1
    BY <1>12 DEF Receive
  <2>3. UNCHANGED <<runVars, at, cursorVars, waiter, connects, guardVars, late>>
    BY <1>12 DEF Receive
  <2>4. CursorInv' /\ FrameInv'
    BY <2>1, <2>2, <2>3 DEF runVars, cursorVars
  <2>5. WaiterInv' /\ LossInv'
    BY <2>3 DEF runVars, cursorVars, guardVars
  <2> QED
    BY <2>4, <2>5
<1>13. CASE Disconnect
  BY <1>13 DEF Disconnect, Connected, runVars, cursorVars, guardVars
<1>14. CASE ChangePermission
  BY <1>14 DEF ChangePermission, runVars, cursorVars, clientVars
<1>15. CASE Rest \/ UNCHANGED vars
  <2>1. UNCHANGED vars
    BY <1>15 DEF Rest
  <2> QED
    BY <2>1 DEF vars, runVars, cursorVars, clientVars, guardVars
<1> QED
  BY <1>1, <1>2, <1>3, <1>4, <1>5, <1>6, <1>7, <1>8, <1>9, <1>10, <1>11, <1>12, <1>13,
     <1>14, <1>15, <1>16 DEF Next, StreamStep

LEMMA InvHolds == Spec => []Inv
<1>1. Inv /\ [Next]_vars => Inv'
  BY TypeNext, InvNext DEF Inv
<1> QED
  BY <1>1, InvInit, PTL DEF Spec

-----------------------------------------------------------------------------
\* Every variable stays of its type, however long the run is.
THEOREM TypeCorrect == Spec => []TypeOK
<1>1. Inv => TypeOK
  BY DEF Inv
<1> QED
  BY <1>1, InvHolds, PTL

\* No wake-up is lost between wait_from's read and its wait.
THEOREM WakeUpsArrive == Spec => []NoLostWakeUp
<1>1. Inv => NoLostWakeUp
  BY DEF Inv, WaiterInv
<1> QED
  BY <1>1, InvHolds, PTL

\* Over any number of connections a client gets every event once, in order.
THEOREM ExactlyOnceInOrder == Spec => []NothingRepeatedOrSkipped
<1>1. Inv => NothingRepeatedOrSkipped
  BY DEF Inv, FrameInv, NothingRepeatedOrSkipped
<1> QED
  BY <1>1, InvHolds, PTL

\* A stream ends of itself only after the last event of the run.
THEOREM StreamsEndComplete == Spec => []EndedStreamsAreComplete
<1>1. Inv => EndedStreamsAreComplete
  BY DEF Inv, TypeOK, CursorInv, FrameInv, EndedStreamsAreComplete
<1> QED
  BY <1>1, InvHolds, PTL

\* A subscriber who lost the run gets at most the frame already past its check.
THEOREM LossIsNoticed == Spec => []OneFrameAfterLoss
<1>1. Inv => OneFrameAfterLoss
  BY DEF Inv, LossInv
<1> QED
  BY <1>1, InvHolds, PTL
=============================================================================
