------------------------- MODULE RevocationMonitor -------------------------
(***************************************************************************)
(* The revalidation monitor of a run manager (crates/lightagent-api/src/   *)
(* manager.rs): one task that re-checks every revocable run on each tick,  *)
(* is started by the first run that needs it and stops when none is left.  *)
(*                                                                         *)
(* Launching a run, ending one and the monitor's own work are concurrent;  *)
(* they meet at the run map, at an atomic count of active runs and at the  *)
(* lock that holds the monitor's task.  RunSupervisor has what a single    *)
(* run does with a revocation.                                             *)
(***************************************************************************)
EXTENDS Naturals, Sequences, FiniteSets

CONSTANTS RUN,        \* the revocable runs that may be launched
          MaxIdentityChanges  \* bound: changes of the durable identity state

ASSUME MonitorAssumption == IsFiniteSet(RUN) /\ MaxIdentityChanges \in Nat

VARIABLES stage,    \* how far each run is, from launch to its terminal status
          revoked,  \* the runs whose authorization is revoked
          allowed,  \* the runs the durable identity state allows
          identityChanges,  \* how often that changed
          manager,  \* a clone of the RunManager is alive
          active,   \* Monitor.active
          task,     \* Monitor.task: the task it holds, 0 for none
          taskAt,       \* where each monitor task that was ever started is
          found     \* the runs each task's sweep is looking at

watchedVars == <<stage, revoked>>
identityVars == <<allowed, identityChanges, manager>>
monitorVars == <<task, taskAt, found>>
allMonitorVars == <<watchedVars, identityVars, active, monitorVars>>

Stage == {"none", "inserted", "counted", "driving", "returned", "uncounted", "ended"}
TaskPlace == {"asleep", "awake", "listing", "filtering", "checking", "swept", "leaving", "stopped"}

MonitorInit ==
    /\ stage = [r \in RUN |-> "none"]
    /\ revoked = {} /\ allowed = RUN /\ identityChanges = 0 /\ manager = TRUE
    /\ active = 0 /\ task = 0 /\ taskAt = <<>> /\ found = <<>>

-----------------------------------------------------------------------------
(* A run: launch, and the end of its task.                                 *)

Move(r, from, to) == stage[r] = from /\ stage' = [stage EXCEPT ![r] = to]

\* launch puts the run in the map ...
Insert(r) ==
    /\ manager
    /\ Move(r, "none", "inserted")
    /\ UNCHANGED <<revoked, identityVars, active, monitorVars>>

\* ... counts it ...
Count(r) ==
    /\ Move(r, "inserted", "counted")
    /\ active' = active + 1
    /\ UNCHANGED <<revoked, identityVars, monitorVars>>

\* Mutant: only a run that finds itself alone starts the monitor.
EnsureMonitor_firstOnly(r) ==
    /\ Move(r, "counted", "driving")
    /\ IF active > 1 \/ (task # 0 /\ taskAt[task] # "stopped")
         THEN UNCHANGED monitorVars
         ELSE /\ taskAt' = Append(taskAt, "asleep")
              /\ found' = Append(found, {})
              /\ task' = Len(taskAt) + 1
    /\ UNCHANGED <<revoked, identityVars, active>>

\* ... and makes sure, under the lock, that a monitor runs before it does.
EnsureMonitor(r) ==
    /\ Move(r, "counted", "driving")
    /\ IF task # 0 /\ taskAt[task] # "stopped"
         THEN UNCHANGED monitorVars
         ELSE /\ taskAt' = Append(taskAt, "asleep")
              /\ found' = Append(found, {})
              /\ task' = Len(taskAt) + 1
    /\ UNCHANGED <<revoked, identityVars, active>>

\* The run comes to an end, of itself or because it was cancelled.
Return(r) ==
    /\ Move(r, "driving", "returned")
    /\ UNCHANGED <<revoked, identityVars, active, monitorVars>>

\* Mutant: the end of one run clears the count.
Uncount_reset(r) ==
    /\ Move(r, "returned", "uncounted")
    /\ active' = 0
    /\ UNCHANGED <<revoked, identityVars, monitorVars>>

\* It stops counting before its terminal status is visible.
Uncount(r) ==
    /\ Move(r, "returned", "uncounted")
    /\ active' = active - 1
    /\ UNCHANGED <<revoked, identityVars, monitorVars>>

Finish(r) ==
    /\ Move(r, "uncounted", "ended")
    /\ UNCHANGED <<revoked, identityVars, active, monitorVars>>

-----------------------------------------------------------------------------
(* The identity state, and the server going away.                          *)

ChangeIdentity(r) ==
    /\ identityChanges < MaxIdentityChanges
    /\ identityChanges' = identityChanges + 1
    /\ allowed' = IF r \in allowed THEN allowed \ {r} ELSE allowed \cup {r}
    /\ UNCHANGED <<watchedVars, manager, active, monitorVars>>

\* A launch in progress holds the manager.
DropManager ==
    /\ manager
    /\ \A r \in RUN : stage[r] \notin {"inserted", "counted"}
    /\ manager' = FALSE
    /\ UNCHANGED <<watchedVars, allowed, identityChanges, active, monitorVars>>

-----------------------------------------------------------------------------
(* A monitor task (watch_runs, sweep_runs).                                *)

Step(i, from, to) == taskAt[i] = from /\ taskAt' = [taskAt EXCEPT ![i] = to]

Tick(i) ==
    /\ Step(i, "asleep", "awake")
    /\ UNCHANGED <<watchedVars, identityVars, active, task, found>>

\* The task holds the run map weakly.
Upgrade(i) ==
    /\ Step(i, "awake", IF manager THEN "listing" ELSE "leaving")
    /\ UNCHANGED <<watchedVars, identityVars, active, task, found>>

\* Under the map's lock, all runs ...
List(i) ==
    /\ Step(i, "listing", "filtering")
    /\ found' = [found EXCEPT ![i] = {r \in RUN : stage[r] # "none"}]
    /\ UNCHANGED <<watchedVars, identityVars, active, task>>

\* ... then without it, those neither revoked nor terminal.
Filter(i) ==
    /\ Step(i, "filtering", "checking")
    /\ found' = [found EXCEPT ![i] = {r \in @ : r \notin revoked /\ stage[r] # "ended"}]
    /\ UNCHANGED <<watchedVars, identityVars, active, task>>

\* Every run found is verified against one read of the identity state, and
\* revoked if that disallows it.
Check(i) ==
    /\ Step(i, "checking", "swept")
    /\ revoked' = revoked \cup (found[i] \ allowed)
    /\ found' = [found EXCEPT ![i] = {}]
    /\ UNCHANGED <<stage, identityVars, active, task>>

\* Under the lock: with no run active the task gives up its place and stops.
StopOrGoOn(i) ==
    /\ IF active = 0
         THEN Step(i, "swept", "stopped") /\ task' = 0
         ELSE Step(i, "swept", "asleep") /\ UNCHANGED task
    /\ UNCHANGED <<watchedVars, identityVars, active, found>>

\* The manager is gone.
Leave(i) ==
    /\ Step(i, "leaving", "stopped")
    /\ task' = 0
    /\ UNCHANGED <<watchedVars, identityVars, active, found>>

-----------------------------------------------------------------------------
LaunchStep(r) == Insert(r) \/ Count(r) \/ EnsureMonitor(r)
EndStep(r) == Uncount(r) \/ Finish(r)
MonitorStep(i) ==
    Tick(i) \/ Upgrade(i) \/ List(i) \/ Filter(i) \/ Check(i) \/ StopOrGoOn(i) \/ Leave(i)

\* Nothing is left that could run.
MonitorRest ==
    /\ \A r \in RUN : stage[r] \in {"none", "ended"}
    /\ \A i \in DOMAIN taskAt : taskAt[i] = "stopped"
    /\ UNCHANGED allMonitorVars

MonitorNext ==
    \/ \E r \in RUN : LaunchStep(r) \/ Return(r) \/ EndStep(r) \/ ChangeIdentity(r)
    \/ DropManager
    \/ \E i \in DOMAIN taskAt : MonitorStep(i)
    \/ MonitorRest

\* The runtime schedules the tasks: a launch that began goes on, a monitor
\* keeps ticking, a returned run ends.  Only a revoked run has to return
\* (RunSupervisor: the revocation cancels it).
Fairness ==
    /\ \A r \in RUN : /\ WF_allMonitorVars(Count(r) \/ EnsureMonitor(r) \/ EndStep(r))
                      /\ WF_allMonitorVars(r \in revoked /\ Return(r))
    /\ WF_allMonitorVars(\E i \in DOMAIN taskAt : MonitorStep(i))

MonitorSpec == MonitorInit /\ [][MonitorNext]_allMonitorVars /\ Fairness

-----------------------------------------------------------------------------
(* Properties.                                                             *)

MonitorTypeOK ==
    /\ stage \in [RUN -> Stage]
    /\ revoked \subseteq RUN /\ allowed \subseteq RUN
    /\ manager \in BOOLEAN
    /\ {active, identityChanges, task} \subseteq Nat
    /\ taskAt \in Seq(TaskPlace) /\ found \in Seq(SUBSET RUN) /\ Len(found) = Len(taskAt)

Counted == {r \in RUN : stage[r] \in {"counted", "driving", "returned"}}
Live == {i \in DOMAIN taskAt : taskAt[i] # "stopped"}

\* "a run starting while the monitor stops is never left unwatched": as long
\* as the manager lives, a run that is being driven has a live monitor.
RunsAreWatched ==
    manager /\ (\E r \in RUN : stage[r] \in {"driving", "returned"}) =>
        task \in Live

\* There is never a second monitor, and the one there is can be found.
OneMonitor == Live \subseteq {task}

\* A driven run that stays disallowed is revoked, unless it ends by itself or
\* the server goes away.
LostAuthorityIsRevoked ==
    \A r \in RUN :
        stage[r] = "driving" /\ r \notin allowed ~>
            r \in revoked \/ r \in allowed \/ stage[r] # "driving" \/ ~manager

=============================================================================
