----------------------------- MODULE WorkerPool -----------------------------
(***************************************************************************)
(* The workers that runs delegate to: how many may run at once (Admission) *)
(* and what one run's workers may spend together (TreeBudget), both in     *)
(* crates/lightagent-tools/src/budget.rs, through a worker's life in       *)
(* builtins/delegate.rs: run_worker, park, resume_worker, conclude.        *)
(*                                                                         *)
(* A semaphore is the set of workers that hold a permit of it and a queue, *)
(* served in order: a permit given back goes to the queue before anybody   *)
(* may try for it.  Tool calls are accounted for exactly as turns are, and *)
(* are left out.                                                           *)
(***************************************************************************)
EXTENDS Naturals, Sequences, FiniteSets, Tally

CONSTANTS LEAD,           \* the runs that delegate
          WORKER,         \* the workers they may start
          PROFILE,        \* the profiles the runs belong to
          Profile,        \* each run's profile
          Lead,           \* each worker's run
          Parent,         \* the worker that starts it, or NoWorker: its run does
          NoWorker,       \* a model value
          Want,           \* the turns each worker's own limits allow
          MaxTurns,       \* the turns of a run, shared by its workers
          MaxWorkers,     \* max_workers_per_run
          MaxActive,      \* max_active_workers
          MaxPerProfile,  \* max_active_workers_per_profile
          MaxParks,       \* bound: actions that wait for a person
          MaxDrops        \* bound: workers whose tool call is given up

ASSUME PoolAssumption ==
    /\ Profile \in [LEAD -> PROFILE] /\ Lead \in [WORKER -> LEAD]
    /\ IsFiniteSet(WORKER) /\ NoWorker \notin WORKER /\ "global" \notin PROFILE
    /\ Parent \in [WORKER -> WORKER \cup {NoWorker}]
    /\ Want \in [WORKER -> Nat \ {0}]
    /\ {MaxTurns, MaxWorkers, MaxActive, MaxPerProfile} \subseteq Nat \ {0}
    /\ {MaxParks, MaxDrops} \subseteq Nat

VARIABLES stage,     \* how far each worker is
          byLead,    \* its run's own tool call drives it, not its parent's
          kept,      \* the permits its first try got and did not use
          held,      \* the permits it waited for, or runs with
          queue,     \* the workers waiting for each semaphore
          granted,   \* the turns it was granted
          used,      \* the turns it completed
          left,      \* per run: the turns nobody was granted ...
          workers,   \* ... and the workers it may still start
          parks, drops

permitVars == <<kept, held, queue>>
budgetVars == <<granted, left, workers>>
vars == <<stage, byLead, permitVars, budgetVars, used, parks, drops>>

Semaphore == PROFILE \cup {"global"}
Capacity(s) == IF s = "global" THEN MaxActive ELSE MaxPerProfile
Slot(w) == Profile[Lead[w]]
Both(w) == {Slot(w), "global"}

Waiting == {"profile", "global"}
Active == {"trying", "tryingGlobal", "admitted", "running"} \cup Waiting
Stage == {"idle", "parked", "over"} \cup Active

Init ==
    /\ stage = [w \in WORKER |-> "idle"]
    /\ byLead = [w \in WORKER |-> Parent[w] = NoWorker]
    /\ kept = [w \in WORKER |-> {}] /\ held = [w \in WORKER |-> {}]
    /\ queue = [s \in Semaphore |-> <<>>]
    /\ granted = [w \in WORKER |-> 0] /\ used = [w \in WORKER |-> 0]
    /\ left = [l \in LEAD |-> MaxTurns]
    /\ workers = [l \in LEAD |-> MaxWorkers]
    /\ parks = 0 /\ drops = 0

Go(w, from, to) == stage[w] = from /\ stage' = [stage EXCEPT ![w] = to]

-----------------------------------------------------------------------------
(* Who is waited for: a run, and a worker, has one tool call at a time.    *)

LeadIsFree(l) == \A w \in WORKER : Lead[w] = l /\ byLead[w] => stage[w] \notin Active
ParentIsFree(p) == \A w \in WORKER : Parent[w] = p /\ ~byLead[w] => stage[w] \notin Active
MayAct(w) == stage[w] = "running" /\ ParentIsFree(w)

-----------------------------------------------------------------------------
(* Permits.                                                                *)

Holders(s) == {w \in WORKER : s \in kept[w]}
Owners(s) == {w \in WORKER : s \in held[w]}
Free(s) == Cardinality(Holders(s)) + Cardinality(Owners(s)) < Capacity(s)

\* try_acquire_owned.
Tried(w, s) == IF queue[s] = <<>> /\ Free(s) THEN kept[w] \cup {s} ELSE kept[w]

\* An acquire that is polled, and one whose turn it is.
Enqueued(w, s) == queue' = [queue EXCEPT ![s] = Append(@, w)]
IsNext(w, s) == queue[s] # <<>> /\ Head(queue[s]) = w /\ Free(s)

\* Dropping the future, or what it returned, gives everything back.
GivesBack(gone) ==
    /\ kept' = [w \in WORKER |-> IF w \in gone THEN {} ELSE kept[w]]
    /\ held' = [w \in WORKER |-> IF w \in gone THEN {} ELSE held[w]]
    /\ queue' = [s \in Semaphore |-> SelectSeq(queue[s], LAMBDA w : w \notin gone)]

-----------------------------------------------------------------------------
(* The budget.                                                             *)

\* TreeBudget::settle: what the worker did not use returns.
Settle(w) ==
    /\ left' = [left EXCEPT ![Lead[w]] = @ + (granted[w] - used[w])]
    /\ UNCHANGED <<granted, workers>>

-----------------------------------------------------------------------------
(* Admission::admit.  A nested worker runs inside its parent's slot.       *)

Start(w) ==
    /\ IF byLead[w] THEN LeadIsFree(Lead[w])
                    ELSE stage[Parent[w]] = "running" /\ ParentIsFree(Parent[w])
    /\ Go(w, "idle", IF byLead[w] THEN "trying" ELSE "admitted")
    /\ UNCHANGED <<byLead, permitVars, budgetVars, used, parks, drops>>

TryProfile(w) ==
    /\ Go(w, "trying", "tryingGlobal")
    /\ kept' = [kept EXCEPT ![w] = Tried(w, Slot(w))]
    /\ UNCHANGED <<byLead, held, queue, budgetVars, used, parks, drops>>

\* With both it is admitted.  With one it keeps that one while it waits, in
\* line, for a permit of each.
TryGlobal(w) ==
    /\ LET got == Tried(w, "global") IN
       IF got = Both(w)
         THEN /\ Go(w, "tryingGlobal", "admitted")
              /\ held' = [held EXCEPT ![w] = got]
              /\ kept' = [kept EXCEPT ![w] = {}]
              /\ UNCHANGED queue
         ELSE /\ Go(w, "tryingGlobal", "profile")
              /\ kept' = [kept EXCEPT ![w] = got]
              /\ Enqueued(w, Slot(w))
              /\ UNCHANGED held
    /\ UNCHANGED <<byLead, budgetVars, used, parks, drops>>

TakeProfile(w) ==
    /\ Go(w, "profile", "global")
    /\ IsNext(w, Slot(w))
    /\ held' = [held EXCEPT ![w] = {Slot(w)}]
    /\ queue' = [queue EXCEPT ![Slot(w)] = Tail(@), !["global"] = Append(@, w)]
    /\ UNCHANGED <<byLead, kept, budgetVars, used, parks, drops>>

\* What the first try got is dropped as admit returns.
TakeGlobal(w) ==
    /\ Go(w, "global", "admitted")
    /\ IsNext(w, "global")
    /\ held' = [held EXCEPT ![w] = Both(w)]
    /\ kept' = [kept EXCEPT ![w] = {}]
    /\ queue' = [queue EXCEPT !["global"] = Tail(@)]
    /\ UNCHANGED <<byLead, budgetVars, used, parks, drops>>

\* Mutant: only the wait for the second permit is bounded.
TimeOut_globalOnly(w) ==
    /\ stage[w] = "global" /\ ~IsNext(w, "global")
    /\ stage' = [stage EXCEPT ![w] = "over"]
    /\ GivesBack({w})
    /\ Settle(w)
    /\ UNCHANGED <<byLead, used, parks, drops>>

\* queue_timeout, which is looked at only when the permit is not there.  A
\* worker that was to be resumed returns its grant.
TimeOut(w) ==
    /\ stage[w] \in Waiting
    /\ ~IsNext(w, IF stage[w] = "global" THEN "global" ELSE Slot(w))
    /\ stage' = [stage EXCEPT ![w] = "over"]
    /\ GivesBack({w})
    /\ Settle(w)
    /\ UNCHANGED <<byLead, used, parks, drops>>

-----------------------------------------------------------------------------
(* run_worker, conclude, park and resume_worker.                           *)

\* TreeBudget::grant, refused when workers, turns or time are spent.  The
\* clock of the tree is not modelled: it may have run out whenever it is read.
Grant(w) ==
    /\ granted[w] = 0 /\ workers[Lead[w]] > 0 /\ left[Lead[w]] > 0
    /\ Go(w, "admitted", "running")
    /\ LET l == Lead[w]
           turns == IF Want[w] < left[l] THEN Want[w] ELSE left[l] IN
       /\ granted' = [granted EXCEPT ![w] = turns]
       /\ left' = [left EXCEPT ![Lead[w]] = @ - turns]
    /\ workers' = [workers EXCEPT ![Lead[w]] = @ - 1]
    /\ UNCHANGED <<byLead, permitVars, used, parks, drops>>

RefuseGrant(w) ==
    /\ granted[w] = 0
    /\ Go(w, "admitted", "over")
    /\ GivesBack({w})
    /\ UNCHANGED <<byLead, budgetVars, used, parks, drops>>

\* A resumed worker goes on with the grant it has.
GoOn(w) ==
    /\ granted[w] > 0
    /\ Go(w, "admitted", "running")
    /\ UNCHANGED <<byLead, permitVars, budgetVars, used, parks, drops>>

\* The worker's loop stays within the turns of its grant (AgentLoop).
UseTurn(w) ==
    /\ MayAct(w) /\ used[w] < granted[w]
    /\ used' = [used EXCEPT ![w] = @ + 1]
    /\ UNCHANGED <<stage, byLead, permitVars, budgetVars, parks, drops>>

Finish(w) ==
    /\ MayAct(w)
    /\ Go(w, "running", "over")
    /\ GivesBack({w})
    /\ Settle(w)
    /\ UNCHANGED <<byLead, used, parks, drops>>

\* Mutant: a parked worker is settled, as one that is over is.
Park_settles(w) ==
    /\ MayAct(w) /\ parks < MaxParks
    /\ parks' = parks + 1
    /\ Go(w, "running", "parked")
    /\ GivesBack({w})
    /\ Settle(w)
    /\ UNCHANGED <<byLead, used, drops>>

\* The slot is given back while a person is asked, the grant is not.
Park(w) ==
    /\ MayAct(w) /\ parks < MaxParks
    /\ parks' = parks + 1
    /\ Go(w, "running", "parked")
    /\ GivesBack({w})
    /\ UNCHANGED <<byLead, budgetVars, used, drops>>

\* Mutant: a worker that ran before needs no slot.
Resume_unadmitted(w) ==
    /\ LeadIsFree(Lead[w])
    /\ Go(w, "parked", "running")
    /\ byLead' = [byLead EXCEPT ![w] = TRUE]
    /\ UNCHANGED <<permitVars, budgetVars, used, parks, drops>>

\* The handle is taken by the run's next call, whoever started the worker.
Resume(w) ==
    /\ LeadIsFree(Lead[w])
    /\ Go(w, "parked", "trying")
    /\ byLead' = [byLead EXCEPT ![w] = TRUE]
    /\ UNCHANGED <<permitVars, budgetVars, used, parks, drops>>

\* Expired, cancelled or revoked: nothing is resumed.
RefuseResume(w) ==
    /\ LeadIsFree(Lead[w])
    /\ Go(w, "parked", "over")
    /\ Settle(w)
    /\ UNCHANGED <<byLead, permitVars, used, parks, drops>>

\* The executor gives the call up (its timeout, or the run's cancellation)
\* and drops it, with the nested call it waits for: nothing is settled.
Drop(w) ==
    LET gone == {w} \cup {c \in WORKER : Parent[c] = w /\ ~byLead[c] /\ stage[c] \in Active} IN
    /\ stage[w] \in Active /\ drops < MaxDrops
    /\ drops' = drops + 1
    /\ stage' = [c \in WORKER |-> IF c \in gone THEN "over" ELSE stage[c]]
    /\ GivesBack(gone)
    /\ UNCHANGED <<byLead, budgetVars, used, parks>>

-----------------------------------------------------------------------------
Admit(w) == TryProfile(w) \/ TryGlobal(w) \/ TakeProfile(w) \/ TakeGlobal(w)
Run(w) == Grant(w) \/ RefuseGrant(w) \/ GoOn(w) \/ UseTurn(w) \/ Finish(w)
Ask(w) == Park(w) \/ Resume(w) \/ RefuseResume(w)

\* Nobody works, and nobody needs to start: those that wait may go on waiting.
Rest == (\A w \in WORKER : stage[w] \notin Active \ Waiting) /\ UNCHANGED vars

Next ==
    \/ \E w \in WORKER :
          Start(w) \/ Admit(w) \/ TimeOut(w) \/ Run(w) \/ Ask(w) \/ Drop(w)
    \/ Rest

\* A worker that is driven goes on, ends, and does not wait beyond its
\* timeout; nobody has to start one or to answer for a parked one.
Spec ==
    /\ Init /\ [][Next]_vars
    /\ \A w \in WORKER : WF_vars(Admit(w)) /\ WF_vars(TimeOut(w)) /\ WF_vars(Run(w) /\ stage' # stage)

-----------------------------------------------------------------------------
(* Properties.                                                             *)

TypeOK ==
    /\ stage \in [WORKER -> Stage] /\ byLead \in [WORKER -> BOOLEAN]
    /\ kept \in [WORKER -> SUBSET Semaphore] /\ held \in [WORKER -> SUBSET Semaphore]
    /\ queue \in [Semaphore -> Seq(WORKER)]
    /\ granted \in [WORKER -> Nat] /\ used \in [WORKER -> Nat]
    /\ left \in [LEAD -> Nat] /\ workers \in [LEAD -> Nat]
    /\ parks \in Nat /\ drops \in Nat

Working(w) == byLead[w] /\ stage[w] \in {"admitted", "running"}

\* No more workers run at once than the configuration allows, in one profile
\* and altogether, however they were admitted, parked and resumed.
SlotsAreBounded ==
    /\ Cardinality({w \in WORKER : Working(w)}) <= MaxActive
    /\ \A p \in PROFILE :
          Cardinality({w \in WORKER : Working(w) /\ Slot(w) = p}) <= MaxPerProfile

Tree(l) == {w \in WORKER : Lead[w] = l}

\* All the workers of a run together stay within its turns and its workers.
TreeStaysWithinItsLimits ==
    \A l \in LEAD :
        /\ left[l] + Tally(used, Tree(l)) <= MaxTurns
        /\ Cardinality({w \in Tree(l) : granted[w] > 0}) <= MaxWorkers

\* "Waiting is ... bounded by a queue timeout": nobody waits for ever, not
\* even for a permit it keeps itself.
WaitingEnds == \A w \in WORKER : stage[w] \in Waiting ~> stage[w] \notin Waiting

=============================================================================
