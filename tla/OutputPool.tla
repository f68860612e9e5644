----------------------------- MODULE OutputPool -----------------------------
(***************************************************************************)
(* The tokens one run may generate: OutputPool of                          *)
(* crates/lightagent-core/src/generation.rs, divided by an OutputPlan as   *)
(* allocation.rs says, and used by the turns of the lead (loop_.rs,        *)
(* take_turn) and of its workers (delegate.rs, claim_share).               *)
(*                                                                         *)
(* A step is what the pool does under its lock.  Any handle may have a     *)
(* turn in flight while any other does anything: the pool is written for   *)
(* turns at the same time.                                                 *)
(***************************************************************************)
EXTENDS Naturals, Sequences, FiniteSets, Tally

CONSTANTS Worker,       \* handles of workers
          Total,        \* max_run_output_tokens
          MinGrant,     \* MIN_GRANT
          Plan,         \* plans that may be installed
          Asks,         \* what a turn asks for: a ceiling, its window's room ...
          Cap,          \* what a worker's own limits could use, or NoCap
          NoCap,        \* a model value
          Overrun,      \* what a provider may report beyond its grant
          MaxReservations \* bound: turns taken

\* MAX_SHARES: a plan has at most four shares; one not there has no role.
Part == 1..4
Role == {"coder", "researcher", "reviewer", "tester"}
NoRole == "none"
Purpose == {"turn", "answer", "continuation"}
Demand == {"light", "standard", "heavy"}

ASSUME OutputAssumption ==
    /\ IsFiniteSet(Worker) /\ "lead" \notin Worker
    /\ NoCap \notin Nat
    /\ {Total, MaxReservations} \subseteq Nat /\ MinGrant \in Nat \ {0}
    /\ Asks \subseteq Nat \ {0} /\ Overrun \subseteq Nat
    /\ Cap \subseteq Nat \cup {NoCap}
    /\ \A p \in Plan :
          /\ p.roles \in [Part -> Role \cup {NoRole}]
          /\ p.demands \in [Part -> Demand]
          /\ \A i, j \in Part : p.roles[i] = p.roles[j] /\ p.roles[i] # NoRole => i = j
          /\ p.leadFloor \in Nat /\ p.followUp \in BOOLEAN

VARIABLES spent, reserved, overrun, \* PoolState
          divided,      \* a plan was installed
          lead, leadLeft, followUp, followUpLeft, \* PlanState
          share,        \* its shares: role, demand, planned, left, stage
          account,      \* of each worker's handle; "none" before it starts
          turn,         \* each handle's reservation in flight, or NoTurn
          turns

poolVars == <<spent, reserved, overrun>>
reserveVars == <<leadLeft, followUpLeft>>
planVars == <<divided, lead, followUp>>
outputVars == <<poolVars, planVars, reserveVars, share, account, turn, turns>>

Agent == {"lead"} \cup Worker
NoTurn == [tokens |-> 0, own |-> 0, followUp |-> 0,
           lent |-> [i \in Part |-> 0], purpose |-> "turn"]
InFlight(a) == turn[a].tokens > 0
NoShare == [role |-> NoRole, demand |-> "light", planned |-> 0, left |-> 0,
            stage |-> "absent"]

Lesser(a, b) == IF a < b THEN a ELSE b
Greater(a, b) == IF a < b THEN b ELSE a
Monus(a, b) == IF a < b THEN 0 ELSE a - b          \* saturating_sub
SumOf(f) == f[1] + f[2] + f[3] + f[4]

OutputInit ==
    /\ spent = 0 /\ reserved = 0 /\ overrun = 0
    /\ divided = FALSE
    /\ lead = 0 /\ leadLeft = 0 /\ followUp = 0 /\ followUpLeft = 0
    /\ share = [i \in Part |-> NoShare]
    /\ account = [a \in Agent |-> [kind |-> IF a = "lead" THEN "lead" ELSE "none", slot |-> 0]]
    /\ turn = [a \in Agent |-> NoTurn]
    /\ turns = 0

-----------------------------------------------------------------------------
(* Who holds what.                                                         *)

LeftIn(stages) == SumOf([i \in Part |-> IF share[i].stage \in stages THEN share[i].left ELSE 0])
Unstarted == LeftIn({"planned"})
Held == leadLeft + followUpLeft + LeftIn({"planned", "running"})
\* Mutant: what turns in flight have reserved counts as free.
FreeTokens_reservedTwice == Monus(Monus(Total, spent), Held)

FreeTokens == Monus(Monus(Monus(Total, spent), reserved), Held)

IsLead(a) == account[a].kind = "lead"
Running(a) == account[a].kind \notin {"none", "over"}
Holds(a, i) == account[a].kind = "share" /\ account[a].slot = i
\* PlanState::own: the lead's reserve, or the share of a running worker.
Own(a) ==
    IF IsLead(a) THEN leadLeft
    ELSE IF account[a].kind = "share" /\ share[account[a].slot].stage = "running"
    THEN share[account[a].slot].left ELSE 0

LeadFinal(a, purpose) == IsLead(a) /\ purpose # "turn"
\* PoolState::reachable.
ReachesFollowUp(a, purpose) ==
    \/ LeadFinal(a, purpose)
    \/ purpose = "continuation"
    \/ account[a].kind = "followUp"
Reach(a, purpose) ==
    [own |-> Own(a),
     followUp |-> IF ReachesFollowUp(a, purpose) THEN followUpLeft ELSE 0,
     free |-> FreeTokens,
     unstarted |-> IF LeadFinal(a, purpose) THEN Unstarted ELSE 0]
Available(a, purpose) ==
    LET r == Reach(a, purpose) IN r.own + r.followUp + r.free + r.unstarted

-----------------------------------------------------------------------------
(* allocate and split.                                                     *)

Percent(tokens, percent) == (tokens * percent) \div 100
Weight(demand) == CASE demand = "light" -> 1 [] demand = "standard" -> 2 [] demand = "heavy" -> 3
WeightOf(slots, demands) == SumOf([i \in Part |-> IF i \in slots THEN Weight(demands[i]) ELSE 0])
\* Each part's share by weight, rounded down; no caller gives a cap.
Split(tokens, slots, demands) ==
    [i \in Part |-> IF i \in slots
                    THEN (tokens * Weight(demands[i])) \div WeightOf(slots, demands) ELSE 0]

LeadPart(available, p) ==
    Greater(Percent(available, 25), Lesser(p.leadFloor, available \div 2))
FollowUpPart(available, p) ==
    IF p.followUp THEN Lesser(Percent(available, 10), available - LeadPart(available, p)) ELSE 0
Named(p) == {i \in Part : p.roles[i] # NoRole}

\* The plan made for a run (coordinator/allocation.rs, plan): a class for each
\* selected role, raised when the task is confidently complex.
RoleDemand(role) ==
    CASE role = "coder" -> "heavy" [] role \in {"researcher", "reviewer"} -> "standard"
      [] OTHER -> "light"
DemandFor(role, complex) ==
    IF complex /\ role = "researcher" THEN "heavy" ELSE RoleDemand(role)
PlanFor(steps, complex, floor, continues, repairs) ==
    LET at(i) == IF i <= Len(steps) THEN steps[i] ELSE NoRole
        chosen == {at(i) : i \in Part}
    IN  [roles |-> [i \in Part |-> at(i)],
         demands |-> [i \in Part |-> DemandFor(at(i), complex)],
         leadFloor |-> floor,
         followUp |-> \/ continues
                      \/ repairs /\ "coder" \in chosen /\ chosen \cap {"tester", "reviewer"} # {}]

\* OutputPool::install, at most once and before the run's first turn (chat.rs,
\* serve.rs).  A plan that names a role twice is refused (OutputPlan::validate):
\* the plans a selection makes name a role once, as OutputAssumption says.
Install(p) ==
    /\ ~divided /\ turns = 0 /\ \A w \in Worker : account[w].kind = "none"
    /\ divided' = TRUE
    /\ LET l == LeadPart(FreeTokens, p)
           f == FollowUpPart(FreeTokens, p)
           parts == Split(FreeTokens - l - f, Named(p), p.demands)
       IN  /\ lead' = l /\ leadLeft' = l /\ followUp' = f /\ followUpLeft' = f
           /\ share' = [i \in Part |->
                 IF i \in Named(p)
                 THEN [role |-> p.roles[i], demand |-> p.demands[i],
                       planned |-> parts[i], left |-> parts[i], stage |-> "planned"]
                 ELSE NoShare]
    /\ UNCHANGED <<poolVars, account, turn, turns>>

-----------------------------------------------------------------------------
(* Workers.                                                                *)

SlotOf(role) == {i \in Part : share[i].role = role /\ role # NoRole}
PlannedSlots == {i \in Part : share[i].stage = "planned"}

\* OutputPool::claim: the first worker of a planned role holds its share, cut
\* to what it could use; the rest goes to the roles that have not started.
Claims(w, i, cap) ==
    LET excess == IF cap = NoCap THEN 0 ELSE Monus(share[i].left, cap)
        extra == Split(excess, PlannedSlots \ {i}, [j \in Part |-> share[j].demand])
    IN  /\ account' = [account EXCEPT ![w] = [kind |-> "share", slot |-> i]]
        /\ share' = [j \in Part |->
              IF j = i THEN [share[j] EXCEPT !.stage = "running", !.left = @ - excess,
                                             !.planned = @ - excess]
              ELSE [share[j] EXCEPT !.left = @ + extra[j], !.planned = @ + extra[j]]]

\* claim_share: a nested worker, and one of no role, has no claim.
StartWorker(w, role, cap) ==
    /\ account[w].kind = "none"
    /\ IF \E i \in SlotOf(role) : share[i].stage = "planned"
       THEN \E i \in SlotOf(role) : Claims(w, i, cap)
       ELSE /\ account' = [account EXCEPT ![w] =
                  [kind |-> IF SlotOf(role) = {} THEN "unplanned" ELSE "followUp", slot |-> 0]]
            /\ UNCHANGED share
    /\ UNCHANGED <<poolVars, planVars, reserveVars, turn, turns>>

\* Mutant: the share of a worker that ended stays held.
Released_kept(w) == share

Released(w) ==
    IF account[w].kind = "share"
    THEN [share EXCEPT ![account[w].slot].left = 0, ![account[w].slot].stage = "released"]
    ELSE share

\* ShareClaim::drop, however the worker ended; its reservation, if any, was
\* dropped with its turn before.
EndWorker(w) ==
    /\ Running(w) /\ ~InFlight(w)
    /\ share' = Released(w)
    /\ account' = [account EXCEPT ![w] = [kind |-> "over", slot |-> 0]]
    /\ UNCHANGED <<poolVars, planVars, reserveVars, turn, turns>>

-----------------------------------------------------------------------------
(* Turns.                                                                  *)

\* PlanState::lend: from the shares of roles not started, in plan order.
Lent(tokens) ==
    LET before(i) == SumOf([j \in Part |-> IF j < i /\ j \in PlannedSlots THEN share[j].left ELSE 0])
    IN  [i \in Part |-> IF i \in PlannedSlots
                        THEN Lesser(share[i].left, Monus(tokens, before(i))) ELSE 0]

\* How a grant is drawn: own tokens first; the lead then uses what is free,
\* the follow-up reserve and what it may borrow, a worker the follow-up
\* reserve and what is free.
Drawn(a, tokens, purpose) ==
    LET r == Reach(a, purpose)
        own == Lesser(tokens, r.own)
        rest == Monus(tokens - own, IF IsLead(a) THEN r.free ELSE 0)
        fromFollowUp == Lesser(rest, r.followUp)
        borrowed == IF IsLead(a) THEN Lesser(rest - fromFollowUp, r.unstarted) ELSE 0
    IN  [tokens |-> tokens, own |-> own, followUp |-> fromFollowUp,
         lent |-> Lent(borrowed), purpose |-> purpose]

\* PlanState::take, and lend.
Taken(a, t) ==
    [i \in Part |->
        LET own == IF Holds(a, i) THEN t.own ELSE 0
        IN  [share[i] EXCEPT !.left = (@ - own) - t.lent[i]]]

\* OutputPool::reserve_in.
Reserve(a, ask, purpose) ==
    /\ Running(a) /\ ~InFlight(a) /\ turns < MaxReservations
    /\ overrun = 0
    /\ Available(a, purpose) >= MinGrant
    /\ LET t == Drawn(a, Lesser(ask, Available(a, purpose)), purpose) IN
          /\ turn' = [turn EXCEPT ![a] = t]
          /\ reserved' = reserved + t.tokens
          /\ leadLeft' = IF IsLead(a) THEN leadLeft - t.own ELSE leadLeft
          /\ followUpLeft' = followUpLeft - t.followUp
          /\ share' = Taken(a, t)
    /\ turns' = turns + 1
    /\ UNCHANGED <<spent, overrun, planVars, account>>

\* PlanState::repay and give_back: nothing returns to a share released meanwhile.
Repaid(i, tokens) == IF share[i].stage = "released" THEN 0 ELSE tokens

\* Of what was borrowed, what was used is taken from the first shares lent.
BackTo(t, used) ==
    LET rest == Monus(Monus(used, t.own), t.followUp)
        before(i) == SumOf([j \in Part |-> IF j < i THEN t.lent[j] ELSE 0])
    IN  [i \in Part |-> t.lent[i] - Lesser(t.lent[i], Monus(rest, before(i)))]

\* Mutant: what a worker did not use of its own tokens goes to its share twice.
Unused_twice(t, used) == 2 * Monus(t.own, used)

Unused(t, used) == Monus(t.own, used)

\* OutputPool::charge with the provider's count.
Charge(a, used) ==
    /\ InFlight(a)
    /\ LET t == turn[a]
           own == Unused(t, used)
           back == BackTo(t, used)
       IN  /\ reserved' = Monus(reserved, t.tokens)
           /\ spent' = spent + used
           /\ overrun' = overrun + Monus(used, t.tokens)
           /\ leadLeft' = IF IsLead(a) THEN leadLeft + own ELSE leadLeft
           /\ followUpLeft' = followUpLeft + Monus(t.followUp, Monus(used, t.own))
           /\ share' = [i \in Part |->
                 [share[i] EXCEPT !.left = @ + Repaid(i, (IF Holds(a, i) THEN own ELSE 0) + back[i])]]
    /\ turn' = [turn EXCEPT ![a] = NoTurn]
    /\ UNCHANGED <<planVars, account, turns>>

\* Reservation::drop, or a turn whose usage was not reported: charged in full,
\* and nothing returns.
Forfeit(a) ==
    /\ InFlight(a)
    /\ reserved' = Monus(reserved, turn[a].tokens)
    /\ spent' = spent + turn[a].tokens
    /\ turn' = [turn EXCEPT ![a] = NoTurn]
    /\ UNCHANGED <<overrun, planVars, reserveVars, share, account, turns>>

Used(a) == {0, turn[a].own, turn[a].tokens - 1, turn[a].tokens}
           \cup {turn[a].tokens + o : o \in Overrun}

\* The run is over, whatever it left.
OutputRest == UNCHANGED outputVars

OutputNext ==
    \/ \E p \in Plan : Install(p)
    \/ \E w \in Worker :
          \/ \E role \in Role \cup {NoRole}, cap \in Cap : StartWorker(w, role, cap)
          \/ EndWorker(w)
    \/ \E a \in Agent :
          \/ \E ask \in Asks, purpose \in Purpose : Reserve(a, ask, purpose)
          \/ \E used \in Used(a) : Charge(a, used)
          \/ Forfeit(a)
    \/ OutputRest

OutputSpec == OutputInit /\ [][OutputNext]_outputVars

-----------------------------------------------------------------------------
(* Properties.                                                             *)

Share == [role : Role \cup {NoRole}, demand : Demand, planned : Nat, left : Nat,
          stage : {"absent", "planned", "running", "released"}]
Turn == [tokens : Nat, own : Nat, followUp : Nat, lent : [Part -> Nat], purpose : Purpose]

\* Every count of the pool, the plan and the reservations is a number of its range.
OutputTypeOK ==
    /\ {spent, reserved, overrun, lead, leadLeft, followUp, followUpLeft, turns} \subseteq Nat
    /\ divided \in BOOLEAN
    /\ share \in [Part -> Share]
    /\ account \in [Agent -> [kind : {"lead", "none", "share", "followUp", "unplanned", "over"},
                               slot : Part \cup {0}]]
    /\ turn \in [Agent -> Turn]

TokensInFlight == Tally([a \in Agent |-> turn[a].tokens], Agent)

\* What was granted and charged, what turns in flight may still use and what
\* the accounts hold never pass the pool: only a provider that generates more
\* than it was granted takes the run beyond it, by what it generated too much.
BooksBalance ==
    /\ reserved = TokensInFlight
    /\ spent + reserved + Held <= Total + overrun

\* A share never holds more for its role than was planned for it, whatever the
\* lead borrowed, the claim cut off, and turns of both gave back meanwhile.
SharesStayWithinPlan ==
    \A i \in Part :
        /\ share[i].left + turn["lead"].lent[i] <= share[i].planned
        /\ \A w \in Worker : Holds(w, i) =>
              share[i].left + turn["lead"].lent[i] + turn[w].own <= share[i].planned

\* With no worker left and no turn in flight, the lead's answer reaches every
\* token that was not charged: none stays with a role that is over.
AnswerReachesTheRest ==
    overrun = 0 /\ (\A a \in Agent : ~InFlight(a)) /\ (\A w \in Worker : ~Running(w)) =>
        Available("lead", "answer") = Monus(Total, spent)

Begins(a) == ~InFlight(a) /\ turn'[a].tokens > 0
=============================================================================
