---------------------------- MODULE Provisioning ----------------------------
(***************************************************************************)
(* Profiles for users of an external service: the ledger of operations,    *)
(* the profile directories and the identity store, three stores that are   *)
(* not one transaction (crates/lightagent-core/src/provisioning.rs), and   *)
(* the check that they belong together (provisioning/continuity.rs).       *)
(*                                                                         *)
(* A call holds the ledger's lock from its first read to its end.  A step  *)
(* is one durable write; a call may be cut short before any step, by a     *)
(* crash or by a write that fails, even one that took effect.  Operators   *)
(* change identities and profiles meanwhile.                               *)
(***************************************************************************)
EXTENDS IdentityStore

CONSTANTS MaxProfiles,  \* max_profiles of the one provisioner
          MaxCuts,      \* bound: calls cut short
          MaxActs       \* bound: acts of operators but creating profiles, and restored copies

ASSUME ProvisioningAssumption ==
    /\ {MaxProfiles, MaxCuts, MaxActs} \subseteq Nat

Operation == [external : External, principal : Principal, profile : Profile,
              state : {"pending", "created", "completed", "failed", "revoked"}]
Stamp == [continuity : Nat, retired : BOOLEAN, sequence : Nat, generation : Nat]
Ledger == [generation : Nat, admitted : BOOLEAN, stamp : Stamp,
           op : [Op -> Operation \cup {None}]]
\* A call: what it does, for which operation, before which step, the rest it
\* has to go through, and what it saw of the identity store.
Call == [kind : {"provision", "reconcile", "revoke"}, op : Op,
         at : {"next", "admit", "staged", "renamed", "made", "changing", "changed",
               "failed", "move", "clear"},
         rest : SUBSET Op, seen : Nat, seenAt : Nat]

ASSUME NoCallIsNone == None \notin Operation /\ None \notin Call

VARIABLES ledger,       \* provisioning/state.json
          staging,      \* operations with a directory in staging/
          quarantine,   \* operations with one in quarantine/
          call,         \* the call that holds the ledger's lock, or None
          backup,       \* a copy of the ledger and of the identity document
          suspect,      \* a copy was restored, and the check has not passed since
          early,        \* history: a reconciliation ran on what the check refuses
          cuts, acts, restores

counters == <<suspect, early, cuts, acts, restores>>
vars == <<identityVars, ledger, staging, quarantine, call, backup, counters>>

NoStamp == [continuity |-> 0, retired |-> FALSE, sequence |-> 0, generation |-> 0]
EmptyLedger == [generation |-> 0, admitted |-> TRUE, stamp |-> NoStamp,
                op |-> [o \in Op |-> None]]

Init ==
    /\ IdentityInit
    /\ ledger = EmptyLedger
    /\ staging = {} /\ quarantine = {}
    /\ call = None
    /\ backup = [ledger |-> EmptyLedger, doc |-> EmptyDoc]
    /\ suspect = FALSE /\ early = FALSE /\ cuts = 0 /\ acts = 0 /\ restores = 0

State(o) == IF ledger.op[o] = None THEN "none" ELSE ledger.op[o].state
\* Mutant: an operation whose profile was created counts as over.
Open_pendingOnly(o) == State(o) = "pending"

Open(o) == State(o) \in {"pending", "created"}
HoldsProfile(o) == State(o) \in {"pending", "created", "completed"}
ProfileOf(o) == ledger.op[o].profile
UserOf(o) == ledger.op[o].principal
Stamped == ledger.stamp.continuity # 0
MarkerMatches(o) == dir[ProfileOf(o)] # None /\ dir[ProfileOf(o)].marker = o

Saves(l) == ledger' = [l EXCEPT !.generation = ledger.generation + 1]
Transition(l, o, state) == Saves([l EXCEPT !.op[o].state = state])

\* Only the ledger, the staged directories, or the call's place change.
At(step) == call' = [call EXCEPT !.at = step]
OnlyCall == UNCHANGED <<identityVars, ledger, staging, quarantine, backup, counters>>
OnlyLedger == UNCHANGED <<identityVars, staging, quarantine, backup, counters>>

-----------------------------------------------------------------------------
(* Registration, and the ledger's stamp.                                   *)

SetAdmitted(admitted) ==
    /\ call = None /\ acts + restores < MaxActs /\ ledger.admitted # admitted
    /\ Saves([ledger EXCEPT !.admitted = admitted])
    /\ acts' = acts + 1
    /\ UNCHANGED <<identityVars, staging, quarantine, call, backup, suspect, early, cuts, restores>>

ProfileMarkers == {dir[p].marker : p \in {q \in Profile : dir[q] # None}} \ {Foreign}
\* initialize: only where nothing shows earlier provisioning.  Every stamp has
\* a continuity id of its own; one that was lost is not drawn again.
Initialize ==
    /\ call = None /\ ~Stamped
    /\ \A o \in Op : State(o) = "none"
    /\ staging = {} /\ quarantine = {} /\ ProfileMarkers = {}
    /\ doc.marker = NoMarker
    /\ \A e \in External : Mapped(doc, e) = {}
    /\ \A c \in Change : doc.reply[c] = 0
    /\ Saves([ledger EXCEPT !.stamp.continuity = 1 + restores])
    /\ UNCHANGED call /\ OnlyLedger

Retire ==
    /\ call = None /\ acts + restores < MaxActs /\ Stamped /\ ~ledger.stamp.retired
    /\ Saves([ledger EXCEPT !.stamp.retired = TRUE])
    /\ acts' = acts + 1
    /\ UNCHANGED <<identityVars, staging, quarantine, call, backup, suspect, early, cuts, restores>>

-----------------------------------------------------------------------------
(* provision: begin, and resume as far as it goes.                         *)

\* A profile id is free only if nothing knows it.
ProfileIsFree(p) ==
    /\ dir[p] = None /\ doc.owner[p] = None
    /\ \A o \in Op : State(o) \notin {"none", "failed"} => ProfileOf(o) # p

\* An existing mapping wins over the derived id.
Resolved(e) ==
    IF Mapped(doc, e) # {} THEN {u \in Mapped(doc, e) : ActiveUser(doc, u)}
    ELSE {e} \ {u \in Principal : Known(doc, u)}

Calls(kind, o) == call' = [kind |-> kind, op |-> o, at |-> "next", rest |-> {}, seen |-> 0, seenAt |-> 0]

\* A caller is admitted from the stores; a gateway that restored one serves
\* only after the check.
Serving == call = None /\ ledger.admitted /\ ~suspect

\* The same key is the same operation: an operation is named by its key.
Begin(o, e, p) ==
    /\ Serving /\ State(o) = "none"
    /\ ~ledger.stamp.retired
    /\ Cardinality({q \in Op : HoldsProfile(q)}) < MaxProfiles
    /\ ProfileIsFree(p)
    /\ \E u \in Resolved(e) :
          Saves([ledger EXCEPT !.op[o] =
                    [external |-> e, principal |-> u, profile |-> p, state |-> "pending"]])
    /\ Calls("provision", o)
    /\ OnlyLedger

Replay(o) ==
    /\ Serving /\ Open(o)
    /\ Calls("provision", o) /\ OnlyCall

\* Whatever is not of an open operation is cleared from staging at the end of
\* a reconciliation.
Ends ==
    IF call.rest # {}
    THEN /\ \E o \in call.rest : call' = [call EXCEPT !.op = o, !.rest = @ \ {o}, !.at = "admit"]
         /\ UNCHANGED staging
    ELSE /\ call' = None
         /\ staging' = IF call.kind = "reconcile" THEN {o \in staging : Open(o)} ELSE staging

\* An operation that failed after its profile was made goes to quarantine next.
Fails(o) ==
    /\ Transition(ledger, o, "failed")
    /\ At(IF State(o) = "created" THEN "failed" ELSE "clear")
    /\ OnlyLedger

Resumes(step) == call # None /\ call.at = "next" /\ call.kind # "revoke" /\ step
Settled ==
    /\ Resumes(~Open(call.op) \/ ledger.stamp.retired)
    /\ Ends
    /\ UNCHANGED <<identityVars, ledger, quarantine, backup, counters>>

Proceeds(state) == Resumes(State(call.op) = state /\ ~ledger.stamp.retired)

\* materialize: built in staging, then renamed into place in one step.
Stage ==
    /\ Proceeds("pending")
    /\ IF dir[ProfileOf(call.op)] = None
       THEN /\ staging' = staging \cup {call.op}
            /\ At("staged")
            /\ UNCHANGED <<identityVars, ledger, quarantine, backup, counters>>
       ELSE IF MarkerMatches(call.op) THEN At("made") /\ OnlyCall
       ELSE Fails(call.op)

PlaceIsFree(p) == dir[p] = None

RenameIn ==
    /\ call # None /\ call.at = "staged"
    /\ LET p == ProfileOf(call.op) IN
          IF PlaceIsFree(p)
          THEN /\ dir' = [dir EXCEPT ![p] = [marker |-> call.op, binding |-> 0]]
               /\ At("renamed")
               /\ UNCHANGED <<storeVars, issued, ledger>>
          ELSE /\ Transition(ledger, call.op, "failed")
               /\ At("clear")
               /\ UNCHANGED identityVars
    /\ staging' = staging \ {call.op}
    /\ UNCHANGED <<quarantine, backup, counters>>

\* The rename may have landed where something else appeared first.
SaveCreated ==
    /\ call # None /\ call.at \in {"renamed", "made"}
    /\ IF call.at = "renamed" /\ ~MarkerMatches(call.op)
       THEN Fails(call.op)
       ELSE Transition(ledger, call.op, "created") /\ At("next") /\ OnlyLedger

-----------------------------------------------------------------------------
(* bind: one identity transaction, applied once.                           *)

Follows(change) ==
    \/ ~Stamped
    \/ doc.marker = NoMarker /\ ledger.stamp.sequence = 0
    \/ /\ doc.marker.continuity = ledger.stamp.continuity
       /\ \/ doc.marker.sequence = ledger.stamp.sequence
          \/ /\ doc.marker.sequence = ledger.stamp.sequence + 1
             /\ <<doc.marker.op, doc.marker.action>> = change
WithMarker(d, change) ==
    IF ~Stamped THEN d
    ELSE [d EXCEPT !.marker = [continuity |-> ledger.stamp.continuity,
                               sequence |-> doc.marker.sequence + 1,
                               ledger |-> ledger.generation,
                               op |-> change[1], action |-> change[2]]]

\* What fails the operation on its merits.
BindIsRefused(o) ==
    LET mapped == Mapped(doc, ledger.op[o].external)
        u == UserOf(o)
    IN  \/ mapped \notin {{}, {u}}
        \/ mapped = {} /\ Known(doc, u)
        \/ mapped # {} /\ ~ActiveUser(doc, u)
        \/ doc.owner[ProfileOf(o)] \notin {None, u}

Bound(o) ==
    LET u == UserOf(o)
        d == IF Known(doc, u) THEN doc ELSE WithPrincipal(doc, u, "user", ledger.op[o].external)
    IN  WithOwner(d, ProfileOf(o), u, issued + 1)

\* A transaction that was applied already: its reply stands for it.
Applied(change) == doc.reply[change] # 0
Answered(change) ==
    IF Stamped /\ doc.marker.continuity # ledger.stamp.continuity
    THEN Ends /\ UNCHANGED <<identityVars, ledger, quarantine, backup, counters>>
    ELSE /\ call' = [call EXCEPT !.at = "changed", !.seen = doc.marker.sequence,
                                 !.seenAt = doc.reply[change]]
         /\ OnlyCall

Bind ==
    /\ Proceeds("created") /\ tx = None
    /\ LET o == call.op
           change == <<o, "bind">>
       IN  IF ~MarkerMatches(o) THEN Fails(o)
           ELSE IF Applied(change) THEN Answered(change)
           ELSE IF BindIsRefused(o) THEN Fails(o)
           ELSE IF ~Follows(change)
           THEN Ends /\ UNCHANGED <<identityVars, ledger, quarantine, backup, counters>>
           ELSE /\ Begins("service", WithMarker(Bound(o), change), change)
                /\ BindsDirectory(ProfileOf(o), doc, Bound(o))
                /\ At("changing")
                /\ UNCHANGED <<ledger, staging, quarantine, backup, counters>>

ServiceCommits ==
    /\ tx # None /\ tx.by = "service" /\ Commits
    /\ call' = [call EXCEPT !.at = "changed", !.seen = tx.doc.marker.sequence,
                            !.seenAt = tx.doc.generation]
    /\ UNCHANGED <<ledger, staging, quarantine, backup, counters>>

Larger(a, b) == IF a < b THEN b ELSE a
\* record_seen: saved with the state change.
\* Mutant: what the identity store committed is not recorded with it.
WithSeen_skipped(l) == l

WithSeen(l) ==
    IF ~Stamped THEN l
    ELSE [l EXCEPT !.stamp.sequence = Larger(@, call.seen),
                   !.stamp.generation = Larger(@, call.seenAt)]
SaveChanged ==
    /\ call # None /\ call.at = "changed"
    /\ Transition(WithSeen(ledger), call.op,
                  IF call.kind = "revoke" THEN "revoked" ELSE "completed")
    /\ IF call.kind = "revoke" THEN call' = None ELSE At("next")
    /\ OnlyLedger

-----------------------------------------------------------------------------
(* What a failure leaves; revoke.                                          *)

\* quarantine: only a profile that is still the operation's, without an owner.
LookAtFailed ==
    /\ call # None /\ call.at = "failed"
    /\ At(IF MarkerMatches(call.op) /\ doc.owner[ProfileOf(call.op)] = None
          THEN "move" ELSE "clear")
    /\ OnlyCall
MoveToQuarantine ==
    /\ call # None /\ call.at = "move"
    /\ IF dir[ProfileOf(call.op)] = None THEN UNCHANGED <<dir, quarantine>>
       ELSE /\ dir' = [dir EXCEPT ![ProfileOf(call.op)] = None]
            /\ quarantine' = quarantine \cup {call.op}
    /\ At("clear")
    /\ UNCHANGED <<storeVars, issued, ledger, staging, backup, counters>>
ClearStaging ==
    /\ call # None /\ call.at = "clear"
    /\ staging' = staging \ {call.op}
    /\ call' = [call EXCEPT !.at = "next"]
    /\ UNCHANGED <<identityVars, ledger, quarantine, backup, counters>>

\* revoke: a profile that was given to someone else is not its to revoke.
Revoke(o) ==
    /\ Serving /\ State(o) = "completed" /\ tx = None
    /\ LET change == <<o, "revoke">>
           p == ProfileOf(o)
       IN  IF Applied(change)
           THEN /\ Stamped => doc.marker.continuity = ledger.stamp.continuity
                /\ call' = [kind |-> "revoke", op |-> o, at |-> "changed", rest |-> {},
                            seen |-> doc.marker.sequence, seenAt |-> doc.reply[change]]
                /\ OnlyCall
           ELSE /\ doc.owner[p] \in {None, UserOf(o)} /\ Follows(change)
                /\ IF doc.owner[p] = None
                   THEN Begins("service", WithMarker(doc, change), change) /\ UNCHANGED <<dir, issued>>
                   ELSE /\ Begins("service", WithMarker(WithoutOwner(doc, p), change), change)
                        /\ UnbindsDirectory(p)
                /\ call' = [kind |-> "revoke", op |-> o, at |-> "changing", rest |-> {},
                            seen |-> 0, seenAt |-> 0]
                /\ UNCHANGED <<ledger, staging, quarantine, backup, counters>>

-----------------------------------------------------------------------------
(* continuity::evaluate, and reconcile.                                    *)

Owned(o) == doc.owner[ProfileOf(o)] = UserOf(o)
\* Where an interrupted bind or revoke leaves its operation.
InFlight(o, action) ==
    IF action = "bind" THEN State(o) = "created" /\ Known(doc, UserOf(o)) /\ Owned(o)
    ELSE State(o) = "completed" /\ ~Owned(o)
EndOf(action) == IF action = "bind" THEN "completed" ELSE "revoked"
Changed == {o \in Op : State(o) \in {"completed", "revoked"}}

LedgerIsCurrent ==
    /\ doc.marker # NoMarker =>
          /\ doc.marker.continuity = ledger.stamp.continuity
          /\ doc.marker.ledger <= ledger.generation
          /\ \/ doc.marker.sequence < ledger.stamp.sequence
             \/ /\ doc.marker.sequence = ledger.stamp.sequence
                /\ State(doc.marker.op) = EndOf(doc.marker.action)
             \/ /\ doc.marker.sequence = ledger.stamp.sequence + 1
                /\ State(doc.marker.op) # "none"
                /\ InFlight(doc.marker.op, doc.marker.action)
    /\ \A o \in ProfileMarkers : State(o) # "none"
\* Mutant: an identity store behind the ledger is not noticed.
StoresAreCurrent_principalsOnly == \A o \in Changed : Known(doc, UserOf(o))

StoresAreCurrent ==
    /\ \A o \in Changed : Known(doc, UserOf(o))
    /\ doc.marker = NoMarker => ledger.stamp.sequence = 0 /\ Changed = {}
    /\ doc.marker.sequence >= ledger.stamp.sequence
    /\ doc.generation >= ledger.stamp.generation
    /\ Changed # {} => ledger.stamp.sequence > 0
Continuity == Stamped /\ ~ledger.stamp.retired /\ LedgerIsCurrent /\ StoresAreCurrent

\* It does not ask for the check: an operator may run it on a restored copy
\* that the check would refuse.
Reconcile ==
    /\ call = None
    /\ \E o \in {q \in Op : Open(q)} :
          call' = [kind |-> "reconcile", op |-> o, at |-> "admit", rest |-> {q \in Op : Open(q)} \ {o},
                   seen |-> 0, seenAt |-> 0]
    /\ early' = (early \/ (suspect /\ ~Continuity))
    /\ UNCHANGED <<identityVars, ledger, staging, quarantine, backup, suspect, cuts, acts, restores>>
ReconcileOne ==
    /\ call # None /\ call.at = "admit"
    /\ IF ledger.admitted THEN At("next") /\ OnlyCall ELSE Fails(call.op)

-----------------------------------------------------------------------------
(* What is outside a call's control.                                       *)

\* The process dies, or a write fails: its locks go, what it wrote stays.
Cut ==
    /\ call # None /\ cuts < MaxCuts
    /\ call' = None
    /\ tx' = IF tx # None /\ tx.by = "service" THEN None ELSE tx
    /\ cuts' = cuts + 1
    /\ UNCHANGED <<doc, audited, dir, issued, ledger, staging, quarantine, backup, suspect, early, acts, restores>>

OperatorActs ==
    /\ acts + restores < MaxActs
    /\ \/ OperatorTransaction
       \/ \E p \in Profile : DeleteProfile(p)
    /\ acts' = acts + 1
    /\ UNCHANGED <<ledger, staging, quarantine, call, backup, suspect, early, cuts, restores>>
OperatorCreates ==
    /\ \E p \in Profile : CreateProfile(p)
    /\ UNCHANGED <<ledger, staging, quarantine, call, backup, counters>>
OperatorEnds ==
    /\ tx # None /\ tx.by = "operator"
    /\ Commits \/ (tx' = None /\ UNCHANGED <<doc, audited, dir, issued>>)
    /\ UNCHANGED <<ledger, staging, quarantine, call, backup, counters>>
AuditIsWritten ==
    /\ WriteAudit
    /\ UNCHANGED <<ledger, staging, quarantine, call, backup, counters>>

BackUp ==
    /\ acts + restores < MaxActs /\ call = None /\ tx = None
    /\ backup' = [ledger |-> ledger, doc |-> doc]
    /\ UNCHANGED <<identityVars, ledger, staging, quarantine, call, counters>>
Restore ==
    /\ acts + restores < MaxActs /\ call = None /\ tx = None
    /\ \/ ledger' = backup.ledger /\ UNCHANGED doc
       \/ doc' = backup.doc /\ UNCHANGED ledger
    /\ restores' = restores + 1 /\ suspect' = TRUE
    /\ UNCHANGED <<audited, dir, tx, issued, staging, quarantine, call, backup, early, cuts, acts>>

\* check_continuity: a gateway serves again once it passes.
Check ==
    /\ suspect /\ call = None /\ tx = None /\ Continuity
    /\ suspect' = FALSE
    /\ UNCHANGED <<identityVars, ledger, staging, quarantine, call, backup, early, cuts, acts, restores>>

Service ==
    \/ Settled \/ Stage \/ RenameIn \/ SaveCreated \/ Bind \/ ServiceCommits
    \/ SaveChanged \/ LookAtFailed \/ MoveToQuarantine \/ ClearStaging \/ ReconcileOne
Rest == UNCHANGED vars

Next ==
    \/ \E o \in Op :
          \/ \E e \in External, p \in Profile : Begin(o, e, p)
          \/ Replay(o)
          \/ Revoke(o)
    \/ Service
    \/ AuditIsWritten
    \/ Reconcile
    \/ \E admitted \in BOOLEAN : SetAdmitted(admitted)
    \/ Initialize \/ Retire
    \/ Cut
    \/ OperatorActs \/ OperatorCreates \/ OperatorEnds
    \/ BackUp \/ Restore \/ Check
    \/ Rest

\* The operator runs reconcile while an operation is open, and a call that was
\* not cut goes on.
Spec == /\ Init /\ [][Next]_vars
        /\ WF_vars(Service) /\ WF_vars(AuditIsWritten) /\ WF_vars(OperatorEnds)
        /\ SF_vars(Reconcile)

-----------------------------------------------------------------------------
(* Properties.                                                             *)

Undisturbed == acts = 0 /\ restores = 0

\* Whatever step a call is cut at, the stores it leaves pass the check: only
\* operators, and restored copies, can set the stores apart.
CutsKeepContinuity == Undisturbed /\ call = None /\ Stamped => Continuity

Settles(o, action) == State(o) \in (IF action = "bind" THEN {"completed", "revoked"} ELSE {"revoked"})
AheadOfLedger == {c \in Change : Applied(c) /\ ~Settles(c[1], c[2])}

\* When the check passes, the two stores tell the same history: the identity
\* store applied every bind and revoke the ledger shows, and the ledger knows
\* every one it applied, but for the last, which may be in flight.
\* (continuity.rs: "Every other disagreement fails closed.")  The second half is
\* so only while nobody reconciled restored copies that the check refused: a
\* replay records that the ledger saw changes it may have lost.
ContinuityMeansAgreement ==
    call = None /\ tx = None /\ Continuity =>
        /\ \A c \in Change : Settles(c[1], c[2]) => Applied(c)
        /\ ~early => \A c \in AheadOfLedger :
              c = <<doc.marker.op, doc.marker.action>> /\ InFlight(c[1], c[2])

\* Ownership counts only from the commit that records it, or a restored copy: a
\* directory made anew never inherits it, and no marker written on the way to a
\* transaction that did not commit revives an older record.
OwnershipTakesEffectByCommit ==
    [][\A p \in Profile :
          EffectiveOwner(p)' \notin {None, EffectiveOwner(p)} =>
             /\ doc' # doc
             /\ restores' = restores => tx # None /\ tx.doc.owner[p] = EffectiveOwner(p)']_vars

\* No change of the identity state is committed without its audit records.
ChangesAreAudited ==
    [][doc' # doc /\ restores' = restores => doc'.generation \in audited]_vars

\* An open operation ends, however often its call was cut, and also on restored
\* copies (which may have no record of it), if nobody retires the harness and
\* the stores still follow from each other.
OpenOperationsEnd ==
    \A o \in Op :
        State(o) \in {"pending", "created"} ~>
            \/ State(o) \in {"none", "completed", "failed", "revoked"}
            \/ ledger.stamp.retired \/ ~Follows(<<o, "bind">>)

=============================================================================
