---------------------------- MODULE IdentityStore ----------------------------
(***************************************************************************)
(* The durable identity state of an installation: principals, who owns     *)
(* which profile, and the markers that bind a record to a directory        *)
(* (crates/lightagent-core/src/identity/store.rs and ownership.rs).        *)
(*                                                                         *)
(* A transaction holds the store's lock; what it wrote on the way (a       *)
(* binding marker, audit records) stays when it is cut short.              *)
(***************************************************************************)
EXTENDS Naturals, FiniteSets

CONSTANTS External,     \* identities at a trusted issuer
          Manual,       \* principal ids an operator chose
          Profile, Op,  \* profile ids; provisioning operations
          None, Foreign \* model values: nothing; not a marker of provisioning

\* A principal made for an external identity has an id derived from it alone:
\* here, the identity itself.
Principal == External \cup Manual
Change == Op \X {"bind", "revoke"}      \* keys of transactions applied once

ASSUME IdentityAssumption ==
    /\ External \cap Manual = {} /\ None \notin Principal \cup Op
    /\ Foreign \notin Op

PrincipalRecord == [role : {"user", "operator"}, status : {"active", "suspended"},
                    external : External \cup {None}]
Marker == [continuity : Nat, sequence : Nat, ledger : Nat, op : Op \cup {None},
           action : {"bind", "revoke"}]
Document == [generation : Nat,
             principal : [Principal -> PrincipalRecord \cup {None}],
             owner : [Profile -> Principal \cup {None}], binding : [Profile -> Nat],
             reply : [Change -> Nat], marker : Marker]
\* What a directory carries: a marker of provisioning, and a binding token.
Directory == [marker : Op \cup {Foreign}, binding : Nat]
Transaction == [by : {"operator", "service"}, audited : BOOLEAN, doc : Document]

ASSUME NothingIsNone ==
    None \notin PrincipalRecord \cup Directory \cup Transaction \cup Change

VARIABLES doc,          \* state.json
          audited,      \* generations audit.jsonl has records of
          dir,          \* profile directories: their markers, or None
          tx,           \* the transaction that holds the lock, or None
          issued        \* binding tokens drawn so far: they never repeat

storeVars == <<doc, audited, tx>>
identityVars == <<doc, audited, dir, tx, issued>>

NoMarker == [continuity |-> 0, sequence |-> 0, ledger |-> 0, op |-> None, action |-> "bind"]
EmptyDoc ==
    [generation |-> 0,
     principal |-> [u \in Principal |-> None],
     owner |-> [p \in Profile |-> None],
     binding |-> [p \in Profile |-> 0],
     reply |-> [c \in Change |-> 0],
     marker |-> NoMarker]

IdentityInit ==
    /\ doc = EmptyDoc
    /\ audited = {}
    /\ dir = [p \in Profile |-> None]
    /\ tx = None
    /\ issued = 0

-----------------------------------------------------------------------------
(* What a document says.                                                   *)

Known(d, u) == d.principal[u] # None
Active(d, u) == Known(d, u) /\ d.principal[u].status = "active"
IsUser(d, u) == Known(d, u) /\ d.principal[u].role = "user"
Mapped(d, e) == {u \in Principal : Known(d, u) /\ d.principal[u].external = e}
ActiveUser(d, u) == Active(d, u) /\ IsUser(d, u)

\* Mutant: a record counts without its marker in the directory.
EffectiveOwner_unbound(p) == IF dir[p] # None THEN doc.owner[p] ELSE None

\* Ownership that counts: of a profile that exists and carries its marker.
EffectiveOwner(p) ==
    IF dir[p] # None /\ doc.binding[p] # 0 /\ dir[p].binding = doc.binding[p]
    THEN doc.owner[p] ELSE None

-----------------------------------------------------------------------------
(* Changes to the copy a transaction works on.                             *)

WithPrincipal(d, u, role, e) ==
    [d EXCEPT !.principal[u] = [role |-> role, status |-> "active", external |-> e]]
\* assign: a repeated request for the same owner changes nothing.
WithOwner(d, p, u, token) ==
    IF d.owner[p] = u THEN d ELSE [d EXCEPT !.owner[p] = u, !.binding[p] = token]
\* reassign keeps the marker of a record there was.
WithNewOwner(d, p, u, token) ==
    IF d.owner[p] = None THEN WithOwner(d, p, u, token)
    ELSE IF d.owner[p] = u THEN d
    ELSE [d EXCEPT !.owner[p] = u]
WithoutOwner(d, p) == [d EXCEPT !.owner[p] = None, !.binding[p] = 0]
WithStatus(d, u, status) == [d EXCEPT !.principal[u].status = status]

\* A fresh marker is written into the directory, or the old one removed,
\* before the document that says so.
BindsDirectory(p, d, after) ==
    IF d.owner[p] = None /\ after.owner[p] # None
    THEN /\ dir' = [dir EXCEPT ![p].binding = issued + 1]
         /\ issued' = issued + 1
    ELSE UNCHANGED <<dir, issued>>
UnbindsDirectory(p) ==
    /\ dir' = IF dir[p] = None THEN dir ELSE [dir EXCEPT ![p].binding = 0]
    /\ UNCHANGED issued

-----------------------------------------------------------------------------
(* Transactions.                                                           *)

Begins(by, after, key) ==
    /\ tx = None
    /\ tx' = [by |-> by, audited |-> FALSE,
              doc |-> [after EXCEPT !.generation = doc.generation + 1,
                         !.reply = IF key = None THEN @
                                   ELSE [@ EXCEPT ![key] = doc.generation + 1]]]
    /\ UNCHANGED <<doc, audited>>

\* Records come first: those of a generation that was never committed can be
\* told, a change without records cannot.
WriteAudit ==
    /\ tx # None /\ ~tx.audited
    /\ tx' = [tx EXCEPT !.audited = TRUE]
    /\ audited' = audited \cup {tx.doc.generation}
    /\ UNCHANGED <<doc, dir, issued>>

\* Mutant: the document is replaced before its records are written.
MayCommit_unaudited == tx # None

MayCommit == tx # None /\ tx.audited
Commits == MayCommit /\ doc' = tx.doc /\ tx' = None /\ UNCHANGED <<audited, dir, issued>>

-----------------------------------------------------------------------------
(* An operator's transactions (identity_admin.rs).                         *)

OperatorBegins(after) == Begins("operator", after, None)

CreatePrincipal(u, role, e) ==
    /\ ~Known(doc, u) /\ (e = None \/ Mapped(doc, e) = {})
    /\ OperatorBegins(WithPrincipal(doc, u, role, e)) /\ UNCHANGED <<dir, issued>>

SetStatus(u, status) ==
    /\ Known(doc, u)
    /\ OperatorBegins(WithStatus(doc, u, status)) /\ UNCHANGED <<dir, issued>>

AssignOwner(p, u) ==
    /\ ActiveUser(doc, u) /\ dir[p] # None /\ doc.owner[p] = None
    /\ LET after == WithOwner(doc, p, u, issued + 1) IN
          OperatorBegins(after) /\ BindsDirectory(p, doc, after)

ReassignOwner(p, u) ==
    /\ ActiveUser(doc, u) /\ dir[p] # None /\ doc.owner[p] # u
    /\ LET after == WithNewOwner(doc, p, u, issued + 1) IN
          OperatorBegins(after) /\ BindsDirectory(p, doc, after)

RemoveProfile(p) ==
    /\ doc.owner[p] # None
    /\ OperatorBegins(WithoutOwner(doc, p)) /\ UnbindsDirectory(p)

OperatorTransaction ==
    \/ \E u \in Manual, role \in {"user", "operator"}, e \in External \cup {None} :
          CreatePrincipal(u, role, e)
    \/ \E u \in Principal, status \in {"active", "suspended"} : SetStatus(u, status)
    \/ \E p \in Profile, u \in Principal :
          \/ AssignOwner(p, u)
          \/ ReassignOwner(p, u)
    \/ \E p \in Profile : RemoveProfile(p)

\* The profile commands, which know nothing of ownership.
CreateProfile(p) ==
    /\ dir[p] = None
    /\ dir' = [dir EXCEPT ![p] = [marker |-> Foreign, binding |-> 0]]
    /\ UNCHANGED <<storeVars, issued>>
DeleteProfile(p) ==
    /\ dir[p] # None
    /\ dir' = [dir EXCEPT ![p] = None]
    /\ UNCHANGED <<storeVars, issued>>
=============================================================================
