------------------------- MODULE ProvisioningProofs -------------------------
(***************************************************************************)
(* Two facts of the identity store under any mix of operators, cuts and    *)
(* restored copies; the one about cuts: for any number of operations,      *)
(* profiles and users, a call that is cut before any of its steps leaves   *)
(* stores that the continuity check accepts; and the one about copies:     *)
(* stores that the check accepts have the same history.                    *)
(***************************************************************************)
EXTENDS Provisioning, TLAPS

StoresOK ==
    /\ doc \in Document /\ audited \subseteq Nat /\ issued \in Nat
    /\ dir \in [Profile -> Directory \cup {None}]
    /\ tx \in Transaction \cup {None}

LedgersOK ==
    /\ ledger \in Ledger
    /\ staging \subseteq Op /\ quarantine \subseteq Op
    /\ call \in Call \cup {None}
    /\ backup \in [ledger : Ledger, doc : Document]
    /\ suspect \in BOOLEAN /\ early \in BOOLEAN /\ {cuts, acts, restores} \subseteq Nat

\* What a call works on is in the ledger.
CallsAreKnown ==
    call # None => State(call.op) # "none" /\ \A o \in call.rest : State(o) # "none"

\* No document names a binding token that was not drawn yet.
Drawn(d) == \A p \in Profile : d.binding[p] <= issued
TokensAreDrawn == Drawn(doc) /\ Drawn(backup.doc) /\ (tx # None => Drawn(tx.doc))

RecordsComeFirst == tx # None /\ tx.audited => tx.doc.generation \in audited

\* A transaction of the service belongs to the call under way.
ServiceHasACall == tx # None /\ tx.by = "service" => call # None /\ call.at = "changing"

\* Types, with what they rest on.
TypeOK == StoresOK /\ LedgersOK /\ CallsAreKnown

-----------------------------------------------------------------------------
(* While no operator acts and no copy is put back.                         *)

ActionOf(c) == IF c.kind = "revoke" THEN "revoke" ELSE "bind"
ChangeOf(c) == <<c.op, ActionOf(c)>>
LastChange == <<doc.marker.op, doc.marker.action>>
HasMarker == doc.marker.continuity # 0

NothingElseActs ==
    /\ ledger.admitted /\ ~ledger.stamp.retired /\ ~suspect
    /\ tx # None => tx.by = "service" /\ call # None /\ call.at = "changing"

\* The directories and the ledger.
PlacesMatch ==
    /\ \A p \in Profile : dir[p] # None /\ dir[p].marker # Foreign => State(dir[p].marker) # "none"
    /\ \A o \in Op : State(o) \in {"created", "completed"} => MarkerMatches(o)

\* Where a call is in its operation's life.
CallsMatch ==
    call # None =>
        /\ call.at \in {"staged", "renamed", "made"} => State(call.op) = "pending"
        /\ call.at \in {"renamed", "made", "move"} => MarkerMatches(call.op)
        /\ call.at \in {"failed", "move"} => State(call.op) = "failed"
        /\ call.at \in {"changing", "changed"} =>
              State(call.op) = (IF call.kind = "revoke" THEN "completed" ELSE "created")
        /\ call.kind = "revoke" => call.at \in {"changing", "changed"}

\* Generations only grow.
GenerationsGrow ==
    /\ \A c \in Change : doc.reply[c] <= doc.generation
    /\ ledger.stamp.generation <= doc.generation
    /\ call # None => call.seenAt <= doc.generation
    /\ doc.marker.ledger <= ledger.generation

\* What the identity store applied, and the ledger.
AppliedIsKnown ==
    /\ \A c \in Change : Applied(c) => State(c[1]) # "none"
    /\ \A o \in Op : Applied(<<o, "bind">>) => Known(doc, UserOf(o))
    /\ \A c \in Change : Settles(c[1], c[2]) => Applied(c)

\* The marker and the stamp: at most the last change is ahead of the ledger.
MarkerIsKnown ==
    /\ ~HasMarker => doc.marker = NoMarker
    /\ HasMarker => /\ doc.marker.continuity = ledger.stamp.continuity
                    /\ doc.marker.op \in Op /\ doc.marker.sequence > 0 /\ Applied(LastChange)
StampFollows ==
    /\ ~Stamped => ledger.stamp.sequence = 0 /\ ledger.stamp.generation = 0 /\ ~HasMarker
    /\ Stamped => /\ ~HasMarker => ledger.stamp.sequence = 0
                  /\ \A c \in Change : Applied(c) => HasMarker
                  /\ Changed # {} => ledger.stamp.sequence > 0
MarkerFollows ==
    Stamped /\ HasMarker =>
        \/ /\ doc.marker.sequence = ledger.stamp.sequence
           /\ State(doc.marker.op) = EndOf(doc.marker.action)
        \/ /\ doc.marker.sequence = ledger.stamp.sequence + 1
           /\ InFlight(doc.marker.op, doc.marker.action)
OneIsAhead ==
    Stamped => \A c \in Change : Applied(c) /\ ~Settles(c[1], c[2]) =>
                  doc.marker.sequence = ledger.stamp.sequence + 1 /\ c = LastChange
ChangesMatch == AppliedIsKnown /\ MarkerIsKnown /\ StampFollows /\ MarkerFollows /\ OneIsAhead

\* What the transaction of a call under way does.
TransactionMatches ==
    call # None /\ call.at = "changing" =>
        /\ tx # None /\ ~Applied(ChangeOf(call))
        /\ tx.doc.generation = doc.generation + 1
        /\ tx.doc.reply = [doc.reply EXCEPT ![ChangeOf(call)] = doc.generation + 1]
        /\ Known(tx.doc, UserOf(call.op))
        /\ \A u \in Principal : Known(doc, u) => Known(tx.doc, u)
        /\ tx.doc.owner[ProfileOf(call.op)] =
              IF call.kind = "revoke" THEN None ELSE UserOf(call.op)
        /\ tx.doc.marker = IF ~Stamped THEN doc.marker
                           ELSE [continuity |-> ledger.stamp.continuity,
                                 sequence |-> doc.marker.sequence + 1,
                                 ledger |-> tx.doc.marker.ledger,
                                 op |-> call.op, action |-> ActionOf(call)]
        /\ tx.doc.marker.ledger <= ledger.generation
        /\ Stamped => doc.marker.sequence = ledger.stamp.sequence

\* What a call saw is what was committed.
SeenMatches ==
    call # None /\ call.at = "changed" =>
        /\ Applied(ChangeOf(call))
        /\ Stamped => call.seen = doc.marker.sequence

CallMatches == CallsMatch /\ TransactionMatches /\ SeenMatches
Calm == NothingElseActs /\ PlacesMatch /\ GenerationsGrow /\ ChangesMatch /\ CallMatches
CalmInv == Undisturbed => Calm

-----------------------------------------------------------------------------
(* Types.                                                                  *)

LEMMA DocumentFields ==
    ASSUME NEW d \in Document
    PROVE  /\ d.generation \in Nat /\ d.marker \in Marker
           /\ d.principal \in [Principal -> PrincipalRecord \cup {None}]
           /\ d.owner \in [Profile -> Principal \cup {None}]
           /\ d.binding \in [Profile -> Nat] /\ d.reply \in [Change -> Nat]
BY DEF Document

\* What a change of a document leaves a document.
LEMMA Edits ==
    ASSUME NEW d \in Document, NEW u \in Principal, NEW p \in Profile, NEW token \in Nat
    PROVE  /\ \A role \in {"user", "operator"}, e \in External \cup {None} :
                 WithPrincipal(d, u, role, e) \in Document
           /\ Known(d, u) => \A status \in {"active", "suspended"} : WithStatus(d, u, status) \in Document
           /\ WithOwner(d, p, u, token) \in Document
           /\ WithNewOwner(d, p, u, token) \in Document
           /\ WithoutOwner(d, p) \in Document
<1>0. d.principal[u] \in PrincipalRecord \cup {None} BY DocumentFields
<1>1. ASSUME NEW role \in {"user", "operator"}, NEW e \in External \cup {None}
      PROVE  WithPrincipal(d, u, role, e) \in Document
  BY DEF WithPrincipal, Document, PrincipalRecord
<1>2. ASSUME Known(d, u), NEW status \in {"active", "suspended"}
      PROVE  WithStatus(d, u, status) \in Document
  BY <1>0, <1>2 DEF WithStatus, Known, Document, PrincipalRecord
<1>3. WithOwner(d, p, u, token) \in Document BY DEF WithOwner, Document
<1>4. WithNewOwner(d, p, u, token) \in Document BY <1>3 DEF WithNewOwner, Document
<1>5. WithoutOwner(d, p) \in Document BY DEF WithoutOwner, Document
<1> QED BY <1>1, <1>2, <1>3, <1>4, <1>5

\* A transaction that begins: its document is the changed one, with a new
\* generation and its reply.
LEMMA BeginsType ==
    ASSUME doc \in Document, NEW by \in {"operator", "service"}, NEW after \in Document,
           NEW key \in Change \cup {None}, Begins(by, after, key)
    PROVE  /\ tx = None /\ tx' \in Transaction /\ tx'.by = by /\ tx'.audited = FALSE
           /\ tx'.doc.binding = after.binding /\ tx'.doc.owner = after.owner
           /\ tx'.doc.principal = after.principal /\ tx'.doc.marker = after.marker
           /\ tx'.doc.generation = doc.generation + 1
           /\ UNCHANGED <<doc, audited>>
<1>1. doc.generation \in Nat BY DEF Document
<1>2. \E r \in [Change -> Nat] :
         tx' = [by |-> by, audited |-> FALSE,
                doc |-> [after EXCEPT !.generation = doc.generation + 1, !.reply = r]]
  <2> DEFINE r == IF key = None THEN after.reply ELSE [after.reply EXCEPT ![key] = doc.generation + 1]
  <2>1. after.reply \in [Change -> Nat] BY DEF Document
  <2>2. r \in [Change -> Nat] BY <1>1, <2>1
  <2>3. tx' = [by |-> by, audited |-> FALSE,
                doc |-> [after EXCEPT !.generation = doc.generation + 1, !.reply = r]]
    BY DEF Begins
  <2> QED BY <2>2, <2>3
<1>3. PICK r \in [Change -> Nat] :
         tx' = [by |-> by, audited |-> FALSE,
                doc |-> [after EXCEPT !.generation = doc.generation + 1, !.reply = r]]
  BY <1>2
<1>4. tx'.doc = [after EXCEPT !.generation = doc.generation + 1, !.reply = r]
  BY <1>3
<1>5. tx'.doc \in Document
  <2> DEFINE later == [after EXCEPT !.generation = doc.generation + 1]
  <2>1. later \in Document BY <1>1 DEF Document
  <2>2. tx'.doc = [later EXCEPT !.reply = r] BY <1>4 DEF Document
  <2> HIDE DEF later
  <2> QED BY <2>1, <2>2 DEF Document
<1>6. tx' \in Transaction BY <1>3, <1>4, <1>5 DEF Transaction
<1>7. /\ tx'.doc.binding = after.binding /\ tx'.doc.owner = after.owner
      /\ tx'.doc.principal = after.principal /\ tx'.doc.marker = after.marker
      /\ tx'.doc.generation = doc.generation + 1
  BY <1>4 DEF Document
<1> QED BY <1>3, <1>6, <1>7 DEF Begins

\* What an operation in the ledger is.
LEMMA OperationFields ==
    ASSUME ledger \in Ledger, NEW o \in Op, State(o) # "none"
    PROVE  /\ ledger.op[o] \in Operation
           /\ ProfileOf(o) \in Profile /\ UserOf(o) \in Principal
           /\ ledger.op[o].external \in External
BY DEF Ledger, State, ProfileOf, UserOf, Operation

\* A marker on its way into a directory, and the tokens drawn with it.
LEMMA BindsType ==
    ASSUME StoresOK, NEW p \in Profile, dir[p] # None, NEW after, BindsDirectory(p, doc, after)
    PROVE  /\ issued' \in Nat /\ issued <= issued'
           /\ dir' \in [Profile -> Directory \cup {None}]
           /\ doc.owner[p] = None /\ after.owner[p] # None => issued' = issued + 1
<1>1. dir[p] \in Directory /\ issued \in Nat BY DEF StoresOK
<1>2. CASE doc.owner[p] = None /\ after.owner[p] # None
  <2>1. [dir[p] EXCEPT !.binding = issued + 1] \in Directory BY <1>1 DEF Directory
  <2>2. dir' = [dir EXCEPT ![p] = [dir[p] EXCEPT !.binding = issued + 1]] /\ issued' = issued + 1
    BY <1>2 DEF BindsDirectory, StoresOK
  <2> QED BY <1>1, <2>1, <2>2 DEF StoresOK
<1>3. CASE ~(doc.owner[p] = None /\ after.owner[p] # None)
  BY <1>1, <1>3 DEF BindsDirectory, StoresOK
<1> QED BY <1>2, <1>3

LEMMA UnbindsType ==
    ASSUME StoresOK, NEW p \in Profile, UnbindsDirectory(p)
    PROVE  issued' = issued /\ dir' \in [Profile -> Directory \cup {None}]
<1>1. CASE dir[p] = None BY <1>1 DEF UnbindsDirectory, StoresOK
<1>2. CASE dir[p] # None
  <2>1. [dir[p] EXCEPT !.binding = 0] \in Directory BY <1>2 DEF StoresOK, Directory
  <2>2. dir' = [dir EXCEPT ![p] = [dir[p] EXCEPT !.binding = 0]] /\ issued' = issued
    BY <1>2 DEF UnbindsDirectory, StoresOK
  <2> QED BY <2>1, <2>2 DEF StoresOK
<1> QED BY <1>1, <1>2

\* A change that draws a token for a profile names no other new one.
LEMMA ChangesAreDrawn ==
    ASSUME NEW d \in Document, NEW n \in Nat, NEW p \in Profile, NEW u \in Principal,
           \A q \in Profile : d.binding[q] <= n
    PROVE  /\ \A q \in Profile : WithOwner(d, p, u, n + 1).binding[q] <= n + 1
           /\ d.owner[p] = u => WithOwner(d, p, u, n + 1) = d
           /\ d.owner[p] # None => \A q \in Profile : WithNewOwner(d, p, u, n + 1).binding[q] <= n
           /\ d.owner[p] = None => WithNewOwner(d, p, u, n + 1) = WithOwner(d, p, u, n + 1)
           /\ \A q \in Profile : WithoutOwner(d, p).binding[q] <= n
           /\ WithOwner(d, p, u, n + 1).owner[p] = u
BY DocumentFields DEF WithOwner, WithNewOwner, WithoutOwner, Document

-----------------------------------------------------------------------------
(* The identity store under each action.                                   *)

StoreInv == TypeOK /\ TokensAreDrawn /\ RecordsComeFirst /\ ServiceHasACall

\* What a transaction begun by this step may find.
LEMMA BeginsStore ==
    ASSUME StoreInv, NEW by \in {"operator", "service"}, NEW after \in Document,
           NEW key \in Change \cup {None}, Begins(by, after, key),
           issued' \in Nat, issued <= issued', \A p \in Profile : after.binding[p] <= issued',
           dir' \in [Profile -> Directory \cup {None}], UNCHANGED backup
    PROVE  StoresOK' /\ TokensAreDrawn' /\ RecordsComeFirst'
<1>0. doc \in Document /\ backup.doc \in Document /\ issued \in Nat
  BY DEF StoreInv, TypeOK, StoresOK, LedgersOK
<1>1. /\ tx' \in Transaction /\ tx'.audited = FALSE /\ tx'.doc.binding = after.binding
      /\ doc' = doc /\ audited' = audited
  BY <1>0, BeginsType
<1>2. StoresOK' BY <1>1 DEF StoreInv, TypeOK, StoresOK
<1>3. \A d \in Document : Drawn(d) => \A p \in Profile : d.binding[p] <= issued'
  BY <1>0, DocumentFields DEF Drawn
<1>4. TokensAreDrawn'
  BY <1>0, <1>1, <1>3 DEF StoreInv, TokensAreDrawn, Drawn
<1> QED BY <1>1, <1>2, <1>4 DEF RecordsComeFirst

\* The operator's side.
LEMMA OperatorStore ==
    ASSUME StoreInv, OperatorTransaction, UNCHANGED backup
    PROVE  StoresOK' /\ TokensAreDrawn' /\ RecordsComeFirst'
<1>0. /\ doc \in Document /\ issued \in Nat /\ None \in Change \cup {None}
      /\ \A p \in Profile : doc.binding[p] <= issued
      /\ dir \in [Profile -> Directory \cup {None}]
  BY DEF StoreInv, TypeOK, StoresOK, TokensAreDrawn, Drawn
<1>1. ASSUME NEW u \in Manual, NEW role \in {"user", "operator"}, NEW e \in External \cup {None},
             CreatePrincipal(u, role, e)
      PROVE  StoresOK' /\ TokensAreDrawn' /\ RecordsComeFirst'
  <2> DEFINE after == WithPrincipal(doc, u, role, e)
  <2>1. u \in Principal BY DEF Principal
  <2>2. after \in Document /\ after.binding = doc.binding
    BY <1>0, <2>1 DEF WithPrincipal, Document, PrincipalRecord
  <2>3. Begins("operator", after, None) /\ UNCHANGED <<dir, issued>>
    BY <1>1 DEF CreatePrincipal, OperatorBegins
  <2> HIDE DEF after
  <2> QED BY <1>0, <2>2, <2>3, BeginsStore
<1>2. ASSUME NEW u \in Principal, NEW status \in {"active", "suspended"}, SetStatus(u, status)
      PROVE  StoresOK' /\ TokensAreDrawn' /\ RecordsComeFirst'
  <2> DEFINE after == WithStatus(doc, u, status)
  <2>0. doc.principal[u] \in PrincipalRecord BY <1>0, <1>2, DocumentFields DEF SetStatus, Known
  <2>1. after \in Document /\ after.binding = doc.binding
    BY <1>0, <2>0 DEF WithStatus, Document, PrincipalRecord
  <2>2. Begins("operator", after, None) /\ UNCHANGED <<dir, issued>>
    BY <1>2 DEF SetStatus, OperatorBegins
  <2> HIDE DEF after
  <2> QED BY <1>0, <2>1, <2>2, BeginsStore
<1>3. ASSUME NEW p \in Profile, NEW u \in Principal, AssignOwner(p, u)
      PROVE  StoresOK' /\ TokensAreDrawn' /\ RecordsComeFirst'
  <2> DEFINE after == WithOwner(doc, p, u, issued + 1)
  <2>1. after \in Document BY <1>0, Edits
  <2>2. /\ Begins("operator", after, None) /\ BindsDirectory(p, doc, after)
        /\ dir[p] # None /\ doc.owner[p] = None
    BY <1>3 DEF AssignOwner, OperatorBegins
  <2>3. after.owner[p] = u /\ \A q \in Profile : after.binding[q] <= issued + 1
    BY <1>0, ChangesAreDrawn
  <2>4. u # None BY IdentityAssumption
  <2> HIDE DEF after
  <2>5. issued' = issued + 1 /\ dir' \in [Profile -> Directory \cup {None}]
    BY <2>2, <2>3, <2>4, BindsType DEF StoreInv, TypeOK
  <2> QED BY <1>0, <2>1, <2>2, <2>3, <2>5, BeginsStore
<1>4. ASSUME NEW p \in Profile, NEW u \in Principal, ReassignOwner(p, u)
      PROVE  StoresOK' /\ TokensAreDrawn' /\ RecordsComeFirst'
  <2> DEFINE after == WithNewOwner(doc, p, u, issued + 1)
  <2>1. after \in Document BY <1>0, Edits
  <2>2. Begins("operator", after, None) /\ BindsDirectory(p, doc, after) /\ dir[p] # None
    BY <1>4 DEF ReassignOwner, OperatorBegins
  <2>3. /\ doc.owner[p] = None => after.owner[p] = u
        /\ doc.owner[p] = None => \A q \in Profile : after.binding[q] <= issued + 1
        /\ doc.owner[p] # None => \A q \in Profile : after.binding[q] <= issued
    <3>1. CASE doc.owner[p] = None
      <4>1. after = WithOwner(doc, p, u, issued + 1) BY <3>1, <1>0, ChangesAreDrawn
      <4> HIDE DEF after
      <4> QED BY <3>1, <4>1, <1>0, ChangesAreDrawn
    <3>2. CASE doc.owner[p] # None
      BY <3>2, <1>0, ChangesAreDrawn
    <3> QED BY <3>1, <3>2
  <2>4. u # None BY IdentityAssumption
  <2>5. \A q \in Profile : after.binding[q] \in Nat BY <2>1, DocumentFields
  <2> HIDE DEF after
  <2>6. /\ issued' \in Nat /\ issued <= issued' /\ dir' \in [Profile -> Directory \cup {None}]
        /\ doc.owner[p] = None => issued' = issued + 1
    BY <2>2, <2>3, <2>4, BindsType DEF StoreInv, TypeOK
  <2>7. \A q \in Profile : after.binding[q] <= issued' BY <1>0, <2>3, <2>5, <2>6
  <2> QED BY <1>0, <2>1, <2>2, <2>6, <2>7, BeginsStore
<1>5. ASSUME NEW p \in Profile, RemoveProfile(p)
      PROVE  StoresOK' /\ TokensAreDrawn' /\ RecordsComeFirst'
  <2> DEFINE after == WithoutOwner(doc, p)
  <2>1. after \in Document BY <1>0 DEF WithoutOwner, Document
  <2>2. \A q \in Profile : after.binding[q] <= issued
    <3>1. after.binding = [doc.binding EXCEPT ![p] = 0]
      BY <1>0 DEF WithoutOwner, Document
    <3> HIDE DEF after
    <3> QED BY <1>0, <3>1, DocumentFields
  <2>3. Begins("operator", after, None) /\ UnbindsDirectory(p)
    BY <1>5 DEF RemoveProfile, OperatorBegins
  <2> HIDE DEF after
  <2>4. issued' = issued /\ dir' \in [Profile -> Directory \cup {None}]
    BY <2>3, UnbindsType DEF StoreInv, TypeOK
  <2> QED BY <1>0, <2>1, <2>2, <2>3, <2>4, BeginsStore
<1> QED BY <1>1, <1>2, <1>3, <1>4, <1>5 DEF OperatorTransaction

\* A commit, and the records before it.
LEMMA CommitsStore ==
    ASSUME StoreInv, Commits, UNCHANGED backup
    PROVE  /\ StoresOK' /\ TokensAreDrawn' /\ RecordsComeFirst'
           /\ tx # None /\ tx.audited /\ doc' = tx.doc /\ tx.doc \in Document
<1>1. /\ tx # None /\ tx.audited /\ doc' = tx.doc /\ tx' = None
      /\ UNCHANGED <<audited, dir, issued>>
  BY DEF Commits, MayCommit
<1>2. tx.doc \in Document BY <1>1 DEF StoreInv, TypeOK, StoresOK, Transaction
<1> QED BY <1>1, <1>2
     DEF StoreInv, TypeOK, StoresOK, TokensAreDrawn, Drawn, RecordsComeFirst

LEMMA AuditStore ==
    ASSUME StoreInv, WriteAudit, UNCHANGED backup
    PROVE  StoresOK' /\ TokensAreDrawn' /\ RecordsComeFirst'
<1>1. /\ tx \in Transaction /\ tx' = [tx EXCEPT !.audited = TRUE]
      /\ audited' = audited \cup {tx.doc.generation} /\ UNCHANGED <<doc, dir, issued>>
  BY DEF WriteAudit, StoreInv, TypeOK, StoresOK
<1>2. tx.doc \in Document /\ tx.doc.generation \in Nat
  BY <1>1 DEF Transaction, Document
<1>3. tx' \in Transaction /\ tx'.doc = tx.doc
  BY <1>1, <1>2 DEF Transaction
<1>4. tx # None BY DEF WriteAudit
<1>5. StoresOK' BY <1>1, <1>2, <1>3 DEF StoreInv, TypeOK, StoresOK
<1>6. TokensAreDrawn' BY <1>1, <1>3, <1>4 DEF StoreInv, TokensAreDrawn, Drawn
<1> QED BY <1>1, <1>3, <1>5, <1>6 DEF RecordsComeFirst

\* A document with the marker of a change.
LEMMA MarkedDocument ==
    ASSUME StoreInv, NEW d \in Document, NEW change \in Change
    PROVE  /\ WithMarker(d, change) \in Document
           /\ WithMarker(d, change).binding = d.binding
           /\ WithMarker(d, change).owner = d.owner
           /\ WithMarker(d, change).principal = d.principal
<1>1. ledger.stamp.continuity \in Nat /\ ledger.generation \in Nat /\ doc.marker.sequence \in Nat
  BY DEF StoreInv, TypeOK, StoresOK, LedgersOK, Ledger, Stamp, Document, Marker
<1>2. change[1] \in Op /\ change[2] \in {"bind", "revoke"} BY DEF Change
<1> DEFINE m == [continuity |-> ledger.stamp.continuity, sequence |-> doc.marker.sequence + 1,
                 ledger |-> ledger.generation, op |-> change[1], action |-> change[2]]
<1>3. m \in Marker BY <1>1, <1>2 DEF Marker
<1>4. WithMarker(d, change) = IF ~Stamped THEN d ELSE [d EXCEPT !.marker = m]
  BY DEF WithMarker
<1> HIDE DEF m
<1> QED BY <1>3, <1>4 DEF Document

\* Where a service call may bind: the operation's profile is its own and no
\* one else's.
LEMMA BindStore ==
    ASSUME StoreInv, Bind
    PROVE  StoresOK' /\ TokensAreDrawn' /\ RecordsComeFirst'
<1> DEFINE o == call.op
<1>0. /\ doc \in Document /\ issued \in Nat /\ ledger \in Ledger
      /\ call \in Call /\ o \in Op /\ State(o) # "none"
  BY DEF Bind, Proceeds, Resumes, StoreInv, TypeOK, StoresOK, LedgersOK, CallsAreKnown, Call
<1>1. CASE UNCHANGED <<identityVars, backup>>
  BY <1>1 DEF identityVars, StoreInv, TypeOK, StoresOK, TokensAreDrawn, Drawn, RecordsComeFirst
<1>2. CASE /\ MarkerMatches(o) /\ ~BindIsRefused(o) /\ UNCHANGED backup
           /\ Begins("service", WithMarker(Bound(o), <<o, "bind">>), <<o, "bind">>)
           /\ BindsDirectory(ProfileOf(o), doc, Bound(o))
  <2> DEFINE p == ProfileOf(o)
             u == UserOf(o)
  <2>1. p \in Profile /\ u \in Principal /\ ledger.op[o].external \in External
    BY <1>0, OperationFields
  <2>2. PICK d \in Document :
           /\ d.owner = doc.owner /\ d.binding = doc.binding
           /\ Bound(o) = WithOwner(d, p, u, issued + 1)
    <3>1. CASE Known(doc, u) BY <3>1, <1>0 DEF Bound
    <3>2. CASE ~Known(doc, u)
      <4> DEFINE d == WithPrincipal(doc, u, "user", ledger.op[o].external)
      <4>1. d \in Document BY <1>0, <2>1, Edits
      <4>2. d.owner = doc.owner /\ d.binding = doc.binding
        BY <1>0 DEF WithPrincipal, Document
      <4>3. Bound(o) = WithOwner(d, p, u, issued + 1) BY <3>2 DEF Bound
      <4> QED BY <4>1, <4>2, <4>3
    <3> QED BY <3>1, <3>2
  <2>3. doc.owner[p] \in {None, u} BY <1>2 DEF BindIsRefused
  <2>4. dir[p] # None BY <1>2 DEF MarkerMatches
  <2>5. \A q \in Profile : d.binding[q] <= issued
    BY <2>2 DEF StoreInv, TokensAreDrawn, Drawn
  <2>6. Bound(o) \in Document BY <1>0, <2>1, <2>2, Edits
  <2>7. /\ issued' \in Nat /\ issued <= issued' /\ dir' \in [Profile -> Directory \cup {None}]
        /\ doc.owner[p] = None /\ Bound(o).owner[p] # None => issued' = issued + 1
    BY <1>2, <2>1, <2>4, BindsType DEF StoreInv, TypeOK
  <2>8. \A q \in Profile : Bound(o).binding[q] <= issued'
    <3>1. CASE doc.owner[p] = u
      <4>1. Bound(o) = d BY <3>1, <1>0, <2>1, <2>2, <2>5, ChangesAreDrawn
      <4> QED BY <1>0, <2>5, <2>7, <4>1, DocumentFields
    <3>2. CASE doc.owner[p] = None
      <4>1. Bound(o).owner[p] = u /\ \A q \in Profile : Bound(o).binding[q] <= issued + 1
        BY <1>0, <2>1, <2>2, <2>5, ChangesAreDrawn
      <4>2. u # None BY <2>1, IdentityAssumption
      <4> QED BY <3>2, <4>1, <4>2, <2>7
    <3> QED BY <2>3, <3>1, <3>2
  <2>9. <<o, "bind">> \in Change BY <1>0 DEF Change
  <2>10. /\ WithMarker(Bound(o), <<o, "bind">>) \in Document
         /\ WithMarker(Bound(o), <<o, "bind">>).binding = Bound(o).binding
    BY <2>6, <2>9, MarkedDocument
  <2> HIDE DEF o, p, u
  <2> QED BY <1>2, <2>7, <2>8, <2>9, <2>10, BeginsStore
<1>3. \/ UNCHANGED <<identityVars, backup>>
      \/ /\ MarkerMatches(o) /\ ~BindIsRefused(o) /\ UNCHANGED backup
         /\ Begins("service", WithMarker(Bound(o), <<o, "bind">>), <<o, "bind">>)
         /\ BindsDirectory(ProfileOf(o), doc, Bound(o))
  BY DEF Bind, Fails, Answered, OnlyLedger, OnlyCall
<1> QED BY <1>1, <1>2, <1>3

LEMMA RevokeStore ==
    ASSUME StoreInv, NEW o \in Op, Revoke(o)
    PROVE  StoresOK' /\ TokensAreDrawn' /\ RecordsComeFirst'
<1> DEFINE p == ProfileOf(o)
           change == <<o, "revoke">>
<1>0. /\ doc \in Document /\ issued \in Nat /\ ledger \in Ledger
      /\ dir \in [Profile -> Directory \cup {None}]
      /\ State(o) # "none" /\ change \in Change /\ p \in Profile
  <2>1. doc \in Document /\ issued \in Nat /\ ledger \in Ledger
        /\ dir \in [Profile -> Directory \cup {None}] /\ State(o) = "completed"
    BY DEF Revoke, StoreInv, TypeOK, StoresOK, LedgersOK
  <2>2. p \in Profile BY <2>1, OperationFields
  <2> QED BY <2>1, <2>2 DEF Change
<1>1. CASE UNCHANGED <<identityVars, backup>>
  BY <1>1 DEF identityVars, StoreInv, TypeOK, StoresOK, TokensAreDrawn, Drawn, RecordsComeFirst
<1>2. CASE /\ Begins("service", WithMarker(doc, change), change)
           /\ UNCHANGED <<dir, issued, backup>>
  <2>1. WithMarker(doc, change) \in Document /\ WithMarker(doc, change).binding = doc.binding
    BY <1>0, MarkedDocument
  <2>2. \A q \in Profile : doc.binding[q] <= issued BY DEF StoreInv, TokensAreDrawn, Drawn
  <2> HIDE DEF p, change
  <2> QED BY <1>0, <1>2, <2>1, <2>2, BeginsStore
<1>3. CASE /\ Begins("service", WithMarker(WithoutOwner(doc, p), change), change)
           /\ UnbindsDirectory(p) /\ UNCHANGED backup
  <2>1. WithoutOwner(doc, p) \in Document BY <1>0 DEF WithoutOwner, Document
  <2>2. \A q \in Profile : WithoutOwner(doc, p).binding[q] <= issued
    <3>1. WithoutOwner(doc, p).binding = [doc.binding EXCEPT ![p] = 0]
      BY <1>0 DEF WithoutOwner, Document
    <3>2. \A q \in Profile : doc.binding[q] <= issued BY DEF StoreInv, TokensAreDrawn, Drawn
    <3> HIDE DEF p
    <3> QED BY <1>0, <3>1, <3>2, DocumentFields
  <2>3. /\ WithMarker(WithoutOwner(doc, p), change) \in Document
        /\ WithMarker(WithoutOwner(doc, p), change).binding = WithoutOwner(doc, p).binding
    BY <1>0, <2>1, MarkedDocument
  <2>4. issued' = issued /\ dir' \in [Profile -> Directory \cup {None}]
    BY <1>0, <1>3, UnbindsType DEF StoreInv, TypeOK
  <2> HIDE DEF p, change
  <2> QED BY <1>0, <1>3, <2>2, <2>3, <2>4, BeginsStore
<1>4. \/ UNCHANGED <<identityVars, backup>>
      \/ /\ Begins("service", WithMarker(doc, change), change)
         /\ UNCHANGED <<dir, issued, backup>>
      \/ /\ Begins("service", WithMarker(WithoutOwner(doc, p), change), change)
         /\ UnbindsDirectory(p) /\ UNCHANGED backup
  BY DEF Revoke, OnlyCall
<1> QED BY <1>1, <1>2, <1>3, <1>4

\* The store's facts hold after every step.
LEMMA StoresNext ==
    ASSUME StoreInv, [Next]_vars
    PROVE  StoresOK' /\ TokensAreDrawn' /\ RecordsComeFirst'
<1>1. CASE UNCHANGED <<identityVars, backup>>
  BY <1>1 DEF identityVars, StoreInv, TypeOK, StoresOK, TokensAreDrawn, Drawn, RecordsComeFirst
<1>2. ASSUME NEW o \in Op, Revoke(o) PROVE StoresOK' /\ TokensAreDrawn' /\ RecordsComeFirst'
  BY <1>2, RevokeStore
<1>3. CASE RenameIn
  <2>1. /\ call \in Call /\ call.op \in Op /\ State(call.op) # "none" /\ ledger \in Ledger
    BY <1>3 DEF RenameIn, StoreInv, TypeOK, LedgersOK, CallsAreKnown, Call
  <2>2. ProfileOf(call.op) \in Profile BY <2>1, OperationFields
  <2>3. [marker |-> call.op, binding |-> 0] \in Directory BY <2>1 DEF Directory
  <2>4. /\ UNCHANGED <<doc, audited, tx, issued, backup>>
        /\ \/ dir' = [dir EXCEPT ![ProfileOf(call.op)] = [marker |-> call.op, binding |-> 0]]
           \/ dir' = dir
    BY <1>3 DEF RenameIn, storeVars, identityVars
  <2>5. dir' \in [Profile -> Directory \cup {None}]
    BY <2>2, <2>3, <2>4 DEF StoreInv, TypeOK, StoresOK
  <2> QED
    BY <2>4, <2>5 DEF StoreInv, TypeOK, StoresOK, TokensAreDrawn, Drawn, RecordsComeFirst
<1>4. CASE Bind BY <1>4, BindStore
<1>5. CASE ServiceCommits
  <2>1. Commits /\ UNCHANGED backup BY <1>5 DEF ServiceCommits
  <2> QED BY <2>1, CommitsStore
<1>6. CASE MoveToQuarantine
  <2>1. /\ UNCHANGED <<doc, audited, tx, issued, backup>>
        /\ dir' = dir \/ dir' = [dir EXCEPT ![ProfileOf(call.op)] = None]
    BY <1>6 DEF MoveToQuarantine, storeVars
  <2>2. dir' \in [Profile -> Directory \cup {None}] BY <2>1 DEF StoreInv, TypeOK, StoresOK
  <2> QED
    BY <2>1, <2>2 DEF StoreInv, TypeOK, StoresOK, TokensAreDrawn, Drawn, RecordsComeFirst
<1>7. CASE AuditIsWritten
  <2>1. WriteAudit /\ UNCHANGED backup BY <1>7 DEF AuditIsWritten
  <2> QED BY <2>1, AuditStore
<1>8. CASE Cut
  <2>1. UNCHANGED <<doc, audited, dir, issued, backup>> /\ (tx' = None \/ tx' = tx)
    BY <1>8 DEF Cut
  <2> QED BY <2>1 DEF StoreInv, TypeOK, StoresOK, TokensAreDrawn, Drawn, RecordsComeFirst
<1>9. CASE OperatorActs
  <2>1. CASE OperatorTransaction
    <3>1. UNCHANGED backup BY <1>9 DEF OperatorActs
    <3> QED BY <2>1, <3>1, OperatorStore
  <2>2. ASSUME NEW p \in Profile, DeleteProfile(p)
        PROVE  StoresOK' /\ TokensAreDrawn' /\ RecordsComeFirst'
    <3>1. UNCHANGED <<doc, audited, tx, issued, backup>> /\ dir' = [dir EXCEPT ![p] = None]
      BY <1>9, <2>2 DEF OperatorActs, DeleteProfile, storeVars
    <3>2. dir' \in [Profile -> Directory \cup {None}] BY <3>1 DEF StoreInv, TypeOK, StoresOK
    <3> QED
      BY <3>1, <3>2 DEF StoreInv, TypeOK, StoresOK, TokensAreDrawn, Drawn, RecordsComeFirst
  <2> QED BY <1>9, <2>1, <2>2 DEF OperatorActs
<1>10. CASE OperatorCreates
  <2>1. PICK p \in Profile :
           /\ UNCHANGED <<doc, audited, tx, issued, backup>>
           /\ dir' = [dir EXCEPT ![p] = [marker |-> Foreign, binding |-> 0]]
    BY <1>10 DEF OperatorCreates, CreateProfile, storeVars, counters
  <2>2. [marker |-> Foreign, binding |-> 0] \in Directory BY DEF Directory
  <2>3. dir' \in [Profile -> Directory \cup {None}]
    BY <2>1, <2>2 DEF StoreInv, TypeOK, StoresOK
  <2> QED
    BY <2>1, <2>3 DEF StoreInv, TypeOK, StoresOK, TokensAreDrawn, Drawn, RecordsComeFirst
<1>11. CASE OperatorEnds
  <2>1. CASE Commits
    <3>1. UNCHANGED backup BY <1>11 DEF OperatorEnds
    <3> QED BY <2>1, <3>1, CommitsStore
  <2>2. CASE tx' = None /\ UNCHANGED <<doc, audited, dir, issued>>
    <3>1. UNCHANGED backup BY <1>11 DEF OperatorEnds
    <3> QED
      BY <2>2, <3>1 DEF StoreInv, TypeOK, StoresOK, TokensAreDrawn, Drawn, RecordsComeFirst
  <2> QED BY <1>11, <2>1, <2>2 DEF OperatorEnds
<1>12. CASE BackUp
  <2>1. UNCHANGED identityVars /\ backup' = [ledger |-> ledger, doc |-> doc] BY <1>12 DEF BackUp
  <2> QED BY <2>1
       DEF identityVars, StoreInv, TypeOK, StoresOK, TokensAreDrawn, Drawn, RecordsComeFirst
<1>13. CASE Restore
  <2>1. /\ UNCHANGED <<audited, dir, tx, issued, backup>>
        /\ doc' = doc \/ doc' = backup.doc
    BY <1>13 DEF Restore
  <2>2. backup.doc \in Document BY DEF StoreInv, TypeOK, LedgersOK
  <2> QED BY <2>1, <2>2
       DEF StoreInv, TypeOK, StoresOK, TokensAreDrawn, Drawn, RecordsComeFirst
<1>14. \/ UNCHANGED <<identityVars, backup>>
       \/ \E o \in Op : Revoke(o)
       \/ RenameIn \/ Bind \/ ServiceCommits \/ MoveToQuarantine \/ AuditIsWritten
       \/ Cut \/ OperatorActs \/ OperatorCreates \/ OperatorEnds \/ BackUp \/ Restore
  <2>1. CASE UNCHANGED vars BY <2>1 DEF vars
  <2>2. ASSUME NEW o \in Op, NEW e \in External, NEW p \in Profile, Begin(o, e, p)
        PROVE  UNCHANGED <<identityVars, backup>>
    BY <2>2 DEF Begin, OnlyLedger
  <2>3. ASSUME NEW o \in Op, Replay(o) PROVE UNCHANGED <<identityVars, backup>>
    BY <2>3 DEF Replay, OnlyCall
  <2>4. ASSUME NEW admitted \in BOOLEAN, SetAdmitted(admitted)
        PROVE  UNCHANGED <<identityVars, backup>>
    BY <2>4 DEF SetAdmitted
  <2>5. Initialize \/ Retire \/ Reconcile \/ Check => UNCHANGED <<identityVars, backup>>
    BY DEF Initialize, Retire, Reconcile, Check, OnlyLedger, OnlyCall
  <2>6. Settled \/ Stage \/ SaveCreated \/ SaveChanged => UNCHANGED <<identityVars, backup>>
    BY DEF Settled, Stage, SaveCreated, SaveChanged, Fails, OnlyLedger, OnlyCall
  <2>7. LookAtFailed \/ ClearStaging \/ ReconcileOne => UNCHANGED <<identityVars, backup>>
    BY DEF LookAtFailed, ClearStaging, ReconcileOne, Fails, OnlyLedger, OnlyCall
  <2>8. Rest => UNCHANGED <<identityVars, backup>> BY DEF Rest, vars
  <2> QED BY <2>1, <2>2, <2>3, <2>4, <2>5, <2>6, <2>7, <2>8 DEF Next, Service
<1> QED BY <1>1, <1>2, <1>3, <1>4, <1>5, <1>6, <1>7, <1>8, <1>9, <1>10, <1>11, <1>12, <1>13, <1>14

-----------------------------------------------------------------------------
(* The ledger and its calls under each action.                             *)

States == {"pending", "created", "completed", "failed", "revoked"}

\* A step of one operation's life leaves the others and what it is about.
LEMMA TransitionType ==
    ASSUME ledger \in Ledger, NEW l \in Ledger, l.op = ledger.op, l.admitted = ledger.admitted,
           NEW o \in Op, State(o) # "none", NEW state \in States, Transition(l, o, state)
    PROVE  /\ ledger' \in Ledger
           /\ State(o)' = state
           /\ \A q \in Op \ {o} : ledger'.op[q] = ledger.op[q]
           /\ \A q \in Op : State(q) # "none" =>
                 State(q)' # "none" /\ ProfileOf(q)' = ProfileOf(q) /\ UserOf(q)' = UserOf(q)
           /\ \A q \in Op : State(q) = "none" => State(q)' = "none"
           /\ ledger'.stamp = l.stamp /\ ledger'.admitted = ledger.admitted
           /\ ledger'.generation = ledger.generation + 1
<1>1. ledger.op[o] \in Operation /\ ledger.generation \in Nat
  BY OperationFields DEF Ledger
<1> DEFINE x == [ledger.op[o] EXCEPT !.state = state]
<1>2. /\ x \in Operation /\ x.state = state /\ x.profile = ledger.op[o].profile
      /\ x.principal = ledger.op[o].principal
  BY <1>1 DEF Operation, States
<1>3. ledger' = [l EXCEPT !.op = [ledger.op EXCEPT ![o] = x], !.generation = ledger.generation + 1]
  BY DEF Transition, Saves, Ledger
<1> HIDE DEF x
<1>4. ledger.op \in [Op -> Operation \cup {None}] BY DEF Ledger
<1>5. [ledger.op EXCEPT ![o] = x] \in [Op -> Operation \cup {None}] BY <1>2, <1>4
<1>6. /\ ledger'.op = [ledger.op EXCEPT ![o] = x] /\ ledger'.generation = ledger.generation + 1
      /\ ledger'.stamp = l.stamp /\ ledger'.admitted = ledger.admitted
  BY <1>3 DEF Ledger
<1>7. ledger' \in Ledger
  <2> DEFINE y == [l EXCEPT !.op = [ledger.op EXCEPT ![o] = x]]
  <2>1. y \in Ledger BY <1>5 DEF Ledger
  <2>2. ledger' = [y EXCEPT !.generation = ledger.generation + 1] BY <1>3 DEF Ledger
  <2> HIDE DEF y
  <2> QED BY <1>1, <2>1, <2>2 DEF Ledger
<1>8. ledger'.op[o] = x /\ x # None BY <1>2, <1>4, <1>6, NoCallIsNone
<1>9. \A q \in Op \ {o} : ledger'.op[q] = ledger.op[q] BY <1>4, <1>6
<1>10. State(o)' = state /\ ProfileOf(o)' = ProfileOf(o) /\ UserOf(o)' = UserOf(o) /\ state # "none"
  BY <1>2, <1>8 DEF State, ProfileOf, UserOf, States
<1>11. \A q \in Op \ {o} :
          State(q)' = State(q) /\ ProfileOf(q)' = ProfileOf(q) /\ UserOf(q)' = UserOf(q)
  BY <1>9 DEF State, ProfileOf, UserOf
<1> QED BY <1>6, <1>7, <1>9, <1>10, <1>11

\* A call moves on, and stays a call.
LEMMA CallFields ==
    ASSUME call \in Call \cup {None}, call # None
    PROVE  /\ call \in Call /\ call.op \in Op /\ call.rest \subseteq Op
           /\ call.seen \in Nat /\ call.seenAt \in Nat
           /\ call.kind \in {"provision", "reconcile", "revoke"}
           /\ \A step \in {"next", "admit", "staged", "renamed", "made", "changing", "changed",
                           "failed", "move", "clear"} :
                 At(step) => /\ call' \in Call /\ call'.op = call.op /\ call'.rest = call.rest
                             /\ call'.at = step /\ call'.kind = call.kind
                             /\ call'.seen = call.seen /\ call'.seenAt = call.seenAt
                             /\ call' # None
BY NoCallIsNone DEF Call, At

\* A ledger that keeps its operations keeps what calls know.
KnownStays ==
    \A o \in Op : State(o) # "none" => State(o)' # "none"

LEMMA KnownCalls ==
    ASSUME StoreInv, KnownStays, LedgersOK',
           call' = None \/ (call' # None /\ call # None /\ call'.op = call.op /\ call'.rest = call.rest)
    PROVE  CallsAreKnown'
<1>1. CASE call' = None BY <1>1 DEF CallsAreKnown
<1>2. CASE call' # None
  <2>1. call # None /\ call'.op = call.op /\ call'.rest = call.rest BY <1>2
  <2>2. call.op \in Op /\ call.rest \subseteq Op
    BY <2>1, CallFields DEF StoreInv, TypeOK, LedgersOK
  <2>3. State(call.op) # "none" /\ \A o \in call.rest : State(o) # "none"
    BY <2>1 DEF StoreInv, TypeOK, CallsAreKnown
  <2> QED BY <2>1, <2>2, <2>3 DEF KnownStays, CallsAreKnown, State
<1> QED BY <1>1, <1>2

\* An operation fails, and its call goes on to what it leaves.
LEMMA FailsType ==
    ASSUME StoreInv, call # None, Fails(call.op)
    PROVE  /\ LedgersOK' /\ CallsAreKnown' /\ KnownStays
<1>1. /\ call.op \in Op /\ State(call.op) # "none" /\ ledger \in Ledger /\ call \in Call \cup {None}
  BY CallFields DEF StoreInv, TypeOK, LedgersOK, CallsAreKnown
<1>2. Transition(ledger, call.op, "failed") /\ UNCHANGED <<staging, quarantine, backup, counters>>
  BY DEF Fails, OnlyLedger
<1>3. ledger' \in Ledger /\ KnownStays
  BY <1>1, <1>2, TransitionType DEF States, KnownStays
<1>4. /\ call' \in Call /\ call'.op = call.op /\ call'.rest = call.rest /\ call' # None
  BY <1>1, CallFields DEF Fails
<1>5. LedgersOK' BY <1>2, <1>3, <1>4 DEF counters, StoreInv, TypeOK, LedgersOK
<1> QED BY <1>3, <1>4, <1>5, KnownCalls

\* The end of one operation's turn in a call.
LEMMA EndsType ==
    ASSUME StoreInv, call # None, Ends, UNCHANGED <<ledger, quarantine, backup, counters>>
    PROVE  LedgersOK' /\ CallsAreKnown'
<1>1. /\ call \in Call /\ call.rest \subseteq Op /\ ledger \in Ledger
  BY CallFields DEF StoreInv, TypeOK, LedgersOK
<1>2. CASE call.rest # {}
  <2>1. PICK o \in call.rest :
           call' = [call EXCEPT !.op = o, !.rest = call.rest \ {o}, !.at = "admit"]
    BY <1>2 DEF Ends
  <2>2. call' \in Call /\ call'.op = o /\ call'.rest = call.rest \ {o}
    BY <1>1, <2>1 DEF Call
  <2>3. UNCHANGED staging BY <1>2 DEF Ends
  <2>4. LedgersOK' BY <2>2, <2>3 DEF counters, StoreInv, TypeOK, LedgersOK
  <2>5. CallsAreKnown'
    BY <2>2 DEF StoreInv, TypeOK, CallsAreKnown, State
  <2> QED BY <2>4, <2>5
<1>3. CASE call.rest = {}
  <2>1. call' = None /\ staging' \subseteq Op
    BY <1>3 DEF Ends, StoreInv, TypeOK, LedgersOK
  <2> QED BY <2>1 DEF counters, StoreInv, TypeOK, LedgersOK, CallsAreKnown
<1> QED BY <1>2, <1>3

\* A step that only moves the call on, or only the staged directories with it.
LEMMA MovesType ==
    ASSUME StoreInv, call # None,
           NEW step \in {"next", "admit", "staged", "renamed", "made", "changing", "changed",
                         "failed", "move", "clear"}, At(step),
           staging' \subseteq Op, quarantine' \subseteq Op, UNCHANGED <<ledger, backup, counters>>
    PROVE  LedgersOK' /\ CallsAreKnown'
<1>1. call' \in Call /\ call'.op = call.op /\ call'.rest = call.rest /\ call' # None
  BY CallFields DEF StoreInv, TypeOK, LedgersOK
<1>2. LedgersOK' BY <1>1 DEF counters, StoreInv, TypeOK, LedgersOK
<1>3. KnownStays BY DEF KnownStays, State
<1> QED BY <1>1, <1>2, <1>3, KnownCalls

\* What a call that begins enters into the ledger.
LEMMA BeginType ==
    ASSUME StoreInv, NEW o \in Op, NEW e \in External, NEW p \in Profile, Begin(o, e, p)
    PROVE  /\ LedgersOK' /\ CallsAreKnown' /\ KnownStays
           /\ State(o) = "none" /\ State(o)' = "pending"
           /\ \A q \in Op \ {o} : ledger'.op[q] = ledger.op[q]
           /\ ledger'.stamp = ledger.stamp /\ ledger'.admitted = ledger.admitted
           /\ ledger'.generation = ledger.generation + 1
<1>1. PICK u \in Resolved(e) :
         Saves([ledger EXCEPT !.op[o] =
                  [external |-> e, principal |-> u, profile |-> p, state |-> "pending"]])
  BY DEF Begin
<1>2. u \in Principal BY DEF Resolved, Principal, Mapped
<1> DEFINE x == [external |-> e, principal |-> u, profile |-> p, state |-> "pending"]
           l == [ledger EXCEPT !.op[o] = x]
<1>3. x \in Operation /\ x.state = "pending" BY <1>2 DEF Operation
<1>4. x # None BY <1>3, NoCallIsNone
<1>5. ledger \in Ledger /\ ledger.generation \in Nat /\ ledger.op \in [Op -> Operation \cup {None}]
  BY DEF StoreInv, TypeOK, LedgersOK, Ledger
<1>6. l \in Ledger /\ l.op = [ledger.op EXCEPT ![o] = x] /\ l.stamp = ledger.stamp
      /\ l.admitted = ledger.admitted
  BY <1>3, <1>5 DEF Ledger
<1>7. ledger' = [l EXCEPT !.generation = ledger.generation + 1] BY <1>1 DEF Saves
<1> HIDE DEF x, l
<1>8. /\ ledger' \in Ledger /\ ledger'.op = [ledger.op EXCEPT ![o] = x]
      /\ ledger'.stamp = ledger.stamp /\ ledger'.admitted = ledger.admitted
      /\ ledger'.generation = ledger.generation + 1
  BY <1>5, <1>6, <1>7 DEF Ledger
<1>9. State(o) = "none" /\ Calls("provision", o)
      /\ UNCHANGED <<staging, quarantine, backup, counters>>
  BY DEF Begin, OnlyLedger
<1>10. State(o)' = "pending" /\ \A q \in Op \ {o} : ledger'.op[q] = ledger.op[q]
  BY <1>3, <1>4, <1>5, <1>8 DEF State
<1>11. KnownStays BY <1>10 DEF KnownStays, State
<1>12. call' \in Call /\ call'.op = o /\ call'.rest = {}
  BY <1>9 DEF Calls, Call
<1>13. LedgersOK' BY <1>8, <1>9, <1>12 DEF counters, StoreInv, TypeOK, LedgersOK
<1>14. CallsAreKnown' BY <1>10, <1>12 DEF CallsAreKnown, State
<1> QED BY <1>8, <1>9, <1>10, <1>11, <1>13, <1>14

\* A save of the ledger that is not of one operation's state.
LEMMA SavesType ==
    ASSUME ledger \in Ledger, NEW l \in Ledger, l.op = ledger.op, Saves(l)
    PROVE  /\ ledger' \in Ledger /\ ledger'.op = ledger.op /\ ledger'.stamp = l.stamp
           /\ ledger'.admitted = l.admitted /\ ledger'.generation = ledger.generation + 1
<1>1. ledger.generation \in Nat BY DEF Ledger
<1> QED BY <1>1 DEF Saves, Ledger

\* What a saved change adds to the stamp.
LEMMA SeenType ==
    ASSUME ledger \in Ledger, call \in Call
    PROVE  /\ WithSeen(ledger) \in Ledger
           /\ WithSeen(ledger).op = ledger.op
           /\ WithSeen(ledger).admitted = ledger.admitted
           /\ WithSeen(ledger).generation = ledger.generation
           /\ WithSeen(ledger).stamp.continuity = ledger.stamp.continuity
           /\ WithSeen(ledger).stamp.retired = ledger.stamp.retired
           /\ ~Stamped => WithSeen(ledger) = ledger
           /\ Stamped => /\ WithSeen(ledger).stamp.sequence = Larger(ledger.stamp.sequence, call.seen)
                         /\ WithSeen(ledger).stamp.generation = Larger(ledger.stamp.generation, call.seenAt)
<1>1. /\ ledger.stamp \in Stamp /\ ledger.stamp.sequence \in Nat /\ ledger.stamp.generation \in Nat
      /\ call.seen \in Nat /\ call.seenAt \in Nat
  BY DEF Ledger, Stamp, Call
<1> DEFINE a == Larger(ledger.stamp.sequence, call.seen)
           b == Larger(ledger.stamp.generation, call.seenAt)
           s == [ledger.stamp EXCEPT !.sequence = a, !.generation = b]
<1>2. a \in Nat /\ b \in Nat BY <1>1 DEF Larger
<1> HIDE DEF a, b
<1>3. /\ s \in Stamp /\ s.sequence = a /\ s.generation = b /\ s.retired = ledger.stamp.retired
      /\ s.continuity = ledger.stamp.continuity
  BY <1>1, <1>2 DEF Stamp
<1>4. WithSeen(ledger) = IF ~Stamped THEN ledger ELSE [ledger EXCEPT !.stamp = s]
  BY <1>1 DEF WithSeen, Ledger, Stamp, a, b
<1> HIDE DEF s
<1>5. CASE ~Stamped BY <1>4, <1>5
<1>6. CASE Stamped
  <2>1. WithSeen(ledger) = [ledger EXCEPT !.stamp = s] BY <1>4, <1>6
  <2>2. /\ WithSeen(ledger) \in Ledger /\ WithSeen(ledger).stamp = s
        /\ WithSeen(ledger).op = ledger.op /\ WithSeen(ledger).admitted = ledger.admitted
        /\ WithSeen(ledger).generation = ledger.generation
    BY <1>3, <2>1 DEF Ledger
  <2> QED BY <1>3, <1>6, <2>2 DEF a, b
<1> QED BY <1>5, <1>6

\* The ledger and its calls are what they should be after every step.
LEMMA LedgersNext ==
    ASSUME StoreInv, [Next]_vars
    PROVE  LedgersOK' /\ CallsAreKnown'
<1>0. /\ ledger \in Ledger /\ call \in Call \cup {None} /\ doc \in Document
      /\ staging \subseteq Op /\ quarantine \subseteq Op
      /\ call # None => call \in Call /\ call.op \in Op /\ State(call.op) # "none"
  BY CallFields DEF StoreInv, TypeOK, StoresOK, LedgersOK, CallsAreKnown
<1> DEFINE Same == UNCHANGED <<ledger, staging, quarantine, call, backup, counters>>
<1>1. CASE Same
  BY <1>1 DEF counters, StoreInv, TypeOK, LedgersOK, CallsAreKnown, State
<1>2. ASSUME NEW o \in Op, NEW e \in External, NEW p \in Profile, Begin(o, e, p)
      PROVE  LedgersOK' /\ CallsAreKnown'
  BY <1>2, BeginType
<1>3. ASSUME NEW o \in Op, Replay(o) PROVE LedgersOK' /\ CallsAreKnown'
  <2>1. /\ call' \in Call /\ call'.op = o /\ call'.rest = {} /\ State(o) # "none"
        /\ UNCHANGED <<ledger, staging, quarantine, backup, counters>>
    BY <1>3 DEF Replay, Calls, Call, OnlyCall, Open
  <2> QED BY <2>1 DEF counters, StoreInv, TypeOK, LedgersOK, CallsAreKnown, State
<1>4. ASSUME NEW o \in Op, Revoke(o) PROVE LedgersOK' /\ CallsAreKnown'
  <2>0. doc.marker.sequence \in Nat /\ doc.reply[<<o, "revoke">>] \in Nat
    BY <1>0 DEF Document, Marker, Change
  <2>1. /\ call' \in Call /\ call'.op = o /\ call'.rest = {}
    BY <1>4, <2>0 DEF Revoke, Call
  <2>2. State(o) # "none" /\ UNCHANGED <<ledger, staging, quarantine, backup, counters>>
    BY <1>4 DEF Revoke, OnlyCall
  <2> QED BY <2>1, <2>2 DEF counters, StoreInv, TypeOK, LedgersOK, CallsAreKnown, State
<1>5. ASSUME NEW admitted \in BOOLEAN, SetAdmitted(admitted) PROVE LedgersOK' /\ CallsAreKnown'
  <2>1. [ledger EXCEPT !.admitted = admitted] \in Ledger
        /\ [ledger EXCEPT !.admitted = admitted].op = ledger.op
    BY <1>0 DEF Ledger
  <2>2. Saves([ledger EXCEPT !.admitted = admitted]) /\ acts' = acts + 1 /\ call = None
        /\ UNCHANGED <<staging, quarantine, call, backup, suspect, early, cuts, restores>>
    BY <1>5 DEF SetAdmitted
  <2>3. ledger' \in Ledger BY <1>0, <2>1, <2>2, SavesType
  <2> QED BY <2>2, <2>3 DEF StoreInv, TypeOK, LedgersOK, CallsAreKnown
<1>6. CASE Initialize
  <2> DEFINE l == [ledger EXCEPT !.stamp.continuity = 1 + restores]
  <2>1. restores \in Nat BY DEF StoreInv, TypeOK, LedgersOK
  <2>2. l \in Ledger /\ l.op = ledger.op BY <1>0, <2>1 DEF Ledger, Stamp
  <2>3. Saves(l) /\ call = None /\ UNCHANGED <<staging, quarantine, call, backup, counters>>
    BY <1>6 DEF Initialize, OnlyLedger
  <2> HIDE DEF l
  <2>4. ledger' \in Ledger BY <1>0, <2>2, <2>3, SavesType
  <2> QED BY <2>3, <2>4 DEF counters, StoreInv, TypeOK, LedgersOK, CallsAreKnown
<1>7. CASE Retire
  <2> DEFINE l == [ledger EXCEPT !.stamp.retired = TRUE]
  <2>1. l \in Ledger /\ l.op = ledger.op BY <1>0 DEF Ledger, Stamp
  <2>2. Saves(l) /\ call = None /\ acts' = acts + 1
        /\ UNCHANGED <<staging, quarantine, call, backup, suspect, early, cuts, restores>>
    BY <1>7 DEF Retire
  <2> HIDE DEF l
  <2>3. ledger' \in Ledger BY <1>0, <2>1, <2>2, SavesType
  <2> QED BY <2>2, <2>3 DEF StoreInv, TypeOK, LedgersOK, CallsAreKnown
<1>8. CASE Settled
  <2>1. call # None /\ Ends /\ UNCHANGED <<ledger, quarantine, backup, counters>>
    BY <1>8 DEF Settled, Resumes
  <2> QED BY <2>1, EndsType
<1>9. CASE Stage
  <2>0. call # None BY <1>9 DEF Stage, Proceeds, Resumes
  <2>1. CASE Fails(call.op) BY <2>0, <2>1, FailsType
  <2>2. CASE ~Fails(call.op)
    <3>1. /\ (At("staged") \/ At("made"))
          /\ staging' = staging \/ staging' = staging \cup {call.op}
          /\ UNCHANGED <<ledger, quarantine, backup, counters>>
      BY <1>9, <2>2 DEF Stage, OnlyCall
    <3> QED BY <1>0, <2>0, <3>1, MovesType
  <2> QED BY <2>1, <2>2
<1>10. CASE RenameIn
  <2>0. call # None BY <1>10 DEF RenameIn
  <2>1. CASE UNCHANGED ledger
    <3>1. /\ (At("renamed") \/ At("clear"))
          /\ staging' = staging \ {call.op} /\ UNCHANGED <<ledger, quarantine, backup, counters>>
      BY <1>10, <2>1 DEF RenameIn
    <3> QED BY <1>0, <2>0, <3>1, MovesType
  <2>2. CASE Transition(ledger, call.op, "failed") /\ At("clear")
    <3>1. staging' \subseteq Op /\ UNCHANGED <<quarantine, backup, counters>>
      BY <1>0, <1>10 DEF RenameIn
    <3>2. ledger' \in Ledger /\ KnownStays
      BY <1>0, <2>0, <2>2, TransitionType DEF States, KnownStays
    <3>3. call' \in Call /\ call'.op = call.op /\ call'.rest = call.rest /\ call' # None
      BY <1>0, <2>0, <2>2, CallFields
    <3>4. LedgersOK' BY <3>1, <3>2, <3>3 DEF counters, StoreInv, TypeOK, LedgersOK
    <3> QED BY <2>0, <3>2, <3>3, <3>4, KnownCalls
  <2> QED BY <1>10, <2>1, <2>2 DEF RenameIn
<1>11. CASE SaveCreated
  <2>0. call # None BY <1>11 DEF SaveCreated
  <2>1. CASE Fails(call.op) BY <2>0, <2>1, FailsType
  <2>2. CASE Transition(ledger, call.op, "created") /\ At("next") /\ OnlyLedger
    <3>1. ledger' \in Ledger /\ KnownStays
      BY <1>0, <2>0, <2>2, TransitionType DEF States, KnownStays
    <3>2. call' \in Call /\ call'.op = call.op /\ call'.rest = call.rest /\ call' # None
      BY <1>0, <2>0, <2>2, CallFields
    <3>3. LedgersOK' BY <2>2, <3>1, <3>2 DEF OnlyLedger, counters, StoreInv, TypeOK, LedgersOK
    <3> QED BY <2>0, <3>1, <3>2, <3>3, KnownCalls
  <2> QED BY <1>11, <2>1, <2>2 DEF SaveCreated
<1>12. CASE Bind
  <2>0. call # None /\ call \in Call /\ call.op \in Op BY <1>0, <1>12 DEF Bind, Proceeds, Resumes
  <2>1. CASE Fails(call.op) BY <2>0, <2>1, FailsType
  <2>2. CASE Ends /\ UNCHANGED <<ledger, quarantine, backup, counters>>
    BY <2>0, <2>2, EndsType
  <2>3. CASE /\ call' = [call EXCEPT !.at = "changed", !.seen = doc.marker.sequence,
                                     !.seenAt = doc.reply[<<call.op, "bind">>]]
             /\ UNCHANGED <<ledger, staging, quarantine, backup, counters>>
    <3>1. doc.marker.sequence \in Nat /\ doc.reply[<<call.op, "bind">>] \in Nat
      BY <1>0, <2>0 DEF Document, Marker, Change
    <3>2. call' \in Call /\ call'.op = call.op /\ call'.rest = call.rest
      BY <2>0, <2>3, <3>1 DEF Call
    <3>3. LedgersOK' BY <2>3, <3>2 DEF counters, StoreInv, TypeOK, LedgersOK
    <3>4. call' # None BY <3>2, NoCallIsNone
    <3>5. KnownStays BY <2>3 DEF KnownStays, State
    <3> QED BY <2>0, <3>2, <3>3, <3>4, <3>5, KnownCalls
  <2>4. CASE At("changing") /\ UNCHANGED <<ledger, staging, quarantine, backup, counters>>
    BY <1>0, <2>0, <2>4, MovesType
  <2> QED BY <1>12, <2>1, <2>2, <2>3, <2>4 DEF Bind, Answered, OnlyCall
<1>13. CASE ServiceCommits
  <2>0. tx # None /\ tx.doc \in Document
    BY <1>13 DEF ServiceCommits, StoreInv, TypeOK, StoresOK, Transaction
  <2>1. /\ call' = [call EXCEPT !.at = "changed", !.seen = tx.doc.marker.sequence,
                                !.seenAt = tx.doc.generation]
        /\ UNCHANGED <<ledger, staging, quarantine, backup, counters>>
    BY <1>13 DEF ServiceCommits
  <2>2. tx.doc.marker.sequence \in Nat /\ tx.doc.generation \in Nat
    BY <2>0 DEF Document, Marker
  <2>3. CASE call # None
    <3>1. call' \in Call /\ call'.op = call.op /\ call'.rest = call.rest
      BY <1>0, <2>1, <2>2, <2>3 DEF Call
    <3>2. LedgersOK' BY <2>1, <3>1 DEF counters, StoreInv, TypeOK, LedgersOK
    <3>3. call' # None BY <3>1, NoCallIsNone
    <3>4. KnownStays BY <2>1 DEF KnownStays, State
    <3> QED BY <2>3, <3>1, <3>2, <3>3, <3>4, KnownCalls
  <2>4. CASE call = None BY <1>13, <2>4 DEF ServiceCommits, StoreInv, ServiceHasACall
  <2> QED BY <2>3, <2>4
<1>14. CASE SaveChanged
  <2>0. call # None BY <1>14 DEF SaveChanged
  <2>1. PICK state \in {"revoked", "completed"} :
           /\ Transition(WithSeen(ledger), call.op, state)
           /\ call' = None \/ At("next")
           /\ UNCHANGED <<staging, quarantine, backup, counters>>
    BY <1>14 DEF SaveChanged, OnlyLedger
  <2>2. /\ WithSeen(ledger) \in Ledger /\ WithSeen(ledger).op = ledger.op
        /\ WithSeen(ledger).admitted = ledger.admitted
    BY <1>0, <2>0, SeenType
  <2>3. ledger' \in Ledger /\ KnownStays
    BY <1>0, <2>0, <2>1, <2>2, TransitionType DEF States, KnownStays
  <2>4. \/ call' = None
        \/ call' \in Call /\ call'.op = call.op /\ call'.rest = call.rest /\ call' # None
    BY <1>0, <2>0, <2>1, CallFields
  <2>5. LedgersOK' BY <2>1, <2>3, <2>4 DEF counters, StoreInv, TypeOK, LedgersOK
  <2> QED BY <2>0, <2>3, <2>4, <2>5, KnownCalls
<1>15. CASE LookAtFailed
  <2>1. /\ call # None
        /\ At("move") \/ At("clear")
        /\ UNCHANGED <<ledger, staging, quarantine, backup, counters>>
    BY <1>15 DEF LookAtFailed, OnlyCall
  <2>2. call # None BY <1>15 DEF LookAtFailed
  <2> QED BY <1>0, <2>1, <2>2, MovesType
<1>16. CASE MoveToQuarantine
  <2>1. /\ call # None /\ At("clear")
        /\ quarantine' = quarantine \/ quarantine' = quarantine \cup {call.op}
        /\ UNCHANGED <<ledger, staging, backup, counters>>
    BY <1>16 DEF MoveToQuarantine
  <2>2. quarantine' \subseteq Op BY <1>0, <2>1
  <2> QED BY <1>0, <2>1, <2>2, MovesType
<1>17. CASE ClearStaging
  <2>1. /\ call # None /\ At("next") /\ staging' = staging \ {call.op}
        /\ UNCHANGED <<ledger, quarantine, backup, counters>>
    BY <1>17 DEF ClearStaging, At
  <2> QED BY <1>0, <2>1, MovesType
<1>18. CASE ReconcileOne
  <2>0. call # None BY <1>18 DEF ReconcileOne
  <2>1. CASE Fails(call.op) BY <2>0, <2>1, FailsType
  <2>2. CASE At("next") /\ OnlyCall
    BY <1>0, <2>0, <2>2, MovesType DEF OnlyCall
  <2> QED BY <1>18, <2>1, <2>2 DEF ReconcileOne
<1>19. CASE Reconcile
  <2>1. PICK o \in {q \in Op : Open(q)} :
           /\ call' = [kind |-> "reconcile", op |-> o, at |-> "admit",
                       rest |-> {q \in Op : Open(q)} \ {o}, seen |-> 0, seenAt |-> 0]
           /\ early' \in BOOLEAN
           /\ UNCHANGED <<ledger, staging, quarantine, backup, suspect, cuts, acts, restores>>
    BY <1>19 DEF Reconcile, StoreInv, TypeOK, LedgersOK
  <2>2. call' \in Call /\ call'.op = o /\ call'.rest = {q \in Op : Open(q)} \ {o}
    BY <2>1 DEF Call
  <2>3. \A q \in {r \in Op : Open(r)} : State(q) # "none" BY DEF Open
  <2> QED BY <2>1, <2>2, <2>3 DEF StoreInv, TypeOK, LedgersOK, CallsAreKnown, State
<1>20. CASE Cut
  <2>1. call' = None /\ cuts' = cuts + 1
        /\ UNCHANGED <<ledger, staging, quarantine, backup, suspect, early, acts, restores>>
    BY <1>20 DEF Cut
  <2> QED BY <2>1 DEF StoreInv, TypeOK, LedgersOK, CallsAreKnown
<1>21. CASE OperatorActs
  <2>1. acts' = acts + 1
        /\ UNCHANGED <<ledger, staging, quarantine, call, backup, suspect, early, cuts, restores>>
    BY <1>21 DEF OperatorActs
  <2> QED BY <2>1 DEF StoreInv, TypeOK, LedgersOK, CallsAreKnown, State
<1>22. CASE BackUp
  <2>1. backup' = [ledger |-> ledger, doc |-> doc]
        /\ UNCHANGED <<ledger, staging, quarantine, call, counters>>
    BY <1>22 DEF BackUp
  <2> QED BY <1>0, <2>1 DEF counters, StoreInv, TypeOK, LedgersOK, CallsAreKnown, State
<1>23. CASE Restore
  <2>1. /\ call = None /\ restores' = restores + 1 /\ suspect' = TRUE
        /\ ledger' = backup.ledger \/ ledger' = ledger
        /\ UNCHANGED <<staging, quarantine, call, backup, early, cuts, acts>>
    BY <1>23 DEF Restore
  <2> QED BY <2>1 DEF StoreInv, TypeOK, LedgersOK, CallsAreKnown
<1>24. CASE Check
  <2>1. suspect' = FALSE
        /\ UNCHANGED <<ledger, staging, quarantine, call, backup, early, cuts, acts, restores>>
    BY <1>24 DEF Check
  <2> QED BY <2>1 DEF StoreInv, TypeOK, LedgersOK, CallsAreKnown, State
<1>25. AuditIsWritten \/ OperatorCreates \/ OperatorEnds \/ Rest \/ UNCHANGED vars => Same
  BY DEF AuditIsWritten, OperatorCreates, OperatorEnds, Rest, vars
<1> HIDE DEF Same
<1> QED
  BY <1>1, <1>2, <1>3, <1>4, <1>5, <1>6, <1>7, <1>8, <1>9, <1>10, <1>11, <1>12, <1>13, <1>14,
     <1>15, <1>16, <1>17, <1>18, <1>19, <1>20, <1>21, <1>22, <1>23, <1>24, <1>25
  DEF Next, Service

\* A transaction ends, or stays its call's.
LEMMA TransactionsNext ==
    ASSUME StoreInv, [Next]_vars
    PROVE  ServiceHasACall'
<1>0. doc \in Document /\ tx \in Transaction \cup {None} /\ call \in Call \cup {None}
  BY DEF StoreInv, TypeOK, StoresOK, LedgersOK
<1>1. CASE UNCHANGED <<tx, call>> BY <1>1 DEF StoreInv, ServiceHasACall
<1>2. CASE tx' = None BY <1>2 DEF ServiceHasACall
<1>3. CASE tx = None /\ tx' = tx BY <1>3 DEF ServiceHasACall
<1>4. CASE call # None /\ call.at # "changing" /\ tx' = tx BY <1>4 DEF StoreInv, ServiceHasACall
<1>5. CASE call = None /\ tx' = tx BY <1>5 DEF StoreInv, ServiceHasACall
<1>6. ASSUME NEW o \in Op, Revoke(o) PROVE ServiceHasACall'
  <2>1. tx = None BY <1>6 DEF Revoke
  <2>2. CASE tx' = tx BY <2>1, <2>2 DEF ServiceHasACall
  <2>3. CASE tx' # tx
    <3>1. call' = [kind |-> "revoke", op |-> o, at |-> "changing", rest |-> {},
                   seen |-> 0, seenAt |-> 0]
      BY <1>6, <2>3 DEF Revoke, OnlyCall, identityVars
    <3>2. call' \in Call BY <3>1 DEF Call
    <3> QED BY <3>1, <3>2, NoCallIsNone DEF ServiceHasACall
  <2> QED BY <2>2, <2>3
<1>7. CASE Bind
  <2>1. call # None /\ tx = None BY <1>7 DEF Bind, Proceeds, Resumes
  <2>2. CASE tx' = tx BY <2>1, <2>2 DEF ServiceHasACall
  <2>3. CASE tx' # tx
    <3>1. At("changing")
      BY <1>7, <2>3 DEF Bind, Fails, Answered, OnlyCall, OnlyLedger, identityVars
    <3> QED BY <1>0, <2>1, <3>1, CallFields DEF ServiceHasACall
  <2> QED BY <2>2, <2>3
<1>8. CASE AuditIsWritten
  <2>1. tx # None /\ tx' = [tx EXCEPT !.audited = TRUE] /\ call' = call
    BY <1>8 DEF AuditIsWritten, WriteAudit
  <2>2. tx'.by = tx.by BY <1>0, <2>1 DEF Transaction
  <2> QED BY <2>1, <2>2 DEF StoreInv, ServiceHasACall
<1>9. CASE OperatorActs
  <2>1. CASE OperatorTransaction
    <3>1. \E after, key : Begins("operator", after, key)
      BY <2>1 DEF OperatorTransaction, CreatePrincipal, SetStatus, AssignOwner, ReassignOwner,
                  RemoveProfile, OperatorBegins
    <3>2. tx'.by = "operator" BY <3>1 DEF Begins
    <3> QED BY <3>2 DEF ServiceHasACall
  <2>2. CASE \E p \in Profile : DeleteProfile(p)
    <3>1. UNCHANGED <<tx, call>> BY <1>9, <2>2 DEF OperatorActs, DeleteProfile, storeVars
    <3> QED BY <1>1, <3>1
  <2> QED BY <1>9, <2>1, <2>2 DEF OperatorActs
<1>10. CASE Cut
  <2>1. tx' = None \/ (tx' = tx /\ tx.by # "service") \/ (tx' = tx /\ tx = None)
    BY <1>10 DEF Cut
  <2> QED BY <2>1 DEF ServiceHasACall
<1>11. ASSUME NEW o \in Op, Replay(o) \/ \E e \in External, p \in Profile : Begin(o, e, p)
       PROVE  call = None /\ tx' = tx
  BY <1>11 DEF Replay, Begin, Serving, OnlyCall, OnlyLedger, identityVars
<1>12. Settled \/ Stage \/ SaveCreated \/ SaveChanged \/ LookAtFailed \/ ClearStaging \/ ReconcileOne
          => call # None /\ call.at # "changing" /\ tx' = tx
  BY DEF Settled, Stage, SaveCreated, SaveChanged, LookAtFailed, ClearStaging, ReconcileOne,
         Proceeds, Resumes, Fails, OnlyCall, OnlyLedger, identityVars
<1>13. RenameIn \/ MoveToQuarantine => call # None /\ call.at # "changing" /\ tx' = tx
  BY DEF RenameIn, MoveToQuarantine, storeVars, identityVars
<1>14. ServiceCommits => tx' = None BY DEF ServiceCommits, Commits
<1>15. Reconcile \/ Initialize \/ Retire \/ Check \/ BackUp \/ Restore => call = None /\ tx' = tx
  BY DEF Reconcile, Initialize, Retire, Check, BackUp, Restore, OnlyCall, OnlyLedger, identityVars
<1>16. ASSUME NEW admitted \in BOOLEAN, SetAdmitted(admitted) PROVE call = None /\ tx' = tx
  BY <1>16 DEF SetAdmitted, identityVars
<1>17. OperatorCreates => UNCHANGED <<tx, call>> BY DEF OperatorCreates, CreateProfile, storeVars
<1>18. OperatorEnds => tx' = None BY DEF OperatorEnds, Commits
<1>19. Rest \/ UNCHANGED vars => UNCHANGED <<tx, call>> BY DEF Rest, vars, identityVars
<1> QED
  BY <1>1, <1>2, <1>3, <1>4, <1>5, <1>6, <1>7, <1>8, <1>9, <1>10, <1>11, <1>12, <1>13, <1>14,
     <1>15, <1>16, <1>17, <1>18, <1>19
  DEF Next, Service

LEMMA StoreInit == Init => StoreInv
<1> SUFFICES ASSUME Init PROVE StoreInv OBVIOUS
<1>1. NoMarker \in Marker BY DEF NoMarker, Marker
<1>2. EmptyDoc \in Document /\ \A p \in Profile : EmptyDoc.binding[p] = 0
  BY <1>1 DEF EmptyDoc, Document
<1>3. NoStamp \in Stamp BY DEF NoStamp, Stamp
<1>4. EmptyLedger \in Ledger BY <1>3 DEF EmptyLedger, Ledger
<1>5. doc = EmptyDoc /\ backup = [ledger |-> EmptyLedger, doc |-> EmptyDoc] /\ issued = 0
      /\ audited = {} /\ dir = [p \in Profile |-> None] /\ tx = None /\ call = None
      /\ ledger = EmptyLedger /\ staging = {} /\ quarantine = {} /\ suspect = FALSE /\ early = FALSE
      /\ cuts = 0 /\ acts = 0 /\ restores = 0
  BY DEF Init, IdentityInit
<1>6. StoresOK BY <1>2, <1>5 DEF StoresOK
<1>7. LedgersOK
  <2>1. backup \in [ledger : Ledger, doc : Document] BY <1>2, <1>4, <1>5
  <2>2. {cuts, acts, restores} \subseteq Nat BY <1>5
  <2> QED BY <1>4, <1>5, <2>1, <2>2 DEF LedgersOK
<1>8. TokensAreDrawn BY <1>2, <1>5 DEF TokensAreDrawn, Drawn
<1> QED BY <1>5, <1>6, <1>7, <1>8
     DEF StoreInv, TypeOK, CallsAreKnown, RecordsComeFirst, ServiceHasACall

LEMMA StoreNext == StoreInv /\ [Next]_vars => StoreInv'
BY StoresNext, LedgersNext, TransactionsNext DEF StoreInv, TypeOK

\* The stores keep their shape under operators, cuts and restored copies.
THEOREM StoresKeepTheirShape == Spec => []StoreInv
<1>1. Init => StoreInv BY StoreInit
<1>2. StoreInv /\ [Next]_vars => StoreInv' BY StoreNext
<1> QED BY <1>1, <1>2, PTL DEF Spec

-----------------------------------------------------------------------------
(* What the identity store promises to those who read it.                  *)

\* A marker in a directory is as it was, gone, or new.
LEMMA MarkersMove ==
    ASSUME StoreInv, [Next]_vars, NEW p \in Profile
    PROVE  \/ dir'[p] = dir[p]
           \/ dir'[p] = None
           \/ dir'[p].binding \in {0, issued + 1}
<1>0. /\ dir \in [Profile -> Directory \cup {None}] /\ issued \in Nat
      /\ dir[p] # None => dir[p] \in Directory
  BY DEF StoreInv, TypeOK, StoresOK
<1>1. CASE dir' = dir BY <1>1
<1>2. ASSUME NEW q, NEW after, dir[q] # None, BindsDirectory(q, doc, after)
      PROVE  dir'[p] = dir[p] \/ dir'[p] = None \/ dir'[p].binding \in {0, issued + 1}
  <2>1. dir' = dir \/ dir' = [dir EXCEPT ![q] = [dir[q] EXCEPT !.binding = issued + 1]]
    BY <1>2 DEF BindsDirectory
  <2> QED BY <1>0, <1>2, <2>1 DEF Directory
<1>3. ASSUME NEW q, UnbindsDirectory(q)
      PROVE  dir'[p] = dir[p] \/ dir'[p] = None \/ dir'[p].binding \in {0, issued + 1}
  <2>1. dir' = dir \/ (dir[q] # None /\ dir' = [dir EXCEPT ![q] = [dir[q] EXCEPT !.binding = 0]])
    BY <1>3 DEF UnbindsDirectory
  <2> QED BY <1>0, <2>1 DEF Directory
<1>4. CASE RenameIn
  <2>1. \/ dir' = dir
        \/ dir' = [dir EXCEPT ![ProfileOf(call.op)] = [marker |-> call.op, binding |-> 0]]
    BY <1>4 DEF RenameIn, identityVars
  <2> QED BY <1>0, <2>1
<1>5. CASE MoveToQuarantine
  <2>1. dir' = dir \/ dir' = [dir EXCEPT ![ProfileOf(call.op)] = None]
    BY <1>5 DEF MoveToQuarantine
  <2> QED BY <1>0, <2>1
<1>6. CASE OperatorCreates
  <2>1. PICK q \in Profile : dir' = [dir EXCEPT ![q] = [marker |-> Foreign, binding |-> 0]]
    BY <1>6 DEF OperatorCreates, CreateProfile
  <2> QED BY <1>0, <2>1
<1>7. ASSUME NEW q \in Profile, DeleteProfile(q) PROVE dir'[p] = dir[p] \/ dir'[p] = None
  BY <1>0, <1>7 DEF DeleteProfile
<1>8. \/ dir' = dir
      \/ \E q, after : dir[q] # None /\ BindsDirectory(q, doc, after)
      \/ \E q : UnbindsDirectory(q)
      \/ \E q \in Profile : DeleteProfile(q)
      \/ RenameIn \/ MoveToQuarantine \/ OperatorCreates
  <2>1. ASSUME NEW o \in Op, NEW e \in External, NEW q \in Profile, Begin(o, e, q) PROVE dir' = dir
    BY <2>1 DEF Begin, OnlyLedger, identityVars
  <2>2. ASSUME NEW o \in Op, Replay(o) PROVE dir' = dir BY <2>2 DEF Replay, OnlyCall, identityVars
  <2>3. ASSUME NEW o \in Op, Revoke(o) PROVE dir' = dir \/ \E q : UnbindsDirectory(q)
    BY <2>3 DEF Revoke, OnlyCall, identityVars
  <2>4. ASSUME NEW admitted \in BOOLEAN, SetAdmitted(admitted) PROVE dir' = dir
    BY <2>4 DEF SetAdmitted, identityVars
  <2>5. Initialize \/ Retire \/ Reconcile \/ Check \/ BackUp \/ Restore => dir' = dir
    BY DEF Initialize, Retire, Reconcile, Check, BackUp, Restore, OnlyLedger, OnlyCall, identityVars
  <2>6. Settled \/ Stage \/ SaveCreated \/ SaveChanged \/ LookAtFailed \/ ClearStaging \/ ReconcileOne
           => dir' = dir
    BY DEF Settled, Stage, SaveCreated, SaveChanged, LookAtFailed, ClearStaging, ReconcileOne,
           Fails, OnlyLedger, OnlyCall, identityVars
  <2>7. Bind => dir' = dir \/ \E q, after : dir[q] # None /\ BindsDirectory(q, doc, after)
    BY DEF Bind, MarkerMatches, Fails, Answered, OnlyLedger, OnlyCall, identityVars
  <2>8. ServiceCommits \/ AuditIsWritten \/ Cut \/ OperatorEnds => dir' = dir
    BY DEF ServiceCommits, AuditIsWritten, WriteAudit, Cut, OperatorEnds, Commits
  <2>9. OperatorActs => \/ dir' = dir
                        \/ \E q, after : dir[q] # None /\ BindsDirectory(q, doc, after)
                        \/ \E q : UnbindsDirectory(q)
                        \/ \E q \in Profile : DeleteProfile(q)
    BY DEF OperatorActs, OperatorTransaction, CreatePrincipal, SetStatus, AssignOwner,
           ReassignOwner, RemoveProfile
  <2>10. Rest \/ UNCHANGED vars => dir' = dir BY DEF Rest, vars, identityVars
  <2> QED BY <2>1, <2>2, <2>3, <2>4, <2>5, <2>6, <2>7, <2>8, <2>9, <2>10 DEF Next, Service
<1> QED BY <1>1, <1>2, <1>3, <1>4, <1>5, <1>6, <1>7, <1>8

\* The document changes by a commit, or by a copy that is put back.
LEMMA DocumentMoves ==
    ASSUME StoreInv, [Next]_vars, doc' # doc
    PROVE  restores' # restores \/ Commits
<1>1. restores \in Nat BY DEF StoreInv, TypeOK, LedgersOK
<1>2. ASSUME NEW o \in Op, Replay(o) \/ \E e \in External, q \in Profile : Begin(o, e, q)
      PROVE  doc' = doc
  BY <1>2 DEF Begin, Replay, OnlyLedger, OnlyCall, identityVars
<1>3. ASSUME NEW o \in Op, Revoke(o) PROVE doc' = doc
  BY <1>3 DEF Revoke, Begins, OnlyCall, identityVars
<1>4. ASSUME NEW admitted \in BOOLEAN, SetAdmitted(admitted) PROVE doc' = doc
  BY <1>4 DEF SetAdmitted, identityVars
<1>5. Initialize \/ Retire \/ Reconcile \/ Check \/ BackUp => doc' = doc
  BY DEF Initialize, Retire, Reconcile, Check, BackUp, OnlyLedger, OnlyCall, identityVars
<1>6. Settled \/ Stage \/ SaveCreated \/ SaveChanged \/ LookAtFailed \/ ClearStaging \/ ReconcileOne
         => doc' = doc
  BY DEF Settled, Stage, SaveCreated, SaveChanged, LookAtFailed, ClearStaging, ReconcileOne,
         Fails, OnlyLedger, OnlyCall, identityVars
<1>7. RenameIn \/ MoveToQuarantine \/ OperatorCreates => doc' = doc
  BY DEF RenameIn, MoveToQuarantine, OperatorCreates, CreateProfile, storeVars, identityVars
<1>8. Bind => doc' = doc
  BY DEF Bind, Begins, Fails, Answered, OnlyLedger, OnlyCall, identityVars
<1>9. AuditIsWritten \/ Cut => doc' = doc BY DEF AuditIsWritten, WriteAudit, Cut
<1>10. OperatorActs => doc' = doc
  BY DEF OperatorActs, OperatorTransaction, CreatePrincipal, SetStatus, AssignOwner,
         ReassignOwner, RemoveProfile, DeleteProfile, OperatorBegins, Begins, storeVars
<1>11. ServiceCommits \/ OperatorEnds => doc' = doc \/ Commits
  BY DEF ServiceCommits, OperatorEnds
<1>12. Restore => restores' # restores BY <1>1 DEF Restore
<1>13. Rest \/ UNCHANGED vars => doc' = doc BY DEF Rest, vars, identityVars
<1> QED BY <1>2, <1>3, <1>4, <1>5, <1>6, <1>7, <1>8, <1>9, <1>10, <1>11, <1>12, <1>13
     DEF Next, Service

\* A commit changes nothing else, and comes after its records.
LEMMA CommitMoves ==
    ASSUME StoreInv, Commits
    PROVE  /\ tx # None /\ doc' = tx.doc /\ doc'.generation \in audited /\ dir' = dir
BY DEF Commits, MayCommit, StoreInv, RecordsComeFirst

\* No change of the identity state is committed without its audit records.
THEOREM ChangesComeAfterTheirRecords == Spec => ChangesAreAudited
<1>1. StoreInv /\ [Next]_vars =>
         [doc' # doc /\ restores' = restores => doc'.generation \in audited]_vars
  BY DocumentMoves, CommitMoves
<1> QED BY <1>1, StoresKeepTheirShape, PTL DEF Spec, ChangesAreAudited

\* Ownership counts only from the commit that records it, or a restored copy.
THEOREM OwnershipComesWithItsRecord == Spec => OwnershipTakesEffectByCommit
<1>1. ASSUME StoreInv, [Next]_vars, NEW p \in Profile,
             EffectiveOwner(p)' \notin {None, EffectiveOwner(p)}
      PROVE  /\ doc' # doc
             /\ restores' = restores => tx # None /\ tx.doc.owner[p] = EffectiveOwner(p)'
  <2>1. /\ dir'[p] # None /\ doc'.binding[p] # 0 /\ dir'[p].binding = doc'.binding[p]
        /\ EffectiveOwner(p)' = doc'.owner[p]
    BY <1>1 DEF EffectiveOwner
  <2>2. doc.binding[p] <= issued /\ doc.binding[p] \in Nat /\ issued \in Nat
    BY <1>1, DocumentFields DEF StoreInv, TypeOK, StoresOK, TokensAreDrawn, Drawn
  <2>3. doc' # doc
    <3> SUFFICES ASSUME doc' = doc PROVE FALSE OBVIOUS
    <3>1. dir'[p] = dir[p] BY <1>1, <2>1, <2>2, MarkersMove
    <3>2. EffectiveOwner(p)' = EffectiveOwner(p) BY <3>1 DEF EffectiveOwner
    <3> QED BY <1>1, <3>2
  <2>4. ASSUME restores' = restores PROVE tx # None /\ tx.doc.owner[p] = EffectiveOwner(p)'
    BY <1>1, <2>1, <2>3, <2>4, DocumentMoves, CommitMoves
  <2> QED BY <2>3, <2>4
<1>2. StoreInv /\ [Next]_vars =>
         [\A p \in Profile :
             EffectiveOwner(p)' \notin {None, EffectiveOwner(p)} =>
                /\ doc' # doc
                /\ restores' = restores => tx # None /\ tx.doc.owner[p] = EffectiveOwner(p)']_vars
  BY <1>1
<1> QED BY <1>2, StoresKeepTheirShape, PTL DEF Spec, OwnershipTakesEffectByCommit

-----------------------------------------------------------------------------
(* Cuts: what moves one operation on.                                      *)

\* Stores that did not change still match.
LEMMA StillMatch ==
    ASSUME UNCHANGED <<doc, ledger>>
    PROVE  /\ ChangesMatch => ChangesMatch'
           /\ UNCHANGED dir => (PlacesMatch => PlacesMatch')
<1>1. AppliedIsKnown => AppliedIsKnown'
  BY DEF AppliedIsKnown, Applied, State, Known, UserOf, Settles
<1>2. MarkerIsKnown => MarkerIsKnown'
  BY DEF MarkerIsKnown, HasMarker, Applied, LastChange
<1>3. StampFollows => StampFollows'
  BY DEF StampFollows, Stamped, HasMarker, Applied, Changed, State
<1>4. MarkerFollows => MarkerFollows'
  BY DEF MarkerFollows, Stamped, HasMarker, State, InFlight, Owned, Known, UserOf, ProfileOf
<1>5. OneIsAhead => OneIsAhead'
  BY DEF OneIsAhead, Stamped, Applied, Settles, State, LastChange
<1>6. UNCHANGED dir => (PlacesMatch => PlacesMatch')
  BY DEF PlacesMatch, State, MarkerMatches, ProfileOf
<1> QED BY <1>1, <1>2, <1>3, <1>4, <1>5, <1>6 DEF ChangesMatch

\* One operation's record changed its state, or began; the others stay.
OneMoves(o, state) ==
    /\ ledger'.op[o] # None /\ ledger'.op[o].state = state
    /\ State(o) # "none" => /\ ledger'.op[o].profile = ledger.op[o].profile
                            /\ ledger'.op[o].principal = ledger.op[o].principal
    /\ \A q \in Op \ {o} : ledger'.op[q] = ledger.op[q]

LEMMA TransitionMoves ==
    ASSUME StoreInv, NEW l \in Ledger, l.op = ledger.op, l.admitted = ledger.admitted,
           NEW o \in Op, State(o) # "none", NEW state \in States, Transition(l, o, state)
    PROVE  /\ OneMoves(o, state) /\ ledger'.stamp = l.stamp /\ ledger'.admitted = ledger.admitted
           /\ ledger'.generation = ledger.generation + 1
<1>1. ledger \in Ledger BY DEF StoreInv, TypeOK, LedgersOK
<1>2. /\ State(o)' = state /\ ProfileOf(o)' = ProfileOf(o) /\ UserOf(o)' = UserOf(o)
      /\ \A q \in Op \ {o} : ledger'.op[q] = ledger.op[q]
      /\ ledger'.stamp = l.stamp /\ ledger'.admitted = ledger.admitted
      /\ ledger'.generation = ledger.generation + 1
  BY <1>1, TransitionType
<1>3. state # "none" BY DEF States
<1> QED BY <1>2, <1>3 DEF OneMoves, State, ProfileOf, UserOf

\* What the ledger says of an operation after one moved.
LEMMA MovedOps ==
    ASSUME NEW o \in Op, NEW state, OneMoves(o, state), NEW q \in Op
    PROVE  /\ (IF ledger'.op[q] = None THEN "none" ELSE ledger'.op[q].state)
                 = IF q = o THEN state ELSE State(q)
           /\ q # o \/ State(o) # "none" => /\ ledger'.op[q].profile = ProfileOf(q)
                                            /\ ledger'.op[q].principal = UserOf(q)
BY DEF OneMoves, State, ProfileOf, UserOf

\* An operation fails, or its profile was made: nothing the stores applied is
\* about that.
LEMMA QuietMove ==
    ASSUME StoreInv, ChangesMatch, PlacesMatch, UNCHANGED <<doc, dir>>, ledger'.stamp = ledger.stamp,
           NEW o \in Op, NEW state \in {"failed", "created"}, OneMoves(o, state),
           State(o) = "pending" \/ (State(o) = "created" /\ ~Applied(<<o, "bind">>)),
           state = "created" => MarkerMatches(o)
    PROVE  ChangesMatch' /\ PlacesMatch'
<1>0. \A q \in Op :
         /\ (IF ledger'.op[q] = None THEN "none" ELSE ledger'.op[q].state)
               = IF q = o THEN state ELSE State(q)
         /\ ledger'.op[q].profile = ProfileOf(q) /\ ledger'.op[q].principal = UserOf(q)
  BY MovedOps
<1>1. \A c \in Change : c[1] \in Op /\ c[2] \in {"bind", "revoke"} /\ c = <<c[1], c[2]>>
  BY DEF Change
<1>2. /\ \A c \in Change : doc'.reply[c] = doc.reply[c]
      /\ \A c \in Change : Applied(c)' <=> Applied(c)
  BY DEF Applied
<1>3. \A c \in Change : Settles(c[1], c[2])' <=> Settles(c[1], c[2])
  BY <1>0, <1>1 DEF Settles, State
<1>4. AppliedIsKnown'
  BY <1>0, <1>1, <1>3 DEF ChangesMatch, AppliedIsKnown, Applied, Known, State, UserOf, Settles
<1>5. MarkerIsKnown'
  BY DEF ChangesMatch, MarkerIsKnown, HasMarker, Applied, LastChange
<1>6. Changed' = Changed
  BY <1>0 DEF Changed, State
<1>7. StampFollows'
  BY <1>6 DEF ChangesMatch, StampFollows, Stamped, HasMarker, Applied
<1>8. MarkerFollows'
  <2> SUFFICES ASSUME Stamped, HasMarker PROVE MarkerFollows'
    BY DEF MarkerFollows, Stamped, HasMarker
  <2> DEFINE m == doc.marker.op
             a == doc.marker.action
  <2>1. m \in Op /\ a \in {"bind", "revoke"} /\ Applied(<<m, a>>)
    <3>1. a \in {"bind", "revoke"} BY DEF StoreInv, TypeOK, StoresOK, Document, Marker
    <3> QED BY <3>1 DEF ChangesMatch, MarkerIsKnown, LastChange
  <2>2. State(m) = EndOf(a) \/ InFlight(m, a) BY DEF ChangesMatch, MarkerFollows
  <2>3. m # o BY <2>1, <2>2 DEF EndOf, InFlight
  <2>4. State(m)' = State(m) /\ (InFlight(m, a)' <=> InFlight(m, a))
    BY <1>0, <2>1, <2>3 DEF State, InFlight, Owned, Known, UserOf, ProfileOf
  <2> QED BY <2>4 DEF ChangesMatch, MarkerFollows, State, InFlight, Owned, Known, UserOf, ProfileOf
<1>9. OneIsAhead'
  BY <1>3 DEF ChangesMatch, OneIsAhead, Stamped, Applied, LastChange
<1>10. PlacesMatch'
  <2>1. \A p \in Profile : dir[p] # None /\ dir[p].marker # Foreign => dir[p].marker \in Op
    BY DEF StoreInv, TypeOK, StoresOK, Directory
  <2>2. state # "none" OBVIOUS
  <2>3. \A p \in Profile : dir[p] # None /\ dir[p].marker # Foreign => State(dir[p].marker)' # "none"
    BY <1>0, <2>1, <2>2 DEF PlacesMatch, State
  <2>4. \A q \in Op : State(q)' \in {"created", "completed"} => MarkerMatches(q)'
    BY <1>0 DEF PlacesMatch, State, MarkerMatches, ProfileOf
  <2> QED BY <2>3, <2>4 DEF PlacesMatch, State
<1> QED BY <1>4, <1>5, <1>7, <1>8, <1>9, <1>10 DEF ChangesMatch

\* No transaction runs unless its call is at it.
LEMMA NoTransaction ==
    ASSUME NothingElseActs, call = None \/ call.at # "changing"
    PROVE  tx = None
BY DEF NothingElseActs

\* A call that is not about a change has nothing to match.
LEMMA IdleCall ==
    ASSUME call' = None \/ (call' # None /\ call'.at \notin {"changing", "changed"})
    PROVE  TransactionMatches' /\ SeenMatches'
BY DEF TransactionMatches, SeenMatches

\* Generations stay in order while the document stays.
LEMMA StillGrow ==
    ASSUME StoreInv, GenerationsGrow, UNCHANGED doc, ledger'.stamp = ledger.stamp,
           ledger'.generation \in {ledger.generation, ledger.generation + 1},
           call' # None => call'.seenAt = 0 \/ (call # None /\ call'.seenAt = call.seenAt)
    PROVE  GenerationsGrow'
<1>1. doc.generation \in Nat /\ ledger.generation \in Nat /\ doc.marker.ledger \in Nat
  BY DEF StoreInv, TypeOK, StoresOK, LedgersOK, Ledger, Document, Marker
<1> QED BY <1>1 DEF GenerationsGrow

\* The steps that only move a call on.
LEMMA MovesCalm ==
    ASSUME StoreInv, Calm, UNCHANGED <<doc, dir, ledger, tx, suspect>>,
           call = None \/ call.at \notin {"changing", "changed"},
           call' # None => /\ call'.at \notin {"changing", "changed"} /\ CallsMatch'
                           /\ call'.seenAt = 0 \/ (call # None /\ call'.seenAt = call.seenAt)
    PROVE  Calm'
<1>1. tx = None BY NoTransaction DEF Calm
<1>2. NothingElseActs' BY <1>1 DEF Calm, NothingElseActs
<1>3. PlacesMatch' /\ ChangesMatch' BY StillMatch DEF Calm
<1>4. GenerationsGrow' BY StillGrow DEF Calm
<1>5. CallMatches' BY IdleCall DEF CallMatches, CallsMatch
<1> QED BY <1>2, <1>3, <1>4, <1>5 DEF Calm

\* A failure, with a call that goes on to what the failure leaves.
LEMMA FailureCalm ==
    ASSUME StoreInv, Calm, call # None, UNCHANGED <<doc, dir, tx, suspect>>,
           call.at \notin {"changing", "changed"}, call.kind # "revoke",
           NEW step \in {"failed", "clear"}, At(step), Transition(ledger, call.op, "failed"),
           State(call.op) = "pending" \/ (State(call.op) = "created" /\ ~Applied(<<call.op, "bind">>))
    PROVE  Calm'
<1>0. call \in Call \cup {None} /\ ledger \in Ledger
  BY DEF StoreInv, TypeOK, LedgersOK
<1>1. call.op \in Op BY <1>0, CallFields
<1>2. /\ OneMoves(call.op, "failed") /\ ledger'.stamp = ledger.stamp
      /\ ledger'.admitted = ledger.admitted /\ ledger'.generation = ledger.generation + 1
  BY <1>0, <1>1, TransitionMoves DEF States
<1>3. /\ call'.op = call.op /\ call'.at = step /\ call'.kind = call.kind
      /\ call'.seenAt = call.seenAt /\ call' # None
  BY <1>0, CallFields
<1>4. ChangesMatch' /\ PlacesMatch' BY <1>1, <1>2, QuietMove DEF Calm
<1>5. tx = None BY NoTransaction DEF Calm
<1>6. NothingElseActs' BY <1>2, <1>5 DEF Calm, NothingElseActs
<1>7. GenerationsGrow' BY <1>2, <1>3, StillGrow DEF Calm
<1>8. State(call.op)' = "failed"
  BY <1>2, <1>3 DEF OneMoves, State
<1>9. CallsMatch' BY <1>3, <1>8 DEF CallsMatch, State
<1>10. CallMatches' BY <1>3, <1>9, IdleCall DEF CallMatches
<1> QED BY <1>4, <1>6, <1>7, <1>10 DEF Calm

\* The profile is built and put in place.
LEMMA StageCalm ==
    ASSUME StoreInv, Calm, Stage
    PROVE  Calm'
<1>0. call \in Call \cup {None} BY DEF StoreInv, TypeOK, LedgersOK
<1>1. /\ call # None /\ call.at = "next" /\ call.kind # "revoke" /\ State(call.op) = "pending"
  BY DEF Stage, Proceeds, Resumes
<1>2. CASE Fails(call.op)
  <2>1. /\ Transition(ledger, call.op, "failed") /\ At("clear")
        /\ UNCHANGED <<doc, dir, tx, suspect>>
    BY <1>1, <1>2 DEF Fails, OnlyLedger, identityVars, counters
  <2> QED BY <1>1, <2>1, FailureCalm
<1>3. CASE ~Fails(call.op)
  <2>1. /\ At("staged") \/ (At("made") /\ MarkerMatches(call.op))
        /\ UNCHANGED <<doc, dir, ledger, tx, suspect>>
    BY <1>3 DEF Stage, OnlyCall, identityVars, counters
  <2>2. /\ call'.op = call.op /\ call'.kind = call.kind /\ call'.seenAt = call.seenAt
        /\ call' # None /\ call'.at \in {"staged", "made"}
        /\ call'.at = "made" => MarkerMatches(call.op)
    BY <1>0, <1>1, <2>1, CallFields
  <2>3. CallsMatch'
    BY <1>1, <2>1, <2>2 DEF CallsMatch, State, MarkerMatches, ProfileOf
  <2> QED BY <1>1, <2>1, <2>2, <2>3, MovesCalm
<1> QED BY <1>2, <1>3

LEMMA RenameCalm ==
    ASSUME StoreInv, Calm, RenameIn
    PROVE  Calm'
<1>0. /\ call \in Call \cup {None} /\ ledger \in Ledger
      /\ dir \in [Profile -> Directory \cup {None}]
      /\ call # None /\ call.at = "staged" /\ State(call.op) # "none"
  BY DEF RenameIn, StoreInv, TypeOK, StoresOK, LedgersOK, CallsAreKnown
<1>1. State(call.op) = "pending" /\ call.kind # "revoke"
  BY <1>0 DEF Calm, CallMatches, CallsMatch
<1>2. call.op \in Op /\ ProfileOf(call.op) \in Profile BY <1>0, CallFields, OperationFields
<1>3. CASE Transition(ledger, call.op, "failed") /\ At("clear") /\ UNCHANGED identityVars
  <2>1. UNCHANGED <<doc, dir, tx, suspect>> BY <1>3 DEF RenameIn, identityVars, counters
  <2> QED BY <1>0, <1>1, <1>3, <2>1, FailureCalm
<1>4. CASE /\ dir[ProfileOf(call.op)] = None
           /\ dir' = [dir EXCEPT ![ProfileOf(call.op)] = [marker |-> call.op, binding |-> 0]]
           /\ At("renamed") /\ UNCHANGED <<storeVars, issued, ledger>>
  <2>1. UNCHANGED <<doc, tx, ledger, suspect>> BY <1>4 DEF RenameIn, storeVars, counters
  <2>2. /\ call'.op = call.op /\ call'.kind = call.kind /\ call'.seenAt = call.seenAt
        /\ call' # None /\ call'.at = "renamed"
    BY <1>0, <1>4, CallFields
  <2> DEFINE p == ProfileOf(call.op)
             x == [marker |-> call.op, binding |-> 0]
  <2>3. x \in Directory /\ x # None /\ x.marker = call.op
    BY <1>2, NothingIsNone DEF Directory
  <2>4. dir'[p] = x /\ \A q \in Profile \ {p} : dir'[q] = dir[q] BY <1>0, <1>2, <1>4
  <2> HIDE DEF p, x
  <2>5. MarkerMatches(call.op)' /\ State(call.op)' = "pending"
    BY <1>1, <2>1, <2>2, <2>3, <2>4 DEF MarkerMatches, ProfileOf, State, p
  <2>6. PlacesMatch'
    <3>1. \A q \in Profile : dir'[q] # None /\ dir'[q].marker # Foreign =>
             (IF ledger.op[dir'[q].marker] = None THEN "none" ELSE ledger.op[dir'[q].marker].state) # "none"
      BY <1>0, <2>3, <2>4 DEF Calm, PlacesMatch, State
    <3>2. ASSUME NEW o \in Op, State(o) \in {"created", "completed"} PROVE MarkerMatches(o)'
      <4>1. MarkerMatches(o) /\ ProfileOf(o) # p
        BY <1>4, <3>2 DEF Calm, PlacesMatch, MarkerMatches, p
      <4>2. ProfileOf(o) \in Profile BY <1>0, <3>2, OperationFields
      <4> QED BY <2>1, <2>4, <4>1, <4>2 DEF MarkerMatches, ProfileOf
    <3> QED BY <2>1, <3>1, <3>2 DEF PlacesMatch, State
  <2>7. tx = None BY <1>0, NoTransaction DEF Calm
  <2>8. NothingElseActs' BY <2>1, <2>7 DEF Calm, NothingElseActs
  <2>9. ChangesMatch' BY <2>1, StillMatch DEF Calm
  <2>10. GenerationsGrow' BY <1>0, <2>1, <2>2, StillGrow DEF Calm
  <2>11. CallsMatch'
    BY <1>1, <2>2, <2>5 DEF CallsMatch, State, MarkerMatches, ProfileOf
  <2>12. CallMatches' BY <2>2, <2>11, IdleCall DEF CallMatches
  <2> QED BY <2>6, <2>8, <2>9, <2>10, <2>12 DEF Calm
<1> QED BY <1>3, <1>4 DEF RenameIn, PlaceIsFree

LEMMA CreatedCalm ==
    ASSUME StoreInv, Calm, SaveCreated
    PROVE  Calm'
<1>0. /\ call \in Call \cup {None} /\ ledger \in Ledger
      /\ call # None /\ call.at \in {"renamed", "made"} /\ State(call.op) # "none"
  BY DEF SaveCreated, StoreInv, TypeOK, LedgersOK, CallsAreKnown
<1>1. /\ State(call.op) = "pending" /\ MarkerMatches(call.op) /\ call.kind # "revoke"
  BY <1>0 DEF Calm, CallMatches, CallsMatch
<1>2. /\ Transition(ledger, call.op, "created") /\ At("next")
      /\ UNCHANGED <<doc, dir, tx, suspect>>
  BY <1>1 DEF SaveCreated, OnlyLedger, identityVars, counters
<1>3. call.op \in Op BY <1>0, CallFields
<1>4. /\ OneMoves(call.op, "created") /\ ledger'.stamp = ledger.stamp
      /\ ledger'.admitted = ledger.admitted /\ ledger'.generation = ledger.generation + 1
  BY <1>0, <1>2, <1>3, TransitionMoves DEF States
<1>5. ChangesMatch' /\ PlacesMatch' BY <1>1, <1>2, <1>3, <1>4, QuietMove DEF Calm
<1>6. /\ call'.op = call.op /\ call'.at = "next" /\ call'.kind = call.kind
      /\ call'.seenAt = call.seenAt /\ call' # None
  BY <1>0, <1>2, CallFields
<1>7. tx = None BY <1>0, NoTransaction DEF Calm
<1>8. NothingElseActs' BY <1>2, <1>4, <1>7 DEF Calm, NothingElseActs
<1>9. GenerationsGrow' BY <1>0, <1>2, <1>4, <1>6, StillGrow DEF Calm
<1>10. CallsMatch' BY <1>1, <1>6 DEF CallsMatch
<1>11. CallMatches' BY <1>6, <1>10, IdleCall DEF CallMatches
<1> QED BY <1>5, <1>8, <1>9, <1>11 DEF Calm

-----------------------------------------------------------------------------
(* Cuts: the identity transaction of a change.                             *)

\* A change that follows and was not applied finds the ledger level with the
\* identity store.
LEMMA FollowsLevel ==
    ASSUME StoreInv, Calm, NEW change \in Change, Follows(change), ~Applied(change), Stamped
    PROVE  doc.marker.sequence = ledger.stamp.sequence
<1>1. CASE doc.marker = NoMarker /\ ledger.stamp.sequence = 0 BY <1>1 DEF NoMarker
<1>2. CASE /\ doc.marker.continuity = ledger.stamp.continuity
           /\ <<doc.marker.op, doc.marker.action>> = change
  BY <1>2 DEF Stamped, Calm, ChangesMatch, MarkerIsKnown, HasMarker, LastChange
<1> QED BY <1>1, <1>2 DEF Follows

\* The transaction of a call that begins to change the identity store: "after"
\* is the document but for its marker.
LEMMA ChangeBegins ==
    ASSUME StoreInv, Calm, NEW o \in Op, NEW action \in {"bind", "revoke"}, NEW after \in Document,
           Begins("service", WithMarker(after, <<o, action>>), <<o, action>>),
           ~Applied(<<o, action>>), Follows(<<o, action>>), State(o) # "none", after.marker = doc.marker,
           after.reply = doc.reply,
           \A u \in Principal : Known(doc, u) => Known(after, u), Known(after, UserOf(o)),
           after.owner[ProfileOf(o)] = IF action = "revoke" THEN None ELSE UserOf(o),
           UNCHANGED ledger,
           call' # None, call'.op = o, call'.at = "changing", call'.kind = "revoke" <=> action = "revoke"
    PROVE  TransactionMatches'
<1> DEFINE change == <<o, action>>
<1>0. /\ doc \in Document /\ doc.generation \in Nat /\ ledger.generation \in Nat
      /\ doc.reply \in [Change -> Nat] /\ change \in Change /\ change # None
  <2>1. change \in Change BY DEF Change
  <2> QED BY <2>1, NothingIsNone DEF StoreInv, TypeOK, StoresOK, LedgersOK, Document, Ledger
<1>1. /\ tx' # None /\ tx'.doc.owner = after.owner /\ tx'.doc.principal = after.principal
      /\ tx'.doc.marker = WithMarker(after, change).marker
      /\ tx'.doc.generation = doc.generation + 1 /\ doc' = doc
  <2>1. /\ WithMarker(after, change) \in Document
        /\ WithMarker(after, change).owner = after.owner
        /\ WithMarker(after, change).principal = after.principal
    BY <1>0, MarkedDocument
  <2> HIDE DEF change
  <2>2. Begins("service", WithMarker(after, change), change) BY DEF change
  <2> QED BY <1>0, <2>1, <2>2, BeginsType, NothingIsNone
<1>2. tx'.doc.reply = [doc.reply EXCEPT ![change] = doc.generation + 1]
  <2>1. /\ WithMarker(after, change) \in Document /\ WithMarker(after, change).reply = doc.reply
    BY <1>0, MarkedDocument DEF WithMarker, Document
  <2>2. tx'.doc = [WithMarker(after, change) EXCEPT
                     !.generation = doc.generation + 1,
                     !.reply = [WithMarker(after, change).reply EXCEPT ![change] = doc.generation + 1]]
    BY <1>0 DEF Begins
  <2> HIDE DEF change
  <2> QED BY <2>1, <2>2 DEF Document
<1>3. WithMarker(after, change).marker =
         IF ~Stamped THEN doc.marker
         ELSE [continuity |-> ledger.stamp.continuity, sequence |-> doc.marker.sequence + 1,
               ledger |-> ledger.generation, op |-> o, action |-> action]
  BY DEF WithMarker, Document
<1>4. Stamped => doc.marker.sequence = ledger.stamp.sequence BY <1>0, FollowsLevel
<1>5. tx'.doc.marker.ledger <= ledger.generation
  BY <1>0, <1>1, <1>3 DEF Calm, GenerationsGrow
<1>6. ChangeOf(call)' = change BY DEF ChangeOf, ActionOf
<1>7. ~Applied(change)' BY <1>1 DEF Applied
<1>8. Known(tx'.doc, UserOf(o)) /\ \A u \in Principal : Known(doc, u) => Known(tx'.doc, u)
  BY <1>1 DEF Known
<1>9. tx'.doc.owner[ProfileOf(o)] = IF action = "revoke" THEN None ELSE UserOf(o) BY <1>1
<1>10. (Stamped' <=> Stamped) /\ UserOf(o)' = UserOf(o) /\ ProfileOf(o)' = ProfileOf(o)
       /\ doc' = doc /\ ledger' = ledger
  BY <1>1 DEF Stamped, UserOf, ProfileOf
<1>11. tx'.doc.marker = IF ~Stamped THEN doc.marker
                        ELSE [continuity |-> ledger.stamp.continuity,
                              sequence |-> doc.marker.sequence + 1,
                              ledger |-> tx'.doc.marker.ledger, op |-> o, action |-> action]
  BY <1>1, <1>3
<1> HIDE DEF change
<1>12. ActionOf(call') = action BY DEF ActionOf
<1> QED
  BY <1>1, <1>2, <1>4, <1>5, <1>6, <1>7, <1>8, <1>9, <1>10, <1>11, <1>12
  DEF TransactionMatches, Stamped, UserOf, ProfileOf, Applied, ChangeOf, change

\* One operation's turn in a call ends.
LEMMA EndsCalm ==
    ASSUME StoreInv, Calm, call # None, call.at \notin {"changing", "changed"}, call.kind # "revoke",
           Ends, UNCHANGED <<doc, dir, ledger, tx, suspect>>
    PROVE  Calm'
<1>0. call \in Call BY CallFields DEF StoreInv, TypeOK, LedgersOK
<1>1. call' = None \/ \E o \in call.rest :
         call' = [call EXCEPT !.op = o, !.rest = call.rest \ {o}, !.at = "admit"]
  BY DEF Ends
<1>2. call' # None => /\ call'.at = "admit" /\ call'.kind = call.kind /\ call'.seenAt = call.seenAt
  BY <1>0, <1>1 DEF Call
<1>3. call' # None => CallsMatch' BY <1>2 DEF CallsMatch
<1> QED BY <1>2, <1>3, MovesCalm

\* A change that was applied before its call is seen again.
LEMMA SeenCalm ==
    ASSUME StoreInv, Calm, tx = None, UNCHANGED <<doc, dir, ledger, tx, suspect>>,
           NEW o \in Op, NEW action \in {"bind", "revoke"}, Applied(<<o, action>>),
           call' # None, call'.op = o, call'.at = "changed", call'.kind = "revoke" <=> action = "revoke",
           call'.seen = doc.marker.sequence, call'.seenAt = doc.reply[<<o, action>>],
           State(o) = IF action = "revoke" THEN "completed" ELSE "created"
    PROVE  Calm'
<1>1. NothingElseActs' BY DEF Calm, NothingElseActs
<1>2. PlacesMatch' /\ ChangesMatch' BY StillMatch DEF Calm
<1>3. <<o, action>> \in Change BY DEF Change
<1>4. GenerationsGrow' BY <1>3 DEF Calm, GenerationsGrow
<1>5. CallsMatch' BY DEF CallsMatch, State
<1>6. TransactionMatches' BY DEF TransactionMatches
<1>7. ChangeOf(call)' = <<o, action>> BY DEF ChangeOf, ActionOf
<1>8. SeenMatches' BY <1>7 DEF SeenMatches, Applied, Stamped
<1> QED BY <1>1, <1>2, <1>4, <1>5, <1>6, <1>8 DEF Calm, CallMatches

\* The call's transaction holds the lock; only the binding in its profile's
\* directory changed.
LEMMA ChangingCalm ==
    ASSUME StoreInv, Calm, UNCHANGED <<doc, ledger, suspect>>, TransactionMatches',
           tx'.by = "service",
           NEW o \in Op, NEW action \in {"bind", "revoke"},
           call' # None, call'.op = o, call'.at = "changing", call'.kind = "revoke" <=> action = "revoke",
           call'.seenAt = 0 \/ (call # None /\ call'.seenAt = call.seenAt),
           State(o) = IF action = "revoke" THEN "completed" ELSE "created",
           \A p \in Profile : /\ dir'[p] = None <=> dir[p] = None
                              /\ dir[p] # None => dir'[p].marker = dir[p].marker
    PROVE  Calm'
<1>1. NothingElseActs' BY DEF Calm, NothingElseActs
<1>2. ChangesMatch' BY StillMatch DEF Calm
<1>3. ledger \in Ledger BY DEF StoreInv, TypeOK, LedgersOK
<1>4. PlacesMatch'
  <2>1. \A q \in Op : State(q) \in {"created", "completed"} =>
           MarkerMatches(q) /\ ProfileOf(q) \in Profile
    BY <1>3, OperationFields DEF Calm, PlacesMatch
  <2>2. \A p \in Profile : dir'[p] # None /\ dir'[p].marker # Foreign =>
           State(dir[p].marker) # "none" /\ dir'[p].marker = dir[p].marker
    BY DEF Calm, PlacesMatch
  <2> QED BY <2>1, <2>2 DEF PlacesMatch, State, MarkerMatches, ProfileOf
<1>5. GenerationsGrow' BY <1>3, StillGrow DEF Calm
<1>6. CallsMatch' BY DEF CallsMatch, State
<1>7. SeenMatches' BY DEF SeenMatches
<1> QED BY <1>1, <1>2, <1>4, <1>5, <1>6, <1>7 DEF Calm, CallMatches

\* What binding and unbinding do to the markers of directories.
LEMMA MarkersStay ==
    ASSUME StoreInv, NEW p \in Profile, dir[p] # None,
           UnbindsDirectory(p) \/ \E after : BindsDirectory(p, doc, after)
    PROVE  \A q \in Profile : /\ dir'[q] = None <=> dir[q] = None
                              /\ dir[q] # None => dir'[q].marker = dir[q].marker
<1>0. dir \in [Profile -> Directory \cup {None}] /\ dir[p] \in Directory /\ issued \in Nat
  BY DEF StoreInv, TypeOK, StoresOK
<1>1. dir' = dir \/ \E n \in Nat : dir' = [dir EXCEPT ![p] = [dir[p] EXCEPT !.binding = n]]
  <2>1. UnbindsDirectory(p) => dir' = [dir EXCEPT ![p] = [dir[p] EXCEPT !.binding = 0]]
    BY DEF UnbindsDirectory
  <2>2. ASSUME NEW after, BindsDirectory(p, doc, after)
        PROVE  dir' = dir \/ dir' = [dir EXCEPT ![p] = [dir[p] EXCEPT !.binding = issued + 1]]
    BY <2>2 DEF BindsDirectory
  <2> QED BY <1>0, <2>1, <2>2
<1>2. ASSUME NEW n \in Nat, dir' = [dir EXCEPT ![p] = [dir[p] EXCEPT !.binding = n]]
      PROVE  \A q \in Profile : /\ dir'[q] = None <=> dir[q] = None
                                /\ dir[q] # None => dir'[q].marker = dir[q].marker
  <2> DEFINE x == [dir[p] EXCEPT !.binding = n]
  <2>1. x \in Directory /\ x # None /\ x.marker = dir[p].marker BY <1>0, NothingIsNone DEF Directory
  <2>2. dir'[p] = x /\ \A q \in Profile \ {p} : dir'[q] = dir[q] BY <1>0, <1>2
  <2> HIDE DEF x
  <2> QED BY <2>1, <2>2
<1> QED BY <1>1, <1>2

LEMMA BindCalm ==
    ASSUME StoreInv, Calm, Bind
    PROVE  Calm'
<1> DEFINE o == call.op
           change == <<o, "bind">>
           p == ProfileOf(o)
           u == UserOf(o)
<1>0. /\ doc \in Document /\ issued \in Nat /\ ledger \in Ledger /\ call \in Call \cup {None}
      /\ call # None /\ call.at = "next" /\ call.kind # "revoke" /\ State(o) = "created" /\ tx = None
  BY DEF Bind, Proceeds, Resumes, StoreInv, TypeOK, StoresOK, LedgersOK
<1>1. o \in Op /\ p \in Profile /\ u \in Principal /\ ledger.op[o].external \in External
  BY <1>0, CallFields, OperationFields
<1>2. MarkerMatches(o) /\ dir[p] # None BY <1>0, <1>1 DEF Calm, PlacesMatch, MarkerMatches
<1>3. CASE Applied(change)
  <2>1. Answered(change) BY <1>2, <1>3 DEF Bind
  <2>2. CASE Ends /\ UNCHANGED <<identityVars, ledger, quarantine, backup, counters>>
    <3>1. UNCHANGED <<doc, dir, ledger, tx, suspect>> BY <2>2 DEF identityVars, counters
    <3> QED BY <1>0, <2>2, <3>1, EndsCalm
  <2>3. CASE /\ call' = [call EXCEPT !.at = "changed", !.seen = doc.marker.sequence,
                                     !.seenAt = doc.reply[change]]
             /\ OnlyCall
    <3>1. UNCHANGED <<doc, dir, ledger, tx, suspect>> BY <2>3 DEF OnlyCall, identityVars, counters
    <3>2. doc.marker.sequence \in Nat /\ doc.reply[change] \in Nat
      BY <1>0, <1>1 DEF Document, Marker, Change
    <3>3. /\ call' \in Call /\ call'.op = o /\ call'.at = "changed" /\ call'.kind = call.kind
          /\ call'.seen = doc.marker.sequence /\ call'.seenAt = doc.reply[change]
      BY <1>0, <2>3, <3>2 DEF Call
    <3>4. call' # None BY <3>3, NoCallIsNone
    <3> HIDE DEF o
    <3> QED BY <1>0, <1>1, <1>3, <3>1, <3>3, <3>4, SeenCalm
  <2> QED BY <2>1, <2>2, <2>3 DEF Answered
<1>4. CASE ~Applied(change) /\ BindIsRefused(o)
  <2>1. Fails(o) BY <1>2, <1>4 DEF Bind
  <2>2. /\ Transition(ledger, call.op, "failed") /\ At("failed")
        /\ UNCHANGED <<doc, dir, tx, suspect>>
    BY <1>0, <2>1 DEF Fails, OnlyLedger, identityVars, counters
  <2> QED BY <1>0, <1>4, <2>2, FailureCalm
<1>5. CASE ~Applied(change) /\ ~BindIsRefused(o) /\ ~Follows(change)
  <2>1. Ends /\ UNCHANGED <<identityVars, ledger, quarantine, backup, counters>>
    BY <1>2, <1>5 DEF Bind
  <2>2. UNCHANGED <<doc, dir, ledger, tx, suspect>> BY <2>1 DEF identityVars, counters
  <2> QED BY <1>0, <2>1, <2>2, EndsCalm
<1>6. CASE ~Applied(change) /\ ~BindIsRefused(o) /\ Follows(change)
  <2>1. /\ Begins("service", WithMarker(Bound(o), change), change)
        /\ BindsDirectory(p, doc, Bound(o))
        /\ At("changing") /\ UNCHANGED <<ledger, staging, quarantine, backup, counters>>
    BY <1>2, <1>6 DEF Bind
  <2>2. PICK d \in Document :
           /\ d.owner = doc.owner /\ d.marker = doc.marker /\ d.reply = doc.reply
           /\ Known(d, u) /\ \A v \in Principal : Known(doc, v) => Known(d, v)
           /\ Bound(o) = WithOwner(d, p, u, issued + 1)
    <3>1. CASE Known(doc, u) BY <3>1, <1>0 DEF Bound
    <3>2. CASE ~Known(doc, u)
      <4> DEFINE x == [role |-> "user", status |-> "active", external |-> ledger.op[o].external]
                 d == WithPrincipal(doc, u, "user", ledger.op[o].external)
      <4>1. d \in Document BY <1>0, <1>1, Edits
      <4>2. /\ d.owner = doc.owner /\ d.marker = doc.marker /\ d.reply = doc.reply
            /\ d.principal = [doc.principal EXCEPT ![u] = x]
        BY <1>0 DEF WithPrincipal, Document
      <4>3. x # None BY <1>1, NothingIsNone DEF PrincipalRecord
      <4>4. Known(d, u) /\ \A v \in Principal : Known(doc, v) => Known(d, v)
        <5> HIDE DEF d, x
        <5> QED BY <1>0, <1>1, <4>2, <4>3, DocumentFields DEF Known
      <4>5. Bound(o) = WithOwner(d, p, u, issued + 1) BY <3>2 DEF Bound
      <4> QED BY <4>1, <4>2, <4>4, <4>5
    <3> QED BY <3>1, <3>2
  <2>3. /\ Bound(o) \in Document /\ Bound(o).marker = doc.marker /\ Bound(o).reply = doc.reply
        /\ Bound(o).principal = d.principal /\ Bound(o).owner[p] = u
    <3>1. Bound(o) \in Document BY <1>0, <1>1, <2>2, Edits
    <3> QED BY <1>1, <2>2, <3>1 DEF WithOwner, Document
  <2>4. Known(Bound(o), u) /\ \A v \in Principal : Known(doc, v) => Known(Bound(o), v)
    BY <2>2, <2>3 DEF Known
  <2>5. /\ call'.op = o /\ call'.at = "changing" /\ call'.kind = call.kind
        /\ call'.seenAt = call.seenAt /\ call' # None
    BY <1>0, <2>1, CallFields
  <2>6. UNCHANGED <<doc, ledger, suspect>> /\ tx'.by = "service"
    BY <2>1 DEF Begins, counters
  <2> HIDE DEF o
  <2>7. TransactionMatches'
    BY <1>0, <1>1, <1>6, <2>1, <2>3, <2>4, <2>5, <2>6, ChangeBegins
  <2>8. \A q \in Profile : /\ dir'[q] = None <=> dir[q] = None
                           /\ dir[q] # None => dir'[q].marker = dir[q].marker
    BY <1>1, <1>2, <2>1, MarkersStay
  <2> QED BY <1>0, <1>1, <2>5, <2>6, <2>7, <2>8, ChangingCalm
<1> QED BY <1>3, <1>4, <1>5, <1>6

LEMMA RevokeCalm ==
    ASSUME StoreInv, Calm, NEW o \in Op, Revoke(o)
    PROVE  Calm'
<1> DEFINE change == <<o, "revoke">>
           p == ProfileOf(o)
           u == UserOf(o)
<1>0. /\ doc \in Document /\ ledger \in Ledger /\ State(o) = "completed" /\ tx = None
      /\ call = None
  BY DEF Revoke, Serving, StoreInv, TypeOK, StoresOK, LedgersOK
<1>1. p \in Profile /\ u \in Principal /\ dir[p] # None
  BY <1>0, OperationFields DEF Calm, PlacesMatch, MarkerMatches
<1>2. CASE Applied(change)
  <2>1. /\ call' = [kind |-> "revoke", op |-> o, at |-> "changed", rest |-> {},
                    seen |-> doc.marker.sequence, seenAt |-> doc.reply[change]]
        /\ UNCHANGED <<doc, dir, ledger, tx, suspect>>
    BY <1>2 DEF Revoke, OnlyCall, identityVars, counters
  <2>2. doc.marker.sequence \in Nat /\ doc.reply[change] \in Nat
    BY <1>0 DEF Document, Marker, Change
  <2>3. call' \in Call BY <2>1, <2>2 DEF Call
  <2>4. call' # None BY <2>3, NoCallIsNone
  <2> QED BY <1>0, <1>2, <2>1, <2>4, SeenCalm
<1>3. CASE ~Applied(change)
  <2>1. PICK after \in {doc, WithoutOwner(doc, p)} :
           /\ Begins("service", WithMarker(after, change), change)
           /\ \/ after = doc /\ doc.owner[p] = None /\ UNCHANGED dir
              \/ after = WithoutOwner(doc, p) /\ UnbindsDirectory(p)
    BY <1>3 DEF Revoke
  <2>2. /\ Follows(change) /\ UNCHANGED <<ledger, suspect>>
        /\ call' = [kind |-> "revoke", op |-> o, at |-> "changing", rest |-> {},
                    seen |-> 0, seenAt |-> 0]
    BY <1>3 DEF Revoke, counters
  <2>3. /\ after \in Document /\ after.marker = doc.marker /\ after.reply = doc.reply
        /\ after.principal = doc.principal /\ after.owner[p] = None
    <3>1. CASE after = doc /\ doc.owner[p] = None BY <1>0, <3>1
    <3>2. CASE after = WithoutOwner(doc, p)
      BY <1>0, <1>1, <3>2 DEF WithoutOwner, Document
    <3> QED BY <2>1, <3>1, <3>2
  <2>4. Known(doc, u)
    <3>1. <<o, "bind">> \in Change /\ Settles(o, "bind") BY <1>0 DEF Change, Settles
    <3>2. Applied(<<o, "bind">>) BY <3>1 DEF Calm, ChangesMatch, AppliedIsKnown
    <3> QED BY <3>2 DEF Calm, ChangesMatch, AppliedIsKnown
  <2>5. Known(after, u) /\ \A v \in Principal : Known(doc, v) => Known(after, v)
    BY <2>3, <2>4 DEF Known
  <2>6. call' \in Call BY <2>2 DEF Call
  <2>7. call' # None /\ call'.op = o /\ call'.at = "changing" /\ call'.kind = "revoke" /\ call'.seenAt = 0
    BY <2>2, <2>6, NoCallIsNone
  <2>8. UNCHANGED doc /\ tx'.by = "service" BY <2>1 DEF Begins
  <2>9. TransactionMatches'
    BY <1>0, <1>1, <1>3, <2>1, <2>2, <2>3, <2>5, <2>7, ChangeBegins
  <2>10. \A q \in Profile : /\ dir'[q] = None <=> dir[q] = None
                            /\ dir[q] # None => dir'[q].marker = dir[q].marker
    <3>1. CASE UNCHANGED dir BY <3>1
    <3>2. CASE UnbindsDirectory(p) BY <1>1, <3>2, MarkersStay
    <3> QED BY <2>1, <3>1, <3>2
  <2> QED BY <1>0, <2>2, <2>7, <2>8, <2>9, <2>10, ChangingCalm
<1> QED BY <1>2, <1>3

\* The commit of a call's change: the identity store is one ahead.
LEMMA CommitCalm ==
    ASSUME StoreInv, Calm, ServiceCommits
    PROVE  Calm'
<1> DEFINE o == call.op
           action == ActionOf(call)
           change == <<o, action>>
<1>0. /\ doc \in Document /\ ledger \in Ledger /\ call \in Call \cup {None}
      /\ tx # None /\ tx.by = "service" /\ tx.doc \in Document
      /\ call # None /\ call.at = "changing" /\ State(o) # "none"
  BY DEF ServiceCommits, StoreInv, TypeOK, StoresOK, LedgersOK, Transaction, CallsAreKnown,
         ServiceHasACall
<1>1. /\ call \in Call /\ o \in Op /\ UserOf(o) \in Principal /\ ProfileOf(o) \in Profile
      /\ action \in {"bind", "revoke"} /\ change \in Change
      /\ call.kind = "revoke" <=> action = "revoke"
  BY <1>0, CallFields, OperationFields DEF ActionOf, Change
<1>2. /\ doc' = tx.doc /\ tx' = None /\ UNCHANGED <<dir, ledger, suspect>>
      /\ call' = [call EXCEPT !.at = "changed", !.seen = tx.doc.marker.sequence,
                              !.seenAt = tx.doc.generation]
  BY DEF ServiceCommits, Commits, counters
<1>3. tx.doc.marker.sequence \in Nat /\ tx.doc.generation \in Nat
  BY <1>0 DEF Document, Marker
<1>4. /\ call' \in Call /\ call'.op = o /\ call'.at = "changed" /\ call'.kind = call.kind
      /\ call'.seen = tx.doc.marker.sequence /\ call'.seenAt = tx.doc.generation
  BY <1>1, <1>2, <1>3 DEF Call
<1>5. call' # None BY <1>4, NoCallIsNone
<1>6. /\ ~Applied(change)
      /\ doc'.generation = doc.generation + 1
      /\ doc'.reply = [doc.reply EXCEPT ![change] = doc.generation + 1]
      /\ Known(doc', UserOf(o)) /\ \A u \in Principal : Known(doc, u) => Known(doc', u)
      /\ doc'.owner[ProfileOf(o)] = IF action = "revoke" THEN None ELSE UserOf(o)
      /\ ~Stamped => doc'.marker = doc.marker
      /\ Stamped => /\ doc'.marker.continuity = ledger.stamp.continuity
                    /\ doc'.marker.sequence = doc.marker.sequence + 1
                    /\ doc'.marker.op = o /\ doc'.marker.action = action
                    /\ doc.marker.sequence = ledger.stamp.sequence
      /\ doc'.marker.ledger <= ledger.generation
  BY <1>0, <1>1, <1>2 DEF Calm, CallMatches, TransactionMatches, ChangeOf
<1>7. State(o) = IF action = "revoke" THEN "completed" ELSE "created"
  BY <1>0, <1>1 DEF Calm, CallMatches, CallsMatch
<1>8. /\ doc.generation \in Nat /\ doc.reply \in [Change -> Nat] /\ ledger.stamp.generation \in Nat
      /\ ledger.stamp.sequence \in Nat
  BY <1>0 DEF Document, Ledger, Stamp
<1> HIDE DEF o, action, change
<1>9. /\ doc'.reply[change] # 0
      /\ \A c \in Change \ {change} : doc'.reply[c] = doc.reply[c]
  BY <1>1, <1>6, <1>8
<1>10. \A c \in Change : c[1] \in Op /\ c[2] \in {"bind", "revoke"} /\ c = <<c[1], c[2]>>
  BY DEF Change
<1>11. /\ \A q : State(q)' = State(q) /\ UserOf(q)' = UserOf(q) /\ ProfileOf(q)' = ProfileOf(q)
       /\ Stamped' <=> Stamped
       /\ Changed' = Changed
  BY <1>2 DEF State, UserOf, ProfileOf, Stamped, Changed
<1>12. NothingElseActs' BY <1>2 DEF Calm, NothingElseActs
<1>13. PlacesMatch' BY <1>2 DEF Calm, PlacesMatch, State, MarkerMatches, ProfileOf
<1>14. GenerationsGrow'
  <2>1. \A c \in Change : doc'.reply[c] <= doc'.generation
    <3>1. \A c \in Change : doc.reply[c] \in Nat /\ doc.reply[c] <= doc.generation
      BY <1>8 DEF Calm, GenerationsGrow
    <3> QED BY <1>6, <1>8, <1>9, <3>1
  <2>2. ledger.stamp.generation <= doc'.generation
    BY <1>6, <1>8 DEF Calm, GenerationsGrow
  <2>3. call'.seenAt <= doc'.generation BY <1>2, <1>3, <1>4
  <2> QED BY <1>2, <1>6, <2>1, <2>2, <2>3 DEF GenerationsGrow
<1>15. AppliedIsKnown'
  <2>1. \A c \in Change : doc'.reply[c] # 0 => State(c[1]) # "none"
    BY <1>0, <1>1, <1>9 DEF Calm, ChangesMatch, AppliedIsKnown, Applied, change, o
  <2>2. \A q \in Op : doc'.reply[<<q, "bind">>] # 0 => Known(doc', UserOf(q))
    <3> SUFFICES ASSUME NEW q \in Op, doc'.reply[<<q, "bind">>] # 0 PROVE Known(doc', UserOf(q))
      OBVIOUS
    <3>0. <<q, "bind">> \in Change BY DEF Change
    <3>1. CASE q = o BY <1>6, <3>1
    <3>2. CASE q # o
      <4>1. <<q, "bind">> # change BY <3>2 DEF change
      <4>2. Known(doc, UserOf(q)) /\ State(q) # "none"
        BY <1>9, <2>1, <3>0, <4>1 DEF Calm, ChangesMatch, AppliedIsKnown, Applied
      <4>3. UserOf(q) \in Principal BY <1>0, <4>2, OperationFields
      <4> QED BY <1>6, <4>2, <4>3
    <3> QED BY <3>1, <3>2
  <2>3. \A c \in Change : Settles(c[1], c[2]) => doc'.reply[c] # 0
    BY <1>9 DEF Calm, ChangesMatch, AppliedIsKnown, Applied
  <2> QED BY <1>2, <2>1, <2>2, <2>3 DEF AppliedIsKnown, Applied, State, Known, UserOf, Settles
<1>16. ASSUME ~Stamped PROVE ChangesMatch'
  <2>1. MarkerIsKnown'
    BY <1>6, <1>16, <1>2 DEF Calm, ChangesMatch, MarkerIsKnown, StampFollows, HasMarker
  <2>2. StampFollows'
    BY <1>2, <1>6, <1>11, <1>16 DEF Calm, ChangesMatch, StampFollows, HasMarker
  <2>3. MarkerFollows' /\ OneIsAhead' BY <1>11, <1>16 DEF MarkerFollows, OneIsAhead
  <2> QED BY <1>15, <2>1, <2>2, <2>3 DEF ChangesMatch
<1>17. ASSUME Stamped PROVE ChangesMatch'
  <2>0. HasMarker' /\ (LastChange)' = change
    BY <1>2, <1>6, <1>17 DEF HasMarker, Stamped, LastChange, change
  <2>1. MarkerIsKnown'
    <3>1. doc'.marker.sequence > 0 BY <1>6, <1>8, <1>17
    <3>2. doc'.marker.continuity = ledger'.stamp.continuity /\ doc'.marker.op \in Op
      BY <1>1, <1>2, <1>6, <1>17
    <3>3. Applied(LastChange)' BY <1>9, <2>0 DEF Applied
    <3> QED BY <2>0, <3>1, <3>2, <3>3 DEF MarkerIsKnown
  <2>2. StampFollows'
    <3>1. Changed # {} => ledger.stamp.sequence > 0
      BY <1>17 DEF Calm, ChangesMatch, StampFollows
    <3>2. Stamped' /\ Changed' = Changed /\ ledger'.stamp = ledger.stamp BY <1>2, <1>11, <1>17
    <3> QED BY <2>0, <3>1, <3>2 DEF StampFollows
  <2>3. MarkerFollows'
    <3>1. doc'.marker.sequence = ledger'.stamp.sequence + 1 BY <1>2, <1>6, <1>17
    <3>2. UserOf(o) # None BY <1>1, IdentityAssumption
    <3>3. InFlight(doc.marker.op, doc.marker.action)'
      BY <1>1, <1>2, <1>6, <1>7, <1>17, <3>2 DEF InFlight, Owned, State, Known, UserOf, ProfileOf
    <3> QED BY <3>1, <3>3 DEF MarkerFollows
  <2>4. OneIsAhead'
    <3> SUFFICES ASSUME NEW c \in Change, doc'.reply[c] # 0, ~Settles(c[1], c[2])
                 PROVE  doc'.marker.sequence = ledger.stamp.sequence + 1 /\ c = change
      BY <1>2, <1>11, <2>0 DEF OneIsAhead, Applied, Settles, State
    <3>1. c = change
      <4> SUFFICES ASSUME c # change PROVE FALSE OBVIOUS
      <4>1. Applied(c) BY <1>9 DEF Applied
      <4>2. doc.marker.sequence = ledger.stamp.sequence + 1
        BY <1>17, <4>1 DEF Calm, ChangesMatch, OneIsAhead
      <4> QED BY <1>6, <1>8, <1>17, <4>2
    <3> QED BY <1>6, <1>17, <3>1
  <2> QED BY <1>15, <2>1, <2>2, <2>3, <2>4 DEF ChangesMatch
<1>18. CallsMatch' BY <1>1, <1>2, <1>4, <1>7 DEF CallsMatch, State
<1>19. TransactionMatches' BY <1>4 DEF TransactionMatches
<1>20. SeenMatches'
  <2>1. ChangeOf(call)' = change BY <1>4 DEF ChangeOf, ActionOf, change, action
  <2> QED BY <1>2, <1>4, <1>9, <2>1 DEF SeenMatches, Applied
<1> QED BY <1>12, <1>13, <1>14, <1>16, <1>17, <1>18, <1>19, <1>20 DEF Calm, CallMatches

\* The ledger catches up: what its call saw is the last change.
LEMMA ChangedCalm ==
    ASSUME StoreInv, Calm, SaveChanged
    PROVE  Calm'
<1> DEFINE o == call.op
           action == ActionOf(call)
           change == <<o, action>>
           state == EndOf(action)
<1>0. /\ doc \in Document /\ ledger \in Ledger /\ call \in Call \cup {None}
      /\ call # None /\ call.at = "changed" /\ State(o) # "none"
  BY DEF SaveChanged, StoreInv, TypeOK, StoresOK, LedgersOK, CallsAreKnown
<1>1. /\ call \in Call /\ o \in Op /\ action \in {"bind", "revoke"} /\ change \in Change
      /\ call.kind = "revoke" <=> action = "revoke"
      /\ state \in {"completed", "revoked"} /\ state \in States
  BY <1>0, CallFields DEF ActionOf, Change, EndOf, States
<1>2. /\ Transition(WithSeen(ledger), o, state) /\ UNCHANGED <<doc, dir, tx, suspect>>
      /\ IF action = "revoke" THEN call' = None ELSE At("next")
  BY DEF SaveChanged, ActionOf, EndOf, OnlyLedger, identityVars, counters
<1>3. /\ WithSeen(ledger) \in Ledger /\ WithSeen(ledger).op = ledger.op
      /\ WithSeen(ledger).admitted = ledger.admitted
      /\ WithSeen(ledger).stamp.continuity = ledger.stamp.continuity
      /\ WithSeen(ledger).stamp.retired = ledger.stamp.retired
      /\ ~Stamped => WithSeen(ledger) = ledger
      /\ Stamped => /\ WithSeen(ledger).stamp.sequence = Larger(ledger.stamp.sequence, call.seen)
                    /\ WithSeen(ledger).stamp.generation = Larger(ledger.stamp.generation, call.seenAt)
  BY <1>0, <1>1, SeenType
<1>4. /\ OneMoves(o, state) /\ ledger'.stamp = WithSeen(ledger).stamp
      /\ ledger'.admitted = ledger.admitted /\ ledger'.generation = ledger.generation + 1
  BY <1>0, <1>1, <1>2, <1>3, TransitionMoves
<1>5. /\ State(o) = IF action = "revoke" THEN "completed" ELSE "created"
      /\ Applied(change)
      /\ Stamped => call.seen = doc.marker.sequence
  BY <1>0, <1>1 DEF Calm, CallMatches, CallsMatch, SeenMatches, ChangeOf
<1>6. /\ ledger.stamp.sequence \in Nat /\ ledger.stamp.generation \in Nat
      /\ doc.marker.sequence \in Nat /\ doc.generation \in Nat /\ doc.marker.ledger \in Nat
      /\ ledger.generation \in Nat /\ call.seenAt \in Nat
  BY <1>0, <1>1 DEF Ledger, Stamp, Document, Marker, Call
<1>7. call' = None \/ (/\ call' # None /\ call'.op = o /\ call'.at = "next"
                       /\ call'.kind = call.kind /\ call'.seenAt = call.seenAt /\ action = "bind")
  BY <1>0, <1>1, <1>2, CallFields
<1> HIDE DEF o, action, change, state
<1>8. \A q \in Op :
         /\ (IF ledger'.op[q] = None THEN "none" ELSE ledger'.op[q].state)
               = IF q = o THEN state ELSE State(q)
         /\ ledger'.op[q].profile = ProfileOf(q) /\ ledger'.op[q].principal = UserOf(q)
  BY <1>0, <1>1, <1>4, MovedOps DEF o
<1>9. \A c \in Change : c[1] \in Op /\ c[2] \in {"bind", "revoke"} /\ c = <<c[1], c[2]>>
  BY DEF Change
<1>10. ~Settles(o, action) BY <1>5 DEF Settles
<1>11. change[1] = o /\ change[2] = action BY DEF change
<1>12. tx = None BY <1>0, NoTransaction DEF Calm
<1>13. NothingElseActs' BY <1>2, <1>3, <1>4, <1>12 DEF Calm, NothingElseActs
<1>14. PlacesMatch'
  <2>1. \A p \in Profile : dir[p] # None /\ dir[p].marker # Foreign => dir[p].marker \in Op
    BY DEF StoreInv, TypeOK, StoresOK, Directory
  <2>2. state # "none" BY <1>1
  <2>3. \A p \in Profile : dir[p] # None /\ dir[p].marker # Foreign => State(dir[p].marker)' # "none"
    BY <1>2, <1>8, <2>1, <2>2 DEF Calm, PlacesMatch, State
  <2>4. MarkerMatches(o) BY <1>1, <1>5 DEF Calm, PlacesMatch
  <2>5. \A q \in Op : State(q)' \in {"created", "completed"} => MarkerMatches(q)'
    BY <1>2, <1>8, <2>4 DEF Calm, PlacesMatch, State, MarkerMatches, ProfileOf
  <2> QED BY <1>2, <2>3, <2>5 DEF PlacesMatch, State
<1>15. GenerationsGrow'
  <2>1. ledger'.stamp.generation <= doc.generation
    <3>1. ledger.stamp.generation <= doc.generation /\ call.seenAt <= doc.generation
      BY <1>0 DEF Calm, GenerationsGrow
    <3> QED BY <1>3, <1>4, <3>1 DEF Larger
  <2>2. doc.marker.ledger <= ledger'.generation
    BY <1>4, <1>6 DEF Calm, GenerationsGrow
  <2> QED BY <1>0, <1>2, <1>7, <2>1, <2>2 DEF Calm, GenerationsGrow
<1>16. \A c \in Change : Settles(c[1], c[2])' <=> Settles(c[1], c[2]) \/ c = change
  <2> SUFFICES ASSUME NEW c \in Change
               PROVE  Settles(c[1], c[2])' <=> Settles(c[1], c[2]) \/ c = change
    OBVIOUS
  <2>1. CASE c[1] # o BY <1>8, <1>9, <1>11, <2>1 DEF Settles, State
  <2>2. CASE c[1] = o /\ c[2] = "bind"
    BY <1>1, <1>5, <1>8, <1>9, <2>2 DEF Settles, State, EndOf, state, change
  <2>3. CASE c[1] = o /\ c[2] = "revoke"
    BY <1>1, <1>5, <1>8, <1>9, <2>3 DEF Settles, State, EndOf, state, change
  <2> QED BY <1>9, <2>1, <2>2, <2>3
<1>17. AppliedIsKnown'
  <2>1. \A q \in Op : State(q) # "none" => State(q)' # "none" BY <1>1, <1>8 DEF State
  <2>2. \A c \in Change : Applied(c) => State(c[1])' # "none"
    BY <1>9, <2>1 DEF Calm, ChangesMatch, AppliedIsKnown
  <2>3. \A q \in Op : Applied(<<q, "bind">>) => Known(doc, UserOf(q)')
    BY <1>8 DEF Calm, ChangesMatch, AppliedIsKnown, UserOf
  <2>4. \A c \in Change : Settles(c[1], c[2])' => Applied(c)
    BY <1>5, <1>16 DEF Calm, ChangesMatch, AppliedIsKnown
  <2> QED BY <1>2, <2>2, <2>3, <2>4
       DEF AppliedIsKnown, Applied, State, Known, UserOf, Settles
<1>18. MarkerIsKnown'
  BY <1>2, <1>3, <1>4 DEF Calm, ChangesMatch, MarkerIsKnown, HasMarker, Applied, LastChange
<1>19. ASSUME ~Stamped PROVE StampFollows' /\ MarkerFollows' /\ OneIsAhead'
  <2>1. ~Stamped' /\ ledger'.stamp = ledger.stamp BY <1>3, <1>4, <1>19 DEF Stamped
  <2>2. StampFollows'
    BY <1>2, <1>19, <2>1 DEF Calm, ChangesMatch, StampFollows, HasMarker
  <2> QED BY <2>1, <2>2 DEF MarkerFollows, OneIsAhead
<1>20. ASSUME Stamped PROVE StampFollows' /\ MarkerFollows' /\ OneIsAhead'
  <2>1. HasMarker /\ doc.marker.sequence > 0 /\ doc.marker.sequence = ledger.stamp.sequence + 1
        /\ LastChange = change
    <3>1. HasMarker BY <1>1, <1>5, <1>20 DEF Calm, ChangesMatch, StampFollows
    <3>2. doc.marker.sequence = ledger.stamp.sequence + 1 /\ change = LastChange
      BY <1>1, <1>5, <1>10, <1>11, <1>20 DEF Calm, ChangesMatch, OneIsAhead
    <3> QED BY <3>1, <3>2 DEF Calm, ChangesMatch, MarkerIsKnown
  <2>2. Stamped' /\ ledger'.stamp.sequence = doc.marker.sequence
    <3>1. WithSeen(ledger).stamp.sequence = doc.marker.sequence
      BY <1>3, <1>5, <1>6, <1>20, <2>1 DEF Larger
    <3> QED BY <1>3, <1>4, <1>20, <3>1 DEF Stamped
  <2>3. HasMarker' /\ (LastChange)' = change BY <1>2, <2>1 DEF HasMarker, LastChange
  <2>4. StampFollows' BY <1>2, <2>1, <2>2, <2>3 DEF StampFollows
  <2>5. doc.marker.op = o /\ doc.marker.action = action BY <2>1 DEF LastChange, change
  <2>6. MarkerFollows'
    BY <1>1, <1>2, <1>8, <2>2, <2>5 DEF MarkerFollows, State, EndOf, state
  <2>7. OneIsAhead'
    <3> SUFFICES ASSUME NEW c \in Change, Applied(c), ~Settles(c[1], c[2])' PROVE FALSE
      BY <1>2 DEF OneIsAhead, Applied
    <3>1. ~Settles(c[1], c[2]) /\ c # change BY <1>16
    <3> QED BY <1>20, <2>1, <3>1 DEF Calm, ChangesMatch, OneIsAhead
  <2> QED BY <2>4, <2>6, <2>7
<1>21. ChangesMatch' BY <1>17, <1>18, <1>19, <1>20 DEF ChangesMatch
<1>22. CallsMatch' BY <1>1, <1>7 DEF CallsMatch
<1>23. CallMatches' BY <1>7, <1>22, IdleCall DEF CallMatches
<1> QED BY <1>13, <1>14, <1>15, <1>21, <1>23 DEF Calm

\* What a failed operation left is moved away: it is no one else's.
LEMMA MoveCalm ==
    ASSUME StoreInv, Calm, MoveToQuarantine
    PROVE  Calm'
<1>0. /\ call \in Call \cup {None} /\ call # None /\ call.at = "move" /\ ledger \in Ledger
      /\ dir \in [Profile -> Directory \cup {None}]
  BY DEF MoveToQuarantine, StoreInv, TypeOK, StoresOK, LedgersOK
<1>1. MarkerMatches(call.op) /\ State(call.op) = "failed" /\ call.kind # "revoke"
  BY <1>0 DEF Calm, CallMatches, CallsMatch
<1>2. /\ dir' = [dir EXCEPT ![ProfileOf(call.op)] = None] /\ At("clear")
      /\ UNCHANGED <<doc, tx, ledger, suspect>>
  BY <1>1 DEF MoveToQuarantine, MarkerMatches, storeVars, counters
<1>3. /\ call'.op = call.op /\ call'.at = "clear" /\ call'.kind = call.kind
      /\ call'.seenAt = call.seenAt /\ call' # None
  BY <1>0, <1>2, CallFields
<1>4. PlacesMatch'
  <2>1. \A p \in Profile : dir'[p] = None \/ dir'[p] = dir[p] BY <1>0, <1>2
  <2>2. ASSUME NEW o \in Op, State(o) \in {"created", "completed"} PROVE MarkerMatches(o)'
    <3>1. MarkerMatches(o) /\ ProfileOf(o) \in Profile
      BY <1>0, <2>2, OperationFields DEF Calm, PlacesMatch
    <3>2. ProfileOf(o) # ProfileOf(call.op) BY <1>1, <2>2, <3>1 DEF MarkerMatches
    <3>3. dir'[ProfileOf(o)] = dir[ProfileOf(o)] BY <1>0, <1>2, <3>1, <3>2
    <3> QED BY <1>2, <3>1, <3>3 DEF MarkerMatches, ProfileOf
  <2> QED BY <1>2, <2>1, <2>2 DEF Calm, PlacesMatch, State
<1>5. tx = None BY <1>0, NoTransaction DEF Calm
<1>6. NothingElseActs' BY <1>2, <1>5 DEF Calm, NothingElseActs
<1>7. ChangesMatch' BY <1>2, StillMatch DEF Calm
<1>8. GenerationsGrow' BY <1>0, <1>2, <1>3, StillGrow DEF Calm
<1>9. CallsMatch' BY <1>1, <1>3 DEF CallsMatch
<1>10. CallMatches' BY <1>3, <1>9, IdleCall DEF CallMatches
<1> QED BY <1>4, <1>6, <1>7, <1>8, <1>10 DEF Calm

\* An operation begins.
LEMMA BeginCalm ==
    ASSUME StoreInv, Calm, NEW o \in Op, NEW e \in External, NEW p \in Profile, Begin(o, e, p)
    PROVE  Calm'
<1>1. /\ State(o) = "none" /\ State(o)' = "pending"
      /\ \A q \in Op \ {o} : ledger'.op[q] = ledger.op[q]
      /\ ledger'.stamp = ledger.stamp /\ ledger'.admitted = ledger.admitted
      /\ ledger'.generation = ledger.generation + 1
  BY BeginType
<1>2. /\ call = None /\ UNCHANGED <<doc, dir, tx, suspect>>
      /\ call' = [kind |-> "provision", op |-> o, at |-> "next", rest |-> {}, seen |-> 0, seenAt |-> 0]
  BY DEF Begin, Serving, Calls, OnlyLedger, identityVars, counters
<1>3. call' # None
  <2>1. call' \in Call BY <1>2 DEF Call
  <2> QED BY <2>1, NoCallIsNone
<1>4. tx = None BY <1>2, NoTransaction DEF Calm
<1>5. NothingElseActs' BY <1>1, <1>2, <1>4 DEF Calm, NothingElseActs
<1>6. GenerationsGrow' BY <1>1, <1>2, StillGrow DEF Calm
<1>7. \A q \in Op : State(q) # "none" => /\ q # o /\ State(q)' = State(q)
                                         /\ ledger'.op[q] = ledger.op[q]
  BY <1>1 DEF State
<1>8. PlacesMatch'
  <2>1. \A q \in Profile : dir[q] # None /\ dir[q].marker # Foreign => dir[q].marker \in Op
    BY DEF StoreInv, TypeOK, StoresOK, Directory
  <2>2. \A q \in Profile : dir[q] # None /\ dir[q].marker # Foreign =>
           (IF ledger'.op[dir[q].marker] = None THEN "none" ELSE ledger'.op[dir[q].marker].state) # "none"
    BY <1>7, <2>1 DEF Calm, PlacesMatch, State
  <2>3. ASSUME NEW q \in Op, State(q)' \in {"created", "completed"} PROVE MarkerMatches(q)'
    <3>1. q # o BY <1>1, <2>3 DEF State
    <3>2. ledger'.op[q] = ledger.op[q] BY <1>1, <3>1
    <3> QED BY <1>2, <2>3, <3>2 DEF Calm, PlacesMatch, State, MarkerMatches, ProfileOf
  <2> QED BY <1>2, <2>2, <2>3 DEF PlacesMatch, State
<1>9. \A c \in Change : c[1] \in Op /\ c[2] \in {"bind", "revoke"} /\ c = <<c[1], c[2]>>
  BY DEF Change
<1>10. \A c \in Change : Applied(c) => c[1] # o
  BY <1>1 DEF Calm, ChangesMatch, AppliedIsKnown
<1>11. \A c \in Change : Settles(c[1], c[2])' <=> Settles(c[1], c[2])
  <2> SUFFICES ASSUME NEW c \in Change PROVE Settles(c[1], c[2])' <=> Settles(c[1], c[2])
    OBVIOUS
  <2>1. CASE c[1] = o BY <1>1, <2>1 DEF Settles, State
  <2>2. CASE c[1] # o BY <1>1, <1>9, <2>2 DEF Settles, State
  <2> QED BY <2>1, <2>2
<1>12. AppliedIsKnown'
  <2>1. \A c \in Change : Applied(c) => State(c[1])' # "none"
    BY <1>7, <1>9 DEF Calm, ChangesMatch, AppliedIsKnown
  <2>2. ASSUME NEW q \in Op, Applied(<<q, "bind">>) PROVE Known(doc, UserOf(q)')
    <3>1. State(q) # "none" /\ Known(doc, UserOf(q))
      <4>1. <<q, "bind">> \in Change BY DEF Change
      <4> QED BY <2>2, <4>1 DEF Calm, ChangesMatch, AppliedIsKnown
    <3> QED BY <1>7, <3>1 DEF UserOf
  <2>3. \A c \in Change : Settles(c[1], c[2])' => Applied(c)
    BY <1>11 DEF Calm, ChangesMatch, AppliedIsKnown
  <2> QED BY <1>2, <2>1, <2>2, <2>3
       DEF AppliedIsKnown, Applied, State, Known, UserOf, Settles
<1>13. MarkerIsKnown'
  BY <1>1, <1>2 DEF Calm, ChangesMatch, MarkerIsKnown, HasMarker, Applied, LastChange
<1>14. Changed' = Changed
  <2>1. \A q \in Op : State(q)' \in {"completed", "revoked"} <=> State(q) \in {"completed", "revoked"}
    BY <1>1 DEF State
  <2> QED BY <2>1 DEF Changed
<1>15. StampFollows'
  BY <1>1, <1>2, <1>14 DEF Calm, ChangesMatch, StampFollows, Stamped, HasMarker, Applied
<1>16. MarkerFollows'
  <2> SUFFICES ASSUME Stamped, HasMarker PROVE MarkerFollows'
    BY <1>1, <1>2 DEF MarkerFollows, Stamped, HasMarker
  <2> DEFINE m == doc.marker.op
  <2>1. m \in Op /\ State(m) # "none"
    <3>1. doc.marker.action \in {"bind", "revoke"}
      BY DEF StoreInv, TypeOK, StoresOK, Document, Marker
    <3>2. m \in Op /\ Applied(LastChange) BY DEF Calm, ChangesMatch, MarkerIsKnown
    <3>3. LastChange \in Change BY <3>1, <3>2 DEF LastChange, Change
    <3>4. LastChange[1] = m BY DEF LastChange
    <3> QED BY <3>2, <3>3, <3>4 DEF Calm, ChangesMatch, AppliedIsKnown
  <2>2. ledger'.op[m] = ledger.op[m] BY <1>7, <2>1
  <2> QED BY <1>1, <1>2, <2>1, <2>2
       DEF Calm, ChangesMatch, MarkerFollows, State, InFlight, Owned, Known, UserOf, ProfileOf
<1>17. OneIsAhead'
  BY <1>1, <1>2, <1>11 DEF Calm, ChangesMatch, OneIsAhead, Stamped, Applied, LastChange
<1>18. ChangesMatch' BY <1>12, <1>13, <1>15, <1>16, <1>17 DEF ChangesMatch
<1>19. CallsMatch' BY <1>2 DEF CallsMatch
<1>20. CallMatches' BY <1>2, <1>3, <1>19, IdleCall DEF CallMatches
<1> QED BY <1>5, <1>6, <1>8, <1>18, <1>20 DEF Calm

\* The ledger gets its stamp where nothing was applied.
LEMMA InitializeCalm ==
    ASSUME StoreInv, Calm, Initialize
    PROVE  Calm'
<1> DEFINE l == [ledger EXCEPT !.stamp.continuity = 1 + restores]
<1>0. ledger \in Ledger /\ restores \in Nat /\ ledger.stamp \in Stamp
  BY DEF StoreInv, TypeOK, LedgersOK, Ledger
<1>1. /\ ~Stamped /\ call = None /\ (\A o \in Op : State(o) = "none") /\ doc.marker = NoMarker
      /\ (\A c \in Change : doc.reply[c] = 0) /\ Saves(l)
      /\ UNCHANGED <<doc, dir, tx, suspect, call>>
  BY DEF Initialize, OnlyLedger, identityVars, counters
<1>2. /\ l \in Ledger /\ l.op = ledger.op /\ l.admitted = ledger.admitted
      /\ l.stamp = [ledger.stamp EXCEPT !.continuity = 1 + restores]
  BY <1>0 DEF Ledger, Stamp
<1> HIDE DEF l
<1>3. /\ ledger'.op = ledger.op /\ ledger'.stamp = l.stamp /\ ledger'.admitted = ledger.admitted
      /\ ledger'.generation = ledger.generation + 1
  BY <1>0, <1>1, <1>2, SavesType
<1>4. /\ ledger'.stamp.sequence = ledger.stamp.sequence
      /\ ledger'.stamp.generation = ledger.stamp.generation
      /\ ledger'.stamp.retired = ledger.stamp.retired
  BY <1>0, <1>2, <1>3 DEF Stamp
<1>5. tx = None BY <1>1, NoTransaction DEF Calm
<1>6. NothingElseActs' BY <1>1, <1>3, <1>4, <1>5 DEF Calm, NothingElseActs
<1>7. PlacesMatch' BY <1>1, <1>3 DEF Calm, PlacesMatch, State, MarkerMatches, ProfileOf
<1>8. GenerationsGrow'
  <2>1. doc.marker.ledger \in Nat /\ ledger.generation \in Nat
    BY DEF StoreInv, TypeOK, StoresOK, LedgersOK, Document, Marker, Ledger
  <2> QED BY <1>1, <1>3, <1>4, <2>1 DEF Calm, GenerationsGrow
<1>9. AppliedIsKnown'
  BY <1>1, <1>3 DEF Calm, ChangesMatch, AppliedIsKnown, Applied, State, Known, UserOf, Settles
<1>10. ~HasMarker' BY <1>1 DEF HasMarker, NoMarker
<1>11. MarkerIsKnown' BY <1>1, <1>10 DEF MarkerIsKnown
<1>12. Changed' = {} BY <1>1, <1>3 DEF Changed, State
<1>13. \A c \in Change : ~Applied(c)' BY <1>1 DEF Applied
<1>14. StampFollows'
  BY <1>1, <1>4, <1>10, <1>12, <1>13 DEF Calm, ChangesMatch, StampFollows
<1>15. MarkerFollows' /\ OneIsAhead' BY <1>10, <1>13 DEF MarkerFollows, OneIsAhead
<1>16. ChangesMatch' BY <1>9, <1>11, <1>14, <1>15 DEF ChangesMatch
<1>17. CallMatches' BY <1>1, IdleCall DEF CallMatches, CallsMatch
<1> QED BY <1>6, <1>7, <1>8, <1>16, <1>17 DEF Calm

\* An operator makes a profile where there is none.
LEMMA CreatesCalm ==
    ASSUME StoreInv, Calm, OperatorCreates
    PROVE  Calm'
<1>1. PICK p \in Profile :
         /\ dir[p] = None /\ dir' = [dir EXCEPT ![p] = [marker |-> Foreign, binding |-> 0]]
         /\ UNCHANGED <<doc, tx, ledger, call, suspect>>
  BY DEF OperatorCreates, CreateProfile, storeVars, counters
<1>2. dir \in [Profile -> Directory \cup {None}] /\ ledger \in Ledger /\ call \in Call \cup {None}
  BY DEF StoreInv, TypeOK, StoresOK, LedgersOK
<1>3. dir'[p].marker = Foreign /\ \A q \in Profile \ {p} : dir'[q] = dir[q] BY <1>1, <1>2
<1>4. ASSUME NEW o \in Op, State(o) # "none", MarkerMatches(o) PROVE MarkerMatches(o)'
  <2>1. ProfileOf(o) \in Profile \ {p} BY <1>1, <1>2, <1>4, OperationFields DEF MarkerMatches
  <2> QED BY <1>1, <1>3, <1>4, <2>1 DEF MarkerMatches, ProfileOf
<1>5. PlacesMatch'
  <2>1. \A q \in Profile : dir'[q] # None /\ dir'[q].marker # Foreign => State(dir'[q].marker) # "none"
    BY <1>3 DEF Calm, PlacesMatch
  <2>2. \A o \in Op : State(o) \in {"created", "completed"} => MarkerMatches(o)'
    BY <1>4 DEF Calm, PlacesMatch
  <2> QED BY <1>1, <2>1, <2>2 DEF PlacesMatch, State
<1>6. NothingElseActs' BY <1>1 DEF Calm, NothingElseActs
<1>7. ChangesMatch' BY <1>1, StillMatch DEF Calm
<1>8. GenerationsGrow' BY <1>1, StillGrow DEF Calm
<1>9. CallsMatch'
  <2>1. call # None /\ MarkerMatches(call.op) => MarkerMatches(call.op)'
    <3>1. call # None => call.op \in Op /\ State(call.op) # "none"
      BY <1>2, CallFields DEF StoreInv, TypeOK, CallsAreKnown
    <3>2. \A o \in Op : State(o) # "none" /\ MarkerMatches(o) => MarkerMatches(o)' BY <1>4
    <3> QED BY <1>1, <3>1, <3>2 DEF MarkerMatches, ProfileOf
  <2> QED BY <1>1, <2>1 DEF Calm, CallMatches, CallsMatch, State, MarkerMatches, ProfileOf
<1>10. TransactionMatches'
  BY <1>1 DEF Calm, CallMatches, TransactionMatches, ChangeOf, ActionOf, Applied, Known,
              UserOf, ProfileOf, Stamped
<1>11. SeenMatches'
  BY <1>1 DEF Calm, CallMatches, SeenMatches, ChangeOf, ActionOf, Applied, Stamped
<1> QED BY <1>5, <1>6, <1>7, <1>8, <1>9, <1>10, <1>11 DEF Calm, CallMatches

-----------------------------------------------------------------------------
(* Cuts: every step.                                                       *)

\* Nothing an operator did, or a copy put back, is undone.
LEMMA StaysUndisturbed ==
    ASSUME StoreInv, [Next]_vars, Undisturbed'
    PROVE  /\ Undisturbed
           /\ ~OperatorActs /\ ~Retire /\ ~Restore /\ \A b \in BOOLEAN : ~SetAdmitted(b)
<1>0. acts \in Nat /\ restores \in Nat /\ acts' = 0 /\ restores' = 0
  BY DEF StoreInv, TypeOK, LedgersOK, Undisturbed
<1>1. ~OperatorActs /\ ~Retire /\ ~Restore /\ \A b \in BOOLEAN : ~SetAdmitted(b)
  BY <1>0 DEF OperatorActs, Retire, Restore, SetAdmitted
<1>2. ASSUME NEW o \in Op, \/ Replay(o) \/ Revoke(o)
                           \/ \E e \in External, p \in Profile : Begin(o, e, p)
      PROVE  UNCHANGED <<acts, restores>>
  BY <1>2 DEF Begin, Replay, Revoke, OnlyLedger, OnlyCall, counters
<1>3. Settled \/ Stage \/ SaveCreated \/ SaveChanged \/ LookAtFailed \/ ClearStaging \/ ReconcileOne
         => UNCHANGED <<acts, restores>>
  BY DEF Settled, Stage, SaveCreated, SaveChanged, LookAtFailed, ClearStaging, ReconcileOne,
         Fails, OnlyLedger, OnlyCall, counters
<1>4. RenameIn \/ Bind \/ ServiceCommits \/ MoveToQuarantine => UNCHANGED <<acts, restores>>
  BY DEF RenameIn, Bind, ServiceCommits, MoveToQuarantine, Answered, Fails, OnlyLedger, OnlyCall,
         counters
<1>5. AuditIsWritten \/ Reconcile \/ Initialize \/ Cut \/ OperatorCreates \/ OperatorEnds
         => UNCHANGED <<acts, restores>>
  BY DEF AuditIsWritten, Reconcile, Initialize, Cut, OperatorCreates, OperatorEnds, OnlyLedger,
         OnlyCall, counters
<1>6. BackUp \/ Check \/ Rest \/ UNCHANGED vars => UNCHANGED <<acts, restores>>
  BY DEF BackUp, Check, Rest, vars, counters
<1>7. UNCHANGED <<acts, restores>> BY <1>1, <1>2, <1>3, <1>4, <1>5, <1>6 DEF Next, Service
<1> QED BY <1>0, <1>1, <1>7 DEF Undisturbed

LEMMA CalmNext == StoreInv /\ CalmInv /\ [Next]_vars => CalmInv'
<1> SUFFICES ASSUME StoreInv, CalmInv, [Next]_vars, Undisturbed' PROVE Calm'
  BY DEF CalmInv
<1>0. /\ Calm
      /\ ~OperatorActs /\ ~Retire /\ ~Restore /\ \A b \in BOOLEAN : ~SetAdmitted(b)
  BY StaysUndisturbed DEF CalmInv
<1>1. call \in Call \cup {None} /\ tx \in Transaction \cup {None}
  BY DEF StoreInv, TypeOK, StoresOK, LedgersOK
<1>2. ASSUME UNCHANGED <<doc, dir, ledger, tx, call, suspect>> PROVE Calm'
  <2>1. NothingElseActs' BY <1>0, <1>2 DEF Calm, NothingElseActs
  <2>2. PlacesMatch' /\ ChangesMatch' BY <1>0, <1>2, StillMatch DEF Calm
  <2>3. GenerationsGrow' BY <1>0, <1>2 DEF Calm, GenerationsGrow
  <2>4. CallsMatch'
    BY <1>0, <1>2 DEF Calm, CallMatches, CallsMatch, State, MarkerMatches, ProfileOf
  <2>5. TransactionMatches'
    BY <1>0, <1>2 DEF Calm, CallMatches, TransactionMatches, ChangeOf, ActionOf, Applied, Known,
                      UserOf, ProfileOf, Stamped
  <2>6. SeenMatches'
    BY <1>0, <1>2 DEF Calm, CallMatches, SeenMatches, ChangeOf, ActionOf, Applied, Stamped
  <2> QED BY <2>1, <2>2, <2>3, <2>4, <2>5, <2>6 DEF Calm, CallMatches
<1>3. ASSUME NEW o \in Op, Replay(o) PROVE Calm'
  <2>1. /\ call = None /\ UNCHANGED <<doc, dir, ledger, tx, suspect>>
        /\ call' = [kind |-> "provision", op |-> o, at |-> "next", rest |-> {}, seen |-> 0, seenAt |-> 0]
    BY <1>3 DEF Replay, Serving, Calls, OnlyCall, identityVars, counters
  <2>2. CallsMatch' BY <2>1 DEF CallsMatch
  <2> QED BY <1>0, <2>1, <2>2, MovesCalm
<1>4. CASE Reconcile
  <2>1. PICK o \in Op :
           /\ call = None /\ UNCHANGED <<doc, dir, ledger, tx, suspect>>
           /\ call' = [kind |-> "reconcile", op |-> o, at |-> "admit",
                       rest |-> {q \in Op : Open(q)} \ {o}, seen |-> 0, seenAt |-> 0]
    BY <1>4 DEF Reconcile, OnlyCall, identityVars, counters
  <2>2. CallsMatch' BY <2>1 DEF CallsMatch
  <2> QED BY <1>0, <2>1, <2>2, MovesCalm
<1>5. CASE Settled
  <2>1. /\ call # None /\ call.at = "next" /\ call.kind # "revoke" /\ Ends
        /\ UNCHANGED <<doc, dir, ledger, tx, suspect>>
    BY <1>5 DEF Settled, Resumes, identityVars, counters
  <2> QED BY <1>0, <2>1, EndsCalm
<1>6. CASE LookAtFailed
  <2>1. /\ call # None /\ call.at = "failed" /\ UNCHANGED <<doc, dir, ledger, tx, suspect>>
        /\ At(IF MarkerMatches(call.op) /\ doc.owner[ProfileOf(call.op)] = None
              THEN "move" ELSE "clear")
    BY <1>6 DEF LookAtFailed, OnlyCall, identityVars, counters
  <2>2. /\ call'.op = call.op /\ call'.kind = call.kind /\ call'.seenAt = call.seenAt
        /\ call' # None /\ call'.at \in {"move", "clear"}
        /\ call'.at = "move" => MarkerMatches(call.op)
    BY <1>1, <2>1, CallFields
  <2>3. State(call.op) = "failed" /\ call.kind # "revoke"
    BY <1>0, <2>1 DEF Calm, CallMatches, CallsMatch
  <2>4. CallsMatch' BY <2>1, <2>2, <2>3 DEF CallsMatch, State, MarkerMatches, ProfileOf
  <2> QED BY <1>0, <2>1, <2>2, <2>4, MovesCalm
<1>7. CASE ClearStaging
  <2>1. /\ call # None /\ call.at = "clear" /\ UNCHANGED <<doc, dir, ledger, tx, suspect>>
        /\ At("next")
    BY <1>7 DEF ClearStaging, At, identityVars, counters
  <2>2. /\ call'.kind = call.kind /\ call'.seenAt = call.seenAt /\ call'.at = "next" /\ call' # None
    BY <1>1, <2>1, CallFields
  <2>3. call.kind # "revoke" BY <1>0, <2>1 DEF Calm, CallMatches, CallsMatch
  <2>4. CallsMatch' BY <2>2, <2>3 DEF CallsMatch
  <2> QED BY <1>0, <2>1, <2>2, <2>4, MovesCalm
<1>8. CASE ReconcileOne
  <2>1. /\ call # None /\ call.at = "admit" /\ At("next")
        /\ UNCHANGED <<doc, dir, ledger, tx, suspect>>
    BY <1>0, <1>8 DEF ReconcileOne, Calm, NothingElseActs, OnlyCall, identityVars, counters
  <2>2. /\ call'.kind = call.kind /\ call'.seenAt = call.seenAt /\ call'.at = "next" /\ call' # None
    BY <1>1, <2>1, CallFields
  <2>3. call.kind # "revoke" BY <1>0, <2>1 DEF Calm, CallMatches, CallsMatch
  <2>4. CallsMatch' BY <2>2, <2>3 DEF CallsMatch
  <2> QED BY <1>0, <2>1, <2>2, <2>4, MovesCalm
<1>9. CASE Cut
  <2>1. call' = None /\ tx' = None /\ UNCHANGED <<doc, dir, ledger, suspect>>
    BY <1>0, <1>9 DEF Cut, Calm, NothingElseActs
  <2>2. NothingElseActs' BY <1>0, <2>1 DEF Calm, NothingElseActs
  <2>3. PlacesMatch' /\ ChangesMatch' BY <1>0, <2>1, StillMatch DEF Calm
  <2>4. GenerationsGrow' BY <1>0, <2>1, StillGrow DEF Calm
  <2>5. CallMatches' BY <2>1, IdleCall DEF CallMatches, CallsMatch
  <2> QED BY <2>2, <2>3, <2>4, <2>5 DEF Calm
<1>10. CASE AuditIsWritten
  <2>1. /\ tx # None /\ tx' = [tx EXCEPT !.audited = TRUE]
        /\ UNCHANGED <<doc, dir, ledger, call, suspect>>
    BY <1>10 DEF AuditIsWritten, WriteAudit, counters
  <2>2. tx'.doc = tx.doc /\ tx'.by = tx.by /\ tx' # None
    <3>1. tx' \in Transaction BY <1>1, <2>1 DEF Transaction
    <3> QED BY <1>1, <2>1, <3>1, NothingIsNone DEF Transaction
  <2>3. NothingElseActs' BY <1>0, <2>1, <2>2 DEF Calm, NothingElseActs
  <2>4. PlacesMatch' /\ ChangesMatch' BY <1>0, <2>1, StillMatch DEF Calm
  <2>5. GenerationsGrow' BY <1>0, <2>1 DEF Calm, GenerationsGrow
  <2>6. CallsMatch'
    BY <1>0, <2>1 DEF Calm, CallMatches, CallsMatch, State, MarkerMatches, ProfileOf
  <2>7. TransactionMatches'
    BY <1>0, <2>1, <2>2
    DEF Calm, CallMatches, TransactionMatches, ChangeOf, ActionOf, Applied, Known, UserOf,
        ProfileOf, Stamped
  <2>8. SeenMatches'
    BY <1>0, <2>1 DEF Calm, CallMatches, SeenMatches, ChangeOf, ActionOf, Applied, Stamped
  <2> QED BY <2>3, <2>4, <2>5, <2>6, <2>7, <2>8 DEF Calm, CallMatches
<1>11. ~OperatorEnds /\ ~Check
  BY <1>0 DEF Calm, NothingElseActs, OperatorEnds, Check
<1>12. BackUp \/ Rest \/ UNCHANGED vars => UNCHANGED <<doc, dir, ledger, tx, call, suspect>>
  BY DEF BackUp, Rest, vars, identityVars, counters
<1> QED
  BY <1>0, <1>2, <1>3, <1>4, <1>5, <1>6, <1>7, <1>8, <1>9, <1>10, <1>11, <1>12,
     BeginCalm, RevokeCalm, StageCalm, RenameCalm, CreatedCalm, BindCalm, CommitCalm, ChangedCalm,
     MoveCalm, InitializeCalm, CreatesCalm
  DEF Next, Service

LEMMA CalmInit == Init => CalmInv
<1> SUFFICES ASSUME Init PROVE Calm BY DEF CalmInv
<1>1. /\ doc = EmptyDoc /\ dir = [p \in Profile |-> None] /\ tx = None /\ call = None
      /\ ledger = EmptyLedger /\ suspect = FALSE
  BY DEF Init, IdentityInit
<1>2. /\ \A o \in Op : State(o) = "none"
      /\ \A c \in Change : doc.reply[c] = 0
      /\ doc.marker = NoMarker /\ doc.generation = 0 /\ ledger.generation = 0
      /\ ledger.stamp = NoStamp /\ ledger.admitted
  BY <1>1 DEF EmptyDoc, EmptyLedger, State
<1>3. ~Stamped /\ ~HasMarker /\ Changed = {}
  BY <1>2 DEF Stamped, HasMarker, NoStamp, NoMarker, Changed
<1>4. NothingElseActs BY <1>1, <1>2 DEF NothingElseActs, NoStamp
<1>5. PlacesMatch BY <1>1, <1>2 DEF PlacesMatch
<1>6. GenerationsGrow BY <1>1, <1>2 DEF GenerationsGrow, NoStamp, NoMarker
<1>7. \A c \in Change : ~Applied(c) /\ ~Settles(c[1], c[2])
  BY <1>2 DEF Applied, Settles, Change
<1>8. AppliedIsKnown
  <2>1. \A o \in Op : ~Applied(<<o, "bind">>) BY <1>7 DEF Change
  <2> QED BY <1>7, <2>1 DEF AppliedIsKnown
<1>9. ChangesMatch
  BY <1>2, <1>3, <1>7, <1>8
  DEF ChangesMatch, MarkerIsKnown, StampFollows, MarkerFollows, OneIsAhead, NoStamp
<1>10. CallMatches BY <1>1 DEF CallMatches, CallsMatch, TransactionMatches, SeenMatches
<1> QED BY <1>4, <1>5, <1>6, <1>9, <1>10 DEF Calm

\* Stores that match, with no call under way, pass the check.
LEMMA CalmIsContinuous ==
    ASSUME StoreInv, CalmInv
    PROVE  CutsKeepContinuity
<1> SUFFICES ASSUME Undisturbed, call = None, Stamped PROVE Continuity
  BY DEF CutsKeepContinuity
<1>0. Calm /\ doc \in Document /\ ledger \in Ledger BY DEF CalmInv, StoreInv, TypeOK, StoresOK, LedgersOK
<1>1. /\ doc.marker.sequence \in Nat /\ ledger.stamp.sequence \in Nat
      /\ doc.marker.ledger \in Nat /\ ledger.generation \in Nat
  BY <1>0 DEF Document, Marker, Ledger, Stamp
<1>2. ~ledger.stamp.retired BY <1>0 DEF Calm, NothingElseActs
<1>3. doc.marker # NoMarker =>
         /\ HasMarker /\ doc.marker.continuity = ledger.stamp.continuity /\ doc.marker.op \in Op
         /\ Applied(LastChange)
  BY <1>0 DEF Calm, ChangesMatch, MarkerIsKnown
<1>4. doc.marker # NoMarker => State(doc.marker.op) # "none"
  <2> SUFFICES ASSUME doc.marker # NoMarker PROVE State(doc.marker.op) # "none" OBVIOUS
  <2>1. State(doc.marker.op) = EndOf(doc.marker.action) \/ InFlight(doc.marker.op, doc.marker.action)
    BY <1>0, <1>3 DEF Calm, ChangesMatch, MarkerFollows
  <2> QED BY <2>1 DEF EndOf, InFlight
<1>5. LedgerIsCurrent
  <2>1. \A o \in ProfileMarkers : State(o) # "none"
    BY <1>0 DEF ProfileMarkers, Calm, PlacesMatch
  <2>2. doc.marker.ledger <= ledger.generation BY <1>0 DEF Calm, GenerationsGrow
  <2>3. doc.marker # NoMarker =>
          \/ /\ doc.marker.sequence = ledger.stamp.sequence
             /\ State(doc.marker.op) = EndOf(doc.marker.action)
          \/ /\ doc.marker.sequence = ledger.stamp.sequence + 1
             /\ InFlight(doc.marker.op, doc.marker.action)
    BY <1>0, <1>3 DEF Calm, ChangesMatch, MarkerFollows
  <2> QED BY <1>3, <1>4, <2>1, <2>2, <2>3 DEF LedgerIsCurrent
<1>6. \A o \in Changed : Applied(<<o, "bind">>) /\ Known(doc, UserOf(o))
  <2> SUFFICES ASSUME NEW o \in Op, State(o) \in {"completed", "revoked"}
               PROVE  Applied(<<o, "bind">>) /\ Known(doc, UserOf(o))
    BY DEF Changed
  <2>1. <<o, "bind">> \in Change /\ Settles(o, "bind") BY DEF Change, Settles
  <2>2. Applied(<<o, "bind">>) BY <1>0, <2>1 DEF Calm, ChangesMatch, AppliedIsKnown
  <2> QED BY <1>0, <2>2 DEF Calm, ChangesMatch, AppliedIsKnown
<1>7. doc.marker = NoMarker => ledger.stamp.sequence = 0 /\ Changed = {}
  <2> SUFFICES ASSUME doc.marker = NoMarker PROVE ledger.stamp.sequence = 0 /\ Changed = {}
    OBVIOUS
  <2>1. ~HasMarker BY DEF HasMarker, NoMarker
  <2>2. ledger.stamp.sequence = 0 BY <1>0, <2>1 DEF Calm, ChangesMatch, StampFollows
  <2> QED BY <1>0, <2>2 DEF Calm, ChangesMatch, StampFollows
<1>8. doc.marker.sequence >= ledger.stamp.sequence
  <2>1. CASE doc.marker = NoMarker BY <1>1, <1>7, <2>1
  <2>2. CASE doc.marker # NoMarker
    BY <1>0, <1>1, <1>3, <2>2 DEF Calm, ChangesMatch, MarkerFollows
  <2> QED BY <2>1, <2>2
<1>9. /\ doc.generation >= ledger.stamp.generation
      /\ Changed # {} => ledger.stamp.sequence > 0
  <2>1. doc.generation \in Nat /\ ledger.stamp.generation \in Nat
    BY <1>0 DEF Document, Ledger, Stamp
  <2> QED BY <1>0, <2>1 DEF Calm, GenerationsGrow, ChangesMatch, StampFollows
<1>10. StoresAreCurrent BY <1>6, <1>7, <1>8, <1>9 DEF StoresAreCurrent
<1> QED BY <1>2, <1>5, <1>10 DEF Continuity

\* Whatever step a call is cut at, the stores it leaves pass the check.
THEOREM CutsLeaveStoresTogether == Spec => []CutsKeepContinuity
<1>1. Init => StoreInv /\ CalmInv BY StoreInit, CalmInit
<1>2. (StoreInv /\ CalmInv) /\ [Next]_vars => (StoreInv /\ CalmInv)' BY StoreNext, CalmNext
<1>3. StoreInv /\ CalmInv => CutsKeepContinuity BY CalmIsContinuous
<1> QED BY <1>1, <1>2, <1>3, PTL DEF Spec

-----------------------------------------------------------------------------
(* The stores and their copies: what an operator does, and what is put     *)
(* back, never makes two stores that pass the check tell different         *)
(* histories.                                                              *)

StateIn(l, o) == IF l.op[o] = None THEN "none" ELSE l.op[o].state

\* The changes a ledger shows, and those a document applied.
SettledIn(l) ==
    {c \in Change : StateIn(l, c[1]) \in (IF c[2] = "bind" THEN {"completed", "revoked"} ELSE {"revoked"})}
AppliedIn(d) == {c \in Change : d.reply[c] # 0}
LastIn(d) == <<d.marker.op, d.marker.action>>

\* A document with the ledger's number, or a later one, applied what it shows.
Shows(l, d) == d.marker.sequence >= l.stamp.sequence => SettledIn(l) \subseteq AppliedIn(d)

\* While nobody reconciled what the check refused: a ledger and a document with
\* the same number tell the same history; one with the next number has its last
\* change more.
Meets(l, d) ==
    /\ d.marker.sequence = l.stamp.sequence => AppliedIn(d) = SettledIn(l)
    /\ d.marker.sequence = l.stamp.sequence + 1 => AppliedIn(d) = SettledIn(l) \cup {LastIn(d)}

\* A copy is an earlier state of the store it is a copy of.
LedgerGrew(k, l) ==
    /\ k.stamp.continuity \in {0, l.stamp.continuity}
    /\ k.stamp.sequence <= l.stamp.sequence
    /\ SettledIn(k) \subseteq SettledIn(l)
LevelCopy(k, l) ==
    l.stamp.continuity # 0 /\ k.stamp.sequence = l.stamp.sequence => SettledIn(k) = SettledIn(l)
DocumentGrew(k, d) ==
    /\ k.marker.sequence <= d.marker.sequence
    /\ AppliedIn(k) \subseteq AppliedIn(d)
    /\ Stamped /\ k.marker.sequence = d.marker.sequence => AppliedIn(k) = AppliedIn(d)

CopiesAreOlder ==
    /\ LedgerGrew(backup.ledger, ledger) /\ DocumentGrew(backup.doc, doc)
    /\ ~early => LevelCopy(backup.ledger, ledger)
UnstampedIsZero ==
    \A l \in {ledger, backup.ledger} : l.stamp.continuity = 0 => l.stamp.sequence = 0
\* Whichever of them are put back, they meet.
HistoriesMeet ==
    Stamped => \A l \in {ledger, backup.ledger}, d \in {doc, backup.doc} :
                  Shows(l, d) /\ (~early => Meets(l, d))
\* While the gateway serves, and while a call is under way, the identity store is
\* at most one change ahead.
Consecutive == doc.marker.sequence \in {ledger.stamp.sequence, ledger.stamp.sequence + 1}
Trusted == ~suspect \/ call # None
LiveFollows == ~early /\ Stamped /\ Trusted => Consecutive

\* Where a call is in its operation's life, whoever acts meanwhile.
CallsFit ==
    call # None =>
        /\ call.at \in {"staged", "renamed", "made"} => State(call.op) = "pending"
        /\ call.at = "admit" => Open(call.op)
        /\ call.op \notin call.rest /\ \A o \in call.rest : Open(o)
        /\ call.at \in {"changing", "changed"} =>
              State(call.op) = (IF call.kind = "revoke" THEN "completed" ELSE "created")
        /\ call.at = "changed" => Applied(ChangeOf(call)) /\ (Stamped => call.seen = doc.marker.sequence)
\* An operator's transaction changes nothing the ledger knows of; a call's
\* begins when the identity store is not behind the ledger, nor ahead of it.
TransactionsFit ==
    tx # None =>
        /\ tx.by = "operator" => tx.doc.reply = doc.reply /\ tx.doc.marker = doc.marker
        /\ tx.by = "service" =>
              /\ AppliedIn(tx.doc) = AppliedIn(doc) \cup {ChangeOf(call)}
              /\ Stamped => /\ doc.marker.sequence >= ledger.stamp.sequence
                            /\ ~early => doc.marker.sequence = ledger.stamp.sequence
                            /\ tx.doc.marker.sequence = doc.marker.sequence + 1
                            /\ LastIn(tx.doc) = ChangeOf(call)
              /\ ~Stamped => tx.doc.marker = doc.marker

HistoriesInv == CopiesAreOlder /\ UnstampedIsZero /\ HistoriesMeet /\ LiveFollows
AgreeInv == HistoriesInv /\ CallsFit /\ TransactionsFit

\* The numbers are numbers, in the stores and in their copies.
LEMMA NumbersAreNatural ==
    ASSUME StoreInv
    PROVE  /\ \A l \in {ledger, backup.ledger} :
                 l.stamp.sequence \in Nat /\ l.stamp.continuity \in Nat
           /\ \A d \in {doc, backup.doc} : d.marker.sequence \in Nat
           /\ tx # None => tx.doc.marker.sequence \in Nat
<1>1. /\ ledger \in Ledger /\ doc \in Document /\ backup \in [ledger : Ledger, doc : Document]
      /\ tx # None => tx.doc \in Document
  BY DEF StoreInv, TypeOK, StoresOK, LedgersOK, Transaction
<1> QED BY <1>1 DEF Ledger, Stamp, Document, Marker

\* What the check accepts is level, or one change apart.
LEMMA CheckedAreConsecutive ==
    ASSUME StoreInv, Continuity
    PROVE  Consecutive
<1>1. ledger.stamp.sequence \in Nat /\ doc.marker.sequence \in Nat BY NumbersAreNatural
<1>2. CASE doc.marker = NoMarker
  BY <1>2 DEF Consecutive, Continuity, StoresAreCurrent, NoMarker
<1>3. CASE doc.marker # NoMarker
  BY <1>1, <1>3 DEF Consecutive, Continuity, LedgerIsCurrent, StoresAreCurrent
<1> QED BY <1>2, <1>3

\* What the check accepts tells one history.
LEMMA AgreementFollows ==
    ASSUME StoreInv, AgreeInv
    PROVE  ContinuityMeansAgreement
<1> SUFFICES ASSUME Continuity
             PROVE  /\ \A c \in Change : Settles(c[1], c[2]) => Applied(c)
                    /\ ~early => \A c \in AheadOfLedger : c = LastChange /\ InFlight(c[1], c[2])
  BY DEF ContinuityMeansAgreement, LastChange
<1>0. ledger.stamp.sequence \in Nat /\ doc.marker.sequence \in Nat BY NumbersAreNatural
<1>1. Stamped /\ Shows(ledger, doc) /\ (~early => Meets(ledger, doc))
  BY DEF Continuity, AgreeInv, HistoriesInv, HistoriesMeet
<1>2. /\ \A c \in Change : Settles(c[1], c[2]) <=> c \in SettledIn(ledger)
      /\ \A c \in Change : Applied(c) <=> c \in AppliedIn(doc)
  BY DEF Settles, State, StateIn, SettledIn, Applied, AppliedIn
<1>3. \A c \in Change : Settles(c[1], c[2]) => Applied(c)
  BY <1>1, <1>2 DEF Shows, Continuity, StoresAreCurrent
<1>4. \/ doc.marker.sequence = ledger.stamp.sequence
      \/ /\ doc.marker.sequence = ledger.stamp.sequence + 1
         /\ InFlight(doc.marker.op, doc.marker.action)
  <2>1. CASE doc.marker = NoMarker
    BY <2>1 DEF Continuity, StoresAreCurrent, NoMarker
  <2>2. CASE doc.marker # NoMarker
    BY <1>0, <2>2 DEF Continuity, LedgerIsCurrent, StoresAreCurrent
  <2> QED BY <2>1, <2>2
<1>5. ASSUME ~early, doc.marker.sequence = ledger.stamp.sequence
      PROVE  AheadOfLedger = {}
  BY <1>1, <1>2, <1>5 DEF Meets, AheadOfLedger
<1>6. ASSUME ~early, doc.marker.sequence = ledger.stamp.sequence + 1,
             InFlight(doc.marker.op, doc.marker.action)
      PROVE  \A c \in AheadOfLedger : c = LastChange /\ InFlight(c[1], c[2])
  <2>1. AppliedIn(doc) = SettledIn(ledger) \cup {LastChange}
    BY <1>1, <1>6 DEF Meets, LastIn, LastChange
  <2>2. \A c \in AheadOfLedger : c = LastChange BY <1>2, <2>1 DEF AheadOfLedger
  <2>3. LastChange[1] = doc.marker.op /\ LastChange[2] = doc.marker.action BY DEF LastChange
  <2> QED BY <1>6, <2>2, <2>3
<1> QED BY <1>3, <1>4, <1>5, <1>6

\* What a store shows depends on its number and its changes alone.
LEMMA MeetsStay ==
    ASSUME NEW l, NEW m, NEW d, NEW e,
           m.stamp.sequence = l.stamp.sequence, SettledIn(m) = SettledIn(l),
           e.marker = d.marker, AppliedIn(e) = AppliedIn(d)
    PROVE  (Shows(l, d) => Shows(m, e)) /\ (Meets(l, d) => Meets(m, e))
BY DEF Shows, Meets, LastIn

LEMMA HistoriesStay ==
    ASSUME HistoriesInv, UNCHANGED <<backup, suspect>>, early => early',
           early' \/ Trusted \/ call' = None \/ Consecutive,
           ledger'.stamp.sequence = ledger.stamp.sequence,
           ledger'.stamp.continuity = ledger.stamp.continuity,
           SettledIn(ledger') = SettledIn(ledger),
           doc'.marker = doc.marker, doc'.reply = doc.reply
    PROVE  HistoriesInv'
<1>1. AppliedIn(doc') = AppliedIn(doc) /\ (Stamped' <=> Stamped) BY DEF AppliedIn, Stamped
<1>2. CopiesAreOlder' /\ UnstampedIsZero'
  BY <1>1 DEF HistoriesInv, CopiesAreOlder, UnstampedIsZero, LedgerGrew, LevelCopy, DocumentGrew
<1>3. HistoriesMeet'
  <2> SUFFICES ASSUME Stamped,
                      NEW l \in {ledger', backup.ledger}, NEW d \in {doc', backup.doc}
               PROVE  Shows(l, d) /\ (~early => Meets(l, d))
    BY <1>1 DEF HistoriesMeet
  <2>1. \A k \in {ledger, backup.ledger}, e \in {doc, backup.doc} :
           Shows(k, e) /\ (~early => Meets(k, e))
    BY DEF HistoriesInv, HistoriesMeet
  <2> QED BY <1>1, <2>1, MeetsStay
<1>4. LiveFollows' BY <1>1 DEF HistoriesInv, LiveFollows, Trusted, Consecutive
<1> QED BY <1>2, <1>3, <1>4 DEF HistoriesInv

\* A transaction of nobody's call stays what it was.
LEMMA TransactionsStay ==
    ASSUME StoreInv, TransactionsFit, UNCHANGED <<doc, tx>>, early => early',
           ledger'.stamp.sequence = ledger.stamp.sequence,
           ledger'.stamp.continuity = ledger.stamp.continuity,
           call' = call \/ call = None \/ call.at # "changing"
    PROVE  TransactionsFit'
<1>1. tx # None /\ tx.by = "service" => call' = call BY DEF StoreInv, ServiceHasACall
<1> QED BY <1>1 DEF TransactionsFit, Stamped, ChangeOf, ActionOf

\* A call that only moves on.
LEMMA MovesAgree ==
    ASSUME StoreInv, AgreeInv, UNCHANGED <<doc, tx, ledger, backup, suspect>>, CallsFit',
           early => early', call' = call \/ call = None \/ call.at # "changing",
           early' \/ Trusted \/ call' = None \/ Consecutive
    PROVE  AgreeInv'
<1>1. HistoriesInv' BY HistoriesStay DEF AgreeInv
<1>2. TransactionsFit' BY TransactionsStay DEF AgreeInv
<1> QED BY <1>1, <1>2 DEF AgreeInv

\* One operation began, was made or failed: no change is settled by that.
LEMMA NothingSettles ==
    ASSUME NEW o \in Op, NEW state \in {"pending", "created", "failed"}, OneMoves(o, state),
           State(o) \in {"none", "pending", "created"}
    PROVE  SettledIn(ledger') = SettledIn(ledger)
<1>1. \A q \in Op : StateIn(ledger', q) = IF q = o THEN state ELSE State(q)
  BY MovedOps DEF StateIn
<1>2. \A q \in Op : StateIn(ledger, q) = State(q) BY DEF StateIn, State
<1>3. \A c \in Change : c[1] \in Op BY DEF Change
<1> QED BY <1>1, <1>2, <1>3 DEF SettledIn

\* The calls' operations, after one operation moved under its call.
LEMMA AdvanceAgree ==
    ASSUME StoreInv, AgreeInv, call # None, call.at \notin {"changing", "changed"},
           UNCHANGED <<doc, tx, backup, suspect, early>>,
           NEW state \in {"created", "failed"}, Transition(ledger, call.op, state),
           NEW step \in {"failed", "clear", "next"}, At(step),
           State(call.op) \in {"pending", "created"}
    PROVE  AgreeInv'
<1>0. call \in Call \cup {None} /\ ledger \in Ledger
  BY DEF StoreInv, TypeOK, LedgersOK
<1>1. call.op \in Op /\ call.rest \subseteq Op /\ state \in States BY <1>0, CallFields DEF States
<1>2. OneMoves(call.op, state) /\ ledger'.stamp = ledger.stamp
  BY <1>0, <1>1, TransitionMoves
<1>3. /\ call'.op = call.op /\ call'.at = step /\ call'.rest = call.rest /\ call' # None
  BY <1>0, CallFields
<1>4. SettledIn(ledger') = SettledIn(ledger) BY <1>1, <1>2, NothingSettles
<1>5. HistoriesInv' BY <1>2, <1>4, HistoriesStay DEF AgreeInv, Trusted
<1>6. TransactionsFit' BY <1>2, TransactionsStay DEF AgreeInv
<1>7. \A q \in call.rest : State(q)' = State(q)
  <2>1. call.op \notin call.rest BY DEF AgreeInv, CallsFit
  <2> QED BY <1>1, <1>2, <2>1 DEF OneMoves, State
<1>8. CallsFit' BY <1>3, <1>7 DEF AgreeInv, CallsFit, Open
<1> QED BY <1>5, <1>6, <1>8 DEF AgreeInv

\* One operation's turn ends: the next one is open.
LEMMA EndsAgree ==
    ASSUME StoreInv, AgreeInv, call # None, call.at \notin {"changing", "changed"}, Ends,
           UNCHANGED <<doc, tx, ledger, backup, suspect, early>>
    PROVE  AgreeInv'
<1>0. call \in Call BY CallFields DEF StoreInv, TypeOK, LedgersOK
<1>1. CASE call' = None
  <2>1. CallsFit' BY <1>1 DEF CallsFit
  <2> QED BY <1>1, <2>1, MovesAgree
<1>2. CASE call' # None
  <2>1. PICK o \in call.rest :
           call' = [call EXCEPT !.op = o, !.rest = call.rest \ {o}, !.at = "admit"]
    BY <1>2 DEF Ends
  <2>2. call'.op = o /\ call'.rest = call.rest \ {o} /\ call'.at = "admit"
    BY <1>0, <2>1 DEF Call
  <2>3. CallsFit' BY <2>2 DEF AgreeInv, CallsFit, Open, State
  <2> QED BY <2>3, MovesAgree DEF Trusted
<1> QED BY <1>1, <1>2

\* A change that was applied before its call is seen again.
LEMMA SeenAgree ==
    ASSUME StoreInv, AgreeInv, Trusted, UNCHANGED <<doc, tx, ledger, backup, suspect, early>>,
           call = None \/ call.at # "changing",
           NEW o \in Op, NEW action \in {"bind", "revoke"}, Applied(<<o, action>>),
           call' # None, call'.op = o, call'.at = "changed", call'.kind = "revoke" <=> action = "revoke",
           call'.seen = doc.marker.sequence, o \notin call'.rest, \A q \in call'.rest : Open(q),
           State(o) = IF action = "revoke" THEN "completed" ELSE "created"
    PROVE  AgreeInv'
<1>1. ChangeOf(call') = <<o, action>> BY DEF ChangeOf, ActionOf
<1>2. CallsFit' BY <1>1 DEF CallsFit, State, Open, Applied, Stamped, ChangeOf, ActionOf
<1> QED BY <1>2, MovesAgree

\* A call's change begins only when the ledger has caught up.
LEMMA LedgerHasCaughtUp ==
    ASSUME StoreInv, AgreeInv, NEW change \in Change, Follows(change), ~Applied(change), Stamped
    PROVE  /\ doc.marker.sequence >= ledger.stamp.sequence
           /\ ~early => doc.marker.sequence = ledger.stamp.sequence
<1>0. ledger.stamp.sequence \in Nat BY NumbersAreNatural
<1>1. CASE doc.marker = NoMarker /\ ledger.stamp.sequence = 0 BY <1>1 DEF NoMarker
<1>2. CASE doc.marker.sequence = ledger.stamp.sequence BY <1>0, <1>2
<1>3. CASE /\ doc.marker.sequence = ledger.stamp.sequence + 1
           /\ <<doc.marker.op, doc.marker.action>> = change
  <2>1. ~early => Meets(ledger, doc) BY DEF AgreeInv, HistoriesInv, HistoriesMeet
  <2>2. ~early => change \in AppliedIn(doc) BY <1>3, <2>1 DEF Meets, LastIn
  <2>3. early BY <2>2 DEF AppliedIn, Applied
  <2> QED BY <1>0, <1>3, <2>3
<1> QED BY <1>1, <1>2, <1>3 DEF Follows, Stamped

LEMMA ChangeAgrees ==
    ASSUME StoreInv, AgreeInv, Trusted, NEW o \in Op, NEW action \in {"bind", "revoke"},
           NEW after \in Document, after.marker = doc.marker, after.reply = doc.reply,
           Begins("service", WithMarker(after, <<o, action>>), <<o, action>>),
           ~Applied(<<o, action>>), Follows(<<o, action>>), UNCHANGED <<ledger, backup, suspect, early>>,
           call' # None, call'.op = o, call'.at = "changing", call'.kind = "revoke" <=> action = "revoke",
           o \notin call'.rest, \A q \in call'.rest : Open(q),
           State(o) = IF action = "revoke" THEN "completed" ELSE "created"
    PROVE  AgreeInv'
<1> DEFINE change == <<o, action>>
           d == WithMarker(after, change)
<1>0. /\ doc.generation \in Nat /\ doc \in Document /\ change \in Change /\ change # None
      /\ doc.reply \in [Change -> Nat]
  <2>1. change \in Change BY DEF Change
  <2> QED BY <2>1, NothingIsNone DEF StoreInv, TypeOK, StoresOK, Document
<1>1. d \in Document /\ d.reply = doc.reply
  BY <1>0, MarkedDocument DEF WithMarker, Document
<1>2. d.marker = IF ~Stamped THEN doc.marker
                 ELSE [continuity |-> ledger.stamp.continuity, sequence |-> doc.marker.sequence + 1,
                       ledger |-> ledger.generation, op |-> o, action |-> action]
  BY DEF WithMarker, Document
<1>3. ChangeOf(call') = change BY DEF ChangeOf, ActionOf
<1>4. Stamped => /\ doc.marker.sequence >= ledger.stamp.sequence
                 /\ ~early => doc.marker.sequence = ledger.stamp.sequence
  BY <1>0, LedgerHasCaughtUp
<1> HIDE DEF change, d
<1>5. Begins("service", d, change) BY DEF change, d
<1>6. /\ tx' # None /\ tx'.by = "service" /\ tx'.doc.marker = d.marker /\ UNCHANGED doc
      /\ tx'.doc.reply = [doc.reply EXCEPT ![change] = doc.generation + 1]
  <2>1. tx'.doc = [d EXCEPT !.generation = doc.generation + 1,
                            !.reply = [d.reply EXCEPT ![change] = doc.generation + 1]]
    BY <1>0, <1>5 DEF Begins
  <2> QED BY <1>0, <1>1, <1>5, <2>1, BeginsType, NothingIsNone DEF Document
<1>7. AppliedIn(tx'.doc) = AppliedIn(doc) \cup {change}
  BY <1>0, <1>6 DEF AppliedIn
<1>8. LastIn(tx'.doc) = IF Stamped THEN change ELSE LastIn(doc)
  BY <1>2, <1>6 DEF LastIn, change
<1>9. TransactionsFit'
  BY <1>2, <1>3, <1>4, <1>6, <1>7, <1>8 DEF TransactionsFit, Stamped, ChangeOf, ActionOf, AppliedIn
<1>10. CallsFit' BY DEF CallsFit, State, Open
<1>11. HistoriesInv' BY <1>6, HistoriesStay DEF AgreeInv
<1> QED BY <1>9, <1>10, <1>11 DEF AgreeInv

\* Two calls that change the identity store.
LEMMA BindAgrees ==
    ASSUME StoreInv, AgreeInv, Bind
    PROVE  AgreeInv'
<1> DEFINE o == call.op
           change == <<o, "bind">>
           p == ProfileOf(o)
           u == UserOf(o)
<1>0. /\ doc \in Document /\ issued \in Nat /\ ledger \in Ledger /\ call \in Call \cup {None}
      /\ call # None /\ call.at = "next" /\ call.kind # "revoke" /\ State(o) = "created" /\ tx = None
  BY DEF Bind, Proceeds, Resumes, StoreInv, TypeOK, StoresOK, LedgersOK
<1>1. o \in Op /\ p \in Profile /\ u \in Principal /\ ledger.op[o].external \in External
  BY <1>0, CallFields, OperationFields
<1>2. Trusted /\ o \notin call.rest /\ \A q \in call.rest : Open(q)
  BY <1>0 DEF AgreeInv, CallsFit, Trusted
<1>3. CASE Fails(o)
  <2>1. /\ Transition(ledger, call.op, "failed") /\ At("failed")
        /\ UNCHANGED <<doc, tx, backup, suspect, early>>
    BY <1>0, <1>3 DEF Fails, OnlyLedger, identityVars, counters
  <2> QED BY <1>0, <2>1, AdvanceAgree
<1>4. CASE Ends /\ UNCHANGED <<identityVars, ledger, quarantine, backup, counters>>
  <2>1. UNCHANGED <<doc, tx, ledger, backup, suspect, early>> BY <1>4 DEF identityVars, counters
  <2> QED BY <1>0, <1>4, <2>1, EndsAgree
<1>5. CASE /\ Applied(change) /\ OnlyCall
           /\ call' = [call EXCEPT !.at = "changed", !.seen = doc.marker.sequence,
                                   !.seenAt = doc.reply[change]]
  <2>1. UNCHANGED <<doc, tx, ledger, backup, suspect, early>>
    BY <1>5 DEF OnlyCall, identityVars, counters
  <2>2. doc.marker.sequence \in Nat /\ doc.reply[change] \in Nat
    BY <1>0, <1>1 DEF Document, Marker, Change
  <2>3. /\ call' \in Call /\ call'.op = o /\ call'.at = "changed" /\ call'.kind = call.kind
        /\ call'.seen = doc.marker.sequence /\ call'.rest = call.rest
    BY <1>0, <1>5, <2>2 DEF Call
  <2>4. call' # None BY <2>3, NoCallIsNone
  <2> HIDE DEF o
  <2> QED BY <1>0, <1>1, <1>2, <1>5, <2>1, <2>3, <2>4, SeenAgree
<1>6. CASE /\ ~Applied(change) /\ Follows(change) /\ At("changing")
           /\ Begins("service", WithMarker(Bound(o), change), change)
           /\ UNCHANGED <<ledger, staging, quarantine, backup, counters>>
  <2>1. Bound(o) \in Document /\ Bound(o).marker = doc.marker /\ Bound(o).reply = doc.reply
    <3> DEFINE d == WithPrincipal(doc, u, "user", ledger.op[o].external)
    <3>1. d \in Document BY <1>0, <1>1, Edits
    <3>2. d.marker = doc.marker /\ d.reply = doc.reply BY <1>0 DEF WithPrincipal, Document
    <3>3. \/ Bound(o) = WithOwner(doc, p, u, issued + 1)
          \/ Bound(o) = WithOwner(d, p, u, issued + 1)
      BY DEF Bound
    <3> HIDE DEF d
    <3>4. Bound(o) \in Document BY <1>0, <1>1, <3>1, <3>3, Edits
    <3> QED BY <1>0, <3>1, <3>2, <3>3, <3>4 DEF WithOwner, Document
  <2>2. /\ call'.op = o /\ call'.at = "changing" /\ call'.kind = call.kind
        /\ call'.rest = call.rest /\ call' # None
    BY <1>0, <1>6, CallFields
  <2>3. UNCHANGED <<ledger, backup, suspect, early>> BY <1>6 DEF counters
  <2> HIDE DEF o
  <2> QED BY <1>0, <1>1, <1>2, <1>6, <2>1, <2>2, <2>3, ChangeAgrees
<1> QED BY <1>3, <1>4, <1>5, <1>6 DEF Bind, Answered

LEMMA RevokeAgrees ==
    ASSUME StoreInv, AgreeInv, NEW o \in Op, Revoke(o)
    PROVE  AgreeInv'
<1> DEFINE change == <<o, "revoke">>
           p == ProfileOf(o)
<1>0. /\ doc \in Document /\ ledger \in Ledger /\ State(o) = "completed" /\ tx = None
      /\ call = None /\ Trusted
  BY DEF Revoke, Serving, Trusted, StoreInv, TypeOK, StoresOK, LedgersOK
<1>1. p \in Profile BY <1>0, OperationFields
<1>2. CASE Applied(change)
  <2>1. /\ call' = [kind |-> "revoke", op |-> o, at |-> "changed", rest |-> {},
                    seen |-> doc.marker.sequence, seenAt |-> doc.reply[change]]
        /\ UNCHANGED <<doc, tx, ledger, backup, suspect, early>>
    BY <1>2 DEF Revoke, OnlyCall, identityVars, counters
  <2>2. doc.marker.sequence \in Nat /\ doc.reply[change] \in Nat
    BY <1>0 DEF Document, Marker, Change
  <2>3. call' \in Call BY <2>1, <2>2 DEF Call
  <2>4. call' # None BY <2>3, NoCallIsNone
  <2> QED BY <1>0, <1>2, <2>1, <2>4, SeenAgree
<1>3. CASE ~Applied(change)
  <2>1. PICK after \in {doc, WithoutOwner(doc, p)} :
           Begins("service", WithMarker(after, change), change)
    BY <1>3 DEF Revoke
  <2>2. /\ Follows(change) /\ UNCHANGED <<ledger, backup, suspect, early>>
        /\ call' = [kind |-> "revoke", op |-> o, at |-> "changing", rest |-> {},
                    seen |-> 0, seenAt |-> 0]
    BY <1>3 DEF Revoke, counters
  <2>3. after \in Document /\ after.marker = doc.marker /\ after.reply = doc.reply
    <3>1. CASE after = doc BY <1>0, <3>1
    <3>2. CASE after = WithoutOwner(doc, p) BY <1>0, <1>1, <3>2 DEF WithoutOwner, Document
    <3> QED BY <2>1, <3>1, <3>2
  <2>4. call' \in Call BY <2>2 DEF Call
  <2>5. /\ call' # None /\ call'.op = o /\ call'.at = "changing" /\ call'.kind = "revoke"
        /\ call'.rest = {}
    BY <2>2, <2>4, NoCallIsNone
  <2> QED BY <1>0, <1>3, <2>1, <2>2, <2>3, <2>5, ChangeAgrees
<1> QED BY <1>2, <1>3

\* The commit of a call's change: the identity store is one ahead of the
\* ledger, and of every copy that was level with either.
LEMMA CommitAgrees ==
    ASSUME StoreInv, AgreeInv, ServiceCommits
    PROVE  AgreeInv'
<1>0. /\ tx # None /\ tx.by = "service" /\ doc' = tx.doc /\ tx' = None
      /\ call # None /\ call.at = "changing" /\ call \in Call
      /\ call' = [call EXCEPT !.at = "changed", !.seen = tx.doc.marker.sequence,
                              !.seenAt = tx.doc.generation]
      /\ UNCHANGED <<ledger, backup, suspect, early>>
  <2>1. tx # None /\ tx.by = "service" BY DEF ServiceCommits
  <2>2. call # None /\ call.at = "changing" BY <2>1 DEF StoreInv, ServiceHasACall
  <2>3. call \in Call BY <2>2, CallFields DEF StoreInv, TypeOK, LedgersOK
  <2> QED BY <2>1, <2>2, <2>3 DEF ServiceCommits, Commits, counters
<1>1. tx.doc \in Document /\ tx.doc.marker.sequence \in Nat /\ tx.doc.generation \in Nat
  BY <1>0 DEF StoreInv, TypeOK, StoresOK, Transaction, Document, Marker
<1>2. /\ call'.op = call.op /\ call'.kind = call.kind /\ call'.rest = call.rest
      /\ call'.at = "changed" /\ call'.seen = doc'.marker.sequence
  BY <1>0, <1>1 DEF Call
<1> DEFINE change == ChangeOf(call)
<1>3. /\ call.op \in Op /\ change \in Change
      /\ call.op \notin call.rest /\ \A o \in call.rest : Open(o)
      /\ State(call.op) = (IF call.kind = "revoke" THEN "completed" ELSE "created")
  BY <1>0, CallFields DEF AgreeInv, CallsFit, ChangeOf, ActionOf, Change
<1>4. /\ AppliedIn(doc') = AppliedIn(doc) \cup {change}
      /\ Stamped => /\ doc.marker.sequence >= ledger.stamp.sequence
                    /\ ~early => doc.marker.sequence = ledger.stamp.sequence
                    /\ doc'.marker.sequence = doc.marker.sequence + 1
                    /\ LastIn(doc') = change
      /\ ~Stamped => doc'.marker = doc.marker
  BY <1>0 DEF AgreeInv, TransactionsFit
<1>5. ChangeOf(call') = change /\ (Stamped' <=> Stamped)
  BY <1>0, <1>2 DEF ChangeOf, ActionOf, Stamped
<1> HIDE DEF change
<1>6. CallsFit'
  <2>1. doc'.reply[ChangeOf(call')] # 0 BY <1>3, <1>4, <1>5 DEF AppliedIn
  <2>2. Applied(ChangeOf(call))' BY <2>1 DEF Applied, ChangeOf, ActionOf
  <2> QED BY <1>0, <1>2, <1>3, <2>2 DEF CallsFit, State, Open
<1>7. TransactionsFit' BY <1>0 DEF TransactionsFit
<1>8. /\ ledger.stamp.sequence \in Nat /\ backup.ledger.stamp.sequence \in Nat
      /\ doc.marker.sequence \in Nat /\ backup.doc.marker.sequence \in Nat
  BY NumbersAreNatural
<1>9. /\ LedgerGrew(backup.ledger, ledger) /\ DocumentGrew(backup.doc, doc)
      /\ ~early => LevelCopy(backup.ledger, ledger)
  BY DEF AgreeInv, HistoriesInv, CopiesAreOlder
<1>10. CopiesAreOlder'
  <2>1. LedgerGrew(backup.ledger, ledger)' /\ (~early => LevelCopy(backup.ledger, ledger))'
    BY <1>0, <1>9 DEF LedgerGrew, LevelCopy
  <2>2. DocumentGrew(backup.doc, doc)'
    BY <1>0, <1>4, <1>5, <1>8, <1>9 DEF DocumentGrew
  <2> QED BY <2>1, <2>2 DEF CopiesAreOlder
<1>11. HistoriesMeet'
  <2> SUFFICES ASSUME Stamped
               PROVE  \A l \in {ledger, backup.ledger}, d \in {doc', backup.doc} :
                         Shows(l, d) /\ (~early => Meets(l, d))
    BY <1>0, <1>5 DEF HistoriesMeet
  <2>1. \A l \in {ledger, backup.ledger}, d \in {doc, backup.doc} :
           Shows(l, d) /\ (~early => Meets(l, d))
    BY DEF AgreeInv, HistoriesInv, HistoriesMeet
  <2>2. Shows(ledger, doc') BY <1>4, <1>8, <2>1 DEF Shows
  <2>3. Shows(backup.ledger, doc') BY <1>4, <1>8, <1>9, <2>1 DEF Shows, LedgerGrew
  <2>4. ~early => Meets(ledger, doc') BY <1>4, <1>8, <2>1 DEF Meets
  <2>5. ~early => Meets(backup.ledger, doc')
    BY <1>4, <1>8, <1>9, <2>1 DEF Meets, LedgerGrew, LevelCopy, Stamped
  <2> QED BY <2>1, <2>2, <2>3, <2>4, <2>5
<1>12. LiveFollows' BY <1>0, <1>4, <1>5 DEF LiveFollows, Consecutive
<1>13. UnstampedIsZero' BY <1>0 DEF AgreeInv, HistoriesInv, UnstampedIsZero
<1> QED BY <1>6, <1>7, <1>10, <1>11, <1>12, <1>13 DEF AgreeInv, HistoriesInv

\* The save of what a call changed: the ledger is level with the identity store.
LEMMA ChangedAgrees ==
    ASSUME StoreInv, AgreeInv, SaveChanged
    PROVE  AgreeInv'
<1> DEFINE o == call.op
           action == ActionOf(call)
           change == <<o, action>>
           state == EndOf(action)
<1>0. /\ ledger \in Ledger /\ call \in Call \cup {None}
      /\ call # None /\ call.at = "changed" /\ State(o) # "none"
  BY DEF SaveChanged, StoreInv, TypeOK, LedgersOK, CallsAreKnown
<1>1. /\ call \in Call /\ o \in Op /\ action \in {"bind", "revoke"} /\ change \in Change
      /\ call.kind = "revoke" <=> action = "revoke"
      /\ state \in {"completed", "revoked"} /\ state \in States
      /\ change = ChangeOf(call)
  BY <1>0, CallFields DEF ActionOf, Change, EndOf, States, ChangeOf
<1>2. /\ Transition(WithSeen(ledger), o, state) /\ UNCHANGED <<doc, tx, backup, suspect, early>>
      /\ IF action = "revoke" THEN call' = None ELSE At("next")
  BY DEF SaveChanged, ActionOf, EndOf, OnlyLedger, identityVars, counters
<1>3. /\ WithSeen(ledger) \in Ledger /\ WithSeen(ledger).op = ledger.op
      /\ WithSeen(ledger).admitted = ledger.admitted
      /\ WithSeen(ledger).stamp.continuity = ledger.stamp.continuity
      /\ ~Stamped => WithSeen(ledger) = ledger
      /\ Stamped => WithSeen(ledger).stamp.sequence = Larger(ledger.stamp.sequence, call.seen)
  BY <1>0, <1>1, SeenType
<1>4. OneMoves(o, state) /\ ledger'.stamp = WithSeen(ledger).stamp
  BY <1>0, <1>1, <1>2, <1>3, TransitionMoves
<1>5. /\ State(o) = IF action = "revoke" THEN "completed" ELSE "created"
      /\ Applied(change) /\ o \notin call.rest /\ \A q \in call.rest : Open(q)
      /\ Stamped => call.seen = doc.marker.sequence
  BY <1>0, <1>1 DEF AgreeInv, CallsFit
<1>6. call' = None \/ (/\ call' # None /\ call'.at = "next" /\ call'.op = o /\ call'.rest = call.rest)
  BY <1>0, <1>1, <1>2, CallFields
<1>7. tx' = tx /\ (tx # None => tx.by = "operator")
  BY <1>0, <1>2 DEF StoreInv, ServiceHasACall, TypeOK, StoresOK, Transaction
<1>8. TransactionsFit' BY <1>2, <1>7 DEF AgreeInv, TransactionsFit
<1> HIDE DEF o, action, change, state
<1>9. \A q \in Op : StateIn(ledger', q) = IF q = o THEN state ELSE State(q)
  BY <1>0, <1>1, <1>4, MovedOps DEF StateIn, o
<1>10. CallsFit'
  <2>1. \A q \in call.rest : State(q)' = State(q)
    BY <1>1, <1>5, <1>9, CallFields DEF StateIn, State, Call
  <2> QED BY <1>2, <1>5, <1>6, <2>1 DEF CallsFit, Open
<1>11. \A q \in Op : StateIn(ledger, q) = State(q) BY DEF StateIn, State
<1>12. SettledIn(ledger') = SettledIn(ledger) \cup {change} /\ change \notin SettledIn(ledger)
  <2>0. \A c \in Change : c[1] \in Op /\ c[2] \in {"bind", "revoke"} /\ c = <<c[1], c[2]>>
    BY DEF Change
  <2>1. change[1] = o /\ change[2] = action BY DEF change
  <2>2. change \notin SettledIn(ledger) BY <1>1, <1>5, <1>11, <2>1 DEF SettledIn
  <2>3. ASSUME NEW c \in Change
        PROVE  c \in SettledIn(ledger') <=> c \in SettledIn(ledger) \/ c = change
    <3>1. CASE c[1] # o BY <1>9, <1>11, <2>0, <2>1, <3>1 DEF SettledIn
    <3>2. CASE c[1] = o /\ c[2] = "bind"
      BY <1>1, <1>5, <1>9, <1>11, <2>0, <3>2 DEF SettledIn, EndOf, state, change
    <3>3. CASE c[1] = o /\ c[2] = "revoke"
      BY <1>1, <1>5, <1>9, <1>11, <2>0, <3>3 DEF SettledIn, EndOf, state, change
    <3> QED BY <2>0, <3>1, <3>2, <3>3
  <2> QED BY <1>1, <2>2, <2>3 DEF SettledIn
<1>13. /\ ledger.stamp.sequence \in Nat /\ backup.ledger.stamp.sequence \in Nat
       /\ doc.marker.sequence \in Nat /\ backup.doc.marker.sequence \in Nat
  BY NumbersAreNatural
<1>14. /\ LedgerGrew(backup.ledger, ledger) /\ DocumentGrew(backup.doc, doc)
       /\ ~early => LevelCopy(backup.ledger, ledger)
  BY DEF AgreeInv, HistoriesInv, CopiesAreOlder
<1>15. (Stamped' <=> Stamped) /\ ledger'.stamp.continuity = ledger.stamp.continuity
  BY <1>3, <1>4 DEF Stamped
<1>16. ASSUME ~Stamped PROVE HistoriesInv'
  <2>1. ledger'.stamp.sequence = ledger.stamp.sequence BY <1>3, <1>4, <1>16
  <2>2. CopiesAreOlder'
    BY <1>2, <1>12, <1>14, <1>15, <1>16, <2>1
    DEF CopiesAreOlder, LedgerGrew, LevelCopy, DocumentGrew, Stamped
  <2>3. UnstampedIsZero' BY <1>2, <1>15, <2>1 DEF AgreeInv, HistoriesInv, UnstampedIsZero
  <2> QED BY <1>15, <1>16, <2>2, <2>3 DEF HistoriesInv, HistoriesMeet, LiveFollows
<1>17. ASSUME Stamped PROVE HistoriesInv'
  <2>1. \A l \in {ledger, backup.ledger}, d \in {doc, backup.doc} :
           Shows(l, d) /\ (~early => Meets(l, d))
    BY <1>17 DEF AgreeInv, HistoriesInv, HistoriesMeet
  <2>2. change \in AppliedIn(doc) BY <1>1, <1>5 DEF AppliedIn, Applied
  <2>3. ~early => doc.marker.sequence = ledger.stamp.sequence + 1
    <3>1. ~early => doc.marker.sequence \in {ledger.stamp.sequence, ledger.stamp.sequence + 1}
      BY <1>0, <1>17 DEF AgreeInv, HistoriesInv, LiveFollows, Trusted, Consecutive
    <3> QED BY <1>12, <2>1, <2>2, <3>1 DEF Meets
  <2>4. ~early => SettledIn(ledger') = AppliedIn(doc)
    BY <1>12, <2>1, <2>2, <2>3 DEF Meets
  <2>5. /\ ledger'.stamp.sequence \in Nat
        /\ ledger'.stamp.sequence >= ledger.stamp.sequence
        /\ ledger'.stamp.sequence >= doc.marker.sequence
        /\ ~early => ledger'.stamp.sequence = doc.marker.sequence
    BY <1>3, <1>4, <1>5, <1>13, <1>17, <2>3 DEF Larger
  <2>6. CopiesAreOlder'
    <3>1. LedgerGrew(backup.ledger, ledger)'
      BY <1>2, <1>12, <1>13, <1>14, <1>15, <2>5 DEF LedgerGrew
    <3>2. DocumentGrew(backup.doc, doc)' BY <1>2, <1>14, <1>15 DEF DocumentGrew
    <3>3. ~early => LevelCopy(backup.ledger, ledger)'
      BY <1>2, <1>13, <1>14, <2>3, <2>5 DEF LedgerGrew, LevelCopy
    <3> QED BY <1>2, <3>1, <3>2, <3>3 DEF CopiesAreOlder
  <2>7. HistoriesMeet'
    <3>1. Shows(ledger', doc) BY <1>12, <1>13, <2>1, <2>2, <2>5 DEF Shows
    <3>2. Shows(ledger', backup.doc)
      <4>1. backup.doc.marker.sequence >= ledger'.stamp.sequence =>
               /\ backup.doc.marker.sequence = doc.marker.sequence
               /\ AppliedIn(backup.doc) = AppliedIn(doc)
        BY <1>13, <1>14, <1>17, <2>5 DEF DocumentGrew
      <4> QED BY <3>1, <4>1 DEF Shows
    <3>3. ~early => Meets(ledger', doc) BY <1>13, <2>4, <2>5 DEF Meets
    <3>4. ~early => Meets(ledger', backup.doc)
      BY <1>13, <1>14, <1>17, <2>4, <2>5 DEF Meets, DocumentGrew
    <3> QED BY <1>2, <2>1, <3>1, <3>2, <3>3, <3>4 DEF HistoriesMeet
  <2>8. UnstampedIsZero'
    BY <1>2, <1>15, <1>17 DEF AgreeInv, HistoriesInv, UnstampedIsZero, Stamped
  <2>9. LiveFollows' BY <1>2, <2>5 DEF LiveFollows, Consecutive
  <2> QED BY <2>6, <2>7, <2>8, <2>9 DEF HistoriesInv
<1> QED BY <1>8, <1>10, <1>16, <1>17 DEF AgreeInv

\* Two histories begin: nothing was settled or applied, in the stores or in
\* their copies.
LEMMA InitializeAgrees ==
    ASSUME StoreInv, AgreeInv, Initialize
    PROVE  AgreeInv'
<1> DEFINE l == [ledger EXCEPT !.stamp.continuity = 1 + restores]
<1>0. ledger \in Ledger /\ restores \in Nat /\ ledger.stamp \in Stamp
  BY DEF StoreInv, TypeOK, LedgersOK, Ledger
<1>1. /\ ~Stamped /\ call = None /\ (\A o \in Op : State(o) = "none") /\ doc.marker = NoMarker
      /\ (\A c \in Change : doc.reply[c] = 0) /\ Saves(l)
      /\ UNCHANGED <<doc, tx, suspect, early, call, backup>>
  BY DEF Initialize, OnlyLedger, identityVars, counters
<1>2. /\ l \in Ledger /\ l.op = ledger.op
      /\ l.stamp = [ledger.stamp EXCEPT !.continuity = 1 + restores]
  BY <1>0 DEF Ledger, Stamp
<1> HIDE DEF l
<1>3. ledger'.op = ledger.op /\ ledger'.stamp = l.stamp BY <1>0, <1>1, <1>2, SavesType
<1>4. ledger'.stamp.sequence = ledger.stamp.sequence /\ ledger'.stamp.continuity # 0
  BY <1>0, <1>2, <1>3 DEF Stamp
<1>5. LedgerGrew(backup.ledger, ledger) /\ DocumentGrew(backup.doc, doc) /\ UnstampedIsZero
  BY DEF AgreeInv, HistoriesInv, CopiesAreOlder
<1>6. /\ ledger.stamp.sequence \in Nat /\ backup.ledger.stamp.sequence \in Nat
      /\ doc.marker.sequence \in Nat /\ backup.doc.marker.sequence \in Nat
  BY NumbersAreNatural
<1>7. /\ ledger.stamp.sequence = 0 /\ backup.ledger.stamp.sequence = 0
      /\ backup.ledger.stamp.continuity = 0
      /\ doc.marker.sequence = 0 /\ backup.doc.marker.sequence = 0
  BY <1>1, <1>5, <1>6 DEF LedgerGrew, DocumentGrew, UnstampedIsZero, Stamped, NoMarker
<1>8. /\ SettledIn(ledger) = {} /\ SettledIn(backup.ledger) = {} /\ SettledIn(ledger') = {}
      /\ AppliedIn(doc) = {} /\ AppliedIn(backup.doc) = {}
  <2>1. \A c \in Change : c[1] \in Op BY DEF Change
  <2>2. SettledIn(ledger) = {} BY <1>1, <2>1 DEF SettledIn, StateIn, State
  <2>3. SettledIn(ledger') = {} BY <1>3, <2>2 DEF SettledIn, StateIn
  <2>4. AppliedIn(doc) = {} BY <1>1 DEF AppliedIn
  <2> QED BY <1>5, <2>2, <2>3, <2>4 DEF LedgerGrew, DocumentGrew
<1>9. CopiesAreOlder' BY <1>1, <1>4, <1>7, <1>8 DEF CopiesAreOlder, LedgerGrew, LevelCopy, DocumentGrew
<1>10. UnstampedIsZero' BY <1>1, <1>4, <1>7 DEF UnstampedIsZero
<1>11. HistoriesMeet' BY <1>1, <1>4, <1>7, <1>8 DEF HistoriesMeet, Shows, Meets
<1>12. LiveFollows' BY <1>1, <1>4, <1>7 DEF LiveFollows, Consecutive
<1>13. CallsFit' BY <1>1 DEF CallsFit
<1>14. tx # None => tx.by = "operator"
  BY <1>1 DEF StoreInv, ServiceHasACall, TypeOK, StoresOK, Transaction
<1>15. TransactionsFit' BY <1>1, <1>14 DEF AgreeInv, TransactionsFit
<1> QED BY <1>9, <1>10, <1>11, <1>12, <1>13, <1>15 DEF AgreeInv, HistoriesInv

\* Copies: taken, put back, and checked.
LEMMA CopiesAgree ==
    ASSUME StoreInv, AgreeInv, BackUp \/ Restore \/ Check
    PROVE  AgreeInv'
<1>0. call = None /\ tx = None /\ UNCHANGED <<call, tx>>
  BY DEF BackUp, Restore, Check, identityVars
<1>1. CallsFit' /\ TransactionsFit' BY <1>0 DEF CallsFit, TransactionsFit
<1>2. /\ ledger.stamp.sequence \in Nat /\ backup.ledger.stamp.sequence \in Nat
      /\ doc.marker.sequence \in Nat /\ backup.doc.marker.sequence \in Nat
  BY NumbersAreNatural
<1>3. /\ LedgerGrew(backup.ledger, ledger) /\ DocumentGrew(backup.doc, doc)
      /\ ~early => LevelCopy(backup.ledger, ledger)
      /\ UnstampedIsZero /\ LiveFollows
      /\ Stamped => \A l \in {ledger, backup.ledger}, d \in {doc, backup.doc} :
                       Shows(l, d) /\ (~early => Meets(l, d))
  BY DEF AgreeInv, HistoriesInv, CopiesAreOlder, HistoriesMeet
<1>4. CASE BackUp
  <2>1. backup' = [ledger |-> ledger, doc |-> doc] /\ UNCHANGED <<ledger, doc, suspect, early>>
    BY <1>4 DEF BackUp, identityVars, counters
  <2>2. backup'.ledger = ledger /\ backup'.doc = doc BY <2>1
  <2>3. CopiesAreOlder' BY <1>2, <2>1, <2>2 DEF CopiesAreOlder, LedgerGrew, LevelCopy, DocumentGrew
  <2>4. UnstampedIsZero' BY <1>3, <2>1, <2>2 DEF UnstampedIsZero
  <2>5. HistoriesMeet' BY <1>3, <2>1, <2>2 DEF HistoriesMeet, Stamped
  <2>6. LiveFollows' BY <1>0, <1>3, <2>1 DEF LiveFollows, Trusted, Consecutive, Stamped
  <2> QED BY <1>1, <2>3, <2>4, <2>5, <2>6 DEF AgreeInv, HistoriesInv
<1>5. CASE Restore
  <2>1. /\ ledger' \in {ledger, backup.ledger} /\ doc' \in {doc, backup.doc}
        /\ suspect' = TRUE /\ UNCHANGED <<backup, early>>
    BY <1>5 DEF Restore
  <2>2. Stamped' => Stamped BY <1>3, <2>1 DEF Stamped, LedgerGrew
  <2>3. LedgerGrew(backup.ledger, ledger)' /\ (~early => LevelCopy(backup.ledger, ledger))'
    BY <1>2, <1>3, <2>1 DEF LedgerGrew, LevelCopy
  <2>4. DocumentGrew(backup.doc, doc)' BY <1>2, <1>3, <2>1, <2>2 DEF DocumentGrew
  <2>5. UnstampedIsZero' BY <1>3, <2>1 DEF UnstampedIsZero
  <2>6. HistoriesMeet' BY <1>3, <2>1, <2>2 DEF HistoriesMeet
  <2>7. LiveFollows' BY <1>0, <2>1 DEF LiveFollows, Trusted
  <2> QED BY <1>1, <2>3, <2>4, <2>5, <2>6, <2>7 DEF AgreeInv, HistoriesInv, CopiesAreOlder
<1>6. CASE Check
  <2>1. Continuity /\ UNCHANGED <<ledger, doc, backup, early>> BY <1>6 DEF Check, identityVars
  <2>2. Consecutive BY <2>1, CheckedAreConsecutive
  <2>3. CopiesAreOlder' /\ UnstampedIsZero'
    BY <1>3, <2>1 DEF CopiesAreOlder, LedgerGrew, LevelCopy, DocumentGrew, UnstampedIsZero, Stamped
  <2>4. HistoriesMeet' BY <1>3, <2>1 DEF HistoriesMeet, Stamped
  <2>5. LiveFollows' BY <2>1, <2>2 DEF LiveFollows, Consecutive
  <2> QED BY <1>1, <2>3, <2>4, <2>5 DEF AgreeInv, HistoriesInv
<1> QED BY <1>4, <1>5, <1>6

\* A save of the ledger that is of no operation and of no change.
LEMMA SavesAgree ==
    ASSUME StoreInv, AgreeInv, call = None, UNCHANGED <<doc, tx, call, backup, suspect, early>>,
           NEW l \in Ledger, Saves(l), l.op = ledger.op,
           l.stamp.sequence = ledger.stamp.sequence, l.stamp.continuity = ledger.stamp.continuity
    PROVE  AgreeInv'
<1>0. ledger \in Ledger BY DEF StoreInv, TypeOK, LedgersOK
<1>1. ledger'.op = ledger.op /\ ledger'.stamp = l.stamp BY <1>0, SavesType
<1>2. SettledIn(ledger') = SettledIn(ledger) BY <1>1 DEF SettledIn, StateIn
<1>3. HistoriesInv' BY <1>1, <1>2, HistoriesStay DEF AgreeInv
<1>4. TransactionsFit' BY <1>1, TransactionsStay DEF AgreeInv
<1>5. CallsFit' BY DEF CallsFit
<1> QED BY <1>3, <1>4, <1>5 DEF AgreeInv

\* An operator changes nothing the ledger knows of.
LEMMA OperatorAgrees ==
    ASSUME StoreInv, AgreeInv, OperatorActs \/ OperatorCreates \/ OperatorEnds
    PROVE  AgreeInv'
<1>0. UNCHANGED <<ledger, call, backup, suspect, early>> /\ doc \in Document
  BY DEF OperatorActs, OperatorCreates, OperatorEnds, counters, StoreInv, TypeOK, StoresOK
<1>1. CASE UNCHANGED <<doc, tx>>
  <2>1. CallsFit'
    BY <1>0, <1>1 DEF AgreeInv, CallsFit, State, Open, Applied, Stamped, ChangeOf, ActionOf
  <2> QED BY <1>0, <1>1, <2>1, MovesAgree DEF Trusted
<1>2. CASE OperatorTransaction
  <2>1. PICK after \in Document :
           after.reply = doc.reply /\ after.marker = doc.marker /\ Begins("operator", after, None)
    <3>1. ASSUME NEW u \in Manual, NEW role \in {"user", "operator"}, NEW e \in External \cup {None},
                 CreatePrincipal(u, role, e)
          PROVE  \E after \in Document : /\ after.reply = doc.reply /\ after.marker = doc.marker
                                         /\ Begins("operator", after, None)
      <4> DEFINE after == WithPrincipal(doc, u, role, e)
      <4>0. u \in Principal BY DEF Principal
      <4>1. after \in Document BY <1>0, <4>0 DEF WithPrincipal, Document, PrincipalRecord
      <4>2. after.reply = doc.reply /\ after.marker = doc.marker BY <1>0 DEF WithPrincipal, Document
      <4>3. Begins("operator", after, None) BY <3>1 DEF CreatePrincipal, OperatorBegins
      <4> HIDE DEF after
      <4> QED BY <4>1, <4>2, <4>3
    <3>2. ASSUME NEW u \in Principal, NEW status \in {"active", "suspended"}, SetStatus(u, status)
          PROVE  \E after \in Document : /\ after.reply = doc.reply /\ after.marker = doc.marker
                                         /\ Begins("operator", after, None)
      <4> DEFINE after == WithStatus(doc, u, status)
      <4>1. Known(doc, u) /\ Begins("operator", after, None) BY <3>2 DEF SetStatus, OperatorBegins
      <4>2. doc.principal[u] \in PrincipalRecord BY <1>0, <4>1, DocumentFields DEF Known
      <4>3. after \in Document BY <1>0, <4>2 DEF WithStatus, Document, PrincipalRecord
      <4>4. after.reply = doc.reply /\ after.marker = doc.marker BY <1>0 DEF WithStatus, Document
      <4> HIDE DEF after
      <4> QED BY <4>1, <4>3, <4>4
    <3>3. ASSUME NEW p \in Profile, NEW u \in Principal, AssignOwner(p, u) \/ ReassignOwner(p, u)
          PROVE  \E after \in Document : /\ after.reply = doc.reply /\ after.marker = doc.marker
                                         /\ Begins("operator", after, None)
      <4>0. issued + 1 \in Nat BY DEF StoreInv, TypeOK, StoresOK
      <4>1. PICK after \in {WithOwner(doc, p, u, issued + 1), WithNewOwner(doc, p, u, issued + 1)} :
               Begins("operator", after, None)
        BY <3>3 DEF AssignOwner, ReassignOwner, OperatorBegins
      <4>2. after \in Document BY <1>0, <4>0, <4>1, Edits
      <4>3. after.reply = doc.reply /\ after.marker = doc.marker
        BY <1>0, <4>1 DEF WithOwner, WithNewOwner, Document
      <4> QED BY <4>1, <4>2, <4>3
    <3>4. ASSUME NEW p \in Profile, RemoveProfile(p)
          PROVE  \E after \in Document : /\ after.reply = doc.reply /\ after.marker = doc.marker
                                         /\ Begins("operator", after, None)
      <4> DEFINE after == WithoutOwner(doc, p)
      <4>1. after \in Document /\ after.reply = doc.reply /\ after.marker = doc.marker
        BY <1>0 DEF WithoutOwner, Document
      <4>2. Begins("operator", after, None) BY <3>4 DEF RemoveProfile, OperatorBegins
      <4> HIDE DEF after
      <4> QED BY <4>1, <4>2
    <3> QED BY <1>2, <3>1, <3>2, <3>3, <3>4 DEF OperatorTransaction
  <2>2. /\ tx'.by = "operator" /\ tx' # None /\ UNCHANGED doc
        /\ tx'.doc.marker = doc.marker
    BY <1>0, <2>1, BeginsType, NothingIsNone
  <2>3. tx'.doc.reply = doc.reply
    <3>1. tx'.doc = [after EXCEPT !.generation = doc.generation + 1, !.reply = after.reply]
      BY <2>1 DEF Begins
    <3> QED BY <2>1, <3>1 DEF Document
  <2>4. TransactionsFit' BY <2>2, <2>3 DEF TransactionsFit
  <2>5. CallsFit'
    BY <1>0, <2>2 DEF AgreeInv, CallsFit, State, Open, Applied, Stamped, ChangeOf, ActionOf
  <2>6. HistoriesInv' BY <1>0, <2>2, HistoriesStay DEF AgreeInv, Trusted
  <2> QED BY <2>4, <2>5, <2>6 DEF AgreeInv
<1>3. CASE OperatorEnds
  <2>1. tx # None /\ tx.by = "operator" /\ tx' = None /\ doc' \in {doc, tx.doc}
    BY <1>3 DEF OperatorEnds, Commits
  <2>2. doc'.reply = doc.reply /\ doc'.marker = doc.marker
    BY <2>1 DEF AgreeInv, TransactionsFit
  <2>3. CallsFit'
    BY <1>0, <2>2 DEF AgreeInv, CallsFit, State, Open, Applied, Stamped, ChangeOf, ActionOf
  <2>4. HistoriesInv' BY <1>0, <2>2, HistoriesStay DEF AgreeInv, Trusted
  <2>5. TransactionsFit' BY <2>1 DEF TransactionsFit
  <2> QED BY <2>3, <2>4, <2>5 DEF AgreeInv
<1>4. OperatorCreates => UNCHANGED <<doc, tx>> BY DEF OperatorCreates, CreateProfile, storeVars
<1>5. OperatorActs /\ ~OperatorTransaction => UNCHANGED <<doc, tx>>
  BY DEF OperatorActs, DeleteProfile, storeVars
<1> QED BY <1>1, <1>2, <1>3, <1>4, <1>5

\* A call begins.
LEMMA BeginAgrees ==
    ASSUME StoreInv, AgreeInv, NEW o \in Op, NEW e \in External, NEW p \in Profile, Begin(o, e, p)
    PROVE  AgreeInv'
<1>1. /\ call = None /\ ~suspect /\ UNCHANGED <<doc, tx, backup, suspect, early>>
      /\ call' = [kind |-> "provision", op |-> o, at |-> "next", rest |-> {}, seen |-> 0, seenAt |-> 0]
  BY DEF Begin, Serving, Calls, OnlyLedger, identityVars, counters
<1>2. /\ State(o) = "none" /\ State(o)' = "pending" /\ ledger'.stamp = ledger.stamp
      /\ \A q \in Op \ {o} : ledger'.op[q] = ledger.op[q]
  BY BeginType
<1>3. OneMoves(o, "pending") BY <1>2 DEF OneMoves, State
<1>4. SettledIn(ledger') = SettledIn(ledger) BY <1>2, <1>3, NothingSettles
<1>5. HistoriesInv' BY <1>1, <1>2, <1>4, HistoriesStay DEF AgreeInv, Trusted
<1>6. TransactionsFit' BY <1>1, <1>2, TransactionsStay DEF AgreeInv
<1>7. CallsFit' BY <1>1 DEF CallsFit
<1> QED BY <1>5, <1>6, <1>7 DEF AgreeInv

\* The steps that build a profile, put it in place and record it.
LEMMA BuildAgrees ==
    ASSUME StoreInv, AgreeInv, Stage \/ RenameIn \/ SaveCreated
    PROVE  AgreeInv'
<1>0. call \in Call \cup {None} /\ call # None
  BY DEF StoreInv, TypeOK, LedgersOK, Stage, RenameIn, SaveCreated, Proceeds, Resumes
<1>1. call.at \in {"next", "staged", "renamed", "made"} /\ State(call.op) = "pending"
  BY <1>0 DEF AgreeInv, CallsFit, Stage, RenameIn, SaveCreated, Proceeds, Resumes
<1>2. UNCHANGED <<doc, tx, backup, suspect, early>>
  BY DEF Stage, RenameIn, SaveCreated, Fails, OnlyCall, OnlyLedger, storeVars, identityVars, counters
<1>3. CASE \E state \in {"created", "failed"}, step \in {"failed", "clear", "next"} :
              Transition(ledger, call.op, state) /\ At(step)
  BY <1>0, <1>1, <1>2, <1>3, AdvanceAgree
<1>4. CASE \E step \in {"staged", "renamed", "made"} : At(step) /\ UNCHANGED ledger
  <2>1. /\ call' # None /\ call'.op = call.op /\ call'.rest = call.rest
        /\ call'.at \in {"staged", "renamed", "made"} /\ UNCHANGED ledger
    BY <1>0, <1>4, CallFields
  <2>2. CallsFit' BY <1>0, <1>1, <1>2, <2>1 DEF AgreeInv, CallsFit, State, Open
  <2> QED BY <1>0, <1>1, <1>2, <2>1, <2>2, MovesAgree DEF Trusted
<1>5. Stage => \/ \E step \in {"staged", "made"} : At(step) /\ UNCHANGED ledger
               \/ Transition(ledger, call.op, "failed") /\ At("clear")
  BY <1>1 DEF Stage, Fails, OnlyCall
<1>6. RenameIn => \/ At("renamed") /\ UNCHANGED ledger
                  \/ Transition(ledger, call.op, "failed") /\ At("clear")
  BY DEF RenameIn
<1>7. SaveCreated => \/ Transition(ledger, call.op, "failed") /\ At("clear")
                     \/ Transition(ledger, call.op, "created") /\ At("next")
  BY <1>1 DEF SaveCreated, Fails
<1> QED BY <1>3, <1>4, <1>5, <1>6, <1>7

\* Every step.
LEMMA AgreeNext ==
    ASSUME StoreInv, AgreeInv, [Next]_vars
    PROVE  AgreeInv'
<1>0. call \in Call \cup {None} /\ ledger \in Ledger /\ tx \in Transaction \cup {None}
  BY DEF StoreInv, TypeOK, StoresOK, LedgersOK
<1>1. ASSUME UNCHANGED <<doc, tx, ledger, call, backup, suspect, early>> PROVE AgreeInv'
  <2>1. CallsFit'
    BY <1>1 DEF AgreeInv, CallsFit, State, Open, Applied, Stamped, ChangeOf, ActionOf
  <2> QED BY <1>1, <2>1, MovesAgree DEF Trusted
<1>2. ASSUME NEW o \in Op, Replay(o) PROVE AgreeInv'
  <2>1. /\ call = None /\ ~suspect /\ UNCHANGED <<doc, ledger, tx, backup, suspect, early>>
        /\ call' = [kind |-> "provision", op |-> o, at |-> "next", rest |-> {}, seen |-> 0, seenAt |-> 0]
    BY <1>2 DEF Replay, Serving, Calls, OnlyCall, identityVars, counters
  <2>2. CallsFit' BY <2>1 DEF CallsFit
  <2> QED BY <2>1, <2>2, MovesAgree DEF Trusted
<1>3. CASE Reconcile
  <2>1. PICK o \in {q \in Op : Open(q)} :
           /\ call = None /\ UNCHANGED <<doc, ledger, tx, backup, suspect>>
           /\ call' = [kind |-> "reconcile", op |-> o, at |-> "admit",
                       rest |-> {q \in Op : Open(q)} \ {o}, seen |-> 0, seenAt |-> 0]
    BY <1>3 DEF Reconcile, identityVars
  <2>2. (early => early') /\ (early' \/ ~suspect \/ Continuity) BY <1>3 DEF Reconcile
  <2>3. early' \/ Trusted \/ Consecutive BY <2>2, CheckedAreConsecutive DEF Trusted
  <2>4. CallsFit' BY <2>1 DEF CallsFit, Open, State
  <2> QED BY <2>1, <2>2, <2>3, <2>4, MovesAgree
<1>4. CASE Settled
  <2>1. /\ call # None /\ call.at = "next" /\ Ends
        /\ UNCHANGED <<doc, tx, ledger, backup, suspect, early>>
    BY <1>4 DEF Settled, Resumes, identityVars, counters
  <2> QED BY <2>1, EndsAgree
<1>5. CASE LookAtFailed \/ MoveToQuarantine \/ ClearStaging
  <2>1. /\ call # None /\ call.at \in {"failed", "move", "clear"}
        /\ \E step \in {"move", "clear", "next"} : At(step)
        /\ UNCHANGED <<doc, tx, ledger, backup, suspect, early>>
    BY <1>5 DEF LookAtFailed, MoveToQuarantine, ClearStaging, At, OnlyCall, storeVars, identityVars,
                counters
  <2>2. /\ call' # None /\ call'.op = call.op /\ call'.rest = call.rest
        /\ call'.at \in {"move", "clear", "next"}
    BY <1>0, <2>1, CallFields
  <2>3. CallsFit' BY <2>1, <2>2 DEF AgreeInv, CallsFit, State, Open
  <2> QED BY <2>1, <2>2, <2>3, MovesAgree DEF Trusted
<1>6. CASE ReconcileOne
  <2>1. call # None /\ call.at = "admit" /\ State(call.op) \in {"pending", "created"}
    BY <1>6 DEF ReconcileOne, AgreeInv, CallsFit, Open
  <2>2. CASE Fails(call.op)
    <3>1. /\ Transition(ledger, call.op, "failed")
          /\ \E step \in {"failed", "clear", "next"} : At(step)
          /\ UNCHANGED <<doc, tx, backup, suspect, early>>
      BY <2>2 DEF Fails, OnlyLedger, identityVars, counters
    <3> QED BY <2>1, <3>1, AdvanceAgree
  <2>3. CASE At("next") /\ OnlyCall
    <3>1. /\ call' # None /\ call'.op = call.op /\ call'.rest = call.rest /\ call'.at = "next"
          /\ UNCHANGED <<doc, tx, ledger, backup, suspect, early>>
      BY <1>0, <2>1, <2>3, CallFields DEF OnlyCall, identityVars, counters
    <3>2. CallsFit' BY <2>1, <3>1 DEF AgreeInv, CallsFit, State, Open
    <3> QED BY <2>1, <3>1, <3>2, MovesAgree DEF Trusted
  <2> QED BY <1>6, <2>2, <2>3 DEF ReconcileOne
<1>7. CASE Cut
  <2>1. /\ call' = None /\ UNCHANGED <<doc, ledger, backup, suspect, early>>
        /\ tx' = None \/ (tx' = tx /\ tx.by # "service")
    BY <1>7 DEF Cut
  <2>2. CallsFit' BY <2>1 DEF CallsFit
  <2>3. HistoriesInv' BY <2>1, HistoriesStay DEF AgreeInv
  <2>4. TransactionsFit' BY <2>1 DEF AgreeInv, TransactionsFit
  <2> QED BY <2>2, <2>3, <2>4 DEF AgreeInv
<1>8. CASE AuditIsWritten
  <2>1. /\ tx # None /\ tx' = [tx EXCEPT !.audited = TRUE]
        /\ UNCHANGED <<doc, ledger, call, backup, suspect, early>>
    BY <1>8 DEF AuditIsWritten, WriteAudit, counters
  <2>2. tx'.doc = tx.doc /\ tx'.by = tx.by BY <1>0, <2>1 DEF Transaction
  <2>3. CallsFit'
    BY <2>1 DEF AgreeInv, CallsFit, State, Open, Applied, Stamped, ChangeOf, ActionOf
  <2>4. HistoriesInv' BY <2>1, HistoriesStay DEF AgreeInv, Trusted
  <2>5. TransactionsFit'
    BY <2>1, <2>2 DEF AgreeInv, TransactionsFit, AppliedIn, Stamped, ChangeOf, ActionOf
  <2> QED BY <2>3, <2>4, <2>5 DEF AgreeInv
<1>9. ASSUME NEW admitted \in BOOLEAN, SetAdmitted(admitted) PROVE AgreeInv'
  <2> DEFINE l == [ledger EXCEPT !.admitted = admitted]
  <2>1. /\ call = None /\ Saves(l) /\ UNCHANGED <<doc, tx, call, backup, suspect, early>>
    BY <1>9 DEF SetAdmitted, identityVars
  <2>2. l \in Ledger /\ l.op = ledger.op /\ l.stamp = ledger.stamp BY <1>0 DEF Ledger
  <2> HIDE DEF l
  <2> QED BY <2>1, <2>2, SavesAgree
<1>10. CASE Retire
  <2> DEFINE l == [ledger EXCEPT !.stamp.retired = TRUE]
  <2>1. /\ call = None /\ Saves(l) /\ UNCHANGED <<doc, tx, call, backup, suspect, early>>
    BY <1>10 DEF Retire, identityVars
  <2>2. /\ l \in Ledger /\ l.op = ledger.op /\ l.stamp.sequence = ledger.stamp.sequence
        /\ l.stamp.continuity = ledger.stamp.continuity
    BY <1>0 DEF Ledger, Stamp
  <2> HIDE DEF l
  <2> QED BY <2>1, <2>2, SavesAgree
<1>11. Rest \/ UNCHANGED vars => UNCHANGED <<doc, tx, ledger, call, backup, suspect, early>>
  BY DEF Rest, vars, identityVars, counters
<1> QED
  BY <1>1, <1>2, <1>3, <1>4, <1>5, <1>6, <1>7, <1>8, <1>9, <1>10, <1>11,
     BeginAgrees, BuildAgrees, BindAgrees, RevokeAgrees, CommitAgrees, ChangedAgrees,
     InitializeAgrees, CopiesAgree, OperatorAgrees
  DEF Next, Service

LEMMA AgreeInit == Init => AgreeInv
<1> SUFFICES ASSUME Init PROVE AgreeInv OBVIOUS
<1>1. /\ doc = EmptyDoc /\ backup = [ledger |-> EmptyLedger, doc |-> EmptyDoc] /\ tx = None
      /\ call = None /\ ledger = EmptyLedger
  BY DEF Init, IdentityInit
<1>2. /\ ledger.stamp.continuity = 0 /\ ledger.stamp.sequence = 0 /\ doc.marker.sequence = 0
      /\ backup.ledger = ledger /\ backup.doc = doc
  BY <1>1 DEF EmptyLedger, NoStamp, EmptyDoc, NoMarker
<1>3. CopiesAreOlder BY <1>2 DEF CopiesAreOlder, LedgerGrew, LevelCopy, DocumentGrew
<1>4. UnstampedIsZero /\ HistoriesMeet /\ LiveFollows
  BY <1>2 DEF UnstampedIsZero, HistoriesMeet, LiveFollows, Stamped
<1> QED BY <1>1, <1>3, <1>4 DEF AgreeInv, HistoriesInv, CallsFit, TransactionsFit

\* Two stores that pass the check tell the same history, whatever operators did
\* and whichever copies were put back: the identity store always applied what the
\* ledger shows, and the ledger shows what it applied unless somebody reconciled
\* restored copies that the check refused (section 5 of the README has what such
\* a reconciliation leaves).
THEOREM ContinuityIsAgreement == Spec => []ContinuityMeansAgreement
<1>1. Init => StoreInv /\ AgreeInv BY StoreInit, AgreeInit
<1>2. (StoreInv /\ AgreeInv) /\ [Next]_vars => (StoreInv /\ AgreeInv)' BY StoreNext, AgreeNext
<1>3. StoreInv /\ AgreeInv => ContinuityMeansAgreement BY AgreementFollows
<1> QED BY <1>1, <1>2, <1>3, PTL DEF Spec
=============================================================================
