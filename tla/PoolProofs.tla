----------------------------- MODULE PoolProofs -----------------------------
(***************************************************************************)
(* What is shared stays within its limits: the slots and the budget of the *)
(* workers a run delegates to (WorkerPool), and the tokens it may generate *)
(* (OutputPool), for any number of runs, profiles and workers.             *)
(***************************************************************************)
EXTENDS WorkerPool, OutputPool, FiniteSetTheorems, TLAPS

-----------------------------------------------------------------------------
(***************************************************************************)
(* Sums of natural numbers, counted (Tally).                               *)
(***************************************************************************)

LEMMA TallyType ==
    ASSUME NEW S, IsFiniteSet(S), NEW f, \A x \in S : f[x] \in Nat
    PROVE  IsFiniteSet(Units(f, S)) /\ Tally(f, S) \in Nat
<1> DEFINE Row == [x \in S |-> {x} \X (1..f[x])]
           Rows == {{x} \X (1..f[x]) : x \in S}
<1>1. Row \in Surjection(S, Rows)
  BY DEF Surjection
<1>2. IsFiniteSet(Rows)
  <2> HIDE DEF Row, Rows
  <2> QED
    BY <1>1, FS_Surjection
<1>3. ASSUME NEW T \in Rows PROVE IsFiniteSet(T)
  <2>1. PICK x \in S : T = {x} \X (1..f[x])
    OBVIOUS
  <2>2. IsFiniteSet({x})
    BY FS_Singleton
  <2>3. IsFiniteSet(1..f[x])
    <3>1. 1 \in Int /\ f[x] \in Int
      OBVIOUS
    <3> QED
      BY <3>1, FS_Interval
  <2> QED
    BY <2>1, <2>2, <2>3, FS_Product
<1>4. IsFiniteSet(UNION Rows)
  <2> HIDE DEF Rows
  <2> QED
    BY <1>2, <1>3, FS_UNION
<1> QED
  BY <1>4, FS_CardinalityType DEF Units, Tally

LEMMA TallySame ==
    ASSUME NEW S, NEW f, NEW g, \A x \in S : f[x] = g[x]
    PROVE  Tally(f, S) = Tally(g, S)
<1>1. Units(f, S) = Units(g, S)
  BY DEF Units
<1> QED
  BY <1>1 DEF Tally

\* One element apart.
LEMMA TallySplit ==
    ASSUME NEW S, IsFiniteSet(S), NEW f, \A x \in S : f[x] \in Nat, NEW x \in S
    PROVE  /\ Tally(f, S \ {x}) \in Nat
           /\ Tally(f, S) = Tally(f, S \ {x}) + f[x]
<1> DEFINE Row == {x} \X (1..f[x])
           Others == Units(f, S \ {x})
<1>1. IsFiniteSet(S \ {x})
  BY FS_RemoveElement
<1>2. IsFiniteSet(Others) /\ Cardinality(Others) = Tally(f, S \ {x}) /\ Tally(f, S \ {x}) \in Nat
  BY <1>1, TallyType DEF Tally
<1>3. IsFiniteSet(Row) /\ Cardinality(Row) = f[x]
  <2>1. f[x] \in Nat /\ IsFiniteSet({x}) /\ Cardinality({x}) = 1
    BY FS_Singleton
  <2>2. IsFiniteSet(1..f[x]) /\ Cardinality(1..f[x]) = f[x]
    <3>1. 1 \in Int /\ f[x] \in Int
      BY <2>1
    <3> QED
      BY <2>1, <3>1, FS_Interval
  <2>3. IsFiniteSet(Row) /\ Cardinality(Row) = Cardinality({x}) * Cardinality(1..f[x])
    BY <2>1, <2>2, FS_Product
  <2> QED
    BY <2>1, <2>2, <2>3
<1>4. Units(f, S) = Others \cup Row
  BY DEF Units
<1>5. Others \cap Row = {}
  BY DEF Units
<1>6. Cardinality(Others \cup Row) = Cardinality(Others) + Cardinality(Row)
  <2> HIDE DEF Row, Others
  <2>1. Cardinality(Others \cup Row)
            = Cardinality(Others) + Cardinality(Row) - Cardinality(Others \cap Row)
    BY <1>2, <1>3, FS_Union
  <2>2. Cardinality(Others \cap Row) = 0
    BY <1>5, FS_EmptySet
  <2> QED
    BY <2>1, <2>2, <1>2, <1>3
<1> QED
  BY <1>2, <1>3, <1>4, <1>6 DEF Tally

\* What changing one number does to the sum.
LEMMA TallyChange ==
    ASSUME NEW S, IsFiniteSet(S), NEW f, NEW g, NEW x \in S,
           \A y \in S : f[y] \in Nat /\ g[y] \in Nat,
           \A y \in S \ {x} : g[y] = f[y]
    PROVE  /\ Tally(f, S) \in Nat /\ Tally(g, S) \in Nat
           /\ Tally(g, S) + f[x] = Tally(f, S) + g[x]
<1>1. Tally(g, S \ {x}) = Tally(f, S \ {x})
  BY TallySame
<1>2. /\ Tally(f, S \ {x}) \in Nat /\ Tally(f, S) = Tally(f, S \ {x}) + f[x]
      /\ Tally(g, S \ {x}) \in Nat /\ Tally(g, S) = Tally(g, S \ {x}) + g[x]
  BY TallySplit
<1> QED
  BY <1>1, <1>2

\* No number is more than the sum, and a larger one makes it no smaller.
LEMMA TallyMonotone ==
    ASSUME NEW S, IsFiniteSet(S), NEW f, NEW g,
           \A x \in S : f[x] \in Nat /\ g[x] \in Nat /\ f[x] <= g[x]
    PROVE  Tally(f, S) <= Tally(g, S)
<1>1. IsFiniteSet(Units(g, S))
  BY TallyType
<1>2. Units(f, S) \subseteq Units(g, S)
  <2> SUFFICES ASSUME NEW x \in S, NEW i \in 1..f[x] PROVE i \in 1..g[x]
    BY DEF Units
  <2> QED
    OBVIOUS
<1> QED
  BY <1>1, <1>2, FS_Subset DEF Tally

LEMMA TallyZero ==
    ASSUME NEW S, NEW f, \A x \in S : f[x] = 0
    PROVE  Tally(f, S) = 0
<1>1. Units(f, S) = {}
  BY DEF Units
<1> QED
  BY <1>1, FS_EmptySet DEF Tally

-----------------------------------------------------------------------------
(***************************************************************************)
(* The slots of workers.                                                   *)
(***************************************************************************)

SlotType ==
    /\ stage \in [WORKER -> Stage] /\ byLead \in [WORKER -> BOOLEAN]
    /\ kept \in [WORKER -> SUBSET Semaphore] /\ held \in [WORKER -> SUBSET Semaphore]

\* No more permits of a semaphore are out than it has.
PermitsStayWithin ==
    \A s \in Semaphore : Cardinality(Holders(s)) + Cardinality(Owners(s)) <= Capacity(s)

\* What a worker has of the semaphores, at each place of admit and after it.
FitsStage(w) ==
    /\ stage[w] \in {"idle", "parked", "trying"} => kept[w] = {}
    /\ stage[w] = "tryingGlobal" => kept[w] \subseteq {Slot(w)}
    /\ stage[w] = "global" => held[w] = {Slot(w)}
    /\ Working(w) => held[w] = Both(w)
PermitsFitStage == \A w \in WORKER : FitsStage(w)

SlotInv == SlotType /\ PermitsStayWithin /\ PermitsFitStage

LEMMA SlotsOfWorkers ==
    ASSUME NEW w \in WORKER
    PROVE  /\ Slot(w) \in PROFILE /\ Slot(w) # "global"
           /\ Both(w) \in SUBSET Semaphore /\ {Slot(w)} \in SUBSET Semaphore
BY PoolAssumption DEF Slot, Both, Semaphore

LEMMA PermitSetsAreFinite ==
    ASSUME NEW s
    PROVE  /\ IsFiniteSet(Holders(s)) /\ Cardinality(Holders(s)) \in Nat
           /\ IsFiniteSet(Owners(s)) /\ Cardinality(Owners(s)) \in Nat
BY PoolAssumption, FS_Subset, FS_CardinalityType DEF Holders, Owners

LEMMA CapacityType == ASSUME NEW s PROVE Capacity(s) \in Nat
BY PoolAssumption DEF Capacity

\* Giving permits back never exceeds a capacity.
LEMMA FewerPermits ==
    ASSUME PermitsStayWithin, NEW s \in Semaphore,
           Holders(s)' \subseteq Holders(s), Owners(s)' \subseteq Owners(s)
    PROVE  (Cardinality(Holders(s)) + Cardinality(Owners(s)) <= Capacity(s))'
<1>1. /\ Cardinality(Holders(s)') \in Nat /\ Cardinality(Holders(s)') <= Cardinality(Holders(s))
      /\ Cardinality(Owners(s)') \in Nat /\ Cardinality(Owners(s)') <= Cardinality(Owners(s))
  BY PermitSetsAreFinite, FS_Subset, FS_CardinalityType
<1>2. /\ Cardinality(Holders(s)) \in Nat /\ Cardinality(Owners(s)) \in Nat
      /\ Cardinality(Holders(s)) + Cardinality(Owners(s)) <= Capacity(s)
      /\ Capacity(s) \in Nat
  BY PermitSetsAreFinite, CapacityType DEF PermitsStayWithin
<1>3. Cardinality(Holders(s)') + Cardinality(Owners(s)') <= Capacity(s)
  BY <1>1, <1>2
<1> QED
  BY <1>3 DEF Capacity

\* What a worker may come to keep and hold: one more permit of a semaphore only
\* if one is free, or the one it kept moved to what it holds.
MayHave(w, K, H) ==
    \A s \in Semaphore :
        \/ (s \in K => s \in kept[w]) /\ (s \in H => s \in held[w])
        \/ s \notin K /\ s \in kept[w]
        \/ Free(s) /\ ((s \in K => s \in kept[w]) \/ (s \in H => s \in held[w]))

LEMMA PermitsOfOne ==
    ASSUME SlotType, PermitsStayWithin, NEW w \in WORKER, NEW K, NEW H,
           kept' = [kept EXCEPT ![w] = K], held' = [held EXCEPT ![w] = H],
           MayHave(w, K, H)
    PROVE  PermitsStayWithin'
<1> SUFFICES ASSUME NEW s \in Semaphore
             PROVE  (Cardinality(Holders(s)) + Cardinality(Owners(s)) <= Capacity(s))'
  BY DEF PermitsStayWithin
<1> DEFINE Keeps == Holders(s)
           Has == Owners(s)
<1>1. /\ Keeps' = IF s \in K THEN Keeps \cup {w} ELSE Keeps \ {w}
      /\ Has' = IF s \in H THEN Has \cup {w} ELSE Has \ {w}
      /\ w \in Keeps <=> s \in kept[w]
      /\ w \in Has <=> s \in held[w]
  BY DEF SlotType, Holders, Owners
<1>2. /\ Cardinality(Keeps') =
             IF s \in K THEN IF w \in Keeps THEN Cardinality(Keeps) ELSE Cardinality(Keeps) + 1
             ELSE IF w \in Keeps THEN Cardinality(Keeps) - 1 ELSE Cardinality(Keeps)
      /\ Cardinality(Has') =
             IF s \in H THEN IF w \in Has THEN Cardinality(Has) ELSE Cardinality(Has) + 1
             ELSE IF w \in Has THEN Cardinality(Has) - 1 ELSE Cardinality(Has)
  <2>1. IsFiniteSet(Keeps) /\ IsFiniteSet(Has)
    BY PermitSetsAreFinite
  <2> HIDE DEF Keeps, Has
  <2>2. /\ Cardinality(Keeps \cup {w}) = IF w \in Keeps THEN Cardinality(Keeps) ELSE Cardinality(Keeps) + 1
        /\ Cardinality(Has \cup {w}) = IF w \in Has THEN Cardinality(Has) ELSE Cardinality(Has) + 1
    BY <2>1, FS_AddElement
  <2>3. /\ Cardinality(Keeps \ {w}) = IF w \in Keeps THEN Cardinality(Keeps) - 1 ELSE Cardinality(Keeps)
        /\ Cardinality(Has \ {w}) = IF w \in Has THEN Cardinality(Has) - 1 ELSE Cardinality(Has)
    BY <2>1, FS_RemoveElement
  <2> QED
    BY <1>1, <2>2, <2>3
<1>3. /\ Cardinality(Keeps) \in Nat /\ Cardinality(Has) \in Nat
      /\ Capacity(s) \in Nat /\ Capacity(s)' = Capacity(s)
      /\ Cardinality(Keeps) + Cardinality(Has) <= Capacity(s)
      /\ Free(s) => Cardinality(Keeps) + Cardinality(Has) < Capacity(s)
  BY PermitSetsAreFinite, CapacityType DEF PermitsStayWithin, Free, Capacity
<1> HIDE DEF Keeps, Has
<1>4. CASE (s \in K => s \in kept[w]) /\ (s \in H => s \in held[w])
  BY <1>1, <1>2, <1>3, <1>4 DEF Keeps, Has
<1>5. CASE s \notin K /\ s \in kept[w]
  BY <1>1, <1>2, <1>3, <1>5 DEF Keeps, Has
<1>6. CASE Free(s) /\ ((s \in K => s \in kept[w]) \/ (s \in H => s \in held[w]))
  BY <1>1, <1>2, <1>3, <1>6 DEF Keeps, Has
<1> QED
  BY <1>4, <1>5, <1>6 DEF MayHave

LEMMA GivingBack ==
    ASSUME SlotType, PermitsStayWithin, NEW gone, GivesBack(gone)
    PROVE  /\ PermitsStayWithin'
           /\ kept' \in [WORKER -> SUBSET Semaphore] /\ held' \in [WORKER -> SUBSET Semaphore]
           /\ \A w \in WORKER \ gone : kept'[w] = kept[w] /\ held'[w] = held[w]
           /\ \A w \in WORKER \cap gone : kept'[w] = {} /\ held'[w] = {}
<1>1. ASSUME NEW w \in WORKER
      PROVE  /\ kept'[w] = IF w \in gone THEN {} ELSE kept[w]
             /\ held'[w] = IF w \in gone THEN {} ELSE held[w]
  BY DEF GivesBack
<1>2. ASSUME NEW s \in Semaphore
      PROVE  Holders(s)' \subseteq Holders(s) /\ Owners(s)' \subseteq Owners(s)
  BY <1>1 DEF Holders, Owners
<1>3. kept' \in [WORKER -> SUBSET Semaphore] /\ held' \in [WORKER -> SUBSET Semaphore]
  BY DEF GivesBack, SlotType
<1> QED
  BY <1>1, <1>2, <1>3, FewerPermits DEF PermitsStayWithin

LEMMA SlotInit == Init => SlotInv
<1> SUFFICES ASSUME Init PROVE SlotInv
  OBVIOUS
<1>1. SlotType
  BY PoolAssumption DEF Init, SlotType, Stage
<1>2. PermitsFitStage
  BY <1>1 DEF Init, SlotType, PermitsFitStage, FitsStage, Working
<1>3. ASSUME NEW s \in Semaphore
      PROVE  Cardinality(Holders(s)) + Cardinality(Owners(s)) <= Capacity(s)
  <2>1. Holders(s) = {} /\ Owners(s) = {}
    BY DEF Init, Holders, Owners
  <2>2. Cardinality(Holders(s)) = 0 /\ Cardinality(Owners(s)) = 0
    BY <2>1, FS_EmptySet
  <2> QED
    BY <2>2, CapacityType
<1> QED
  BY <1>1, <1>2, <1>3 DEF SlotInv, PermitsStayWithin

\* A worker that moves leaves the others where they are.
LEMMA MovesOne ==
    ASSUME SlotType, NEW w \in WORKER, NEW from, NEW to \in Stage, Go(w, from, to)
    PROVE  /\ stage' \in [WORKER -> Stage]
           /\ stage[w] = from /\ stage'[w] = to
           /\ \A v \in WORKER \ {w} : stage'[v] = stage[v]
BY DEF SlotType, Go

\* Those that are over need nothing any more.
LEMMA SlotsOfTheGone ==
    ASSUME SlotInv, NEW gone, GivesBack(gone), UNCHANGED byLead,
           stage' \in [WORKER -> Stage],
           \A v \in WORKER \ gone : stage'[v] = stage[v],
           \A v \in WORKER \cap gone : stage'[v] \in {"over", "parked"}
    PROVE  SlotInv'
<1> USE DEF SlotInv
<1>1. /\ PermitsStayWithin' /\ SlotType'
      /\ \A v \in WORKER \ gone : kept'[v] = kept[v] /\ held'[v] = held[v]
      /\ \A v \in WORKER \cap gone : kept'[v] = {} /\ held'[v] = {}
  BY GivingBack DEF SlotType
<1>2. ASSUME NEW v \in WORKER
      PROVE  FitsStage(v)'
  <2>1. CASE v \in gone
    BY <1>1, <2>1 DEF FitsStage, Working
  <2>2. CASE v \notin gone
    BY <1>1, <2>2 DEF PermitsFitStage, FitsStage, Working, Slot, Both
  <2> QED
    BY <2>1, <2>2
<1> QED
  BY <1>1, <1>2 DEF PermitsFitStage

\* One worker moves; the others have what they had.
LEMMA SlotsOfTheOthers ==
    ASSUME SlotInv, NEW w \in WORKER, NEW K \in SUBSET Semaphore, NEW H \in SUBSET Semaphore,
           kept' = [kept EXCEPT ![w] = K], held' = [held EXCEPT ![w] = H],
           MayHave(w, K, H),
           byLead' \in [WORKER -> BOOLEAN], stage' \in [WORKER -> Stage],
           \A v \in WORKER \ {w} : stage'[v] = stage[v] /\ byLead'[v] = byLead[v],
           FitsStage(w)'
    PROVE  SlotInv'
<1> USE DEF SlotInv
<1>1. PermitsStayWithin'
  BY PermitsOfOne
<1>2. SlotType'
  BY DEF SlotType
<1>3. PermitsFitStage'
  <2> SUFFICES ASSUME NEW v \in WORKER
               PROVE  FitsStage(v)'
    BY DEF PermitsFitStage
  <2>1. CASE v = w
    BY <2>1
  <2>2. CASE v # w
    BY <2>2 DEF SlotType, PermitsFitStage, FitsStage, Working, Slot, Both
  <2> QED
    BY <2>1, <2>2
<1> QED
  BY <1>1, <1>2, <1>3

\* A worker that moves with what it has.
LEMMA SlotsStay ==
    ASSUME SlotInv, NEW w \in WORKER, UNCHANGED <<kept, held>>,
           byLead' \in [WORKER -> BOOLEAN], stage' \in [WORKER -> Stage],
           \A v \in WORKER \ {w} : stage'[v] = stage[v] /\ byLead'[v] = byLead[v],
           FitsStage(w)'
    PROVE  SlotInv'
<1>1. /\ kept' = [kept EXCEPT ![w] = kept[w]] /\ held' = [held EXCEPT ![w] = held[w]]
      /\ kept[w] \in SUBSET Semaphore /\ held[w] \in SUBSET Semaphore
  BY DEF SlotInv, SlotType
<1>2. MayHave(w, kept[w], held[w])
  BY DEF MayHave
<1> QED
  BY <1>1, <1>2, SlotsOfTheOthers

LEMMA TriedIsFree ==
    ASSUME SlotType, NEW w \in WORKER, NEW s \in Semaphore
    PROVE  /\ Tried(w, s) \in SUBSET Semaphore
           /\ kept[w] \subseteq Tried(w, s) /\ Tried(w, s) \subseteq kept[w] \cup {s}
           /\ s \in Tried(w, s) => s \in kept[w] \/ Free(s)
BY DEF SlotType, Tried

LEMMA AdmissionKeepsSlots ==
    ASSUME SlotInv, NEW w \in WORKER, Admit(w)
    PROVE  SlotInv'
<1> USE DEF SlotInv
<1>s. /\ Slot(w) \in Semaphore /\ "global" \in Semaphore /\ Slot(w) # "global"
      /\ Both(w) = {Slot(w), "global"} /\ Both(w) \in SUBSET Semaphore
      /\ kept[w] \in SUBSET Semaphore /\ held[w] \in SUBSET Semaphore
  BY SlotsOfWorkers DEF Semaphore, Both, SlotType
<1>1. CASE TryProfile(w)
  <2>1. /\ stage' \in [WORKER -> Stage] /\ stage[w] = "trying" /\ stage'[w] = "tryingGlobal"
        /\ \A v \in WORKER \ {w} : stage'[v] = stage[v]
    BY <1>1, MovesOne DEF TryProfile, Stage, Active
  <2>2. kept' = [kept EXCEPT ![w] = Tried(w, Slot(w))] /\ held' = [held EXCEPT ![w] = held[w]]
        /\ byLead' = byLead
    BY <1>1 DEF TryProfile, SlotType
  <2>3. kept[w] = {}
    BY <2>1 DEF PermitsFitStage, FitsStage
  <2>4. Tried(w, Slot(w)) \subseteq {Slot(w)} /\ Tried(w, Slot(w)) \in SUBSET Semaphore
        /\ (Slot(w) \in Tried(w, Slot(w)) => Free(Slot(w)))
    BY <1>s, <2>3, TriedIsFree
  <2>5. byLead' \in [WORKER -> BOOLEAN] /\ ~Working(w)'
    BY <2>1, <2>2 DEF SlotType, Working
  <2>6. MayHave(w, Tried(w, Slot(w)), held[w])
    BY <1>s, <2>4 DEF MayHave
  <2>7. FitsStage(w)'
    BY <2>1, <2>2, <2>4, <2>5 DEF FitsStage, SlotType, Slot
  <2> QED
    BY <1>s, <2>1, <2>2, <2>4, <2>5, <2>6, <2>7, SlotsOfTheOthers
<1>2. CASE TryGlobal(w)
  <2> DEFINE got == Tried(w, "global")
  <2>1. kept[w] \subseteq {Slot(w)} /\ stage[w] = "tryingGlobal"
    BY <1>2 DEF TryGlobal, Go, PermitsFitStage, FitsStage
  <2>2. /\ got \in SUBSET Semaphore /\ got \subseteq kept[w] \cup {"global"}
        /\ "global" \in got => Free("global")
    BY <1>s, <2>1, TriedIsFree
  <2>3. byLead' = byLead /\ byLead' \in [WORKER -> BOOLEAN]
    BY <1>2 DEF TryGlobal, SlotType
  <2> HIDE DEF got
  <2>4. CASE got = Both(w)
    <3>1. /\ stage' \in [WORKER -> Stage] /\ stage'[w] = "admitted"
          /\ \A v \in WORKER \ {w} : stage'[v] = stage[v]
      BY <1>2, <2>4, MovesOne DEF TryGlobal, got, Stage, Active
    <3>2. kept' = [kept EXCEPT ![w] = {}] /\ held' = [held EXCEPT ![w] = Both(w)]
      BY <1>2, <2>4 DEF TryGlobal, got
    <3>3. Slot(w) \in kept[w] /\ Free("global")
      BY <1>s, <2>2, <2>4
    <3>4. MayHave(w, {}, Both(w))
      BY <1>s, <3>3 DEF MayHave
    <3>5. FitsStage(w)'
      BY <3>1, <3>2 DEF FitsStage, SlotType, Slot, Both
    <3> QED
      BY <1>s, <2>3, <3>1, <3>2, <3>4, <3>5, SlotsOfTheOthers
  <2>5. CASE got # Both(w)
    <3>1. /\ stage' \in [WORKER -> Stage] /\ stage'[w] = "profile"
          /\ \A v \in WORKER \ {w} : stage'[v] = stage[v]
      BY <1>2, <2>5, MovesOne DEF TryGlobal, got, Stage, Active, Waiting
    <3>2. kept' = [kept EXCEPT ![w] = got] /\ held' = [held EXCEPT ![w] = held[w]]
      BY <1>2, <2>5 DEF TryGlobal, got, SlotType
    <3>3. ~Working(w)'
      BY <3>1 DEF Working
    <3>4. MayHave(w, got, held[w])
      BY <1>s, <2>2 DEF MayHave
    <3>5. FitsStage(w)'
      BY <3>1, <3>3 DEF FitsStage
    <3> QED
      BY <1>s, <2>2, <2>3, <3>1, <3>2, <3>4, <3>5, SlotsOfTheOthers
  <2> QED
    BY <2>4, <2>5
<1>3. CASE TakeProfile(w)
  <2>1. /\ stage' \in [WORKER -> Stage] /\ stage'[w] = "global"
        /\ \A v \in WORKER \ {w} : stage'[v] = stage[v]
    BY <1>3, MovesOne DEF TakeProfile, Stage, Active, Waiting
  <2>2. /\ kept' = [kept EXCEPT ![w] = kept[w]] /\ held' = [held EXCEPT ![w] = {Slot(w)}]
        /\ byLead' = byLead /\ byLead' \in [WORKER -> BOOLEAN] /\ Free(Slot(w))
    BY <1>3 DEF TakeProfile, SlotType, IsNext
  <2>3. ~Working(w)'
    BY <2>1 DEF Working
  <2>4. {Slot(w)} \in SUBSET Semaphore
    BY <1>s
  <2>5. MayHave(w, kept[w], {Slot(w)})
    BY <1>s, <2>2 DEF MayHave
  <2>6. FitsStage(w)'
    BY <2>1, <2>2, <2>3 DEF FitsStage, SlotType, Slot
  <2> QED
    BY <1>s, <2>1, <2>2, <2>4, <2>5, <2>6, SlotsOfTheOthers
<1>4. CASE TakeGlobal(w)
  <2>1. /\ stage' \in [WORKER -> Stage] /\ stage[w] = "global" /\ stage'[w] = "admitted"
        /\ \A v \in WORKER \ {w} : stage'[v] = stage[v]
    BY <1>4, MovesOne DEF TakeGlobal, Stage, Active
  <2>2. /\ kept' = [kept EXCEPT ![w] = {}] /\ held' = [held EXCEPT ![w] = Both(w)]
        /\ byLead' = byLead /\ byLead' \in [WORKER -> BOOLEAN] /\ Free("global")
    BY <1>4 DEF TakeGlobal, SlotType, IsNext
  <2>3. held[w] = {Slot(w)}
    BY <2>1 DEF PermitsFitStage, FitsStage
  <2>4. MayHave(w, {}, Both(w))
    BY <1>s, <2>2, <2>3 DEF MayHave
  <2>5. FitsStage(w)'
    BY <2>1, <2>2 DEF FitsStage, SlotType, Slot, Both
  <2> QED
    BY <1>s, <2>1, <2>2, <2>4, <2>5, SlotsOfTheOthers
<1> QED
  BY <1>1, <1>2, <1>3, <1>4 DEF Admit

LEMMA SlotNext == SlotInv /\ [Next]_vars => SlotInv'
<1> SUFFICES ASSUME SlotInv, [Next]_vars PROVE SlotInv'
  OBVIOUS
<1> USE DEF SlotInv
<1>0. CASE UNCHANGED vars
  BY <1>0 DEF vars, permitVars, SlotType, PermitsStayWithin, PermitsFitStage, FitsStage,
              Holders, Owners, Capacity, Working, Slot, Both
<1>b. byLead \in [WORKER -> BOOLEAN]
  BY DEF SlotType
<1>1. ASSUME NEW w \in WORKER, Start(w) PROVE SlotInv'
  <2>1. /\ UNCHANGED <<kept, held, byLead>> /\ stage[w] = "idle"
        /\ stage' \in [WORKER -> Stage]
        /\ stage'[w] = IF byLead[w] THEN "trying" ELSE "admitted"
        /\ \A v \in WORKER \ {w} : stage'[v] = stage[v]
    BY <1>1, MovesOne DEF Start, permitVars, Stage, Active
  <2>2. FitsStage(w)'
    BY <2>1 DEF PermitsFitStage, FitsStage, Working
  <2> QED
    BY <1>b, <2>1, <2>2, SlotsStay
<1>2. ASSUME NEW w \in WORKER, Admit(w) PROVE SlotInv'
  BY <1>2, AdmissionKeepsSlots
<1>3. ASSUME NEW w \in WORKER, NEW to \in {"over", "parked"}, GivesBack({w}),
             stage' = [stage EXCEPT ![w] = to], UNCHANGED byLead
      PROVE  SlotInv'
  <2>1. stage' \in [WORKER -> Stage] /\ stage'[w] = to /\ \A v \in WORKER \ {w} : stage'[v] = stage[v]
    BY <1>3 DEF SlotType, Stage
  <2> QED
    BY <1>3, <2>1, SlotsOfTheGone
<1>4. ASSUME NEW w \in WORKER, TimeOut(w) PROVE SlotInv'
  BY <1>3, <1>4 DEF TimeOut
<1>5. ASSUME NEW w \in WORKER, Run(w) PROVE SlotInv'
  <2>1. CASE Grant(w) \/ GoOn(w)
    <3>1. /\ UNCHANGED <<kept, held, byLead>> /\ stage[w] = "admitted"
          /\ stage' \in [WORKER -> Stage] /\ stage'[w] = "running"
          /\ \A v \in WORKER \ {w} : stage'[v] = stage[v]
      BY <2>1, MovesOne DEF Grant, GoOn, permitVars, Stage, Active
    <3>2. FitsStage(w)'
      BY <3>1 DEF PermitsFitStage, FitsStage, Working, Slot, Both
    <3> QED
      BY <1>b, <3>1, <3>2, SlotsStay
  <2>2. CASE RefuseGrant(w)
    BY <1>3, <2>2 DEF RefuseGrant, Go
  <2>3. CASE UseTurn(w)
    <3>1. UNCHANGED <<kept, held, byLead, stage>>
      BY <2>3 DEF UseTurn, permitVars
    <3> QED
      BY <3>1 DEF SlotType, PermitsStayWithin, PermitsFitStage, FitsStage,
                  Holders, Owners, Capacity, Working, Slot, Both
  <2>4. CASE Finish(w)
    BY <1>3, <2>4 DEF Finish, Go
  <2> QED
    BY <1>5, <2>1, <2>2, <2>3, <2>4 DEF Run
<1>6. ASSUME NEW w \in WORKER, Ask(w) PROVE SlotInv'
  <2>1. CASE Park(w)
    BY <1>3, <2>1 DEF Park, Go
  <2>2. CASE Resume(w)
    <3>1. /\ UNCHANGED <<kept, held>> /\ stage[w] = "parked"
          /\ byLead' = [byLead EXCEPT ![w] = TRUE]
          /\ stage' \in [WORKER -> Stage] /\ stage'[w] = "trying"
          /\ \A v \in WORKER \ {w} : stage'[v] = stage[v]
      BY <2>2, MovesOne DEF Resume, permitVars, Stage, Active
    <3>2. byLead' \in [WORKER -> BOOLEAN] /\ \A v \in WORKER \ {w} : byLead'[v] = byLead[v]
      BY <1>b, <3>1
    <3>3. FitsStage(w)'
      BY <3>1 DEF PermitsFitStage, FitsStage, Working
    <3> QED
      BY <3>1, <3>2, <3>3, SlotsStay
  <2>3. CASE RefuseResume(w)
    <3>1. /\ UNCHANGED <<kept, held, byLead>> /\ stage[w] = "parked"
          /\ stage' \in [WORKER -> Stage] /\ stage'[w] = "over"
          /\ \A v \in WORKER \ {w} : stage'[v] = stage[v]
      BY <2>3, MovesOne DEF RefuseResume, permitVars, Stage
    <3>2. FitsStage(w)'
      BY <3>1 DEF FitsStage, Working
    <3> QED
      BY <1>b, <3>1, <3>2, SlotsStay
  <2> QED
    BY <1>6, <2>1, <2>2, <2>3 DEF Ask
<1>7. ASSUME NEW w \in WORKER, Drop(w) PROVE SlotInv'
  <2> DEFINE gone == {w} \cup {c \in WORKER : Parent[c] = w /\ ~byLead[c] /\ stage[c] \in Active}
  <2>1. /\ stage' = [c \in WORKER |-> IF c \in gone THEN "over" ELSE stage[c]]
        /\ GivesBack(gone) /\ UNCHANGED byLead
    BY <1>7 DEF Drop
  <2> HIDE DEF gone
  <2>2. /\ stage' \in [WORKER -> Stage]
        /\ \A v \in WORKER \ gone : stage'[v] = stage[v]
        /\ \A v \in WORKER \cap gone : stage'[v] = "over"
    BY <2>1 DEF SlotType, Stage
  <2> QED
    BY <2>1, <2>2, SlotsOfTheGone
<1>8. CASE Rest
  BY <1>0, <1>8 DEF Rest
<1> QED
  BY <1>0, <1>1, <1>2, <1>4, <1>5, <1>6, <1>7, <1>8 DEF Next

LEMMA SlotInvariant == Spec => []SlotInv
BY SlotInit, SlotNext, PTL DEF Spec

\* A worker at work holds a permit of its profile and a global one.
LEMMA WorkersHoldPermits ==
    ASSUME SlotInv, NEW s \in Semaphore, NEW W \in SUBSET Owners(s)
    PROVE  Cardinality(W) <= Capacity(s)
<1>1. Cardinality(W) <= Cardinality(Owners(s)) /\ Cardinality(W) \in Nat
  BY PermitSetsAreFinite, FS_Subset, FS_CardinalityType
<1> QED
  BY <1>1, PermitSetsAreFinite, CapacityType DEF SlotInv, PermitsStayWithin

\* The workers that run at the same time never pass max_active_workers, nor
\* max_active_workers_per_profile in one profile, for any number of runs,
\* workers and profiles, however workers wait, park, resume and are dropped.
THEOREM SlotsStayBounded == Spec => []SlotsAreBounded
<1>1. ASSUME SlotInv PROVE SlotsAreBounded
  <2>1. ASSUME NEW w \in WORKER, Working(w)
        PROVE  "global" \in held[w] /\ Slot(w) \in held[w]
    BY <1>1, <2>1 DEF SlotInv, PermitsFitStage, FitsStage, Both
  <2>2. {w \in WORKER : Working(w)} \in SUBSET Owners("global")
    BY <2>1 DEF Owners
  <2>3. ASSUME NEW p \in PROFILE
        PROVE  {w \in WORKER : Working(w) /\ Slot(w) = p} \in SUBSET Owners(p)
    BY <2>1 DEF Owners
  <2>4. \A p \in PROFILE : p \in Semaphore /\ Capacity(p) = MaxPerProfile
    BY PoolAssumption DEF Semaphore, Capacity
  <2>5. "global" \in Semaphore /\ Capacity("global") = MaxActive
    BY DEF Semaphore, Capacity
  <2> QED
    BY <1>1, <2>2, <2>3, <2>4, <2>5, WorkersHoldPermits DEF SlotsAreBounded
<1> QED
  BY <1>1, SlotInvariant, PTL

-----------------------------------------------------------------------------
(***************************************************************************)
(* The budget of a run's workers.                                          *)
(***************************************************************************)

\* What a worker costs its run: its grant, until it is over.
Charged(w) == IF stage[w] = "over" THEN used[w] ELSE granted[w]
charged == [w \in WORKER |-> Charged(w)]
Granted(l) == {w \in Tree(l) : granted[w] > 0}

BudgetType ==
    /\ stage \in [WORKER -> Stage]
    /\ granted \in [WORKER -> Nat] /\ used \in [WORKER -> Nat]
    /\ left \in [LEAD -> Nat] /\ workers \in [LEAD -> Nat]

TurnsBalance == \A l \in LEAD : left[l] + Tally(charged, Tree(l)) <= MaxTurns
WorkersBalance == \A l \in LEAD : workers[l] + Cardinality(Granted(l)) <= MaxWorkers

BudgetInv ==
    /\ BudgetType
    /\ \A w \in WORKER : used[w] <= granted[w]
    /\ TurnsBalance
    /\ WorkersBalance

LEMMA TreesAreFinite ==
    ASSUME NEW l
    PROVE  /\ IsFiniteSet(Tree(l)) /\ Tree(l) \subseteq WORKER
           /\ IsFiniteSet(Granted(l)) /\ Cardinality(Granted(l)) \in Nat
<1>1. Tree(l) \in SUBSET WORKER
  BY DEF Tree
<1>2. IsFiniteSet(Tree(l))
  BY <1>1, PoolAssumption, FS_Subset
<1>3. Granted(l) \in SUBSET Tree(l)
  BY DEF Granted
<1> QED
  BY <1>1, <1>2, <1>3, FS_Subset, FS_CardinalityType

LEMMA ChargesAreNumbers ==
    ASSUME BudgetType
    PROVE  /\ \A w \in WORKER : charged[w] = Charged(w) /\ Charged(w) \in Nat
           /\ \A l : Tally(charged, Tree(l)) \in Nat
<1>1. \A w \in WORKER : charged[w] = Charged(w) /\ Charged(w) \in Nat
  BY DEF BudgetType, charged, Charged
<1> QED
  BY <1>1, TreesAreFinite, TallyType

LEMMA BudgetInit == Init => BudgetInv
<1> SUFFICES ASSUME Init PROVE BudgetInv
  OBVIOUS
<1>1. BudgetType
  BY PoolAssumption DEF Init, BudgetType, Stage
<1>2. ASSUME NEW l \in LEAD PROVE left[l] + Tally(charged, Tree(l)) <= MaxTurns
  <2>1. \A w \in Tree(l) : charged[w] = 0
    BY DEF Init, charged, Charged, Tree
  <2>2. Tally(charged, Tree(l)) = 0
    BY <2>1, TallyZero
  <2> QED
    BY <2>2, PoolAssumption DEF Init
<1>3. ASSUME NEW l \in LEAD PROVE workers[l] + Cardinality(Granted(l)) <= MaxWorkers
  <2>1. Granted(l) = {}
    BY DEF Init, Granted, Tree
  <2> QED
    BY <2>1, FS_EmptySet, PoolAssumption DEF Init
<1>4. \A w \in WORKER : used[w] <= granted[w]
  BY DEF Init
<1> QED
  BY <1>1, <1>2, <1>3, <1>4 DEF BudgetInv, TurnsBalance, WorkersBalance

\* One worker's step: its run pays no more turns and starts no more workers
\* than it gives.
LEMMA BudgetOfOne ==
    ASSUME BudgetInv, NEW w \in WORKER, BudgetType',
           \A v \in WORKER \ {w} :
               stage'[v] = stage[v] /\ granted'[v] = granted[v] /\ used'[v] = used[v],
           used'[w] <= granted'[w],
           \A l \in LEAD \ {Lead[w]} : left'[l] = left[l] /\ workers'[l] = workers[l],
           left'[Lead[w]] + Charged(w)' <= left[Lead[w]] + Charged(w),
           \/ workers'[Lead[w]] = workers[Lead[w]] /\ granted'[w] = granted[w]
           \/ workers'[Lead[w]] + 1 = workers[Lead[w]] /\ granted[w] = 0
    PROVE  BudgetInv'
<1> USE DEF BudgetInv
<1>0. Lead[w] \in LEAD
  BY PoolAssumption
<1>1. \A v \in WORKER : used'[v] <= granted'[v]
  OBVIOUS
<1>c. /\ \A v \in WORKER : charged[v] = Charged(v) /\ Charged(v) \in Nat
      /\ \A v \in WORKER : charged'[v] = Charged(v)' /\ Charged(v)' \in Nat
      /\ \A l : Tally(charged, Tree(l)) \in Nat /\ Tally(charged', Tree(l)) \in Nat
  <2>1. \A v \in WORKER : charged'[v] = Charged(v)' /\ Charged(v)' \in Nat
    BY DEF BudgetType, charged, Charged
  <2>2. \A l : Tally(charged', Tree(l)) \in Nat
    BY <2>1, TreesAreFinite, TallyType
  <2> QED
    BY <2>1, <2>2, ChargesAreNumbers
<1>d. \A v \in WORKER \ {w} : charged'[v] = charged[v]
  BY <1>c DEF Charged
<1>2. ASSUME NEW l \in LEAD PROVE left'[l] + Tally(charged', Tree(l)) <= MaxTurns
  <2>1. left[l] + Tally(charged, Tree(l)) <= MaxTurns
    BY DEF TurnsBalance
  <2>2. left[l] \in Nat /\ left'[l] \in Nat /\ MaxTurns \in Nat
    BY PoolAssumption DEF BudgetType
  <2>3. CASE l = Lead[w]
    <3>1. w \in Tree(l) /\ IsFiniteSet(Tree(l)) /\ Tree(l) \subseteq WORKER
      BY <2>3, TreesAreFinite DEF Tree
    <3>2. Tally(charged', Tree(l)) + charged[w] = Tally(charged, Tree(l)) + charged'[w]
      BY <1>c, <1>d, <3>1, TallyChange
    <3>3. left'[l] + charged'[w] <= left[l] + charged[w]
      BY <1>c, <2>3
    <3> QED
      BY <1>c, <2>1, <2>2, <3>2, <3>3
  <2>4. CASE l # Lead[w]
    <3>1. Tally(charged', Tree(l)) = Tally(charged, Tree(l))
      <4>1. \A v \in Tree(l) : charged'[v] = charged[v]
        BY <1>d, <2>4 DEF Tree
      <4> QED
        BY <4>1, TallySame
    <3> QED
      BY <2>1, <2>4, <3>1
  <2> QED
    BY <2>3, <2>4
<1>3. ASSUME NEW l \in LEAD PROVE workers'[l] + Cardinality(Granted(l)') <= MaxWorkers
  <2>1. /\ workers[l] + Cardinality(Granted(l)) <= MaxWorkers
        /\ workers[l] \in Nat /\ workers'[l] \in Nat /\ MaxWorkers \in Nat
        /\ IsFiniteSet(Granted(l)) /\ Cardinality(Granted(l)) \in Nat
    BY TreesAreFinite, PoolAssumption DEF BudgetType, WorkersBalance
  <2>2. CASE granted'[w] = granted[w] /\ workers'[l] = workers[l]
    <3>1. Granted(l)' = Granted(l)
      BY <2>2 DEF Granted, Tree
    <3> QED
      BY <2>1, <2>2, <3>1
  <2>3. CASE l = Lead[w] /\ workers'[l] + 1 = workers[l] /\ granted[w] = 0
    <3>1. /\ Granted(l)' \subseteq Granted(l) \cup {w}
          /\ IsFiniteSet(Granted(l) \cup {w})
          /\ Cardinality(Granted(l) \cup {w}) <= Cardinality(Granted(l)) + 1
      <4>1. Granted(l)' \subseteq Granted(l) \cup {w}
        BY DEF Granted, Tree
      <4>2. /\ IsFiniteSet(Granted(l) \cup {w})
            /\ Cardinality(Granted(l) \cup {w})
                   = IF w \in Granted(l) THEN Cardinality(Granted(l)) ELSE Cardinality(Granted(l)) + 1
        <5> DEFINE G == Granted(l)
        <5>1. IsFiniteSet(G)
          BY <2>1
        <5> HIDE DEF G
        <5>2. IsFiniteSet(G \cup {w}) /\ Cardinality(G \cup {w}) =
                  IF w \in G THEN Cardinality(G) ELSE Cardinality(G) + 1
          BY <5>1, FS_AddElement
        <5> QED
          BY <5>2 DEF G
      <4> QED
        BY <2>1, <4>1, <4>2
    <3>2. Cardinality(Granted(l)') <= Cardinality(Granted(l)) + 1 /\ Cardinality(Granted(l)') \in Nat
      <4>1. /\ Cardinality(Granted(l)') <= Cardinality(Granted(l) \cup {w})
            /\ IsFiniteSet(Granted(l)')
        BY <3>1, FS_Subset
      <4>2. Cardinality(Granted(l)') \in Nat /\ Cardinality(Granted(l) \cup {w}) \in Nat
        BY <3>1, <4>1, FS_CardinalityType
      <4> QED
        BY <2>1, <3>1, <4>1, <4>2
    <3> QED
      BY <2>1, <2>3, <3>2
  <2>4. CASE l # Lead[w]
    <3>1. Granted(l)' = Granted(l)
      BY <2>4 DEF Granted, Tree
    <3> QED
      BY <2>1, <2>4, <3>1
  <2> QED
    BY <2>2, <2>3, <2>4
<1> QED
  BY <1>1, <1>2, <1>3 DEF TurnsBalance, WorkersBalance

\* A worker that ends returns what it did not use.
LEMMA SettlingBalances ==
    ASSUME BudgetInv, NEW w \in WORKER, stage[w] # "over", stage' = [stage EXCEPT ![w] = "over"],
           Settle(w), UNCHANGED used
    PROVE  BudgetInv'
<1> USE DEF BudgetInv
<1>1. /\ used[w] \in Nat /\ granted[w] \in Nat /\ used[w] <= granted[w]
      /\ Lead[w] \in LEAD /\ left[Lead[w]] \in Nat /\ granted[w] - used[w] \in Nat
  <2>1. used[w] \in Nat /\ granted[w] \in Nat /\ used[w] <= granted[w]
    BY DEF BudgetType
  <2>2. Lead[w] \in LEAD /\ left[Lead[w]] \in Nat
    BY PoolAssumption DEF BudgetType
  <2> QED
    BY <2>1, <2>2
<1>2. /\ left' = [left EXCEPT ![Lead[w]] = left[Lead[w]] + (granted[w] - used[w])]
      /\ UNCHANGED <<granted, workers>>
  BY DEF Settle
<1>3. BudgetType'
  BY <1>1, <1>2 DEF BudgetType, Stage
<1>4. /\ \A v \in WORKER \ {w} : stage'[v] = stage[v]
      /\ stage'[w] = "over"
      /\ \A l \in LEAD \ {Lead[w]} : left'[l] = left[l]
      /\ left'[Lead[w]] = left[Lead[w]] + (granted[w] - used[w])
  BY <1>1, <1>2 DEF BudgetType
<1>5. left'[Lead[w]] + Charged(w)' <= left[Lead[w]] + Charged(w)
  BY <1>1, <1>2, <1>4 DEF Charged
<1> QED
  BY <1>1, <1>2, <1>3, <1>4, <1>5, BudgetOfOne

\* Nothing is granted, settled or used, and who is over stays over.
LEMMA BudgetStands ==
    ASSUME BudgetInv, UNCHANGED <<granted, left, workers, used>>,
           stage' \in [WORKER -> Stage],
           \A w \in WORKER : stage[w] = "over" => stage'[w] = "over"
    PROVE  BudgetInv'
<1> USE DEF BudgetInv
<1>1. BudgetType'
  BY DEF BudgetType
<1>2. WorkersBalance'
  BY DEF WorkersBalance, Granted, Tree
<1>3. ASSUME NEW l \in LEAD PROVE left'[l] + Tally(charged', Tree(l)) <= MaxTurns
  <2>1. ASSUME NEW w \in Tree(l)
        PROVE  charged[w] \in Nat /\ charged'[w] \in Nat /\ charged'[w] <= charged[w]
    <3>1. w \in WORKER /\ used[w] \in Nat /\ granted[w] \in Nat /\ used[w] <= granted[w]
      BY DEF Tree, BudgetType
    <3> QED
      BY <3>1 DEF charged, Charged
  <2>2. /\ Tally(charged', Tree(l)) <= Tally(charged, Tree(l))
        /\ Tally(charged', Tree(l)) \in Nat /\ Tally(charged, Tree(l)) \in Nat
    BY <2>1, TreesAreFinite, TallyMonotone, TallyType
  <2>3. left[l] + Tally(charged, Tree(l)) <= MaxTurns /\ left[l] \in Nat /\ MaxTurns \in Nat
    BY PoolAssumption DEF TurnsBalance, BudgetType
  <2> QED
    BY <2>2, <2>3
<1> QED
  BY <1>1, <1>2, <1>3 DEF TurnsBalance

LEMMA BudgetNext == BudgetInv /\ [Next]_vars => BudgetInv'
<1> SUFFICES ASSUME BudgetInv, [Next]_vars PROVE BudgetInv'
  OBVIOUS
<1> USE DEF BudgetInv
<1>0. CASE UNCHANGED vars
  BY <1>0, BudgetStands DEF vars, budgetVars, BudgetType
<1>m. ASSUME NEW w \in WORKER, NEW from \in Stage \ {"over"}, NEW to \in Stage, Go(w, from, to)
      PROVE  /\ stage' \in [WORKER -> Stage]
             /\ stage[w] = from /\ stage'[w] = to /\ \A v \in WORKER \ {w} : stage'[v] = stage[v]
             /\ \A v \in WORKER : stage[v] = "over" => stage'[v] = "over"
  BY <1>m DEF Go, BudgetType
<1>1. ASSUME NEW w \in WORKER, Start(w) PROVE BudgetInv'
  <2>1. UNCHANGED <<granted, left, workers, used>>
    BY <1>1 DEF Start, budgetVars
  <2>2. Go(w, "idle", IF byLead[w] THEN "trying" ELSE "admitted")
    BY <1>1 DEF Start
  <2> QED
    BY <1>m, <2>1, <2>2, BudgetStands DEF Stage, Active
<1>2. ASSUME NEW w \in WORKER, Admit(w) PROVE BudgetInv'
  <2>1. UNCHANGED <<granted, left, workers, used>>
    BY <1>2 DEF Admit, TryProfile, TryGlobal, TakeProfile, TakeGlobal, budgetVars
  <2>2. \/ Go(w, "trying", "tryingGlobal") \/ Go(w, "tryingGlobal", "admitted")
        \/ Go(w, "tryingGlobal", "profile") \/ Go(w, "profile", "global")
        \/ Go(w, "global", "admitted")
    BY <1>2 DEF Admit, TryProfile, TryGlobal, TakeProfile, TakeGlobal
  <2> QED
    BY <1>m, <2>1, <2>2, BudgetStands DEF Stage, Active, Waiting
<1>3. ASSUME NEW w \in WORKER, TimeOut(w) PROVE BudgetInv'
  BY <1>3, SettlingBalances DEF TimeOut, Waiting
<1>4. ASSUME NEW w \in WORKER, Grant(w) PROVE BudgetInv'
  <2> DEFINE l == Lead[w]
             grant == IF Want[w] < left[l] THEN Want[w] ELSE left[l]
  <2>1. /\ granted[w] = 0 /\ workers[l] > 0 /\ left[l] > 0
        /\ Go(w, "admitted", "running")
        /\ granted' = [granted EXCEPT ![w] = grant]
        /\ left' = [left EXCEPT ![l] = left[l] - grant]
        /\ workers' = [workers EXCEPT ![l] = workers[l] - 1]
        /\ UNCHANGED used
    BY <1>4 DEF Grant
  <2>2. /\ l \in LEAD /\ left[l] \in Nat /\ workers[l] \in Nat /\ Want[w] \in Nat
        /\ used[w] \in Nat /\ used[w] <= granted[w]
    BY PoolAssumption DEF BudgetType
  <2>3. grant \in Nat /\ left[l] - grant \in Nat /\ workers[l] - 1 \in Nat
    BY <2>1, <2>2
  <2> HIDE DEF grant, l
  <2>4. /\ stage' \in [WORKER -> Stage] /\ stage[w] = "admitted" /\ stage'[w] = "running"
        /\ \A v \in WORKER \ {w} : stage'[v] = stage[v]
    BY <1>m, <2>1 DEF Stage, Active
  <2>5. BudgetType'
    BY <2>1, <2>2, <2>3, <2>4 DEF BudgetType
  <2>6. /\ granted'[w] = grant /\ left'[l] = left[l] - grant /\ workers'[l] = workers[l] - 1
        /\ \A v \in WORKER \ {w} : granted'[v] = granted[v]
        /\ \A k \in LEAD \ {l} : left'[k] = left[k] /\ workers'[k] = workers[k]
    BY <2>1, <2>2 DEF BudgetType
  <2>7. left'[l] + Charged(w)' <= left[l] + Charged(w)
    BY <2>1, <2>2, <2>3, <2>4, <2>6 DEF Charged
  <2>8. used'[w] <= granted'[w] /\ workers'[l] + 1 = workers[l] /\ UNCHANGED used
    BY <2>1, <2>2, <2>3, <2>6
  <2> QED
    BY <2>1, <2>4, <2>5, <2>6, <2>7, <2>8, BudgetOfOne DEF l
<1>5. ASSUME NEW w \in WORKER, RefuseGrant(w) \/ GoOn(w) PROVE BudgetInv'
  <2>1. UNCHANGED <<granted, left, workers, used>>
    BY <1>5 DEF RefuseGrant, GoOn, budgetVars
  <2>2. Go(w, "admitted", "over") \/ Go(w, "admitted", "running")
    BY <1>5 DEF RefuseGrant, GoOn
  <2> QED
    BY <1>m, <2>1, <2>2, BudgetStands DEF Stage, Active
<1>6. ASSUME NEW w \in WORKER, UseTurn(w) PROVE BudgetInv'
  <2>1. /\ stage[w] = "running" /\ used[w] < granted[w]
        /\ used' = [used EXCEPT ![w] = used[w] + 1]
        /\ UNCHANGED <<stage, granted, left, workers>>
    BY <1>6 DEF UseTurn, MayAct, budgetVars
  <2>2. used[w] \in Nat /\ granted[w] \in Nat /\ left[Lead[w]] \in Nat
    BY PoolAssumption DEF BudgetType
  <2>3. BudgetType' /\ used'[w] = used[w] + 1 /\ \A v \in WORKER \ {w} : used'[v] = used[v]
    BY <2>1, <2>2 DEF BudgetType
  <2>4. left'[Lead[w]] + Charged(w)' <= left[Lead[w]] + Charged(w)
    BY <2>1, <2>2 DEF Charged
  <2> QED
    BY <2>1, <2>2, <2>3, <2>4, BudgetOfOne
<1>7. ASSUME NEW w \in WORKER, Finish(w) PROVE BudgetInv'
  BY <1>7, SettlingBalances DEF Finish, Go
<1>8. ASSUME NEW w \in WORKER, Park(w) \/ Resume(w) PROVE BudgetInv'
  <2>1. UNCHANGED <<granted, left, workers, used>>
    BY <1>8 DEF Park, Resume, budgetVars
  <2>2. Go(w, "running", "parked") \/ Go(w, "parked", "trying")
    BY <1>8 DEF Park, Resume
  <2> QED
    BY <1>m, <2>1, <2>2, BudgetStands DEF Stage, Active
<1>9. ASSUME NEW w \in WORKER, RefuseResume(w) PROVE BudgetInv'
  BY <1>9, SettlingBalances DEF RefuseResume, Go
<1>10. ASSUME NEW w \in WORKER, Drop(w) PROVE BudgetInv'
  <2> DEFINE gone == {w} \cup {c \in WORKER : Parent[c] = w /\ ~byLead[c] /\ stage[c] \in Active}
  <2>1. /\ stage' = [c \in WORKER |-> IF c \in gone THEN "over" ELSE stage[c]]
        /\ UNCHANGED <<granted, left, workers, used>>
    BY <1>10 DEF Drop, budgetVars
  <2> HIDE DEF gone
  <2>2. stage' \in [WORKER -> Stage] /\ \A v \in WORKER : stage[v] = "over" => stage'[v] = "over"
    BY <2>1 DEF BudgetType, Stage
  <2> QED
    BY <2>1, <2>2, BudgetStands
<1>11. CASE Rest
  BY <1>0, <1>11 DEF Rest
<1> QED
  BY <1>0, <1>1, <1>2, <1>3, <1>4, <1>5, <1>6, <1>7, <1>8, <1>9, <1>10, <1>11
     DEF Next, Run, Ask

LEMMA BudgetInvariant == Spec => []BudgetInv
BY BudgetInit, BudgetNext, PTL DEF Spec

\* All the workers of a run together stay within its turns and its workers,
\* for any number of runs and workers, however they park, resume, end, time out
\* and are dropped unsettled.
THEOREM TreesStayWithinLimits == Spec => []TreeStaysWithinItsLimits
<1>1. ASSUME BudgetInv, NEW l \in LEAD
      PROVE  left[l] + Tally(used, Tree(l)) <= MaxTurns /\ Cardinality(Granted(l)) <= MaxWorkers
  <2> USE <1>1 DEF BudgetInv
  <2>1. \A w \in Tree(l) : used[w] \in Nat /\ charged[w] \in Nat /\ used[w] <= charged[w]
    <3> SUFFICES ASSUME NEW w \in WORKER
                 PROVE  used[w] \in Nat /\ charged[w] \in Nat /\ used[w] <= charged[w]
      BY DEF Tree
    <3>1. used[w] \in Nat /\ granted[w] \in Nat /\ used[w] <= granted[w]
      BY DEF BudgetType
    <3> QED
      BY <3>1 DEF charged, Charged
  <2>2. /\ Tally(used, Tree(l)) <= Tally(charged, Tree(l))
        /\ Tally(used, Tree(l)) \in Nat /\ Tally(charged, Tree(l)) \in Nat
    BY <2>1, TreesAreFinite, TallyMonotone, TallyType
  <2>3. /\ left[l] \in Nat /\ workers[l] \in Nat /\ MaxTurns \in Nat /\ MaxWorkers \in Nat
        /\ Cardinality(Granted(l)) \in Nat
    BY PoolAssumption, TreesAreFinite DEF BudgetType
  <2>4. /\ left[l] + Tally(charged, Tree(l)) <= MaxTurns
        /\ workers[l] + Cardinality(Granted(l)) <= MaxWorkers
    BY DEF TurnsBalance, WorkersBalance
  <2> QED
    BY <2>2, <2>3, <2>4
<1>2. BudgetInv => TreeStaysWithinItsLimits
  BY <1>1 DEF TreeStaysWithinItsLimits, Granted
<1> QED
  BY <1>2, BudgetInvariant, PTL

-----------------------------------------------------------------------------
(***************************************************************************)
(* Sums over the four parts of a plan.                                     *)
(***************************************************************************)

LEMMA Parts == Part = {1, 2, 3, 4}
BY DEF Part

LEMMA SumIsNatural ==
    ASSUME NEW f, \A i \in Part : f[i] \in Nat
    PROVE  SumOf(f) \in Nat /\ \A i \in Part : f[i] <= SumOf(f)
BY DEF SumOf, Part

LEMMA SumGrows ==
    ASSUME NEW f, NEW g, \A i \in Part : f[i] \in Nat /\ g[i] \in Nat /\ f[i] <= g[i]
    PROVE  SumOf(f) <= SumOf(g)
BY DEF SumOf, Part

LEMMA SumAdds ==
    ASSUME NEW f, NEW g, NEW h,
           \A i \in Part : f[i] \in Nat /\ g[i] \in Nat /\ h[i] \in Nat /\ f[i] = g[i] + h[i]
    PROVE  SumOf(f) = SumOf(g) + SumOf(h)
BY DEF SumOf, Part

LEMMA SumOfZeros ==
    ASSUME NEW f, \A i \in Part : f[i] = 0
    PROVE  SumOf(f) = 0
BY DEF SumOf, Part

LEMMA SumOfOne ==
    ASSUME NEW f, NEW i \in Part, NEW x \in Nat, \A j \in Part : f[j] = IF j = i THEN x ELSE 0
    PROVE  SumOf(f) = x
BY DEF SumOf, Part

Before(l, i) == SumOf([j \in Part |-> IF j < i THEN l[j] ELSE 0])

\* Dealing r out to parts of sizes l, the first ones first.
LEMMA Dealt ==
    ASSUME NEW l, \A i \in Part : l[i] \in Nat, NEW r \in Nat, NEW d,
           \A i \in Part : d[i] = Lesser(l[i], Monus(r, Before(l, i)))
    PROVE  SumOf(d) = Lesser(SumOf(l), r)
<1>1. l[1] \in Nat /\ l[2] \in Nat /\ l[3] \in Nat /\ l[4] \in Nat
  BY DEF Part
<1>2. /\ Before(l, 1) = 0 /\ Before(l, 2) = l[1] /\ Before(l, 3) = l[1] + l[2]
      /\ Before(l, 4) = l[1] + l[2] + l[3]
  BY <1>1 DEF Before, SumOf, Part
<1>3. /\ d[1] = Lesser(l[1], Monus(r, 0)) /\ d[2] = Lesser(l[2], Monus(r, l[1]))
      /\ d[3] = Lesser(l[3], Monus(r, l[1] + l[2]))
      /\ d[4] = Lesser(l[4], Monus(r, l[1] + l[2] + l[3]))
  BY <1>2 DEF Part
<1>4. Lesser(0, r) = 0
  BY DEF Lesser
<1>5. /\ Lesser(0, r) + d[1] = Lesser(l[1], r)
      /\ Lesser(l[1], r) + d[2] = Lesser(l[1] + l[2], r)
      /\ Lesser(l[1] + l[2], r) + d[3] = Lesser(l[1] + l[2] + l[3], r)
      /\ Lesser(l[1] + l[2] + l[3], r) + d[4] = Lesser(SumOf(l), r)
  <2>1. l[1] + l[2] \in Nat /\ l[1] + l[2] + l[3] \in Nat /\ 0 + l[1] = l[1] /\ 0 \in Nat
    BY <1>1
  <2>2. Lesser(0, r) + d[1] = Lesser(0 + l[1], r)
    BY <1>1, <1>3 DEF Lesser, Monus
  <2>3. Lesser(l[1], r) + d[2] = Lesser(l[1] + l[2], r)
    BY <1>1, <1>3 DEF Lesser, Monus
  <2>4. Lesser(l[1] + l[2], r) + d[3] = Lesser(l[1] + l[2] + l[3], r)
    BY <1>1, <1>3 DEF Lesser, Monus
  <2>5. Lesser(l[1] + l[2] + l[3], r) + d[4] = Lesser(l[1] + l[2] + l[3] + l[4], r)
    BY <1>1, <1>3 DEF Lesser, Monus
  <2> QED
    BY <2>1, <2>2, <2>3, <2>4, <2>5 DEF SumOf
<1>6. d[1] \in Nat /\ d[2] \in Nat /\ d[3] \in Nat /\ d[4] \in Nat
  BY <1>1, <1>3 DEF Lesser, Monus
<1>7. /\ Lesser(l[1], r) \in Nat /\ Lesser(l[1] + l[2], r) \in Nat
      /\ Lesser(l[1] + l[2] + l[3], r) \in Nat
  BY <1>1 DEF Lesser
<1> QED
  BY <1>4, <1>5, <1>6, <1>7 DEF SumOf

\* What a split deals out never passes what there is.
LEMMA RoundedDown ==
    ASSUME NEW n \in Nat, NEW w \in 1..3, NEW W \in 1..12
    PROVE  (n * w) \div W \in Nat /\ W * ((n * w) \div W) <= n * w
OBVIOUS

LEMMA Distributes ==
    ASSUME NEW n \in Nat, NEW a \in Nat, NEW b \in Nat, NEW c \in Nat, NEW d \in Nat
    PROVE  n * (a + b + c + d) = n * a + n * b + n * c + n * d
OBVIOUS

LEMMA SplitStaysWithin ==
    ASSUME NEW tokens \in Nat, NEW slots \in SUBSET Part, NEW demands,
           \A i \in slots : demands[i] \in Demand
    PROVE  /\ Split(tokens, slots, demands) \in [Part -> Nat]
           /\ SumOf(Split(tokens, slots, demands)) <= tokens
<1> DEFINE w == [i \in Part |-> IF i \in slots THEN Weight(demands[i]) ELSE 0]
           W == WeightOf(slots, demands)
           q == Split(tokens, slots, demands)
<1>1. \A i \in Part : w[i] \in 0..3 /\ (i \in slots => w[i] = Weight(demands[i]) /\ w[i] \in 1..3)
  BY DEF Weight, Demand
<1>2. W = w[1] + w[2] + w[3] + w[4]
  BY DEF WeightOf, SumOf
<1>3. CASE slots = {}
  <2>1. \A i \in Part : q[i] = 0
    BY <1>3 DEF Split
  <2>2. q \in [Part -> Nat]
    BY <1>3 DEF Split
  <2> QED
    BY <2>1, <2>2, SumOfZeros
<1>4. CASE slots # {}
  <2>1. W \in 1..12
    <3>1. PICK i \in Part : i \in slots
      BY <1>4
    <3>2. w[i] >= 1
      BY <1>1, <3>1
    <3> HIDE DEF w, W
    <3> QED
      BY <1>1, <1>2, <3>2 DEF Part
  <2>2. \A i \in Part : q[i] = IF i \in slots THEN (tokens * w[i]) \div W ELSE 0
    BY <1>1 DEF Split
  <2>3. \A i \in Part : q[i] \in Nat /\ W * q[i] <= tokens * w[i]
    <3> SUFFICES ASSUME NEW i \in Part PROVE q[i] \in Nat /\ W * q[i] <= tokens * w[i]
      OBVIOUS
    <3> HIDE DEF w, W, q
    <3>1. CASE i \in slots
      BY <1>1, <2>1, <2>2, <3>1, RoundedDown
    <3>2. CASE i \notin slots
      <4>1. q[i] = 0 /\ w[i] \in Nat
        BY <1>1, <2>2, <3>2
      <4> QED
        BY <2>1, <4>1
    <3> QED
      BY <3>1, <3>2
  <2>4. q \in [Part -> Nat]
    BY <2>3 DEF Split
  <2>5. q[1] + q[2] + q[3] + q[4] <= tokens
    <3> HIDE DEF w, W, q
    <3>1. /\ w[1] \in 0..3 /\ w[2] \in 0..3 /\ w[3] \in 0..3 /\ w[4] \in 0..3
          /\ q[1] \in Nat /\ q[2] \in Nat /\ q[3] \in Nat /\ q[4] \in Nat
          /\ W * q[1] <= tokens * w[1] /\ W * q[2] <= tokens * w[2]
          /\ W * q[3] <= tokens * w[3] /\ W * q[4] <= tokens * w[4]
      BY <1>1, <2>3 DEF Part
    <3>2. W * (q[1] + q[2] + q[3] + q[4]) <= tokens * W
      <4>1. W * (q[1] + q[2] + q[3] + q[4]) = W * q[1] + W * q[2] + W * q[3] + W * q[4]
        BY <2>1, <3>1, Distributes
      <4>2. tokens * W = tokens * w[1] + tokens * w[2] + tokens * w[3] + tokens * w[4]
        <5>1. w[1] \in Nat /\ w[2] \in Nat /\ w[3] \in Nat /\ w[4] \in Nat
          BY <3>1
        <5> QED
          BY <1>2, <5>1, Distributes
      <4>3. \A i \in Part : W * q[i] \in Nat /\ tokens * w[i] \in Nat
        BY <2>1, <3>1, Parts
      <4> QED
        BY <3>1, <4>1, <4>2, <4>3, Parts
    <3> QED
      BY <2>1, <3>1, <3>2
  <2> QED
    BY <2>4, <2>5 DEF SumOf
<1> QED
  BY <1>3, <1>4

-----------------------------------------------------------------------------
(***************************************************************************)
(* The tokens of a run.                                                    *)
(***************************************************************************)

\* The lead is the lead; a share that runs is held by one worker, and a worker
\* holds no other.
HoldersFitShares ==
    /\ \A a \in Agent : IsLead(a) <=> a = "lead"
    /\ \A a \in Agent : account[a].kind = "share" =>
          account[a].slot \in Part /\ share[account[a].slot].stage = "running"
    /\ \A i \in Part : share[i].stage = "running" => \E w \in Worker : Holds(w, i)
    /\ \A a, b \in Agent : \A i \in Part : Holds(a, i) /\ Holds(b, i) => a = b

\* A turn draws no more from its own and from the reserves than it was granted,
\* and only the lead's draws on what was planned for others.
TurnsFitGrants ==
    /\ \A a \in Agent : ~InFlight(a) => turn[a] = NoTurn
    /\ \A a \in Agent : ~Running(a) => ~InFlight(a)
    /\ \A a \in Worker : turn[a].lent = NoTurn.lent
    /\ \A a \in Agent : turn[a].own + turn[a].followUp + SumOf(turn[a].lent) <= turn[a].tokens
    /\ turns = 0 => \A a \in Agent : ~InFlight(a)

OutputInv ==
    /\ OutputTypeOK /\ HoldersFitShares /\ TurnsFitGrants
    /\ BooksBalance /\ SharesStayWithinPlan

LEMMA AgentsAreFinite ==
    /\ IsFiniteSet(Agent) /\ "lead" \in Agent
    /\ Worker \subseteq Agent /\ "lead" \notin Worker
<1>1. IsFiniteSet({"lead"})
  BY FS_Singleton
<1> QED
  BY <1>1, OutputAssumption, FS_Union DEF Agent

\* What the shares hold, each by itself.
heldParts == [i \in Part |-> IF share[i].stage \in {"planned", "running"} THEN share[i].left ELSE 0]
planParts == [i \in Part |-> IF share[i].stage \in {"planned"} THEN share[i].left ELSE 0]

LEMMA HeldIsNatural ==
    ASSUME OutputTypeOK
    PROVE  /\ \A i \in Part : heldParts[i] \in Nat /\ planParts[i] \in Nat
           /\ SumOf(heldParts) \in Nat
           /\ Held = leadLeft + followUpLeft + SumOf(heldParts) /\ Held \in Nat
           /\ Unstarted = SumOf(planParts) /\ Unstarted \in Nat /\ Unstarted <= SumOf(heldParts)
<1>1. \A i \in Part : /\ share[i].left \in Nat
                      /\ heldParts[i] \in Nat /\ planParts[i] \in Nat
                      /\ planParts[i] <= heldParts[i]
  BY DEF OutputTypeOK, Share, heldParts, planParts
<1>2. SumOf(heldParts) \in Nat /\ SumOf(planParts) \in Nat /\ SumOf(planParts) <= SumOf(heldParts)
  BY <1>1, SumIsNatural, SumGrows
<1>3. Held = leadLeft + followUpLeft + SumOf(heldParts) /\ Unstarted = SumOf(planParts)
  BY DEF Held, Unstarted, LeftIn, heldParts, planParts
<1>4. leadLeft \in Nat /\ followUpLeft \in Nat
  BY DEF OutputTypeOK
<1> QED
  BY <1>1, <1>2, <1>3, <1>4

LEMMA FreeIsTheRest ==
    ASSUME OutputTypeOK
    PROVE  /\ FreeTokens \in Nat
           /\ FreeTokens > 0 => spent + reserved + Held + FreeTokens = Total
           /\ spent + reserved + Held <= Total => spent + reserved + Held + FreeTokens = Total
<1>1. Held \in Nat
  BY HeldIsNatural
<1>2. spent \in Nat /\ reserved \in Nat /\ Total \in Nat
  BY OutputAssumption DEF OutputTypeOK
<1> QED
  BY <1>1, <1>2 DEF FreeTokens, Monus

\* PlanState::lend gives what it can of what is asked.
LEMMA LentFits ==
    ASSUME OutputTypeOK, NEW tokens \in Nat
    PROVE  /\ Lent(tokens) \in [Part -> Nat]
           /\ SumOf(Lent(tokens)) = Lesser(Unstarted, tokens)
           /\ \A i \in Part : /\ Lent(tokens)[i] <= share[i].left
                              /\ share[i].stage # "planned" => Lent(tokens)[i] = 0
<1>1. \A i \in Part : share[i].left \in Nat /\ planParts[i] \in Nat
  BY HeldIsNatural DEF OutputTypeOK, Share
<1>2. ASSUME NEW i \in Part
      PROVE  /\ Before(planParts, i) \in Nat
             /\ Lent(tokens)[i] = IF i \in PlannedSlots
                     THEN Lesser(share[i].left, Monus(tokens, Before(planParts, i))) ELSE 0
  <2>1. [j \in Part |-> IF j < i THEN planParts[j] ELSE 0]
            = [j \in Part |-> IF j < i /\ j \in PlannedSlots THEN share[j].left ELSE 0]
    BY DEF planParts, PlannedSlots
  <2>2. Before(planParts, i) \in Nat
    BY <1>1, SumIsNatural DEF Before
  <2> QED
    BY <2>1, <2>2 DEF Lent, Before
<1>3. ASSUME NEW i \in Part
      PROVE  /\ Lent(tokens)[i] = Lesser(planParts[i], Monus(tokens, Before(planParts, i)))
             /\ Lent(tokens)[i] \in Nat /\ Lent(tokens)[i] <= share[i].left
             /\ share[i].stage # "planned" => Lent(tokens)[i] = 0
  <2>1. planParts[i] = IF i \in PlannedSlots THEN share[i].left ELSE 0
    BY DEF planParts, PlannedSlots
  <2> QED
    BY <1>1, <1>2, <2>1 DEF Lesser, Monus, PlannedSlots
<1>4. SumOf(Lent(tokens)) = Lesser(SumOf(planParts), tokens)
  BY <1>1, <1>3, Dealt
<1>5. Lent(tokens) \in [Part -> Nat]
  BY <1>3 DEF Lent
<1> QED
  BY <1>3, <1>4, <1>5, HeldIsNatural

LEMMA OwnIsNatural ==
    ASSUME OutputTypeOK, HoldersFitShares, NEW a \in Agent
    PROVE  /\ Own(a) \in Nat
           /\ a = "lead" => Own(a) = leadLeft
           /\ \A i \in Part : Holds(a, i) => a # "lead" /\ Own(a) = share[i].left
           /\ a # "lead" /\ (\A i \in Part : ~Holds(a, i)) => Own(a) = 0
<1>1. leadLeft \in Nat /\ \A i \in Part : share[i].left \in Nat
  BY DEF OutputTypeOK, Share
<1>2. IsLead(a) <=> a = "lead"
  BY DEF HoldersFitShares
<1>3. account[a].kind = "share" =>
          account[a].slot \in Part /\ share[account[a].slot].stage = "running" /\ ~IsLead(a)
  BY DEF HoldersFitShares, IsLead
<1> QED
  BY <1>1, <1>2, <1>3 DEF Own, Holds

\* What a grant draws: each reserve for no more than it holds, and together
\* with what is free all of it.
LEMMA DrawnFits ==
    ASSUME OutputTypeOK, HoldersFitShares, NEW a \in Agent, NEW purpose \in Purpose,
           NEW tokens \in Nat, tokens <= Available(a, purpose), NEW t, t = Drawn(a, tokens, purpose)
    PROVE  /\ t \in Turn /\ t.tokens = tokens
           /\ t.own <= Own(a) /\ t.followUp <= followUpLeft
           /\ \A i \in Part : /\ t.lent[i] <= share[i].left
                              /\ share[i].stage # "planned" => t.lent[i] = 0
           /\ a # "lead" => t.lent = NoTurn.lent
           /\ SumOf(t.lent) \in Nat
           /\ t.own + t.followUp + SumOf(t.lent) <= tokens
           /\ tokens <= t.own + t.followUp + SumOf(t.lent) + FreeTokens
<1> DEFINE r == Reach(a, purpose)
           own == Lesser(tokens, r.own)
           rest == Monus(tokens - own, IF IsLead(a) THEN r.free ELSE 0)
           fromFollowUp == Lesser(rest, r.followUp)
           borrowed == IF IsLead(a) THEN Lesser(rest - fromFollowUp, r.unstarted) ELSE 0
<1>1. /\ t.tokens = tokens /\ t.own = own /\ t.followUp = fromFollowUp
      /\ t.lent = Lent(borrowed) /\ t.purpose = purpose
      /\ t = [tokens |-> tokens, own |-> own, followUp |-> fromFollowUp,
              lent |-> Lent(borrowed), purpose |-> purpose]
  BY DEF Drawn
<1>2. /\ r.own = Own(a) /\ r.free = FreeTokens
      /\ r.followUp = IF ReachesFollowUp(a, purpose) THEN followUpLeft ELSE 0
      /\ r.unstarted = IF LeadFinal(a, purpose) THEN Unstarted ELSE 0
      /\ Available(a, purpose) = r.own + r.followUp + r.free + r.unstarted
  BY DEF Reach, Available
<1>3. /\ Own(a) \in Nat /\ FreeTokens \in Nat /\ Unstarted \in Nat /\ followUpLeft \in Nat
  BY OwnIsNatural, FreeIsTheRest, HeldIsNatural DEF OutputTypeOK
<1>4. /\ r.own \in Nat /\ r.free \in Nat /\ r.followUp \in Nat /\ r.unstarted \in Nat
      /\ r.followUp <= followUpLeft /\ r.unstarted <= Unstarted
      /\ ~IsLead(a) => r.unstarted = 0
  BY <1>2, <1>3 DEF LeadFinal
<1> HIDE DEF r
<1>5. /\ own \in Nat /\ rest \in Nat /\ fromFollowUp \in Nat /\ borrowed \in Nat
      /\ own <= r.own /\ fromFollowUp <= r.followUp /\ borrowed <= r.unstarted
      /\ own + fromFollowUp + borrowed <= tokens
      /\ tokens <= own + fromFollowUp + borrowed + r.free
      /\ ~IsLead(a) => borrowed = 0
  <2>1. tokens <= r.own + r.followUp + r.free + r.unstarted
    BY <1>2
  <2>2. CASE IsLead(a)
    <3>1. /\ rest = Monus(tokens - own, r.free)
          /\ borrowed = Lesser(rest - fromFollowUp, r.unstarted)
      BY <2>2
    <3>2. own \in Nat /\ own <= r.own /\ own <= tokens /\ (own < r.own => own = tokens)
      BY <1>4 DEF Lesser
    <3> HIDE DEF own, rest, borrowed
    <3>3. rest \in Nat /\ own + rest <= tokens /\ tokens <= own + rest + r.free
          /\ rest <= Monus(tokens, r.own + r.free)
      BY <1>4, <3>1, <3>2 DEF Monus
    <3>4. /\ fromFollowUp \in Nat /\ fromFollowUp <= r.followUp /\ fromFollowUp <= rest
          /\ (fromFollowUp < r.followUp => fromFollowUp = rest)
      BY <1>4, <3>3 DEF Lesser
    <3> HIDE DEF fromFollowUp
    <3>5. /\ borrowed \in Nat /\ borrowed <= r.unstarted /\ borrowed <= rest - fromFollowUp
          /\ (borrowed < r.unstarted => borrowed = rest - fromFollowUp)
      BY <1>4, <3>1, <3>3, <3>4 DEF Lesser
    <3>6. fromFollowUp + borrowed = rest
      BY <1>4, <2>1, <3>3, <3>4, <3>5 DEF Monus
    <3> QED
      BY <2>2, <1>4, <3>2, <3>3, <3>4, <3>5, <3>6
  <2>3. CASE ~IsLead(a)
    BY <1>4, <2>1, <2>3 DEF Lesser, Monus
  <2> QED
    BY <2>2, <2>3
<1> HIDE DEF own, rest, fromFollowUp, borrowed
<1>6. /\ Lent(borrowed) \in [Part -> Nat]
      /\ SumOf(Lent(borrowed)) = borrowed
      /\ \A i \in Part : /\ Lent(borrowed)[i] <= share[i].left
                         /\ share[i].stage # "planned" => Lent(borrowed)[i] = 0
  <2>1. Lesser(Unstarted, borrowed) = borrowed
    BY <1>3, <1>4, <1>5 DEF Lesser
  <2> QED
    BY <1>5, <2>1, LentFits
<1>7. a # "lead" => t.lent = NoTurn.lent
  <2> SUFFICES ASSUME a # "lead" PROVE Lent(borrowed) = NoTurn.lent
    BY <1>1
  <2>1. borrowed = 0
    BY <1>5 DEF HoldersFitShares
  <2>2. \A i \in Part : Lent(borrowed)[i] = 0
    BY <1>6, <2>1, SumIsNatural
  <2>3. NoTurn.lent = [i \in Part |-> 0]
    BY DEF NoTurn
  <2> QED
    BY <1>6, <2>2, <2>3
<1>8. t \in Turn
  BY <1>1, <1>5, <1>6 DEF Turn
<1> QED
  BY <1>1, <1>2, <1>4, <1>5, <1>6, <1>7, <1>8

\* What a turn gives back: no part more than it lent, and all of it together no
\* more than the turn did not use.
LEMMA BackFits ==
    ASSUME NEW t \in Turn, NEW spend \in Nat,
           t.own + t.followUp + SumOf(t.lent) <= t.tokens
    PROVE  /\ BackTo(t, spend) \in [Part -> Nat]
           /\ \A i \in Part : BackTo(t, spend)[i] <= t.lent[i]
           /\ Unused(t, spend) \in Nat /\ Unused(t, spend) <= t.own
           /\ Monus(t.followUp, Monus(spend, t.own)) \in Nat
           /\ Monus(spend, t.tokens) \in Nat
           /\ spend + Unused(t, spend) + Monus(t.followUp, Monus(spend, t.own)) + SumOf(BackTo(t, spend))
                  <= t.tokens + Monus(spend, t.tokens)
<1> DEFINE rest == Monus(Monus(spend, t.own), t.followUp)
           usedUp == [i \in Part |-> Lesser(t.lent[i], Monus(rest, Before(t.lent, i)))]
<1>1. /\ t.tokens \in Nat /\ t.own \in Nat /\ t.followUp \in Nat
      /\ \A i \in Part : t.lent[i] \in Nat
  BY DEF Turn
<1>2. rest \in Nat
  BY <1>1 DEF Monus
<1>3. SumOf(t.lent) \in Nat
  BY <1>1, SumIsNatural
<1>4. \A i \in Part : BackTo(t, spend)[i] = t.lent[i] - usedUp[i]
  BY DEF BackTo, Before
<1>5. \A i \in Part : Before(t.lent, i) \in Nat
  BY <1>1, SumIsNatural DEF Before
<1>6. SumOf(usedUp) = Lesser(SumOf(t.lent), rest)
  <2> HIDE DEF rest
  <2> QED
    BY <1>1, <1>2, Dealt
<1>7. ASSUME NEW i \in Part
      PROVE  /\ usedUp[i] \in Nat /\ usedUp[i] <= t.lent[i]
             /\ BackTo(t, spend)[i] \in Nat /\ BackTo(t, spend)[i] <= t.lent[i]
             /\ t.lent[i] = BackTo(t, spend)[i] + usedUp[i]
  <2> HIDE DEF rest
  <2>1. usedUp[i] \in Nat /\ usedUp[i] <= t.lent[i]
    BY <1>1, <1>2, <1>5 DEF Lesser, Monus
  <2> HIDE DEF usedUp
  <2> QED
    BY <1>1, <1>4, <2>1
<1>8. BackTo(t, spend) \in [Part -> Nat]
  BY <1>7 DEF BackTo
<1>9. SumOf(t.lent) = SumOf(BackTo(t, spend)) + SumOf(usedUp) /\ SumOf(BackTo(t, spend)) \in Nat
  <2> HIDE DEF usedUp
  <2> QED
    BY <1>1, <1>7, SumAdds, SumIsNatural
<1> HIDE DEF usedUp
<1>10. SumOf(BackTo(t, spend)) = SumOf(t.lent) - Lesser(SumOf(t.lent), rest)
  BY <1>2, <1>3, <1>6, <1>9 DEF Lesser
<1> QED
  BY <1>1, <1>3, <1>7, <1>8, <1>10 DEF Lesser, Monus, Unused

-----------------------------------------------------------------------------
(* What steps of one kind have in common.                                  *)

LEMMA HeldNext ==
    ASSUME OutputTypeOK'
    PROVE  /\ Held' = leadLeft' + followUpLeft' + SumOf(heldParts')
           /\ \A i \in Part :
                 /\ heldParts'[i] = IF share'[i].stage \in {"planned", "running"}
                                    THEN share'[i].left ELSE 0
                 /\ heldParts'[i] \in Nat
           /\ SumOf(heldParts') \in Nat /\ Held' \in Nat
<1>1. Held' = leadLeft' + followUpLeft' + SumOf(heldParts')
  BY DEF Held, LeftIn, heldParts
<1>2. ASSUME NEW i \in Part
      PROVE  /\ heldParts'[i] = IF share'[i].stage \in {"planned", "running"}
                                THEN share'[i].left ELSE 0
             /\ heldParts'[i] \in Nat
  BY DEF OutputTypeOK, Share, heldParts
<1>3. SumOf(heldParts') \in Nat
  BY <1>2, SumIsNatural
<1> QED
  BY <1>1, <1>2, <1>3 DEF OutputTypeOK

LEMMA HoldersStand ==
    ASSUME HoldersFitShares, UNCHANGED account, \A i \in Part : share'[i].stage = share[i].stage
    PROVE  HoldersFitShares'
BY DEF HoldersFitShares, IsLead, Holds

\* A turn begins or ends: the tokens in flight change by its own.
LEMMA TurnOfOne ==
    ASSUME OutputTypeOK, BooksBalance, NEW a \in Agent, NEW t \in Turn,
           turn' = [turn EXCEPT ![a] = t]
    PROVE  /\ reserved \in Nat /\ turn[a].tokens <= reserved
           /\ TokensInFlight' = (reserved - turn[a].tokens) + t.tokens
<1> DEFINE f == [b \in Agent |-> turn[b].tokens]
           g == [b \in Agent |-> turn'[b].tokens]
<1>1. /\ \A b \in Agent : f[b] \in Nat /\ g[b] \in Nat
      /\ f[a] = turn[a].tokens /\ g[a] = t.tokens
      /\ \A b \in Agent \ {a} : g[b] = f[b]
  BY DEF OutputTypeOK, Turn
<1>2. TokensInFlight = Tally(f, Agent) /\ TokensInFlight' = Tally(g, Agent)
  BY DEF TokensInFlight
<1>3. reserved = TokensInFlight /\ reserved \in Nat
  BY DEF BooksBalance, OutputTypeOK
<1> HIDE DEF f, g
<1>4. IsFiniteSet(Agent)
  BY AgentsAreFinite
<1>5. Tally(g, Agent) \in Nat /\ Tally(g, Agent) + f[a] = Tally(f, Agent) + g[a]
  BY <1>1, <1>4, TallyChange
<1>6. Tally(f, Agent \ {a}) \in Nat /\ Tally(f, Agent) = Tally(f, Agent \ {a}) + f[a]
  BY <1>1, <1>4, TallySplit
<1> QED
  BY <1>1, <1>2, <1>3, <1>5, <1>6

LEMMA TurnsOfOne ==
    ASSUME OutputTypeOK, TurnsFitGrants, NEW a \in Agent, NEW t \in Turn,
           turn' = [turn EXCEPT ![a] = t], UNCHANGED account,
           t = NoTurn \/ (t.tokens > 0 /\ Running(a) /\ turns' # 0),
           a # "lead" => t.lent = NoTurn.lent,
           t.own + t.followUp + SumOf(t.lent) <= t.tokens,
           turns' = 0 => turns = 0
    PROVE  TurnsFitGrants'
<1>1. turn'[a] = t /\ \A b \in Agent \ {a} : turn'[b] = turn[b]
  BY DEF OutputTypeOK
<1>2. t = NoTurn => t.tokens = 0
  BY DEF NoTurn
<1>3. \A b \in Agent : Running(b)' <=> Running(b)
  BY DEF Running
<1>4. ASSUME NEW b \in Agent
      PROVE  /\ ~InFlight(b)' => turn'[b] = NoTurn
             /\ ~Running(b)' => ~InFlight(b)'
             /\ b \in Worker => turn'[b].lent = NoTurn.lent
             /\ turn'[b].own + turn'[b].followUp + SumOf(turn'[b].lent) <= turn'[b].tokens
             /\ turns' = 0 => ~InFlight(b)'
  <2>1. CASE b = a
    BY <1>1, <1>2, <1>3, <2>1, AgentsAreFinite DEF InFlight, Turn
  <2>2. CASE b # a
    BY <1>1, <1>3, <2>2 DEF TurnsFitGrants, InFlight
  <2> QED
    BY <2>1, <2>2
<1> QED
  BY <1>4, AgentsAreFinite DEF TurnsFitGrants

LEMMA NoTurnIsEmpty ==
    /\ NoTurn \in Turn /\ NoTurn.tokens = 0 /\ NoTurn.own = 0 /\ NoTurn.followUp = 0
    /\ \A i \in Part : NoTurn.lent[i] = 0
    /\ SumOf(NoTurn.lent) = 0
<1>1. \A i \in Part : NoTurn.lent[i] = 0
  BY DEF NoTurn
<1> QED
  BY <1>1, SumOfZeros DEF NoTurn, Turn, Purpose

\* What a turn draws on its own account, on the parts of the plan.
ownParts(a, tokens) == [i \in Part |-> IF Holds(a, i) THEN tokens ELSE 0]

LEMMA OwnIsInOnePlace ==
    ASSUME OutputTypeOK, HoldersFitShares, NEW a \in Agent, NEW tokens \in Nat
    PROVE  /\ \A i \in Part : /\ ownParts(a, tokens)[i] = IF Holds(a, i) THEN tokens ELSE 0
                              /\ ownParts(a, tokens)[i] \in Nat
           /\ SumOf(ownParts(a, tokens)) \in Nat
           /\ IsLead(a) => SumOf(ownParts(a, tokens)) = 0
           /\ SumOf(ownParts(a, tokens)) <= tokens
           /\ ~IsLead(a) /\ tokens <= Own(a) => SumOf(ownParts(a, tokens)) = tokens
<1>1. \A i \in Part : /\ ownParts(a, tokens)[i] = IF Holds(a, i) THEN tokens ELSE 0
                      /\ ownParts(a, tokens)[i] \in Nat
  BY DEF ownParts
<1>2. SumOf(ownParts(a, tokens)) \in Nat
  BY <1>1, SumIsNatural
<1>3. CASE \E i \in Part : Holds(a, i)
  <2>1. PICK i \in Part : Holds(a, i)
    BY <1>3
  <2>2. ~IsLead(a) /\ \A j \in Part : Holds(a, j) <=> j = i
    BY <2>1 DEF Holds, IsLead
  <2>3. SumOf(ownParts(a, tokens)) = tokens
    BY <1>1, <2>2, SumOfOne
  <2> QED
    BY <1>1, <1>2, <2>2, <2>3
<1>4. CASE \A i \in Part : ~Holds(a, i)
  <2>1. SumOf(ownParts(a, tokens)) = 0
    BY <1>1, <1>4, SumOfZeros
  <2>2. ~IsLead(a) => Own(a) = 0
    BY <1>4, OwnIsNatural DEF HoldersFitShares
  <2> QED
    BY <1>1, <2>1, <2>2
<1> QED
  BY <1>3, <1>4

-----------------------------------------------------------------------------
(* The steps.                                                              *)

LEMMA OutputInvInit == OutputInit => OutputInv
<1> SUFFICES ASSUME OutputInit PROVE OutputInv
  OBVIOUS
<1> USE DEF OutputInit
<1>1. OutputTypeOK
  <2>1. share \in [Part -> Share]
    BY DEF NoShare, Share, Demand
  <2>2. turn \in [Agent -> Turn]
    BY NoTurnIsEmpty
  <2>3. account \in [Agent -> [kind : {"lead", "none", "share", "followUp", "unplanned", "over"},
                               slot : Part \cup {0}]]
    OBVIOUS
  <2>4. {spent, reserved, overrun, lead, leadLeft, followUp, followUpLeft, turns} \subseteq Nat
    OBVIOUS
  <2>5. divided \in BOOLEAN
    BY Zenon
  <2> HIDE DEF OutputInit
  <2> QED
    BY <2>1, <2>2, <2>3, <2>4, <2>5 DEF OutputTypeOK
<1>2. HoldersFitShares
  BY DEF HoldersFitShares, IsLead, Holds, NoShare
<1>3. TurnsFitGrants
  BY NoTurnIsEmpty, AgentsAreFinite DEF TurnsFitGrants, InFlight
<1>4. BooksBalance
  <2>1. TokensInFlight = 0
    <3> DEFINE f == [a \in Agent |-> turn[a].tokens]
    <3>1. \A a \in Agent : f[a] = 0
      BY NoTurnIsEmpty
    <3> HIDE DEF f
    <3>2. Tally(f, Agent) = 0
      BY <3>1, TallyZero
    <3> QED
      BY <3>2 DEF f, TokensInFlight
  <2>2. SumOf(heldParts) = 0
    <3>1. \A i \in Part : heldParts[i] = 0
      BY DEF heldParts, NoShare
    <3> QED
      BY <3>1, SumOfZeros
  <2>3. Held = 0
    BY <1>1, <2>2, HeldIsNatural
  <2> QED
    BY <2>1, <2>3, OutputAssumption DEF BooksBalance
<1>5. SharesStayWithinPlan
  BY NoTurnIsEmpty, AgentsAreFinite DEF SharesStayWithinPlan, NoShare, Holds
<1> QED
  BY <1>1, <1>2, <1>3, <1>4, <1>5 DEF OutputInv

LEMMA ReserveKeepsBooks ==
    ASSUME OutputInv, NEW a \in Agent, NEW ask \in Asks, NEW purpose \in Purpose,
           Reserve(a, ask, purpose)
    PROVE  OutputInv'
<1> USE DEF OutputInv
<1> DEFINE t == Drawn(a, Lesser(ask, Available(a, purpose)), purpose)
           own == ownParts(a, t.own)
<1>1. /\ turn' = [turn EXCEPT ![a] = t]
      /\ reserved' = reserved + t.tokens
      /\ leadLeft' = IF IsLead(a) THEN leadLeft - t.own ELSE leadLeft
      /\ followUpLeft' = followUpLeft - t.followUp
      /\ share' = Taken(a, t)
      /\ turns' = turns + 1
      /\ UNCHANGED <<spent, overrun, planVars, account>>
      /\ Running(a) /\ ~InFlight(a) /\ Available(a, purpose) >= MinGrant
  BY DEF Reserve
<1>2. /\ Lesser(ask, Available(a, purpose)) \in Nat \ {0}
      /\ Lesser(ask, Available(a, purpose)) <= Available(a, purpose)
  <2>1. Available(a, purpose) \in Nat
    BY OwnIsNatural, FreeIsTheRest, HeldIsNatural DEF Available, Reach, OutputTypeOK
  <2>2. ask \in Nat \ {0} /\ MinGrant \in Nat \ {0}
    BY OutputAssumption
  <2> QED
    BY <1>1, <2>1, <2>2 DEF Lesser
<1>3. /\ t \in Turn /\ t.tokens \in Nat \ {0}
      /\ t.own \in Nat /\ t.followUp \in Nat
      /\ t.own <= Own(a) /\ t.followUp <= followUpLeft
      /\ \A i \in Part : /\ t.lent[i] \in Nat /\ t.lent[i] <= share[i].left
                         /\ share[i].stage # "planned" => t.lent[i] = 0
      /\ a # "lead" => t.lent = NoTurn.lent
      /\ SumOf(t.lent) \in Nat
      /\ t.own + t.followUp + SumOf(t.lent) <= t.tokens
      /\ t.tokens <= t.own + t.followUp + SumOf(t.lent) + FreeTokens
  <2>1. /\ t \in Turn /\ t.tokens = Lesser(ask, Available(a, purpose))
        /\ t.own <= Own(a) /\ t.followUp <= followUpLeft
        /\ \A i \in Part : /\ t.lent[i] <= share[i].left
                           /\ share[i].stage # "planned" => t.lent[i] = 0
        /\ a # "lead" => t.lent = NoTurn.lent
        /\ SumOf(t.lent) \in Nat
        /\ t.own + t.followUp + SumOf(t.lent) <= Lesser(ask, Available(a, purpose))
        /\ Lesser(ask, Available(a, purpose)) <= t.own + t.followUp + SumOf(t.lent) + FreeTokens
    BY <1>2, DrawnFits
  <2> HIDE DEF t
  <2> QED
    BY <1>2, <2>1 DEF Turn
<1> HIDE DEF t
<1>4. /\ \A i \in Part : own[i] = (IF Holds(a, i) THEN t.own ELSE 0) /\ own[i] \in Nat
      /\ SumOf(own) \in Nat
      /\ IsLead(a) => SumOf(own) = 0
      /\ ~IsLead(a) => SumOf(own) = t.own
  BY <1>3, OwnIsInOnePlace
<1>5. ASSUME NEW i \in Part
      PROVE  /\ share'[i].left = (share[i].left - own[i]) - t.lent[i]
             /\ share'[i].left \in Nat /\ share[i].left \in Nat
             /\ share'[i].stage = share[i].stage /\ share'[i].planned = share[i].planned
             /\ share'[i] \in Share
             /\ own[i] > 0 => share[i].stage = "running"
  <2>1. share'[i] = [share[i] EXCEPT !.left = (@ - own[i]) - t.lent[i]]
    BY <1>1, <1>4 DEF Taken
  <2>2. share[i] \in Share
    BY DEF OutputTypeOK
  <2>3. own[i] > 0 => own[i] <= share[i].left /\ share[i].stage = "running"
    <3>1. Holds(a, i) => Own(a) = share[i].left /\ share[i].stage = "running"
      BY OwnIsNatural DEF HoldersFitShares, Holds
    <3> QED
      BY <1>3, <1>4, <3>1
  <2>4. (share[i].left - own[i]) - t.lent[i] \in Nat
    BY <1>3, <1>4, <2>2, <2>3 DEF Share
  <2> HIDE DEF own
  <2> QED
    BY <2>1, <2>2, <2>3, <2>4 DEF Share
<1> HIDE DEF own
<1>6. leadLeft' \in Nat /\ followUpLeft' \in Nat
  <2>1. leadLeft \in Nat /\ followUpLeft \in Nat
    BY DEF OutputTypeOK
  <2>2. IsLead(a) => t.own <= leadLeft
    BY <1>3, OwnIsNatural DEF HoldersFitShares
  <2> QED
    BY <1>1, <1>3, <2>1, <2>2
<1>7. OutputTypeOK'
  <2>1. share' \in [Part -> Share]
    BY <1>1, <1>5 DEF Taken
  <2>2. turn' \in [Agent -> Turn]
    BY <1>1, <1>3 DEF OutputTypeOK
  <2>3. reserved' \in Nat /\ turns' \in Nat
    BY <1>1, <1>3 DEF OutputTypeOK
  <2> QED
    BY <1>1, <1>6, <2>1, <2>2, <2>3 DEF OutputTypeOK, planVars
<1>8. HoldersFitShares'
  BY <1>1, <1>5, HoldersStand
<1>9. TurnsFitGrants'
  <2>1. turns' # 0 /\ UNCHANGED account /\ Running(a)
    BY <1>1 DEF OutputTypeOK
  <2>2. turn' = [turn EXCEPT ![a] = t]
    BY <1>1
  <2>3. t.tokens > 0 /\ t \in Turn
    BY <1>3
  <2> QED
    BY <1>3, <2>1, <2>2, <2>3, TurnsOfOne
<1>10. BooksBalance'
  <2>1. turn[a].tokens = 0
    BY <1>1 DEF InFlight, OutputTypeOK, Turn
  <2>2. reserved' = TokensInFlight'
    <3>1. turn' = [turn EXCEPT ![a] = t] /\ t \in Turn
      BY <1>1, <1>3
    <3>2. reserved \in Nat /\ TokensInFlight' = (reserved - turn[a].tokens) + t.tokens
      BY <3>1, TurnOfOne
    <3> QED
      BY <1>1, <1>3, <2>1, <3>2
  <2>3. SumOf(heldParts) = SumOf(heldParts') + SumOf(own) + SumOf(t.lent)
    <3> DEFINE drawn == [i \in Part |-> own[i] + t.lent[i]]
    <3>1. \A i \in Part : /\ heldParts[i] = heldParts'[i] + drawn[i]
                          /\ heldParts[i] \in Nat /\ heldParts'[i] \in Nat
                          /\ drawn[i] \in Nat /\ drawn[i] = own[i] + t.lent[i]
                          /\ own[i] \in Nat /\ t.lent[i] \in Nat
      BY <1>3, <1>4, <1>5, <1>7, HeldNext, HeldIsNatural DEF heldParts
    <3> HIDE DEF drawn
    <3>2. SumOf(heldParts) = SumOf(heldParts') + SumOf(drawn)
      BY <3>1, SumAdds
    <3>3. SumOf(drawn) = SumOf(own) + SumOf(t.lent)
      BY <3>1, SumAdds
    <3>4. SumOf(heldParts') \in Nat
      BY <1>7, HeldNext
    <3> QED
      BY <1>3, <1>4, <3>2, <3>3, <3>4
  <2>4. Held = Held' + t.own + t.followUp + SumOf(t.lent)
    <3>1. /\ Held = leadLeft + followUpLeft + SumOf(heldParts)
          /\ Held' = leadLeft' + followUpLeft' + SumOf(heldParts')
          /\ SumOf(heldParts) \in Nat /\ SumOf(heldParts') \in Nat
          /\ leadLeft \in Nat /\ followUpLeft \in Nat
      BY <1>7, HeldIsNatural, HeldNext DEF OutputTypeOK
    <3>2. leadLeft + SumOf(heldParts) = leadLeft' + SumOf(heldParts') + t.own + SumOf(t.lent)
      BY <1>1, <1>3, <1>4, <2>3, <3>1
    <3> QED
      BY <1>1, <1>3, <1>6, <3>1, <3>2
  <2>5. /\ spent + reserved + Held <= Total + overrun
        /\ spent \in Nat /\ reserved \in Nat /\ overrun \in Nat /\ Total \in Nat
        /\ Held \in Nat /\ Held' \in Nat /\ FreeTokens \in Nat
        /\ FreeTokens > 0 => spent + reserved + Held + FreeTokens = Total
    BY <1>7, HeldNext, HeldIsNatural, FreeIsTheRest, OutputAssumption
       DEF BooksBalance, OutputTypeOK
  <2>6. spent + (reserved + t.tokens) + Held' <= Total + overrun
    BY <1>3, <2>4, <2>5
  <2> QED
    BY <1>1, <2>2, <2>6 DEF BooksBalance
<1>11. SharesStayWithinPlan'
  <2> SUFFICES ASSUME NEW i \in Part
        PROVE  /\ share'[i].left + turn'["lead"].lent[i] <= share'[i].planned
               /\ \A w \in Worker : Holds(w, i)' =>
                     share'[i].left + turn'["lead"].lent[i] + turn'[w].own <= share'[i].planned
    BY DEF SharesStayWithinPlan
  <2>1. /\ turn'[a] = t /\ \A b \in Agent \ {a} : turn'[b] = turn[b]
        /\ turn[a].own = 0 /\ turn[a].lent[i] = 0
    BY <1>1, NoTurnIsEmpty DEF OutputTypeOK, TurnsFitGrants
  <2>2. \A w \in Worker : Holds(w, i)' <=> Holds(w, i)
    BY <1>1 DEF Holds
  <2>3. /\ share[i].left + turn["lead"].lent[i] <= share[i].planned
        /\ \A w \in Worker : Holds(w, i) =>
              share[i].left + turn["lead"].lent[i] + turn[w].own <= share[i].planned
    BY DEF SharesStayWithinPlan
  <2>4. /\ share[i].planned \in Nat /\ \A w \in Worker : turn[w].own \in Nat
        /\ turn["lead"].lent[i] \in Nat
    BY AgentsAreFinite DEF OutputTypeOK, Share, Turn
  <2>5. CASE a = "lead"
    <3>1. own[i] = 0
      BY <1>4, <2>5 DEF HoldersFitShares, IsLead, Holds
    <3>2. \A w \in Worker : turn'[w] = turn[w]
      BY <2>1, <2>5, AgentsAreFinite
    <3> QED
      BY <1>3, <1>5, <2>1, <2>2, <2>3, <2>4, <2>5, <3>1, <3>2
  <2>6. CASE a # "lead"
    <3>1. turn'["lead"] = turn["lead"] /\ t.lent[i] = 0
      BY <1>3, <2>1, <2>6, AgentsAreFinite, NoTurnIsEmpty
    <3>2. share'[i].left = share[i].left - own[i]
      BY <1>3, <1>4, <1>5, <3>1
    <3>3. ASSUME NEW w \in Worker, Holds(w, i)
          PROVE  share'[i].left + turn'["lead"].lent[i] + turn'[w].own <= share'[i].planned
      <4>1. CASE w = a
        <5>1. own[i] = t.own /\ turn'[w].own = t.own
          BY <1>4, <2>1, <3>3, <4>1
        <5> QED
          BY <1>3, <1>5, <2>3, <2>4, <3>1, <3>2, <5>1
      <4>2. CASE w # a
        <5>1. turn'[w] = turn[w]
          BY <2>1, <4>2, AgentsAreFinite
        <5> QED
          BY <1>4, <1>5, <2>3, <2>4, <3>1, <3>2, <3>3, <5>1
      <4> QED
        BY <4>1, <4>2
    <3> QED
      BY <1>4, <1>5, <2>2, <2>3, <2>4, <3>1, <3>2, <3>3
  <2> QED
    BY <2>5, <2>6
<1> QED
  BY <1>7, <1>8, <1>9, <1>10, <1>11

\* A turn that ends leaves the others' draws as they are, and gives a share back
\* no more than it had drawn of it.
LEMMA EndingTurnKeepsPlan ==
    ASSUME OutputInv, NEW a \in Agent, turn' = [turn EXCEPT ![a] = NoTurn], UNCHANGED account,
           \A i \in Part : /\ share'[i].left \in Nat /\ share'[i].planned = share[i].planned
                           /\ share'[i].left <= share[i].left + turn[a].lent[i]
                                                + (IF Holds(a, i) THEN turn[a].own ELSE 0)
    PROVE  SharesStayWithinPlan'
<1> USE DEF OutputInv
<1> SUFFICES ASSUME NEW i \in Part
      PROVE  /\ share'[i].left + turn'["lead"].lent[i] <= share'[i].planned
             /\ \A w \in Worker : Holds(w, i)' =>
                   share'[i].left + turn'["lead"].lent[i] + turn'[w].own <= share'[i].planned
  BY DEF SharesStayWithinPlan
<1>1. /\ turn'[a] = NoTurn /\ \A b \in Agent \ {a} : turn'[b] = turn[b]
      /\ NoTurn.own = 0 /\ NoTurn.lent[i] = 0
  BY NoTurnIsEmpty DEF OutputTypeOK
<1>2. \A w \in Worker : Holds(w, i)' <=> Holds(w, i)
  BY DEF Holds
<1>3. /\ share[i].left + turn["lead"].lent[i] <= share[i].planned
      /\ \A w \in Worker : Holds(w, i) =>
            share[i].left + turn["lead"].lent[i] + turn[w].own <= share[i].planned
  BY DEF SharesStayWithinPlan
<1>4. /\ share[i].planned \in Nat /\ share[i].left \in Nat
      /\ \A b \in Agent : turn[b].own \in Nat /\ turn[b].lent[i] \in Nat
  BY DEF OutputTypeOK, Share, Turn
<1>5. CASE a = "lead"
  <2>1. ~Holds(a, i)
    BY <1>5 DEF HoldersFitShares, IsLead, Holds
  <2>2. \A w \in Worker : turn'[w] = turn[w] /\ turn[w].own \in Nat
    BY <1>1, <1>4, <1>5, AgentsAreFinite
  <2>3. share'[i].left <= share[i].left + turn["lead"].lent[i]
    BY <1>4, <1>5, <2>1
  <2>4. turn'["lead"].lent[i] = 0 /\ turn["lead"].lent[i] \in Nat
    BY <1>1, <1>4, <1>5
  <2> QED
    BY <1>2, <1>3, <1>4, <2>2, <2>3, <2>4
<1>6. CASE a # "lead"
  <2>1. turn'["lead"] = turn["lead"] /\ turn["lead"].lent[i] \in Nat /\ turn[a].lent[i] = 0
    BY <1>1, <1>4, <1>6, AgentsAreFinite DEF TurnsFitGrants, Agent
  <2>2. share'[i].left <= share[i].left + (IF Holds(a, i) THEN turn[a].own ELSE 0)
    BY <1>4, <2>1
  <2>3. Holds(a, i) => a \in Worker
    BY <1>6 DEF Agent
  <2>4. ASSUME NEW w \in Worker, Holds(w, i)
        PROVE  share'[i].left + turn'["lead"].lent[i] + turn'[w].own <= share'[i].planned
    <3>1. CASE w = a
      BY <1>1, <1>3, <1>4, <2>1, <2>2, <2>4, <3>1, AgentsAreFinite
    <3>2. CASE w # a
      <4>1. ~Holds(a, i) /\ turn'[w] = turn[w] /\ turn[w].own \in Nat
        BY <1>1, <1>4, <2>4, <3>2, AgentsAreFinite DEF HoldersFitShares
      <4> QED
        BY <1>3, <1>4, <2>1, <2>2, <2>4, <4>1
    <3> QED
      BY <3>1, <3>2
  <2>5. share'[i].left + turn'["lead"].lent[i] <= share'[i].planned
    BY <1>3, <1>4, <2>1, <2>2, <2>3
  <2> QED
    BY <1>2, <2>4, <2>5
<1> QED
  BY <1>5, <1>6

LEMMA ForfeitKeepsBooks ==
    ASSUME OutputInv, NEW a \in Agent, Forfeit(a)
    PROVE  OutputInv'
<1> USE DEF OutputInv
<1>1. /\ reserved' = Monus(reserved, turn[a].tokens) /\ spent' = spent + turn[a].tokens
      /\ turn' = [turn EXCEPT ![a] = NoTurn] /\ InFlight(a)
      /\ UNCHANGED <<overrun, planVars, reserveVars, share, account, turns>>
  BY DEF Forfeit
<1>2. turn[a] \in Turn /\ turn[a].tokens \in Nat /\ turn[a].own \in Nat
      /\ \A i \in Part : turn[a].lent[i] \in Nat
  BY DEF OutputTypeOK, Turn
<1>3. /\ reserved \in Nat /\ turn[a].tokens <= reserved
      /\ TokensInFlight' = reserved - turn[a].tokens
  <2>1. /\ reserved \in Nat /\ turn[a].tokens <= reserved
        /\ TokensInFlight' = (reserved - turn[a].tokens) + NoTurn.tokens
    BY <1>1, NoTurnIsEmpty, TurnOfOne
  <2> QED
    BY <1>2, <2>1, NoTurnIsEmpty
<1>4. reserved' = reserved - turn[a].tokens /\ reserved' \in Nat
  BY <1>1, <1>2, <1>3 DEF Monus
<1>5. OutputTypeOK'
  <2>1. turn' \in [Agent -> Turn] /\ spent' \in Nat
    BY <1>1, <1>2, NoTurnIsEmpty DEF OutputTypeOK
  <2> QED
    BY <1>1, <1>4, <2>1 DEF OutputTypeOK, planVars, reserveVars
<1>6. HoldersFitShares'
  BY <1>1, HoldersStand
<1>7. TurnsFitGrants'
  <2>1. NoTurn.own + NoTurn.followUp + SumOf(NoTurn.lent) <= NoTurn.tokens
    BY NoTurnIsEmpty
  <2> QED
    BY <1>1, <2>1, NoTurnIsEmpty, TurnsOfOne
<1>8. BooksBalance'
  <2>1. Held' = Held
    BY <1>1 DEF Held, LeftIn, reserveVars
  <2>2. spent \in Nat /\ Held \in Nat
    BY HeldIsNatural DEF OutputTypeOK
  <2> QED
    BY <1>1, <1>2, <1>3, <1>4, <2>1, <2>2 DEF BooksBalance
<1>9. SharesStayWithinPlan'
  <2>1. ASSUME NEW i \in Part
        PROVE  /\ share'[i].left \in Nat /\ share'[i].planned = share[i].planned
               /\ share'[i].left <= share[i].left + turn[a].lent[i]
                                    + (IF Holds(a, i) THEN turn[a].own ELSE 0)
    BY <1>1, <1>2 DEF OutputTypeOK, Share
  <2> QED
    BY <1>1, <2>1, EndingTurnKeepsPlan
<1> QED
  BY <1>5, <1>6, <1>7, <1>8, <1>9

LEMMA ChargeKeepsBooks ==
    ASSUME OutputInv, NEW a \in Agent, NEW spend \in Used(a), Charge(a, spend)
    PROVE  OutputInv'
<1> USE DEF OutputInv
<1> DEFINE t == turn[a]
           own == Unused(t, spend)
           back == BackTo(t, spend)
           follow == Monus(t.followUp, Monus(spend, t.own))
           owns == ownParts(a, own)
<1>1. /\ reserved' = Monus(reserved, t.tokens) /\ spent' = spent + spend
      /\ overrun' = overrun + Monus(spend, t.tokens)
      /\ leadLeft' = IF IsLead(a) THEN leadLeft + own ELSE leadLeft
      /\ followUpLeft' = followUpLeft + follow
      /\ share' = [i \in Part |->
             [share[i] EXCEPT !.left = @ + Repaid(i, (IF Holds(a, i) THEN own ELSE 0) + back[i])]]
      /\ turn' = [turn EXCEPT ![a] = NoTurn] /\ t.tokens > 0
      /\ UNCHANGED <<planVars, account, turns>>
  BY DEF Charge, InFlight
<1>2. /\ t \in Turn /\ t.tokens \in Nat /\ t.own \in Nat
      /\ \A i \in Part : t.lent[i] \in Nat
      /\ t.own + t.followUp + SumOf(t.lent) <= t.tokens
  BY DEF OutputTypeOK, Turn, TurnsFitGrants
<1>3. spend \in Nat
  BY <1>1, <1>2, OutputAssumption DEF Used
<1>4. /\ back \in [Part -> Nat] /\ \A i \in Part : back[i] <= t.lent[i] /\ back[i] \in Nat
      /\ own \in Nat /\ own <= t.own /\ follow \in Nat /\ Monus(spend, t.tokens) \in Nat
      /\ spend + own + follow + SumOf(back) <= t.tokens + Monus(spend, t.tokens)
      /\ SumOf(back) \in Nat
  <2> HIDE DEF t
  <2>1. /\ back \in [Part -> Nat] /\ \A i \in Part : back[i] <= t.lent[i]
        /\ own \in Nat /\ own <= t.own /\ follow \in Nat /\ Monus(spend, t.tokens) \in Nat
        /\ spend + own + follow + SumOf(back) <= t.tokens + Monus(spend, t.tokens)
    BY <1>2, <1>3, BackFits
  <2> HIDE DEF back, own, follow
  <2>2. \A i \in Part : back[i] \in Nat
    BY <2>1
  <2>3. SumOf(back) \in Nat
    BY <2>2, SumIsNatural
  <2> QED
    BY <2>1, <2>2, <2>3
<1> HIDE DEF own, back, follow
<1>5. /\ \A i \in Part : owns[i] = (IF Holds(a, i) THEN own ELSE 0) /\ owns[i] \in Nat
      /\ SumOf(owns) \in Nat /\ SumOf(owns) <= own
      /\ IsLead(a) => SumOf(owns) = 0
  BY <1>4, OwnIsInOnePlace
<1> HIDE DEF owns
<1>6. ASSUME NEW i \in Part
      PROVE  /\ share[i].left \in Nat /\ share'[i].left \in Nat /\ share'[i] \in Share
             /\ share'[i].stage = share[i].stage /\ share'[i].planned = share[i].planned
             /\ share'[i].left <= share[i].left + owns[i] + back[i]
  <2>1. /\ share'[i] = [share[i] EXCEPT !.left = @ + Repaid(i, owns[i] + back[i])]
        /\ owns[i] + back[i] \in Nat
    BY <1>1, <1>4, <1>5
  <2>2. Repaid(i, owns[i] + back[i]) \in Nat /\ Repaid(i, owns[i] + back[i]) <= owns[i] + back[i]
    BY <2>1 DEF Repaid
  <2>3. share[i] \in Share
    BY DEF OutputTypeOK
  <2>4. share[i].left + Repaid(i, owns[i] + back[i]) <= share[i].left + owns[i] + back[i]
    BY <1>4, <1>5, <2>2, <2>3 DEF Share
  <2> QED
    BY <2>1, <2>2, <2>3, <2>4 DEF Share
<1> HIDE DEF t
<1>7. /\ reserved \in Nat /\ t.tokens <= reserved /\ TokensInFlight' = reserved - t.tokens
      /\ reserved' = reserved - t.tokens /\ reserved' \in Nat
  <2>1. /\ reserved \in Nat /\ t.tokens <= reserved
        /\ TokensInFlight' = (reserved - t.tokens) + NoTurn.tokens
    BY <1>1, NoTurnIsEmpty, TurnOfOne DEF t
  <2> QED
    BY <1>1, <1>2, <2>1, NoTurnIsEmpty DEF Monus
<1>8. OutputTypeOK'
  <2>1. turn' \in [Agent -> Turn]
    BY <1>1, NoTurnIsEmpty DEF OutputTypeOK
  <2>2. share' \in [Part -> Share]
    BY <1>1, <1>6
  <2>3. spent' \in Nat /\ overrun' \in Nat /\ leadLeft' \in Nat /\ followUpLeft' \in Nat
    BY <1>1, <1>3, <1>4 DEF OutputTypeOK
  <2> QED
    BY <1>1, <1>7, <2>1, <2>2, <2>3 DEF OutputTypeOK, planVars
<1>9. HoldersFitShares'
  BY <1>1, <1>6, HoldersStand
<1>10. TurnsFitGrants'
  <2>1. NoTurn.own + NoTurn.followUp + SumOf(NoTurn.lent) <= NoTurn.tokens
    BY NoTurnIsEmpty
  <2> QED
    BY <1>1, <2>1, NoTurnIsEmpty, TurnsOfOne
<1>11. BooksBalance'
  <2>1. SumOf(heldParts') <= SumOf(heldParts) + SumOf(owns) + SumOf(back)
    <3> DEFINE paid == [i \in Part |-> owns[i] + back[i]]
               most == [i \in Part |-> heldParts[i] + paid[i]]
    <3>1. /\ \A i \in Part : heldParts[i] \in Nat /\ owns[i] \in Nat /\ back[i] \in Nat
          /\ SumOf(heldParts) \in Nat
      BY <1>4, <1>5, HeldIsNatural
    <3>2. \A i \in Part : /\ paid[i] = owns[i] + back[i] /\ paid[i] \in Nat
                          /\ most[i] = heldParts[i] + paid[i] /\ most[i] \in Nat
      BY <3>1
    <3>3. \A i \in Part : heldParts'[i] \in Nat /\ heldParts'[i] <= most[i]
      <4> SUFFICES ASSUME NEW i \in Part PROVE heldParts'[i] \in Nat /\ heldParts'[i] <= most[i]
        OBVIOUS
      <4>1. /\ heldParts'[i] \in Nat
            /\ heldParts'[i] = IF share[i].stage \in {"planned", "running"} THEN share'[i].left ELSE 0
            /\ heldParts[i] = IF share[i].stage \in {"planned", "running"} THEN share[i].left ELSE 0
        BY <1>6, <1>8, HeldNext DEF heldParts
      <4> HIDE DEF paid, most
      <4> QED
        BY <1>6, <3>1, <3>2, <4>1
    <3> HIDE DEF paid, most
    <3>4. SumOf(heldParts') <= SumOf(most)
      BY <3>2, <3>3, SumGrows
    <3>5. SumOf(most) = SumOf(heldParts) + SumOf(paid)
      BY <3>1, <3>2, SumAdds
    <3>6. SumOf(paid) = SumOf(owns) + SumOf(back)
      BY <3>1, <3>2, SumAdds
    <3> QED
      BY <1>4, <1>5, <3>1, <3>4, <3>5, <3>6
  <2>2. Held' <= Held + own + follow + SumOf(back)
    <3>1. /\ Held = leadLeft + followUpLeft + SumOf(heldParts)
          /\ Held' = leadLeft' + followUpLeft' + SumOf(heldParts')
          /\ SumOf(heldParts) \in Nat /\ SumOf(heldParts') \in Nat
          /\ leadLeft \in Nat /\ followUpLeft \in Nat
      BY <1>8, HeldIsNatural, HeldNext DEF OutputTypeOK
    <3> QED
      BY <1>1, <1>4, <1>5, <2>1, <3>1
  <2>3. /\ spent + reserved + Held <= Total + overrun
        /\ spent \in Nat /\ overrun \in Nat /\ Total \in Nat /\ Held \in Nat /\ Held' \in Nat
    BY <1>8, HeldNext, HeldIsNatural, OutputAssumption DEF BooksBalance, OutputTypeOK
  <2>4. spent' + reserved' + Held' <= Total + overrun'
    BY <1>1, <1>2, <1>3, <1>4, <1>7, <2>2, <2>3
  <2> QED
    BY <1>7, <2>4 DEF BooksBalance
<1>12. SharesStayWithinPlan'
  <2>1. ASSUME NEW i \in Part
        PROVE  /\ share'[i].left \in Nat /\ share'[i].planned = share[i].planned
               /\ share'[i].left <= share[i].left + turn[a].lent[i]
                                    + (IF Holds(a, i) THEN turn[a].own ELSE 0)
    BY <1>2, <1>4, <1>5, <1>6 DEF t
  <2> QED
    BY <1>1, <2>1, EndingTurnKeepsPlan
<1> QED
  BY <1>8, <1>9, <1>10, <1>11, <1>12

\* The lead's part and the follow-up reserve leave no less than nothing.
LEMMA PartsStayWithin ==
    ASSUME NEW available \in Nat, NEW p \in Plan
    PROVE  /\ LeadPart(available, p) \in Nat /\ FollowUpPart(available, p) \in Nat
           /\ available - LeadPart(available, p) - FollowUpPart(available, p) \in Nat
<1>1. p.leadFloor \in Nat
  BY OutputAssumption
<1>2. /\ Percent(available, 25) \in Nat /\ Percent(available, 25) <= available
      /\ Percent(available, 10) \in Nat
      /\ available \div 2 \in Nat /\ available \div 2 <= available
  BY DEF Percent
<1>3. LeadPart(available, p) \in Nat /\ LeadPart(available, p) <= available
  BY <1>1, <1>2 DEF LeadPart, Greater, Lesser
<1>4. /\ FollowUpPart(available, p) \in Nat
      /\ FollowUpPart(available, p) <= available - LeadPart(available, p)
  BY <1>2, <1>3 DEF FollowUpPart, Lesser
<1> QED
  BY <1>3, <1>4

\* A pool that balances still balances when its accounts hold no more.
LEMMA HoldingLessBalances ==
    ASSUME NEW s \in Nat, NEW r \in Nat, NEW h \in Nat, NEW k \in Nat, NEW limit \in Nat,
           s + r + h <= limit, k <= h
    PROVE  s + r + k <= limit
  OBVIOUS

LEMMA InstallKeepsBooks ==
    ASSUME OutputInv, NEW p \in Plan, Install(p)
    PROVE  OutputInv'
<1> USE DEF OutputInv
<1> DEFINE l == LeadPart(FreeTokens, p)
           f == FollowUpPart(FreeTokens, p)
           parts == Split(FreeTokens - l - f, Named(p), p.demands)
<1>1. /\ divided' = TRUE /\ turns = 0 /\ \A w \in Worker : account[w].kind = "none"
      /\ lead' = l /\ leadLeft' = l /\ followUp' = f /\ followUpLeft' = f
      /\ share' = [i \in Part |->
             IF i \in Named(p)
             THEN [role |-> p.roles[i], demand |-> p.demands[i],
                   planned |-> parts[i], left |-> parts[i], stage |-> "planned"]
             ELSE NoShare]
      /\ UNCHANGED <<poolVars, account, turn, turns>>
  BY DEF Install
<1>2. FreeTokens \in Nat
  BY FreeIsTheRest
<1>3. l \in Nat /\ f \in Nat /\ FreeTokens - l - f \in Nat
  BY <1>2, PartsStayWithin
<1>4. /\ parts \in [Part -> Nat] /\ SumOf(parts) <= FreeTokens - l - f
  <2>1. Named(p) \in SUBSET Part /\ \A i \in Named(p) : p.demands[i] \in Demand
    BY OutputAssumption DEF Named
  <2> HIDE DEF l, f
  <2> QED
    BY <1>3, <2>1, SplitStaysWithin
<1>5. /\ \A i \in Part : parts[i] \in Nat
      /\ SumOf(parts) \in Nat
  <2> HIDE DEF parts
  <2> QED
    BY <1>4, SumIsNatural
<1> HIDE DEF l, f, parts
<1>6. ASSUME NEW i \in Part
      PROVE  /\ share'[i] \in Share /\ share'[i].left = share'[i].planned
             /\ share'[i].left \in Nat
             /\ share'[i].stage \in {"absent", "planned"}
             /\ share'[i].stage = "planned" => share'[i].left = parts[i]
  <2>1. p.roles[i] \in Role \cup {NoRole} /\ p.demands[i] \in Demand
    BY OutputAssumption
  <2> QED
    BY <1>1, <1>5, <2>1 DEF Share, NoShare, Demand
<1>7. OutputTypeOK'
  <2>1. share' \in [Part -> Share]
    BY <1>1, <1>6
  <2> QED
    BY <1>1, <1>3, <2>1 DEF OutputTypeOK, poolVars
<1>8. \A a \in Agent : ~InFlight(a) /\ turn[a] = NoTurn /\ (a # "lead" => account[a].kind = "none")
  BY <1>1 DEF TurnsFitGrants, Agent
<1>9. HoldersFitShares'
  <2>1. \A a \in Agent : account[a].kind # "share"
    BY <1>8, AgentsAreFinite DEF HoldersFitShares, IsLead
  <2> QED
    BY <1>1, <1>6, <2>1 DEF HoldersFitShares, IsLead, Holds
<1>10. TurnsFitGrants'
  BY <1>1 DEF TurnsFitGrants, InFlight, Running
<1>11. BooksBalance'
  <2>1. TokensInFlight' = TokensInFlight
    BY <1>1 DEF TokensInFlight
  <2>2. SumOf(heldParts') <= SumOf(parts)
    <3>1. \A i \in Part : heldParts'[i] \in Nat /\ heldParts'[i] <= parts[i]
      BY <1>5, <1>6, <1>7, HeldNext
    <3> QED
      BY <1>5, <3>1, SumGrows
  <2>3. Held' <= FreeTokens
    BY <1>1, <1>2, <1>3, <1>4, <1>5, <1>7, <2>2, HeldNext
  <2>4. /\ spent + reserved + Held <= Total + overrun
        /\ spent \in Nat /\ reserved \in Nat /\ overrun \in Nat /\ Total \in Nat
        /\ Held \in Nat /\ Held' \in Nat
        /\ FreeTokens > 0 => spent + reserved + Held + FreeTokens = Total
    BY <1>7, HeldNext, HeldIsNatural, FreeIsTheRest, OutputAssumption
       DEF BooksBalance, OutputTypeOK
  <2>5. spent + reserved + Held' <= Total + overrun
    <3>1. CASE FreeTokens > 0
      <4>1. spent + reserved + Held + FreeTokens = Total
        BY <2>4, <3>1
      <4>2. spent \in Nat /\ reserved \in Nat /\ overrun \in Nat /\ Total \in Nat
            /\ Held \in Nat /\ Held' \in Nat
        BY <2>4
      <4>3. spent + reserved + FreeTokens <= Total + overrun /\ Total + overrun \in Nat
        BY <1>2, <4>1, <4>2
      <4> QED
        BY <1>2, <2>3, <4>2, <4>3, HoldingLessBalances
    <3>2. CASE FreeTokens = 0
      <4>1. Held' = 0
        BY <2>3, <2>4, <3>2
      <4> QED
        BY <2>4, <4>1
    <3> QED
      BY <1>2, <3>1, <3>2
  <2> QED
    BY <1>1, <2>1, <2>5 DEF BooksBalance, poolVars
<1>12. SharesStayWithinPlan'
  <2>1. \A i \in Part : turn'["lead"].lent[i] = 0
    BY <1>1, <1>8, AgentsAreFinite, NoTurnIsEmpty
  <2>2. \A w \in Worker : \A i \in Part : ~Holds(w, i)'
    BY <1>1 DEF Holds
  <2> QED
    BY <1>6, <2>1, <2>2 DEF SharesStayWithinPlan
<1> QED
  BY <1>7, <1>9, <1>10, <1>11, <1>12

LEMMA EndWorkerKeepsBooks ==
    ASSUME OutputInv, NEW w \in Worker, EndWorker(w)
    PROVE  OutputInv'
<1> USE DEF OutputInv
<1>1. /\ Running(w) /\ ~InFlight(w)
      /\ share' = Released(w)
      /\ account' = [account EXCEPT ![w] = [kind |-> "over", slot |-> 0]]
      /\ UNCHANGED <<poolVars, planVars, reserveVars, turn, turns>>
  BY DEF EndWorker
<1>2. w \in Agent /\ w # "lead"
  BY AgentsAreFinite
<1>3. /\ account'[w].kind = "over" /\ account' \in [Agent -> [kind : {"lead", "none", "share",
             "followUp", "unplanned", "over"}, slot : Part \cup {0}]]
      /\ \A a \in Agent \ {w} : account'[a] = account[a]
  BY <1>1, <1>2 DEF OutputTypeOK
<1>4. ASSUME NEW i \in Part
      PROVE  /\ share[i].left \in Nat /\ share[i].planned \in Nat
             /\ share'[i] \in Share
             /\ share'[i].left \in Nat /\ share'[i].planned = share[i].planned
             /\ Holds(w, i) => share'[i].left = 0 /\ share'[i].stage = "released"
             /\ ~Holds(w, i) => share'[i] = share[i]
  <2>1. share[i] \in Share
    BY DEF OutputTypeOK
  <2>2. share[i].left \in Nat /\ share[i].planned \in Nat
    BY <2>1 DEF Share
  <2>3. CASE Holds(w, i)
    <3>1. share'[i] = [share[i] EXCEPT !.left = 0, !.stage = "released"]
      BY <1>1, <2>3 DEF Released, Holds, OutputTypeOK
    <3>2. DOMAIN share[i] = {"role", "demand", "planned", "left", "stage"}
          /\ share[i].role \in Role \cup {NoRole} /\ share[i].demand \in Demand
      BY <2>1 DEF Share
    <3>3. /\ share'[i].left = 0 /\ share'[i].stage = "released"
          /\ share'[i].planned = share[i].planned
      BY <2>1, <3>1 DEF Share
    <3>4. share'[i] \in Share
      <4>1. share'[i] = [role |-> share[i].role, demand |-> share[i].demand,
                         planned |-> share[i].planned, left |-> 0, stage |-> "released"]
        BY <2>1, <3>1 DEF Share
      <4> QED
        BY <2>2, <3>2, <4>1 DEF Share
    <3> QED
      BY <2>2, <2>3, <3>3, <3>4
  <2>4. CASE ~Holds(w, i)
    <3>1. share'[i] = share[i]
      BY <1>1, <1>2, <2>4 DEF Released, Holds, OutputTypeOK, HoldersFitShares
    <3> QED
      BY <2>1, <2>2, <2>4, <3>1
  <2> QED
    BY <2>3, <2>4
<1>5. OutputTypeOK'
  <2>1. share' \in [Part -> Share]
    <3>1. share' = [i \in Part |-> share'[i]]
      BY <1>1 DEF Released, OutputTypeOK
    <3> QED
      BY <1>4, <3>1
  <2> QED
    BY <1>1, <1>3, <2>1 DEF OutputTypeOK, poolVars, planVars, reserveVars
<1>6. /\ \A a \in Agent \ {w} : \A i \in Part : Holds(a, i)' <=> Holds(a, i)
      /\ \A i \in Part : ~Holds(w, i)'
  BY <1>3 DEF Holds
<1>7. HoldersFitShares'
  <2>1. \A a \in Agent : IsLead(a)' <=> a = "lead"
    BY <1>2, <1>3 DEF HoldersFitShares, IsLead
  <2>2. ASSUME NEW a \in Agent, account'[a].kind = "share"
        PROVE  account'[a].slot \in Part /\ share'[account'[a].slot].stage = "running"
    <3>1. a # w /\ account'[a] = account[a]
      BY <1>3, <2>2
    <3>2. account[a].slot \in Part /\ Holds(a, account[a].slot)
          /\ share[account[a].slot].stage = "running"
      BY <2>2, <3>1 DEF HoldersFitShares, Holds
    <3>3. ~Holds(w, account[a].slot)
      BY <1>2, <3>1, <3>2 DEF HoldersFitShares
    <3> QED
      BY <1>4, <3>1, <3>2, <3>3
  <2>3. ASSUME NEW i \in Part, share'[i].stage = "running"
        PROVE  \E v \in Worker : Holds(v, i)'
    <3>1. share[i].stage = "running" /\ ~Holds(w, i)
      BY <1>4, <2>3 DEF Share
    <3>2. PICK v \in Worker : Holds(v, i)
      BY <3>1 DEF HoldersFitShares
    <3> QED
      BY <1>6, <3>1, <3>2, AgentsAreFinite
  <2>4. \A a, b \in Agent : \A i \in Part : Holds(a, i)' /\ Holds(b, i)' => a = b
    BY <1>6 DEF HoldersFitShares
  <2> QED
    BY <2>1, <2>2, <2>3, <2>4 DEF HoldersFitShares
<1>8. TurnsFitGrants'
  <2>1. \A a \in Agent : ~Running(a)' => ~InFlight(a)
    BY <1>1, <1>3 DEF TurnsFitGrants, Running
  <2> QED
    BY <1>1, <2>1 DEF TurnsFitGrants, InFlight
<1>9. BooksBalance'
  <2>1. TokensInFlight' = TokensInFlight
    BY <1>1 DEF TokensInFlight
  <2>2. \A i \in Part : /\ heldParts'[i] \in Nat /\ heldParts[i] \in Nat
                        /\ heldParts'[i] <= heldParts[i]
    <3> SUFFICES ASSUME NEW i \in Part
                 PROVE  /\ heldParts'[i] \in Nat /\ heldParts[i] \in Nat
                        /\ heldParts'[i] <= heldParts[i]
      OBVIOUS
    <3>1. heldParts'[i] \in Nat /\ heldParts[i] \in Nat
      BY <1>5, HeldNext, HeldIsNatural
    <3>2. Holds(w, i) => heldParts'[i] = 0
      BY <1>4, <1>5, HeldNext
    <3>3. ~Holds(w, i) => heldParts'[i] = heldParts[i]
      BY <1>4 DEF heldParts
    <3> QED
      BY <3>1, <3>2, <3>3
  <2>3. SumOf(heldParts') <= SumOf(heldParts)
    BY <2>2, SumGrows
  <2>4. Held' <= Held /\ Held \in Nat /\ Held' \in Nat
    BY <1>1, <1>5, <2>3, HeldNext, HeldIsNatural DEF OutputTypeOK, reserveVars
  <2>5. spent \in Nat /\ reserved \in Nat /\ overrun \in Nat /\ Total \in Nat
    BY OutputAssumption DEF OutputTypeOK
  <2>6. UNCHANGED <<spent, reserved, overrun>>
    BY <1>1 DEF poolVars
  <2>7. reserved = TokensInFlight /\ spent + reserved + Held <= Total + overrun
    BY DEF BooksBalance
  <2>8. spent + reserved + Held' <= Total + overrun
    <3>1. Total + overrun \in Nat
      BY <2>5
    <3> QED
      BY <2>4, <2>5, <2>7, <3>1, HoldingLessBalances
  <2> QED
    BY <2>1, <2>6, <2>7, <2>8 DEF BooksBalance
<1>10. SharesStayWithinPlan'
  <2>1. ASSUME NEW i \in Part
        PROVE  /\ share'[i].left + turn'["lead"].lent[i] <= share'[i].planned
               /\ \A v \in Worker : Holds(v, i)' =>
                     share'[i].left + turn'["lead"].lent[i] + turn'[v].own <= share'[i].planned
    <3>1. /\ share[i].left + turn["lead"].lent[i] <= share[i].planned
          /\ \A v \in Worker : Holds(v, i) =>
                share[i].left + turn["lead"].lent[i] + turn[v].own <= share[i].planned
      BY DEF SharesStayWithinPlan
    <3>2. /\ share[i].planned \in Nat /\ share[i].left \in Nat /\ share'[i].left \in Nat
          /\ turn["lead"].lent[i] \in Nat /\ \A v \in Worker : turn[v].own \in Nat
      BY <1>4, AgentsAreFinite DEF OutputTypeOK, Share, Turn
    <3>3. \A v \in Worker : Holds(v, i)' => Holds(v, i)
      BY <1>6, AgentsAreFinite
    <3>4. /\ share'[i].left <= share[i].left /\ share'[i].planned = share[i].planned
          /\ turn' = turn
      BY <1>1, <1>4, <3>2
    <3> HIDE <1>4
    <3> QED
      BY <3>1, <3>2, <3>3, <3>4
  <2> QED
    BY <2>1 DEF SharesStayWithinPlan
<1> QED
  BY <1>5, <1>7, <1>8, <1>9, <1>10

\* OutputPlan::validate refuses a plan that names a role twice.
RolesAreNamedOnce ==
    \A i, j \in Part : share[i].role = share[j].role /\ share[i].role # NoRole => i = j

\* OutputPool::claim, for a share that no worker started.
LEMMA ClaimKeepsBooks ==
    ASSUME OutputInv, NEW w \in Worker, NEW i \in Part, NEW cap \in Cap,
           account[w].kind = "none", share[i].stage = "planned", Claims(w, i, cap),
           UNCHANGED <<poolVars, planVars, reserveVars, turn, turns>>
    PROVE  OutputInv'
<1> USE DEF OutputInv
<1> DEFINE excess == IF cap = NoCap THEN 0 ELSE Monus(share[i].left, cap)
           demands == [j \in Part |-> share[j].demand]
           extra == Split(excess, PlannedSlots \ {i}, demands)
<1>1. /\ account' = [account EXCEPT ![w] = [kind |-> "share", slot |-> i]]
      /\ share' = [j \in Part |->
           IF j = i THEN [share[j] EXCEPT !.stage = "running", !.left = @ - excess,
                                          !.planned = @ - excess]
           ELSE [share[j] EXCEPT !.left = @ + extra[j], !.planned = @ + extra[j]]]
  BY Zenon DEF Claims
<1>2. w \in Agent /\ w # "lead"
  BY AgentsAreFinite
<1>3. /\ account'[w] = [kind |-> "share", slot |-> i]
      /\ account' \in [Agent -> [kind : {"lead", "none", "share", "followUp", "unplanned",
                                         "over"}, slot : Part \cup {0}]]
      /\ \A a \in Agent \ {w} : account'[a] = account[a]
  BY <1>1, <1>2 DEF OutputTypeOK
<1>4. ASSUME NEW j \in Part
      PROVE  /\ share[j] \in Share /\ share[j].left \in Nat /\ share[j].planned \in Nat
             /\ turn["lead"].lent[j] \in Nat
             /\ share[j].left + turn["lead"].lent[j] <= share[j].planned
  BY AgentsAreFinite DEF OutputTypeOK, Share, Turn, SharesStayWithinPlan
<1>5. excess \in Nat /\ excess <= share[i].left /\ excess <= share[i].planned
  <2>1. cap = NoCap \/ cap \in Nat
    BY OutputAssumption
  <2>2. excess \in Nat /\ excess <= share[i].left
    BY <1>4, <2>1 DEF Monus
  <2> HIDE DEF excess
  <2> QED
    BY <1>4, <2>2
<1>6. /\ extra \in [Part -> Nat] /\ SumOf(extra) <= excess
  <2>1. PlannedSlots \ {i} \in SUBSET Part
    BY DEF PlannedSlots
  <2>2. \A j \in PlannedSlots \ {i} : demands[j] \in Demand
    BY <1>4, <2>1 DEF Share
  <2> HIDE DEF excess, demands
  <2> QED
    BY <1>5, <2>1, <2>2, SplitStaysWithin
<1>7. /\ \A j \in Part : extra[j] \in Nat
      /\ SumOf(extra) \in Nat
  <2> HIDE DEF extra
  <2> QED
    BY <1>6, SumIsNatural
<1> HIDE DEF excess, demands, extra
<1>8. /\ share'[i].left = share[i].left - excess /\ share'[i].left \in Nat
      /\ share'[i].planned = share[i].planned - excess /\ share'[i].planned \in Nat
      /\ share'[i].stage = "running" /\ share'[i] \in Share
  <2>1. /\ share[i].role \in Role \cup {NoRole} /\ share[i].demand \in Demand
    BY <1>4 DEF Share
  <2>2. share'[i] = [role |-> share[i].role, demand |-> share[i].demand,
                     planned |-> share[i].planned - excess, left |-> share[i].left - excess,
                     stage |-> "running"]
    BY <1>1, <1>4 DEF Share
  <2>3. share[i].planned - excess \in Nat /\ share[i].left - excess \in Nat
    BY <1>4, <1>5
  <2> QED
    BY <2>1, <2>2, <2>3 DEF Share
<1>9. ASSUME NEW j \in Part, j # i
      PROVE  /\ share'[j].left = share[j].left + extra[j] /\ share'[j].left \in Nat
             /\ share'[j].planned = share[j].planned + extra[j]
             /\ share'[j].stage = share[j].stage /\ share'[j] \in Share
  <2>1. /\ share[j].role \in Role \cup {NoRole} /\ share[j].demand \in Demand
        /\ share[j].stage \in {"absent", "planned", "running", "released"}
    BY <1>4 DEF Share
  <2>2. share'[j] = [role |-> share[j].role, demand |-> share[j].demand,
                     planned |-> share[j].planned + extra[j], left |-> share[j].left + extra[j],
                     stage |-> share[j].stage]
    BY <1>1, <1>4, <1>9 DEF Share
  <2>3. share[j].planned + extra[j] \in Nat /\ share[j].left + extra[j] \in Nat
    BY <1>4, <1>7
  <2> QED
    BY <2>1, <2>2, <2>3 DEF Share
<1>10. OutputTypeOK'
  <2>1. share' \in [Part -> Share]
    BY <1>1, <1>8, <1>9
  <2> QED
    BY <1>3, <2>1 DEF OutputTypeOK, poolVars, planVars, reserveVars
<1>11. /\ \A a \in Agent \ {w} : \A j \in Part : Holds(a, j)' <=> Holds(a, j)
       /\ \A j \in Part : Holds(w, j)' <=> j = i
       /\ \A a \in Agent : ~Holds(a, i)
       /\ \A j \in Part : ~Holds(w, j)
  <2>1. \A a \in Agent : ~Holds(a, i)
    BY DEF HoldersFitShares, Holds
  <2>2. \A j \in Part : ~Holds(w, j)
    BY DEF Holds
  <2> QED
    BY <1>3, <2>1, <2>2 DEF Holds
<1>12. HoldersFitShares'
  <2>1. \A a \in Agent : IsLead(a)' <=> a = "lead"
    BY <1>2, <1>3 DEF HoldersFitShares, IsLead
  <2>2. ASSUME NEW a \in Agent, account'[a].kind = "share"
        PROVE  account'[a].slot \in Part /\ share'[account'[a].slot].stage = "running"
    <3>1. CASE a = w
      BY <1>3, <1>8, <3>1
    <3>2. CASE a # w
      BY <1>3, <1>9, <2>2, <3>2 DEF HoldersFitShares
    <3> QED
      BY <3>1, <3>2
  <2>3. ASSUME NEW j \in Part, share'[j].stage = "running"
        PROVE  \E v \in Worker : Holds(v, j)'
    <3>1. CASE j = i
      BY <1>11, <3>1
    <3>2. CASE j # i
      <4>1. PICK v \in Worker : Holds(v, j)
        BY <1>9, <2>3, <3>2 DEF HoldersFitShares
      <4> QED
        BY <1>11, <4>1, AgentsAreFinite
    <3> QED
      BY <3>1, <3>2
  <2>4. \A a, b \in Agent : \A j \in Part : Holds(a, j)' /\ Holds(b, j)' => a = b
    BY <1>11 DEF HoldersFitShares
  <2> QED
    BY <2>1, <2>2, <2>3, <2>4 DEF HoldersFitShares
<1>13. TurnsFitGrants'
  <2>1. \A a \in Agent : ~Running(a)' => ~InFlight(a)
    BY <1>3 DEF TurnsFitGrants, Running
  <2> QED
    BY <2>1 DEF TurnsFitGrants, InFlight
<1>14. BooksBalance'
  <2> DEFINE cut == [j \in Part |-> IF j = i THEN excess ELSE 0]
             low == [j \in Part |-> heldParts'[j] + cut[j]]
             high == [j \in Part |-> heldParts[j] + extra[j]]
  <2>1. TokensInFlight' = TokensInFlight
    BY DEF TokensInFlight
  <2>2. /\ \A j \in Part : cut[j] = (IF j = i THEN excess ELSE 0) /\ cut[j] \in Nat
        /\ \A j \in Part : low[j] = heldParts'[j] + cut[j] /\ high[j] = heldParts[j] + extra[j]
    BY <1>5
  <2> HIDE DEF cut, low, high
  <2>3. ASSUME NEW j \in Part
        PROVE  /\ heldParts'[j] \in Nat /\ heldParts[j] \in Nat
               /\ low[j] \in Nat /\ high[j] \in Nat /\ low[j] <= high[j]
    <3>1. heldParts'[j] \in Nat /\ heldParts[j] \in Nat
      BY <1>10, HeldNext, HeldIsNatural
    <3>2. heldParts'[j] + cut[j] <= heldParts[j] + extra[j]
      <4>1. /\ heldParts[j] = IF share[j].stage \in {"planned", "running"}
                              THEN share[j].left ELSE 0
            /\ heldParts'[j] = IF share'[j].stage \in {"planned", "running"}
                               THEN share'[j].left ELSE 0
        BY <1>10, HeldNext DEF heldParts
      <4>2. CASE j = i
        BY <1>4, <1>5, <1>7, <1>8, <2>2, <4>1, <4>2
      <4>3. CASE j # i
        BY <1>4, <1>7, <1>9, <2>2, <4>1, <4>3
      <4> QED
        BY <4>2, <4>3
    <3> QED
      BY <1>7, <2>2, <3>1, <3>2
  <2>4. SumOf(low) <= SumOf(high)
    BY <2>3, SumGrows
  <2>5. SumOf(low) = SumOf(heldParts') + SumOf(cut)
    BY <2>2, <2>3, SumAdds
  <2>6. SumOf(high) = SumOf(heldParts) + SumOf(extra)
    BY <1>7, <2>2, <2>3, SumAdds
  <2>7. SumOf(cut) = excess
    BY <1>5, <2>2, SumOfOne
  <2>8. SumOf(heldParts') \in Nat /\ SumOf(heldParts) \in Nat
    BY <2>3, SumIsNatural
  <2>9. SumOf(heldParts') <= SumOf(heldParts)
    BY <1>5, <1>6, <1>7, <2>4, <2>5, <2>6, <2>7, <2>8
  <2>10. Held' <= Held /\ Held \in Nat /\ Held' \in Nat
    BY <1>10, <2>9, HeldNext, HeldIsNatural DEF OutputTypeOK, reserveVars
  <2>11. spent \in Nat /\ reserved \in Nat /\ Total + overrun \in Nat
    BY OutputAssumption DEF OutputTypeOK
  <2>12. reserved = TokensInFlight /\ spent + reserved + Held <= Total + overrun
    BY DEF BooksBalance
  <2>13. spent + reserved + Held' <= Total + overrun
    BY <2>10, <2>11, <2>12, HoldingLessBalances
  <2> QED
    BY <2>1, <2>12, <2>13 DEF BooksBalance, poolVars
<1>15. SharesStayWithinPlan'
  <2>1. ASSUME NEW j \in Part
        PROVE  /\ share'[j].left + turn["lead"].lent[j] <= share'[j].planned
               /\ \A v \in Worker : Holds(v, j)' =>
                     share'[j].left + turn["lead"].lent[j] + turn[v].own <= share'[j].planned
    <3>1. \A v \in Worker : turn[v].own \in Nat
      BY AgentsAreFinite DEF OutputTypeOK, Turn
    <3>2. CASE j = i
      <4>1. share'[i].left + turn["lead"].lent[i] <= share'[i].planned
        BY <1>4, <1>5, <1>8
      <4>2. \A v \in Worker : Holds(v, i)' => v = w
        BY <1>11, AgentsAreFinite
      <4>3. turn[w].own = 0
        BY <1>2, NoTurnIsEmpty DEF TurnsFitGrants, Running
      <4> QED
        BY <1>4, <1>8, <3>2, <4>1, <4>2, <4>3
    <3>3. CASE j # i
      <4>1. \A v \in Worker : Holds(v, j)' => Holds(v, j)
        BY <1>11, <3>3, AgentsAreFinite
      <4>2. \A v \in Worker : Holds(v, j)' =>
               share[j].left + turn["lead"].lent[j] + turn[v].own <= share[j].planned
        BY <4>1 DEF SharesStayWithinPlan
      <4> QED
        BY <1>4, <1>7, <1>9, <3>1, <3>3, <4>2
    <3> QED
      BY <3>2, <3>3
  <2> QED
    BY <2>1 DEF SharesStayWithinPlan
<1> QED
  BY <1>10, <1>12, <1>13, <1>14, <1>15

LEMMA StartWorkerKeepsBooks ==
    ASSUME OutputInv, RolesAreNamedOnce, NEW w \in Worker, NEW role \in Role \cup {NoRole},
           NEW cap \in Cap, StartWorker(w, role, cap)
    PROVE  OutputInv'
<1>1. account[w].kind = "none" /\ UNCHANGED <<poolVars, planVars, reserveVars, turn, turns>>
  BY DEF StartWorker
<1>2. CASE \E i \in SlotOf(role) : share[i].stage = "planned"
  <2>1. PICK i \in SlotOf(role) : share[i].stage = "planned"
    BY <1>2
  <2>2. PICK j \in SlotOf(role) : Claims(w, j, cap)
    BY <1>2 DEF StartWorker
  <2>3. i = j /\ i \in Part
    BY <2>1, <2>2 DEF SlotOf, RolesAreNamedOnce
  <2> QED
    BY <1>1, <2>1, <2>2, <2>3, ClaimKeepsBooks
<1>3. CASE ~\E i \in SlotOf(role) : share[i].stage = "planned"
  <2> DEFINE kind == IF SlotOf(role) = {} THEN "unplanned" ELSE "followUp"
  <2>1. account' = [account EXCEPT ![w] = [kind |-> kind, slot |-> 0]] /\ UNCHANGED share
    BY <1>3 DEF StartWorker
  <2>2. kind \in {"unplanned", "followUp"}
    OBVIOUS
  <2> HIDE DEF kind
  <2>3. w \in Agent /\ w # "lead"
    BY AgentsAreFinite
  <2>4. /\ account'[w].kind = kind
        /\ account' \in [Agent -> [kind : {"lead", "none", "share", "followUp", "unplanned",
                                           "over"}, slot : Part \cup {0}]]
        /\ \A a \in Agent \ {w} : account'[a] = account[a]
    BY <2>1, <2>2, <2>3 DEF OutputInv, OutputTypeOK
  <2>5. OutputTypeOK'
    BY <1>1, <2>1, <2>4 DEF OutputInv, OutputTypeOK, poolVars, planVars, reserveVars
  <2>6. \A a \in Agent : \A i \in Part : Holds(a, i)' <=> Holds(a, i)
    BY <1>1, <2>2, <2>4 DEF Holds
  <2>7. HoldersFitShares'
    <3>1. \A a \in Agent : IsLead(a)' <=> a = "lead"
      BY <2>2, <2>3, <2>4 DEF OutputInv, HoldersFitShares, IsLead
    <3>2. \A a \in Agent : account'[a].kind = "share" =>
             account'[a].slot \in Part /\ share'[account'[a].slot].stage = "running"
      BY <2>1, <2>2, <2>4 DEF OutputInv, HoldersFitShares
    <3>3. \A i \in Part : share'[i].stage = "running" => \E v \in Worker : Holds(v, i)'
      BY <2>1, <2>6, AgentsAreFinite DEF OutputInv, HoldersFitShares
    <3>4. \A a, b \in Agent : \A i \in Part : Holds(a, i)' /\ Holds(b, i)' => a = b
      BY <2>6 DEF OutputInv, HoldersFitShares
    <3> QED
      BY <3>1, <3>2, <3>3, <3>4 DEF HoldersFitShares
  <2>8. TurnsFitGrants'
    <3>1. \A a \in Agent : ~Running(a)' => ~InFlight(a)
      BY <2>2, <2>4 DEF OutputInv, TurnsFitGrants, Running
    <3> QED
      BY <1>1, <3>1 DEF OutputInv, TurnsFitGrants, InFlight
  <2>9. BooksBalance'
    BY <1>1, <2>1 DEF OutputInv, BooksBalance, TokensInFlight, Held, LeftIn, poolVars, reserveVars
  <2>10. SharesStayWithinPlan'
    BY <1>1, <2>1, <2>6, AgentsAreFinite DEF OutputInv, SharesStayWithinPlan
  <2> QED
    BY <2>5, <2>7, <2>8, <2>9, <2>10 DEF OutputInv
<1> QED
  BY <1>2, <1>3

LEMMA RestKeepsBooks ==
    ASSUME OutputInv, UNCHANGED outputVars
    PROVE  OutputInv'
BY DEF OutputInv, OutputTypeOK, HoldersFitShares, TurnsFitGrants, BooksBalance,
       SharesStayWithinPlan, IsLead, Holds, InFlight, Running, TokensInFlight, Held, LeftIn,
       outputVars, poolVars, planVars, reserveVars

\* A share keeps its role while it is claimed, drawn on, repaid and released.
LEMMA RolesStay ==
    ASSUME RolesAreNamedOnce, \A i \in Part : share'[i].role = share[i].role
    PROVE  RolesAreNamedOnce'
BY DEF RolesAreNamedOnce

LEMMA RolesNext ==
    ASSUME OutputInv, RolesAreNamedOnce, [OutputNext]_outputVars
    PROVE  RolesAreNamedOnce'
<1>1. \A i \in Part : share[i] \in Share
  BY DEF OutputInv, OutputTypeOK
<1>2. ASSUME NEW p \in Plan, Install(p) PROVE RolesAreNamedOnce'
  <2>1. \A i \in Part : share'[i].role = p.roles[i]
    BY <1>2 DEF Install, Named, NoShare
  <2>2. \A i, j \in Part : p.roles[i] = p.roles[j] /\ p.roles[i] # NoRole => i = j
    BY OutputAssumption
  <2> QED
    BY <2>1, <2>2 DEF RolesAreNamedOnce
<1>3. ASSUME NEW w \in Worker, NEW role \in Role \cup {NoRole}, NEW cap \in Cap,
             StartWorker(w, role, cap)
      PROVE  \A i \in Part : share'[i].role = share[i].role
  <2>1. CASE UNCHANGED share
    BY <2>1
  <2>2. CASE \E j \in SlotOf(role) : Claims(w, j, cap)
    <3>1. PICK j \in SlotOf(role) : Claims(w, j, cap)
      BY <2>2
    <3> DEFINE excess == IF cap = NoCap THEN 0 ELSE Monus(share[j].left, cap)
               extra == Split(excess, PlannedSlots \ {j}, [i \in Part |-> share[i].demand])
    <3>2. share' = [i \in Part |->
             IF i = j THEN [share[i] EXCEPT !.stage = "running", !.left = @ - excess,
                                            !.planned = @ - excess]
             ELSE [share[i] EXCEPT !.left = @ + extra[i], !.planned = @ + extra[i]]]
      BY <3>1, Zenon DEF Claims
    <3> HIDE DEF excess, extra
    <3> QED
      BY <1>1, <3>2 DEF Share
  <2> QED
    BY <1>3, <2>1, <2>2 DEF StartWorker
<1>4. ASSUME NEW w \in Worker, EndWorker(w)
      PROVE  \A i \in Part : share'[i].role = share[i].role
  <2>1. share' = Released(w)
    BY <1>4 DEF EndWorker
  <2>2. CASE account[w].kind = "share"
    <3>1. share' = [share EXCEPT ![account[w].slot].left = 0,
                                 ![account[w].slot].stage = "released"]
      BY <2>1, <2>2 DEF Released
    <3> QED
      BY <1>1, <3>1 DEF OutputInv, OutputTypeOK, Share
  <2>3. CASE account[w].kind # "share"
    BY <2>1, <2>3 DEF Released
  <2> QED
    BY <2>2, <2>3
<1>5. ASSUME NEW a \in Agent, NEW ask \in Asks, NEW purpose \in Purpose, Reserve(a, ask, purpose)
      PROVE  \A i \in Part : share'[i].role = share[i].role
  <2>1. PICK t : share' = Taken(a, t)
    BY <1>5 DEF Reserve
  <2> QED
    BY <1>1, <2>1 DEF Taken, Share
<1>6. ASSUME NEW a \in Agent, NEW spend \in Used(a), Charge(a, spend)
      PROVE  \A i \in Part : share'[i].role = share[i].role
  <2> DEFINE paid(i) == Repaid(i, (IF Holds(a, i) THEN Unused(turn[a], spend) ELSE 0)
                                  + BackTo(turn[a], spend)[i])
  <2>1. share' = [i \in Part |-> [share[i] EXCEPT !.left = @ + paid(i)]]
    BY <1>6, Zenon DEF Charge
  <2> HIDE DEF paid
  <2> QED
    BY <1>1, <2>1 DEF Share
<1>7. CASE \/ \E p \in Plan : Install(p)
           \/ \E w \in Worker :
                 \/ \E role \in Role \cup {NoRole}, cap \in Cap : StartWorker(w, role, cap)
                 \/ EndWorker(w)
           \/ \E a \in Agent :
                 \/ \E ask \in Asks, purpose \in Purpose : Reserve(a, ask, purpose)
                 \/ \E spend \in Used(a) : Charge(a, spend)
  BY <1>2, <1>3, <1>4, <1>5, <1>6, <1>7, RolesStay
<1>8. CASE UNCHANGED share
  BY <1>8, RolesStay
<1> QED
  BY <1>7, <1>8 DEF OutputNext, Forfeit, OutputRest, outputVars

OutputIndInv == OutputInv /\ RolesAreNamedOnce

LEMMA OutputNextKeepsBooks == OutputIndInv /\ [OutputNext]_outputVars => OutputIndInv'
<1> SUFFICES ASSUME OutputInv, RolesAreNamedOnce, [OutputNext]_outputVars
             PROVE  OutputInv'
  BY RolesNext DEF OutputIndInv
<1>1. ASSUME NEW p \in Plan, Install(p) PROVE OutputInv'
  BY <1>1, InstallKeepsBooks
<1>2. ASSUME NEW w \in Worker, NEW role \in Role \cup {NoRole}, NEW cap \in Cap,
             StartWorker(w, role, cap)
      PROVE  OutputInv'
  BY <1>2, StartWorkerKeepsBooks
<1>3. ASSUME NEW w \in Worker, EndWorker(w) PROVE OutputInv'
  BY <1>3, EndWorkerKeepsBooks
<1>4. ASSUME NEW a \in Agent, NEW ask \in Asks, NEW purpose \in Purpose, Reserve(a, ask, purpose)
      PROVE  OutputInv'
  BY <1>4, ReserveKeepsBooks
<1>5. ASSUME NEW a \in Agent, NEW spend \in Used(a), Charge(a, spend) PROVE OutputInv'
  BY <1>5, ChargeKeepsBooks
<1>6. ASSUME NEW a \in Agent, Forfeit(a) PROVE OutputInv'
  BY <1>6, ForfeitKeepsBooks
<1>7. CASE UNCHANGED outputVars
  BY <1>7, RestKeepsBooks
<1> QED
  BY <1>1, <1>2, <1>3, <1>4, <1>5, <1>6, <1>7 DEF OutputNext, OutputRest

LEMMA OutputInvariant == OutputSpec => []OutputIndInv
<1>1. OutputInit => OutputIndInv
  <2>1. OutputInit => RolesAreNamedOnce
    BY DEF OutputInit, NoShare, RolesAreNamedOnce
  <2> QED
    BY <2>1, OutputInvInit DEF OutputIndInv
<1> QED
  BY <1>1, OutputNextKeepsBooks, PTL DEF OutputSpec

\* Every count of the pool, of the plan and of each reservation stays a number
\* of its range: no grant, repayment or release takes one below zero.
THEOREM OutputTypeCorrect == OutputSpec => []OutputTypeOK
BY OutputInvariant, PTL DEF OutputIndInv, OutputInv

\* What was charged, what turns in flight may still use and what the accounts
\* hold never pass the pool, for any number of workers, plan, grant and report
\* of a provider, and in whatever order turns begin and end.
THEOREM PoolBalances == OutputSpec => []BooksBalance
BY OutputInvariant, PTL DEF OutputIndInv, OutputInv

\* No share ever holds more for its role than was planned for it, whatever was
\* borrowed, cut off, and given back by the turns of the lead and of the worker.
THEOREM SharesFitThePlan == OutputSpec => []SharesStayWithinPlan
BY OutputInvariant, PTL DEF OutputIndInv, OutputInv

\* When no worker runs and no turn is in flight, the lead's answer reaches
\* every token of the run that was not charged.
THEOREM AnswerGetsTheRest == OutputSpec => []AnswerReachesTheRest
<1>1. ASSUME OutputInv, overrun = 0, \A a \in Agent : ~InFlight(a),
             \A w \in Worker : ~Running(w)
      PROVE  Available("lead", "answer") = Monus(Total, spent)
  <2> USE <1>1 DEF OutputInv
  <2>1. "lead" \in Agent /\ IsLead("lead") /\ Own("lead") = leadLeft
    BY AgentsAreFinite, OwnIsNatural DEF HoldersFitShares
  <2>2. reserved = 0
    <3> DEFINE f == [a \in Agent |-> turn[a].tokens]
    <3>1. \A a \in Agent : f[a] = 0
      BY NoTurnIsEmpty DEF TurnsFitGrants
    <3> HIDE DEF f
    <3>2. Tally(f, Agent) = 0
      BY <3>1, TallyZero
    <3> QED
      BY <3>2 DEF f, TokensInFlight, BooksBalance
  <2>3. \A i \in Part : share[i].stage # "running"
    BY DEF HoldersFitShares, Holds, Running
  <2>4. heldParts = planParts
    BY <2>3 DEF heldParts, planParts
  <2>5. /\ Held = leadLeft + followUpLeft + Unstarted
        /\ Held \in Nat /\ Unstarted \in Nat /\ leadLeft \in Nat /\ followUpLeft \in Nat
    BY <2>4, HeldIsNatural DEF OutputTypeOK
  <2>6. /\ spent + reserved + Held + FreeTokens = Total /\ FreeTokens \in Nat
        /\ spent \in Nat /\ Total \in Nat
    <3>1. spent + reserved + Held <= Total + overrun /\ Total + overrun = Total
      BY OutputAssumption DEF BooksBalance
    <3> QED
      BY <3>1, FreeIsTheRest, OutputAssumption DEF OutputTypeOK
  <2>7. Available("lead", "answer") = leadLeft + followUpLeft + FreeTokens + Unstarted
    BY <2>1 DEF Available, Reach, ReachesFollowUp, LeadFinal
  <2> HIDE DEF OutputInv
  <2>8. Available("lead", "answer") = Held + FreeTokens
    BY <2>5, <2>6, <2>7
  <2>9. spent + (Held + FreeTokens) = Total
    BY <2>2, <2>5, <2>6
  <2> QED
    BY <2>5, <2>6, <2>8, <2>9 DEF Monus
<1>2. OutputIndInv => AnswerReachesTheRest
  BY <1>1 DEF OutputIndInv, AnswerReachesTheRest
<1> QED
  BY <1>2, OutputInvariant, PTL

=============================================================================
