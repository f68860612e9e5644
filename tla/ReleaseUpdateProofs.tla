------------------------ MODULE ReleaseUpdateProofs ------------------------
(***************************************************************************)
(* However often the update is given, fails and is killed, the binary that *)
(* was installed when it began is in place or set aside until its          *)
(* replacement has run; and an update that says it was rolled back was, if *)
(* at most one file operation fails.                                       *)
(***************************************************************************)
EXTENDS ReleaseUpdate, TLAPS

-----------------------------------------------------------------------------
(* Type correctness.                                                       *)

\* The counters are apart from the rest of the type: they need arithmetic.
Bounds == attempts \in 0..MaxAttempts /\ faults \in 0..MaxFaults

LEMMA CountersStep ==
    ASSUME [Next]_vars
    PROVE  /\ attempts' = attempts \/ (attempts < MaxAttempts /\ attempts' = attempts + 1)
           /\ faults' = faults \/ (faults < MaxFaults /\ faults' = faults + 1)
<1> USE DEF Faulty, Sound
<1>1. CASE Begin
  BY <1>1 DEF Begin
<1>2. CASE Fetch
  BY <1>2 DEF Fetch
<1>3. CASE Download
  BY <1>3 DEF Download
<1>4. CASE TryStaged
  BY <1>4 DEF TryStaged
<1>5. CASE Clear
  BY <1>5 DEF Clear, ClearBackup
<1>6. CASE Aside
  BY <1>6 DEF Aside
<1>7. CASE Swap
  BY <1>7 DEF Swap
<1>8. CASE Unswap
  BY <1>8 DEF Unswap
<1>9. CASE Preserve
  BY <1>9 DEF Preserve, ClearBackup
<1>10. CASE Copy
  BY <1>10 DEF Copy
<1>11. CASE Build
  BY <1>11 DEF Build
<1>12. CASE TryBuilt
  BY <1>12 DEF TryBuilt
<1>13. CASE RollBack
  BY <1>13 DEF RollBack
<1>14. CASE Commit
  BY <1>14 DEF Commit
<1>15. CASE Crash
  BY <1>15 DEF Crash
<1>16. CASE UNCHANGED vars
  BY <1>16 DEF vars
<1> QED
  BY <1>1, <1>2, <1>3, <1>4, <1>5, <1>6, <1>7, <1>8, <1>9, <1>10, <1>11, <1>12, <1>13,
     <1>14, <1>15, <1>16 DEF Next

LEMMA BoundsNext == Bounds /\ [Next]_vars => Bounds'
BY CountersStep, BoundsAssumption DEF Bounds

TypesOfFiles ==
    /\ target \in Files /\ backup \in Files /\ staged \in Files /\ before \in Files
    /\ applied \in {"nothing", "target", "backed up"}
    /\ outcome \in Outcomes
    /\ step \in {"idle", "fetch"} \cup ArchiveSteps \cup CargoSteps \cup Applying

LEMMA TypesOfFilesNext == TypesOfFiles /\ [Next]_vars => TypesOfFiles'
<1> SUFFICES ASSUME TypesOfFiles, [Next]_vars PROVE TypesOfFiles'
  OBVIOUS
<1> USE DEF TypesOfFiles, Files, Binaries, Absent, Outcomes, ArchiveSteps, CargoSteps,
            Applying, Goes, Ends
<1>1. CASE Begin
  BY <1>1 DEF Begin
<1>2. CASE Fetch
  BY <1>2 DEF Fetch
<1>3. CASE Download
  BY <1>3 DEF Download
<1>4. CASE TryStaged
  BY <1>4 DEF TryStaged
<1>5. CASE Clear
  BY <1>5 DEF Clear, ClearBackup
<1>6. CASE Aside
  BY <1>6 DEF Aside
<1>7. CASE Swap
  BY <1>7 DEF Swap
<1>8. CASE Unswap
  BY <1>8 DEF Unswap
<1>9. CASE Preserve
  BY <1>9 DEF Preserve, ClearBackup
<1>10. CASE Copy
  BY <1>10 DEF Copy
<1>11. CASE Build
  BY <1>11 DEF Build
<1>12. CASE TryBuilt
  BY <1>12 DEF TryBuilt
<1>13. CASE RollBack
  BY <1>13 DEF RollBack
<1>14. CASE Commit
  BY <1>14 DEF Commit
<1>15. CASE Crash
  BY <1>15 DEF Crash
<1>16. CASE UNCHANGED vars
  <2> HIDE DEF Files, Binaries, Outcomes, ArchiveSteps, CargoSteps, Applying
  <2> QED
    BY <1>16 DEF vars
<1> QED
  BY <1>1, <1>2, <1>3, <1>4, <1>5, <1>6, <1>7, <1>8, <1>9, <1>10, <1>11, <1>12, <1>13,
     <1>14, <1>15, <1>16 DEF Next

LEMMA TypeSplit == TypeOK <=> Bounds /\ TypesOfFiles
BY DEF TypeOK, Bounds, TypesOfFiles

LEMMA TypeInit == Init => TypeOK
<1> SUFFICES ASSUME Init PROVE TypeOK
  OBVIOUS
<1>1. Bounds
  BY BoundsAssumption DEF Init, Bounds
<1>2. TypesOfFiles
  BY DEF Init, TypesOfFiles, Files, Binaries, Absent, Outcomes
<1> QED
  BY <1>1, <1>2, TypeSplit

LEMMA TypeNext == TypeOK /\ [Next]_vars => TypeOK'
<1> SUFFICES ASSUME TypeOK, [Next]_vars PROVE TypeOK'
  OBVIOUS
<1>1. Bounds' /\ TypesOfFiles'
  BY TypeSplit, BoundsNext, TypesOfFilesNext
<1> QED
  BY <1>1 DEF TypeOK, Bounds, TypesOfFiles

\* Every state of an update is well typed, for any number of attempts and
\* faults.
THEOREM TypeCorrect == Spec => []TypeOK
BY TypeInit, TypeNext, PTL DEF Spec

-----------------------------------------------------------------------------
(***************************************************************************)
(* Where the binaries are at each step.                                    *)
(***************************************************************************)
Untouched == {"fetch", "download", "try", "clear", "preserve", "aside", "copy"}

\* Until something is set aside the target is as it was.
TargetStays == step \in Untouched => target = before /\ applied = "nothing"

\* From then on the previous binary, if there was one, is the backup.
BackupHolds ==
    /\ step \in {"swap", "unswap"} =>
          /\ applied = "nothing" /\ target = Absent
          /\ before # Absent => backup = before
    /\ step \in {"aside", "copy"} => target # Absent
    /\ step \in {"build", "built", "commit"} =>
          /\ applied \in {"target", "backed up"}
          /\ applied = "target" <=> before = Absent
          /\ applied = "backed up" => backup = before

\* A roll back restores what the transaction recorded.
RollBackFinds ==
    step = "roll back" =>
        /\ applied = "nothing" /\ before # Absent => before \in {target, backup}
        /\ applied = "target" => before = Absent
        /\ applied = "backed up" => backup = before

\* Only a binary that ran as the release gets through.
OnlyVerified ==
    /\ step \in {"clear", "aside", "swap", "unswap"} => staged = "release"
    /\ step = "commit" => target = "release"
    /\ outcome = "updated" => target = "release"
    /\ step # "idle" => outcome = "none"

IInv == TypeOK /\ TargetStays /\ BackupHolds /\ RollBackFinds /\ OnlyVerified

LEMMA IInvInit == Init => IInv
BY TypeInit DEF Init, IInv, TargetStays, BackupHolds, RollBackFinds, OnlyVerified, Untouched

LEMMA IInvNext == IInv /\ [Next]_vars => IInv'
<1> SUFFICES ASSUME IInv, [Next]_vars PROVE IInv'
  OBVIOUS
<1>t. TypeOK /\ TypeOK'
  BY TypeNext DEF IInv
<1>f. TypesOfFiles
  BY <1>t, TypeSplit
<1>s. TargetStays /\ BackupHolds /\ RollBackFinds /\ OnlyVerified
  BY DEF IInv
<1> SUFFICES TargetStays' /\ BackupHolds' /\ RollBackFinds' /\ OnlyVerified'
  BY <1>t DEF IInv
<1> USE <1>f, <1>s
        DEF TypesOfFiles, TargetStays, BackupHolds, RollBackFinds, OnlyVerified, Untouched,
            Files, Binaries, Absent, Goes, Ends
<1>1. CASE Begin
  BY <1>1 DEF Begin, NeedsUpdate
<1>2. CASE Fetch
  BY <1>2 DEF Fetch
<1>3. CASE Download
  BY <1>3 DEF Download
<1>4. CASE TryStaged
  BY <1>4 DEF TryStaged
<1>5. CASE Clear
  BY <1>5 DEF Clear, ClearBackup
<1>6. CASE Aside
  BY <1>6 DEF Aside
<1>7. CASE Swap
  BY <1>7 DEF Swap, SetAside
<1>8. CASE Unswap
  BY <1>8 DEF Unswap, SetAside
<1>9. CASE Preserve
  BY <1>9 DEF Preserve, ClearBackup
<1>10. CASE Copy
  BY <1>10 DEF Copy
<1>11. CASE Build
  BY <1>11 DEF Build
<1>12. CASE TryBuilt
  BY <1>12 DEF TryBuilt
<1>13. CASE RollBack
  BY <1>13 DEF RollBack
<1>14. CASE Commit
  BY <1>14 DEF Commit
<1>15. CASE Crash
  BY <1>15 DEF Crash
<1>16. CASE UNCHANGED vars
  BY <1>16 DEF vars
<1> QED
  BY <1>1, <1>2, <1>3, <1>4, <1>5, <1>6, <1>7, <1>8, <1>9, <1>10, <1>11, <1>12, <1>13,
     <1>14, <1>15, <1>16 DEF Next

LEMMA Inductive == Spec => []IInv
BY IInvInit, IInvNext, PTL DEF Spec

\* At every step of an attempt the previous binary is in place or set aside,
\* whatever fails (the comment of Transaction).
THEOREM PreviousBinaryIsKept == Spec => []PreviousRemains
<1>1. IInv => PreviousRemains
  <2> SUFFICES ASSUME IInv, step \in Applying, before # Absent
               PROVE  before \in {target, backup}
    BY DEF PreviousRemains
  <2>1. applied \in {"nothing", "target", "backed up"}
    BY TypeSplit DEF IInv, TypesOfFiles
  <2>2. TargetStays /\ BackupHolds /\ RollBackFinds
    BY DEF IInv
  <2> QED
    BY <2>1, <2>2 DEF TargetStays, BackupHolds, RollBackFinds, Applying, Untouched
<1> QED
  BY <1>1, Inductive, PTL

\* An update that reports success installed the release's binary.
THEOREM ReportedUpdatesAreVerified == Spec => []UpdatedIsVerified
<1>1. IInv => UpdatedIsVerified
  BY DEF IInv, OnlyVerified, UpdatedIsVerified
<1> QED
  BY <1>1, Inductive, PTL

-----------------------------------------------------------------------------
(***************************************************************************)
(* With one fault, what failed the update cannot fail its repair.          *)
(***************************************************************************)
RepairHolds ==
    /\ step = "unswap" => faults # 0
    /\ step = "roll back" /\ applied = "nothing" => target = before
    /\ outcome = "rolled back" => target = before

LEMMA RepairNext ==
    ASSUME MaxFaults <= 1, IInv, RepairHolds, [Next]_vars
    PROVE  RepairHolds'
<1>s. TypeOK /\ TargetStays /\ BackupHolds /\ RollBackFinds /\ OnlyVerified
  BY DEF IInv
<1>b. Bounds /\ TypesOfFiles
  BY <1>s, TypeSplit
<1>1f. Faulty => faults' # 0
  BY <1>b, BoundsAssumption DEF Bounds, Faulty
<1>2f. faults # 0 => ~Faulty
  BY <1>b, BoundsAssumption DEF Bounds, Faulty
<1> USE <1>s, <1>1f, <1>2f
        DEF RepairHolds, TargetStays, BackupHolds, RollBackFinds, OnlyVerified, Untouched,
            Absent, Goes, Ends, Sound
<1>1. CASE Begin
  BY <1>1 DEF Begin, NeedsUpdate
<1>2. CASE Fetch
  BY <1>2 DEF Fetch
<1>3. CASE Download
  BY <1>3 DEF Download
<1>4. CASE TryStaged
  BY <1>4 DEF TryStaged
<1>5. CASE Clear
  BY <1>5 DEF Clear, ClearBackup
<1>6. CASE Aside
  BY <1>6 DEF Aside
<1>7. CASE Swap
  BY <1>7 DEF Swap, SetAside
<1>8. CASE Unswap
  BY <1>8 DEF Unswap, SetAside
<1>9. CASE Preserve
  BY <1>9 DEF Preserve, ClearBackup
<1>10. CASE Copy
  BY <1>10 DEF Copy
<1>11. CASE Build
  BY <1>11 DEF Build
<1>12. CASE TryBuilt
  BY <1>12 DEF TryBuilt
<1>13. CASE RollBack
  BY <1>13 DEF RollBack
<1>14. CASE Commit
  BY <1>14 DEF Commit
<1>15. CASE Crash
  BY <1>15 DEF Crash
<1>16. CASE UNCHANGED vars
  BY <1>16 DEF vars
<1> QED
  BY <1>1, <1>2, <1>3, <1>4, <1>5, <1>6, <1>7, <1>8, <1>9, <1>10, <1>11, <1>12, <1>13,
     <1>14, <1>15, <1>16 DEF Next

\* An update that says it was rolled back left everything as it was, if at
\* most one file operation fails; a second fault refutes it.
THEOREM RollBackRestores ==
    ASSUME MaxFaults <= 1
    PROVE  Spec => []RolledBackIsAsBefore
<1>1. Init => RepairHolds
  BY DEF Init, RepairHolds
<1>2. IInv /\ RepairHolds /\ [Next]_vars => RepairHolds'
  BY RepairNext
<1>3. RepairHolds => RolledBackIsAsBefore
  BY DEF RepairHolds, RolledBackIsAsBefore
<1> QED
  BY <1>1, <1>2, <1>3, Inductive, PTL DEF Spec

=============================================================================
