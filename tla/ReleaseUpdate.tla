---------------------------- MODULE ReleaseUpdate ----------------------------
(***************************************************************************)
(* `lightagent update` (release-update/src/lib.rs and install.rs): the     *)
(* installed binary is replaced by a published one, which is downloaded,   *)
(* unpacked and tried out beside it and then renamed in, or by one that    *)
(* Cargo builds over it.  The previous binary is set aside as `.old` until *)
(* the replacement stands.  Every file operation may fail, the process may *)
(* be killed between any two of them, and the command may be given again.  *)
(*                                                                         *)
(* A file is absent or holds the first installed binary, the release's, or *)
(* one that does not run or reports another version.                       *)
(***************************************************************************)
EXTENDS Naturals

CONSTANTS MaxAttempts,   \* bound: how often the command is given
          MaxFaults      \* bound: how many file operations fail

ASSUME BoundsAssumption == MaxAttempts \in Nat /\ MaxFaults \in Nat

Absent == "absent"
Binaries == {"first", "release", "broken"}
Files == Binaries \cup {Absent}

VARIABLES
    target,     \* the installed binary
    backup,     \* the file beside it that ends in .old
    staged,     \* the unpacked binary of this attempt
    step,       \* where `run` is
    applied,    \* the transaction: nothing, a target, a target with a backup
    before,     \* what was installed when the attempt began
    outcome,    \* what the last attempt reported
    attempts, faults

vars == <<target, backup, staged, step, applied, before, outcome, attempts, faults>>

ArchiveSteps == {"download", "try", "clear", "aside", "swap", "unswap"}
CargoSteps == {"preserve", "copy", "build", "built"}
Applying == {"clear", "aside", "swap", "unswap", "preserve", "copy", "build", "built",
             "roll back", "commit"}
Outcomes == {"none", "current", "updated", "rolled back", "unrestored", "refused"}

TypeOK ==
    /\ target \in Files /\ backup \in Files /\ staged \in Files /\ before \in Files
    /\ step \in {"idle", "fetch"} \cup ArchiveSteps \cup CargoSteps \cup Applying
    /\ applied \in {"nothing", "target", "backed up"}
    /\ outcome \in Outcomes
    /\ attempts \in 0..MaxAttempts /\ faults \in 0..MaxFaults

Init ==
    /\ target \in {"first", Absent}
    /\ backup = Absent /\ staged = Absent
    /\ step = "idle" /\ applied = "nothing" /\ before = target
    /\ outcome = "none" /\ attempts = 0 /\ faults = 0

-----------------------------------------------------------------------------
Goes(to) == step' = to
Faulty == faults < MaxFaults /\ faults' = faults + 1
Sound == UNCHANGED faults
Ends(how) == Goes("idle") /\ outcome' = how

\* A version that cannot be read is older than any; --force reinstalls the
\* latest.
NeedsUpdate(force) == force \/ target # "release"

\* The archive of this target is in the release, or Cargo builds the tag.
Begin ==
    /\ step = "idle" /\ attempts < MaxAttempts
    /\ attempts' = attempts + 1
    /\ before' = target
    /\ staged' = Absent /\ applied' = "nothing"
    /\ \E force \in BOOLEAN :
          IF NeedsUpdate(force)
          THEN outcome' = "none" /\ \E to \in {"fetch", "preserve"} : Goes(to)
          ELSE Ends("current")
    /\ UNCHANGED <<target, backup, faults>>

\* The checksums and the staging directory, before any transaction.
Fetch ==
    /\ step = "fetch"
    /\ \/ Goes("download") /\ UNCHANGED outcome
       \/ Ends("refused")
    /\ UNCHANGED <<target, backup, staged, applied, before, attempts, faults>>

\* Download against the digest and unpack.
Download ==
    /\ step = "download"
    /\ \/ Goes("try") /\ staged' \in {"release", "broken"}
       \/ Goes("roll back") /\ UNCHANGED staged
    /\ UNCHANGED <<target, backup, applied, before, outcome, attempts, faults>>

TryStaged ==
    /\ step = "try"
    /\ Goes(IF staged = "release" THEN "clear" ELSE "roll back")
    /\ UNCHANGED <<target, backup, staged, applied, before, outcome, attempts, faults>>

-----------------------------------------------------------------------------
(***************************************************************************)
(* Transaction::install_staged and Transaction::preserve.                  *)
(***************************************************************************)
\* An absent target has nothing to set aside, and an older backup stays.
ClearBackup(from, next, else) ==
    /\ step = from
    /\ \/ target = Absent /\ Goes(else) /\ UNCHANGED backup /\ Sound
       \/ target # Absent /\ Goes(next) /\ backup' = Absent /\ Sound
       \/ target # Absent /\ Goes("roll back") /\ UNCHANGED backup /\ Faulty
    /\ UNCHANGED <<target, staged, before, outcome, attempts>>

Clear == ClearBackup("clear", "aside", "swap") /\ UNCHANGED applied

Aside ==
    /\ step = "aside"
    /\ \/ Goes("swap") /\ backup' = target /\ target' = Absent /\ Sound
       \/ Goes("roll back") /\ UNCHANGED <<backup, target>> /\ Faulty
    /\ UNCHANGED <<staged, applied, before, outcome, attempts>>

\* What was set aside by this attempt: the target was there when it began.
SetAside == before # Absent

Swap ==
    /\ step = "swap"
    /\ \/ /\ target' = staged /\ staged' = Absent
          /\ applied' = IF SetAside THEN "backed up" ELSE "target"
          /\ Goes("commit") /\ Sound
       \/ Goes("unswap") /\ Faulty /\ UNCHANGED <<target, staged, applied>>
    /\ UNCHANGED <<backup, before, outcome, attempts>>

\* The rename failed: what was set aside is put back at once.  A failure of
\* that is added to the message only; the transaction does not know of it.
Unswap_skipped ==
    /\ step = "unswap"
    /\ Goes("roll back")
    /\ UNCHANGED <<target, backup, staged, applied, before, outcome, attempts, faults>>

Unswap ==
    /\ step = "unswap"
    /\ Goes("roll back")
    /\ \/ SetAside /\ target' = backup /\ backup' = Absent /\ Sound
       \/ ~SetAside /\ target' = Absent /\ Sound /\ UNCHANGED backup
       \/ Faulty /\ UNCHANGED <<target, backup>>
    /\ UNCHANGED <<staged, applied, before, outcome, attempts>>

Preserve ==
    /\ ClearBackup("preserve", "copy", "build")
    /\ applied' = IF target = Absent THEN "target" ELSE applied

\* No copy made, as when the backup of an earlier attempt would do.
Copy_skipped ==
    /\ step = "copy"
    /\ Goes("build") /\ applied' = "backed up" /\ Sound
    /\ UNCHANGED <<target, backup, staged, before, outcome, attempts>>

Copy ==
    /\ step = "copy"
    /\ \/ Goes("build") /\ backup' = target /\ applied' = "backed up" /\ Sound
       \/ /\ Goes("roll back") /\ backup' \in {Absent, "broken"} /\ Faulty
          /\ UNCHANGED applied
    /\ UNCHANGED <<target, staged, before, outcome, attempts>>

\* Cargo builds apart and installs over the target, or fails and leaves it.
Build ==
    /\ step = "build"
    /\ \/ Goes("built") /\ target' \in {"release", "broken"}
       \/ Goes("roll back") /\ UNCHANGED target
    /\ UNCHANGED <<backup, staged, applied, before, outcome, attempts, faults>>

TryBuilt ==
    /\ step = "built"
    /\ Goes(IF target = "release" THEN "commit" ELSE "roll back")
    /\ UNCHANGED <<target, backup, staged, applied, before, outcome, attempts, faults>>

-----------------------------------------------------------------------------
RollBack ==
    /\ step = "roll back"
    /\ \/ applied = "nothing" /\ Ends("rolled back") /\ UNCHANGED <<target, backup>> /\ Sound
       \/ /\ applied = "backed up" /\ Ends("rolled back") /\ Sound
          /\ target' = backup /\ backup' = Absent
       \/ applied = "target" /\ Ends("rolled back") /\ target' = Absent /\ UNCHANGED backup /\ Sound
       \/ applied # "nothing" /\ Ends("unrestored") /\ UNCHANGED <<target, backup>> /\ Faulty
    /\ UNCHANGED <<staged, applied, before, attempts>>

\* A backup that is still in use is left for the next update.
Commit ==
    /\ step = "commit"
    /\ Ends("updated")
    /\ \/ applied = "backed up" /\ backup' = Absent
       \/ UNCHANGED backup
    /\ UNCHANGED <<target, staged, applied, before, attempts, faults>>

\* The process is killed; the command says nothing.
Crash ==
    /\ step # "idle"
    /\ Ends("none")
    /\ UNCHANGED <<target, backup, staged, applied, before, attempts, faults>>

Next ==
    \/ Begin \/ Fetch \/ Download \/ TryStaged
    \/ Clear \/ Aside \/ Swap \/ Unswap
    \/ Preserve \/ Copy \/ Build \/ TryBuilt
    \/ RollBack \/ Commit \/ Crash

Spec == Init /\ [][Next]_vars

-----------------------------------------------------------------------------
(***************************************************************************)
(* What an update promises.                                                *)
(***************************************************************************)
\* "The previous binary remains available until the replacement is verified"
\* (the comment of Transaction): at every step of an attempt what was
\* installed before is in place or set aside.
PreviousRemains ==
    step \in Applying /\ before # Absent => before \in {target, backup}

\* An update that reports that every installed binary is as it was has left
\* what was installed before in its place, with no fault but the one that
\* failed it (the message of `run`).
RolledBackIsAsBefore == outcome = "rolled back" => target = before

\* What an update reports as installed is the release's binary and ran.
UpdatedIsVerified == outcome = "updated" => target = "release"

=============================================================================
