--------------------------- MODULE InstallTransaction ---------------------------
(***************************************************************************)
(* The Windows installer's transaction (cmd/installer: transaction.go,     *)
(* main.go, registry_snapshot.go, uninstall_registration_windows.go,       *)
(* protocol_registration.go, install_directory_guard.go): the program is   *)
(* backed up, replaced and registered, and every failure on the way rolls  *)
(* the program and the registry back.                                      *)
(*                                                                         *)
(* A file is its content.  Any step may fail, another program may write    *)
(* the program file or the backup at any time, and the installer may be    *)
(* killed and started again.                                               *)
(***************************************************************************)
EXTENDS Naturals, Sequences

CONSTANTS MaxFaults,   \* steps that fail (bound)
          MaxOthers,   \* writes by other programs (bound)
          MaxCrashes,  \* times the installer is killed (bound)
          Pinned       \* whether the installation folder is always found again

\* What every instance has to satisfy.
InstallAssumption ==
    {MaxFaults, MaxOthers, MaxCrashes} \subseteq Nat /\ Pinned \in BOOLEAN

None == "none"
Contents == {None, "old", "new", "other"}

\* What setup writes to the registry, in order; "quiet" is deleted.
Writes == <<"path", "uninstall", "quiet", "size", "protocol">>
Values == {"path", "uninstall", "quiet", "size", "protocol"}

\* captureRegistrySnapshot: InstallDate and EstimatedSize are not in it.
Tracked == Values \ {"size"}

VARIABLES
    file,     \* GhostFTP.exe
    bak,      \* the rollback copy of this run
    reg,      \* registry values
    pc, at,   \* where setup is; at: the next of Writes
    existed, orig, activated, installed,  \* fileBackup
    snap,     \* registrySnapshot
    failed,   \* a rollback step reported an error
    broken,   \* the replacement of the rollback failed
    late,     \* another program wrote since the last check
    faults, others, crashes

tx == <<existed, orig, activated, installed>>
counts == <<faults, others, crashes>>
vars == <<file, bak, reg, pc, at, tx, snap, failed, broken, late, counts>>

Init ==
    /\ \/ file = "old" /\ reg \in {[v \in Values |-> "old"], [v \in Values |-> IF v \in {"path", "uninstall"} THEN "old" ELSE None]}
       \/ file = None /\ reg = [v \in Values |-> None]
    /\ bak = None /\ pc = "start" /\ at = 1
    /\ existed = FALSE /\ orig = None /\ activated = FALSE /\ installed = None
    /\ snap = reg /\ failed = FALSE /\ broken = FALSE /\ late = FALSE
    /\ faults = 0 /\ others = 0 /\ crashes = 0

Ok == UNCHANGED faults
Fault == faults < MaxFaults /\ faults' = faults + 1

-----------------------------------------------------------------------------
(* Setup *)

\* pinInstallDirectory: the folder is opened and stays the one that is used.
Pin ==
    /\ pc = "start"
    /\ \/ Ok /\ pc' = "backup"
       \/ Fault /\ pc' = "failed"
    /\ UNCHANGED <<file, bak, reg, at, tx, snap, failed, broken, late, others, crashes>>

\* backupExisting.
Backup ==
    /\ pc = "backup"
    /\ \/ Ok /\ existed' = (file # None) /\ orig' = file /\ bak' = file /\ pc' = "snapshot"
       \/ Fault /\ pc' = "failed" /\ UNCHANGED <<existed, orig, bak>>
    /\ UNCHANGED <<file, reg, at, activated, installed, snap, failed, broken, late, others, crashes>>

Snapshot ==
    /\ pc = "snapshot"
    /\ \/ Ok /\ snap' = reg /\ pc' = "stage" /\ UNCHANGED bak
       \/ Fault /\ pc' = "failed" /\ bak' = None /\ UNCHANGED snap
    /\ UNCHANGED <<file, reg, at, tx, failed, broken, late, others, crashes>>

\* stageVerified: a temporary file whose digest is read back.
Stage ==
    /\ pc = "stage"
    /\ \/ Ok /\ pc' = "check"
       \/ Fault /\ pc' = "rollback"
    /\ UNCHANGED <<file, bak, reg, at, tx, snap, failed, broken, late, others, crashes>>

\* verifyBeforeInstall: the program is what was backed up.
Check ==
    /\ pc = "check"
    /\ \/ Ok /\ late' = FALSE /\ pc' = IF file = orig THEN "activate" ELSE "rollback"
       \/ Fault /\ pc' = "rollback" /\ UNCHANGED late
    /\ UNCHANGED <<file, bak, reg, at, tx, snap, failed, broken, others, crashes>>

\* Mutant: the program is moved over whatever is there.
ReplaceAlways ==
    /\ pc = "activate" /\ Ok /\ file' = "new" /\ pc' = "record"
    /\ UNCHANGED <<bak, reg, at, tx, snap, failed, broken, late, others, crashes>>

\* ReplaceFile over the program, or RenameNoReplace where there was none.
Activate ==
    /\ pc = "activate"
    /\ \/ Ok /\ (existed \/ file = None) /\ file' = "new" /\ pc' = "record"
       \/ Ok /\ ~existed /\ file # None /\ pc' = "rollback" /\ UNCHANGED file
       \/ Fault /\ pc' = "rollback" /\ UNCHANGED file
    /\ UNCHANGED <<bak, reg, at, tx, snap, failed, broken, late, others, crashes>>

\* recordActivated.  The folder is verified before the activation is recorded.
Record ==
    /\ pc = "record"
    /\ \/ Ok /\ activated' = TRUE /\ installed' = file
          /\ pc' = IF file = "new" THEN "register" ELSE "rollback"
       \/ Fault /\ activated' = TRUE /\ pc' = "rollback" /\ UNCHANGED installed
       \/ ~Pinned /\ Fault /\ pc' = "rollback" /\ UNCHANGED <<activated, installed>>
    /\ UNCHANGED <<file, bak, reg, at, existed, orig, snap, failed, broken, late, others, crashes>>

\* register and registerIntegratedUninstall, which ends with the protocol.
Register ==
    /\ pc = "register" /\ at <= Len(Writes)
    /\ \/ Ok /\ at' = at + 1 /\ UNCHANGED pc
          /\ reg' = [reg EXCEPT ![Writes[at]] = IF Writes[at] = "quiet" THEN None ELSE "new"]
       \/ Fault /\ pc' = "rollback" /\ UNCHANGED <<at, reg>>
    /\ UNCHANGED <<file, bak, tx, snap, failed, broken, late, others, crashes>>

\* transactionCommitted; the deferred cleanup removes the backup.
Commit ==
    /\ pc = "register" /\ at > Len(Writes) /\ pc' = "committed" /\ bak' = None
    /\ UNCHANGED <<file, reg, at, tx, snap, failed, broken, late, counts>>

-----------------------------------------------------------------------------
(* Rollback *)

ToRegistry(err) == failed' = (failed \/ err) /\ pc' = "restore" /\ at' = 1

\* rollback of the file: nothing to do before the activation; afterwards the
\* program must still be the one that was installed, the backup the original.
RollbackCheck ==
    /\ pc = "rollback"
    /\ \/ Ok /\ ~activated /\ ToRegistry(FALSE) /\ UNCHANGED late
       \/ Ok /\ activated /\ installed # None /\ file = installed /\ (existed => bak = orig)
          /\ pc' = "undo" /\ late' = FALSE /\ UNCHANGED <<failed, at>>
       \/ Ok /\ activated /\ ~(installed # None /\ file = installed /\ (existed => bak = orig))
          /\ ToRegistry(TRUE) /\ UNCHANGED late
       \/ Fault /\ activated /\ ToRegistry(TRUE) /\ UNCHANGED late
    /\ UNCHANGED <<file, bak, reg, tx, snap, broken, others, crashes>>

\* The restored copy replaces the program, or a first program is removed.
Undo ==
    /\ pc = "undo"
    /\ \/ Ok /\ file' = orig /\ ToRegistry(FALSE) /\ UNCHANGED broken
       \/ Fault /\ ToRegistry(TRUE) /\ broken' = TRUE /\ UNCHANGED file
       \/ Fault /\ file' = orig /\ ToRegistry(TRUE) /\ UNCHANGED broken
    /\ UNCHANGED <<bak, reg, tx, snap, late, others, crashes>>

\* Mutant: the first value that cannot be restored ends the restoring.
RestoreUntil ==
    /\ pc = "restore" /\ at <= Len(Writes)
    /\ \/ Ok /\ at' = at + 1 /\ reg' = [reg EXCEPT ![Writes[at]] = IF Writes[at] \in Tracked THEN snap[Writes[at]] ELSE @]
          /\ UNCHANGED failed
       \/ Fault /\ at' = Len(Writes) + 1 /\ UNCHANGED <<reg, failed>>
    /\ UNCHANGED <<file, bak, pc, tx, snap, broken, late, others, crashes>>

\* registrySnapshot.restore goes on after a value that cannot be restored.
Restore ==
    /\ pc = "restore" /\ at <= Len(Writes) /\ at' = at + 1
    /\ \/ Ok /\ reg' = [reg EXCEPT ![Writes[at]] = IF Writes[at] \in Tracked THEN snap[Writes[at]] ELSE @]
          /\ UNCHANGED failed
       \/ Fault /\ failed' = TRUE /\ UNCHANGED reg
    /\ UNCHANGED <<file, bak, pc, tx, snap, broken, late, others, crashes>>

\* A first installation also removes shortcuts and the App Paths key, either of
\* which may fail; then the cleanup.
RolledBack ==
    /\ pc = "restore" /\ at > Len(Writes) /\ pc' = "failed" /\ bak' = None
    /\ \/ existed /\ Ok /\ UNCHANGED <<reg, failed>>
       \/ ~existed /\ Ok /\ reg' = [reg EXCEPT !["path"] = None] /\ UNCHANGED failed
       \/ ~existed /\ Fault /\ failed' = TRUE /\ reg' \in {reg, [reg EXCEPT !["path"] = None]}
    /\ UNCHANGED <<file, at, tx, snap, broken, late, others, crashes>>

-----------------------------------------------------------------------------
(* The rest of the world *)

\* Another program writes the program or the backup.
OtherWrites ==
    /\ others < MaxOthers /\ others' = others + 1 /\ late' = TRUE
    /\ \/ file' = "other" /\ UNCHANGED bak
       \/ bak # None /\ bak' = "other" /\ UNCHANGED file
    /\ UNCHANGED <<reg, pc, at, tx, snap, failed, broken, faults, crashes>>

\* Setup is killed and started again: nothing of the old run is looked at.
Crash ==
    /\ pc \notin {"start", "committed", "failed"}
    /\ crashes < MaxCrashes /\ crashes' = crashes + 1
    /\ pc' = "start" /\ at' = 1 /\ bak' = None
    /\ existed' = FALSE /\ orig' = None /\ activated' = FALSE /\ installed' = None
    /\ failed' = FALSE /\ broken' = FALSE /\ snap' = reg
    /\ UNCHANGED <<file, reg, late, faults, others>>

Setup == Pin \/ Backup \/ Snapshot \/ Stage \/ Check \/ Activate \/ Record \/ Register \/ Commit
Rollback == RollbackCheck \/ Undo \/ Restore \/ RolledBack
Next == Setup \/ Rollback \/ OtherWrites \/ Crash
Spec == Init /\ [][Next]_vars /\ WF_vars(Setup \/ Rollback)

-----------------------------------------------------------------------------
(* Properties *)

\* An activation that was verified was recorded first, and a backup is there
\* only for a program that existed.
TypeOK ==
    /\ {file, bak, orig, installed} \subseteq Contents /\ reg \in [Values -> Contents]
    /\ at \in 1..Len(Writes) + 1
    /\ installed # None => activated
    /\ bak # None => existed

\* Whoever has a program keeps one: at no moment, and at no crash, is the
\* path of an existing program empty.
ProgramStaysStep ==
    file # None /\ existed => file' # None

\* Until setup has finished, the program it found is at its path or in the
\* backup (unless another program has written there).
OriginalKept ==
    pc \in {"snapshot", "stage", "check", "activate", "record", "register", "rollback", "undo"} /\ existed /\ others = 0
        => orig \in {file, bak}

\* What another program has written is not overwritten or removed, unless
\* setup has seen it there (the program it backed up, or what it found after
\* its own replacement) or it came between a check and the replacement.
OthersKeptStep ==
    file = "other" /\ file' # "other" => file \in {orig, installed} \/ (late /\ (existed \/ pc = "undo"))

\* Setup that reports success has the program in place and registered.
CommittedIsInstalled ==
    pc = "committed" =>
        /\ others = 0 => file = "new"
        /\ \A v \in Values : reg[v] = IF v = "quiet" THEN None ELSE "new"

\* Setup that reports that everything was rolled back has the program as it
\* was.  (Not so when the folder could not be verified right after the
\* activation, which is then not recorded, against the comment there.)
RollbackRestores ==
    pc = "failed" /\ ~failed /\ others = 0 /\ (existed \/ activated) => file = orig

\* The comment in keyExisted: rollback deletes no registry structure that was
\* there before.
\* The code does not keep it: see "Disagreements found" in the README.
RegistryRestores ==
    pc = "failed" /\ ~failed => \A v \in Tracked : reg[v] = snap[v]

\* The tracked values are as they were, except that the App Paths key is
\* deleted when there was no program.
ValuesRestored ==
    pc = "failed" /\ ~failed =>
        \A v \in Tracked : (v = "path" /\ ~existed) \/ reg[v] = snap[v]

\* The comment in rollback: the backup survives a replacement that failed.
\* The code does not keep it: see "Disagreements found" in the README.
BackupSurvives == broken /\ existed /\ others = 0 => bak = orig

\* Setup comes to an end.
Unfinished == pc \notin {"committed", "failed"}
=============================================================================
