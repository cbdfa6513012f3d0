----------------------------- MODULE LocalDownload -----------------------------
(***************************************************************************)
(* Downloads that replace one local file: Download of                      *)
(* internal/remote/curl_ftp.go and sftp.go and, in local_download_root.go, *)
(* prepareLocalDownloadTarget, validatePart, activate and                  *)
(* restoreRootBackup.                                                      *)
(*                                                                         *)
(* Any local file operation may fail.  Workers whose jobs name the same    *)
(* target run concurrently, another program may put a file where there is  *)
(* none, and the client may be killed between any two operations.          *)
(***************************************************************************)
EXTENDS Naturals

CONSTANTS Jobs,         \* the downloads; a job also stands for the content it fetches
          Old,          \* what the target holds before them
          Foreign,      \* a file of another program
          Sentinel,     \* the random bytes a staging file starts with
          Partial,      \* what a tool that fails leaves, be it nothing new or all of a content
          None,         \* no file
          Start,        \* the target at first: Old or None
          MaxAttempts,  \* 1 + AutoRetryCount
          MaxForeign,   \* files another program puts there (bound)
          Links         \* the file system has hard links

Placeholder(j) == <<j>>

\* What every instance has to satisfy.
DownloadAssumption ==
    /\ Old \notin {Foreign, Sentinel, Partial, None} /\ Foreign \notin {Sentinel, Partial, None}
    /\ Sentinel \notin {Partial, None} /\ Partial # None
    /\ (Jobs \cup {Placeholder(j) : j \in Jobs}) \cap {Old, Foreign, Sentinel, Partial, None} = {}
    /\ Jobs \cap {Placeholder(j) : j \in Jobs} = {}
    /\ Start \in {Old, None} /\ Links \in BOOLEAN
    /\ MaxAttempts \in Nat \ {0} /\ MaxForeign \in Nat

Attempts == 1..MaxAttempts
Whole    == Jobs \cup {Old, Foreign}
Contents == Whole \cup {None} \cup {Placeholder(j) : j \in Jobs}
Policies == {"skip", "replace", "backup"}

VARIABLES
    base,      \* the target
    part,      \* .GhostFTP-part-* of each attempt: its name is drawn anew
    saved,     \* its .GhostFTP-rollback-* or *.GhostFTP-backup-*
    expected,  \* the file a job moved there, as recorded in backupInfo
    policy,    \* the settings it read
    pc, attempt,
    result,    \* what became of the job
    replaced,  \* history: undoing has replaced or removed another's file at the target
    overrun,   \* history: an activation has replaced another file than its placeholder
    appeared   \* history: files put there by another program

files == <<base, part, saved, expected>>
jobVars == <<pc, attempt, result>>
history == <<replaced, overrun>>
vars == <<files, policy, jobVars, history, appeared>>

Init ==
    /\ base = Start
    /\ part = [j \in Jobs |-> [n \in Attempts |-> None]]
    /\ saved = [j \in Jobs |-> None] /\ expected = [j \in Jobs |-> None]
    /\ policy \in [Jobs -> Policies]
    /\ pc = [j \in Jobs |-> "prepare"] /\ attempt = [j \in Jobs |-> 1]
    /\ result = [j \in Jobs |-> "none"]
    /\ replaced = FALSE /\ overrun = FALSE /\ appeared = 0

Part(j) == part[j][attempt[j]]
SetPart(j, c) == part' = [part EXCEPT ![j][attempt[j]] = c]
Goto(j, l) == pc' = [pc EXCEPT ![j] = l] /\ UNCHANGED <<attempt, result>>
Finish(j, r) ==
    /\ pc' = [pc EXCEPT ![j] = "done"] /\ result' = [result EXCEPT ![j] = r]
    /\ UNCHANGED attempt

\* cleanupPart: whether the removal succeeds is not looked at.
CleanPart(j) == \E c \in {None, Part(j)} : SetPart(j, c)

\* The staging file is created, filled with the sentinel and synced.  If one of these
\* fails it may stay, since its removal may fail as well.
Prepare(j) ==
    /\ pc[j] = "prepare"
    /\ \/ base # None /\ policy[j] = "skip" /\ Finish(j, "skipped") /\ UNCHANGED part
       \/ ~(base # None /\ policy[j] = "skip") /\ SetPart(j, Sentinel) /\ Goto(j, "get")
       \/ \E c \in {None, Partial} : SetPart(j, c) /\ Finish(j, "failed")
    /\ UNCHANGED <<base, saved, expected, policy, history, appeared>>

\* The tool writes the staging file.  Only its failures are worth a retry, which takes
\* another name: a part whose removal failed stays beside it.
Get(j) ==
    /\ pc[j] = "get"
    /\ \/ SetPart(j, j) /\ Goto(j, "validate")
       \/ UNCHANGED part /\ Goto(j, "validate")
       \/ \E c \in {None, Partial} :
             /\ SetPart(j, c)
             /\ \/ attempt[j] < MaxAttempts /\ pc' = [pc EXCEPT ![j] = "prepare"]
                   /\ attempt' = [attempt EXCEPT ![j] = @ + 1] /\ UNCHANGED result
                \/ Finish(j, "failed")
    /\ UNCHANGED <<base, saved, expected, policy, history, appeared>>

\* validatePart: a staging file that still holds the sentinel was not written.
ValidatePart(j) ==
    /\ pc[j] = "validate"
    /\ \/ Part(j) # Sentinel /\ Goto(j, "inspect") /\ UNCHANGED part
       \/ CleanPart(j) /\ Finish(j, "failed")
    /\ UNCHANGED <<base, saved, expected, policy, history, appeared>>

\* activate looks at the target ...
Inspect(j) ==
    /\ pc[j] = "inspect"
    /\ \/ base # None /\ policy[j] = "skip" /\ CleanPart(j) /\ Finish(j, "skipped")
       \/ base # None /\ policy[j] # "skip" /\ Goto(j, "protect") /\ UNCHANGED part
       \/ base = None /\ Goto(j, "hold") /\ UNCHANGED part
       \/ CleanPart(j) /\ Finish(j, "failed")
    /\ UNCHANGED <<base, saved, expected, policy, history, appeared>>

\* ... moves what is there now out of the way ...
Protect(j) ==
    /\ pc[j] = "protect"
    /\ \/ /\ base # None /\ base' = None
          /\ saved' = [saved EXCEPT ![j] = base] /\ expected' = [expected EXCEPT ![j] = base]
          /\ \/ Goto(j, "hold") /\ UNCHANGED part
             \/ CleanPart(j) /\ Finish(j, "failed")
       \/ CleanPart(j) /\ Finish(j, "failed") /\ UNCHANGED <<base, saved, expected>>
    /\ UNCHANGED <<policy, history, appeared>>

\* Mutant: the placeholder is not created exclusively.
HoldAny(j) ==
    /\ pc[j] = "hold"
    /\ base' = Placeholder(j) /\ Goto(j, "check")
    /\ UNCHANGED <<part, saved, expected, policy, history, appeared>>

\* ... takes its name with an empty file of its own, never over another ...
Hold(j) ==
    /\ pc[j] = "hold"
    /\ \/ base = None /\ base' = Placeholder(j) /\ Goto(j, "check") /\ UNCHANGED part
       \/ CleanPart(j) /\ Finish(j, "failed") /\ UNCHANGED base
    /\ UNCHANGED <<saved, expected, policy, history, appeared>>

\* When the activation fails the part goes, then the original comes back.
GiveUp(j) ==
    /\ CleanPart(j)
    /\ IF saved[j] # None THEN Goto(j, "restore") ELSE Finish(j, "failed")

\* ... makes sure that it is the one at the target ...
Check(j) ==
    /\ pc[j] = "check"
    /\ \/ base = Placeholder(j) /\ Goto(j, "activate") /\ UNCHANGED part
       \/ Goto(j, "undo") /\ UNCHANGED part
       \/ GiveUp(j)
    /\ UNCHANGED <<base, saved, expected, policy, history, appeared>>

\* Before that the placeholder goes, if what is at the target is still it ...
Undo(j) ==
    /\ pc[j] = "undo"
    /\ \/ base = Placeholder(j) /\ Goto(j, "remove") /\ UNCHANGED part
       \/ GiveUp(j)
    /\ UNCHANGED <<base, saved, expected, policy, history, appeared>>

\* ... by its name: whatever has come there since is removed.
Remove(j) ==
    /\ pc[j] = "remove" /\ GiveUp(j)
    /\ \/ UNCHANGED <<base, replaced>>
       \/ base' = None /\ replaced' = (replaced \/ base \notin {Placeholder(j), None})
    /\ UNCHANGED <<saved, expected, policy, overrun, appeared>>

\* Mutant: the rollback copy is removed whatever the policy.
ActivateWithoutBackup(j) ==
    /\ pc[j] = "activate"
    /\ \/ /\ base' = Part(j) /\ SetPart(j, None)
          /\ overrun' = (overrun \/ base # Placeholder(j))
          /\ IF saved[j] # None THEN Goto(j, "discard") ELSE Finish(j, "ok")
       \/ Goto(j, "undo") /\ UNCHANGED <<base, part, overrun>>
    /\ UNCHANGED <<saved, expected, policy, replaced, appeared>>

\* Mutant: the rollback copy goes as soon as the rename has been tried.
ActivateDiscarding(j) ==
    /\ pc[j] = "activate"
    /\ \/ base' = Part(j) /\ SetPart(j, None) /\ overrun' = (overrun \/ base # Placeholder(j))
       \/ UNCHANGED <<base, part, overrun>>
    /\ IF saved[j] # None /\ policy[j] # "backup" THEN Goto(j, "discard") ELSE Finish(j, "ok")
    /\ UNCHANGED <<saved, expected, policy, replaced, appeared>>

\* ... and renames the part over it.
Activate(j) ==
    /\ pc[j] = "activate"
    /\ \/ /\ base' = Part(j) /\ SetPart(j, None)
          /\ overrun' = (overrun \/ base # Placeholder(j))
          /\ IF saved[j] # None /\ policy[j] # "backup" THEN Goto(j, "discard") ELSE Finish(j, "ok")
       \/ Goto(j, "undo") /\ UNCHANGED <<base, part, overrun>>
    /\ UNCHANGED <<saved, expected, policy, replaced, appeared>>

\* The rollback copy is removed if it is still the file that was moved there.
Discard(j) ==
    /\ pc[j] = "discard"
    /\ \/ saved[j] = expected[j] /\ saved' = [saved EXCEPT ![j] = None] /\ Finish(j, "ok")
       \/ UNCHANGED saved /\ Finish(j, "activeButFailed")
    /\ UNCHANGED <<base, part, expected, policy, history, appeared>>

\* restoreRootBackup: nothing may be at the target ...
RestoreCheck(j) ==
    /\ pc[j] = "restore"
    /\ \/ base = None /\ Goto(j, "link")
       \/ Finish(j, "failed")
    /\ UNCHANGED <<files, policy, history, appeared>>

\* ... then a link, which replaces nothing, and the removal of the copy ...
Link(j) ==
    /\ pc[j] = "link"
    /\ \/ /\ Links /\ base = None /\ base' = saved[j]
          /\ \E c \in {None, saved[j]} : saved' = [saved EXCEPT ![j] = c]
          /\ Finish(j, "failed")
       \/ Goto(j, "rename") /\ UNCHANGED <<base, saved>>
    /\ UNCHANGED <<part, expected, policy, history, appeared>>

\* ... or, when the link fails for any reason, a rename, which does replace.
RenameBack(j) ==
    /\ pc[j] = "rename" /\ Finish(j, "failed")
    /\ \/ /\ base' = saved[j] /\ saved' = [saved EXCEPT ![j] = None]
          /\ replaced' = (replaced \/ base # None)
       \/ UNCHANGED <<base, saved, replaced>>
    /\ UNCHANGED <<part, expected, policy, overrun, appeared>>

\* Another program creates the file.
Appear ==
    /\ base = None /\ appeared < MaxForeign
    /\ base' = Foreign /\ appeared' = appeared + 1
    /\ UNCHANGED <<part, saved, expected, policy, jobVars, history>>

\* The client is killed; the queue is not kept.
Kill ==
    /\ \E j \in Jobs : pc[j] # "done"
    /\ pc' = [j \in Jobs |-> "done"]
    /\ result' = [j \in Jobs |-> IF pc[j] = "done" THEN result[j] ELSE "killed"]
    /\ UNCHANGED <<files, policy, attempt, history, appeared>>

Download(j) ==
    \/ Prepare(j) \/ Get(j) \/ ValidatePart(j)
    \/ Inspect(j) \/ Protect(j) \/ Hold(j) \/ Check(j) \/ Activate(j) \/ Discard(j)
    \/ Undo(j) \/ Remove(j) \/ RestoreCheck(j) \/ Link(j) \/ RenameBack(j)

Next == (\E j \in Jobs : Download(j)) \/ Appear \/ Kill

Spec == Init /\ [][Next]_vars

-----------------------------------------------------------------------------
(* Properties *)

Locations == {"prepare", "get", "validate", "inspect", "protect", "hold", "check", "activate",
              "undo", "remove", "discard", "restore", "link", "rename", "done"}

\* The target holds a whole file, a placeholder or nothing, never what the
\* tool has not finished or not written.
TypeOK ==
    /\ base \in Contents
    /\ part \in [Jobs -> [Attempts -> Jobs \cup {None, Sentinel, Partial}]]
    /\ saved \in [Jobs -> Contents] /\ expected \in [Jobs -> Contents]
    /\ policy \in [Jobs -> Policies]
    /\ pc \in [Jobs -> Locations]
    /\ attempt \in [Jobs -> Attempts]
    /\ result \in [Jobs -> {"none", "ok", "skipped", "failed", "activeButFailed", "killed"}]
    /\ \A j \in Jobs : pc[j] \in {"discard", "restore", "link", "rename"} => saved[j] # None
    /\ replaced \in BOOLEAN /\ overrun \in BOOLEAN /\ appeared \in 0..MaxForeign

\* Until undoing replaces or removes a file of others, a whole file is at the target or
\* under a rollback name, whatever fails, races or is killed in between.
CopySurvives ==
    Start = Old /\ ~replaced => base \in Whole \/ \E j \in Jobs : saved[j] \in Whole

\* Downloads that keep a backup never lose the original, until a rename replaces a
\* file that came to the target after it was looked at.
BackupKeepsOriginal ==
    Start = Old /\ ~replaced /\ ~overrun /\ (\A j \in Jobs : policy[j] = "backup") =>
        base = Old \/ \E j \in Jobs : saved[j] = Old

\* Downloads that skip existing files replace none, also not one that appears
\* after they looked: a finished download or a file of another program.
SkipReplacesNothingStep ==
    (\A j \in Jobs : policy[j] = "skip") /\ base \in Whole => base' = base

\* A download that reports success has renamed the part of that attempt to the target
\* and removed what it had moved away, unless it is the backup that was asked for.
SuccessIsTrue ==
    \A j \in Jobs : result[j] = "ok" =>
        Part(j) = None /\ (saved[j] # None => policy[j] = "backup")

\* cleanupPart: no attempt leaves its staging file beside the downloaded one.
\* The code does not keep it: see "Disagreements found" in the README.
NothingLeftBeside ==
    \A j \in Jobs : result[j] = "ok" => \A n \in Attempts : part[j][n] = None

\* "Backup before overwrite" (README.md): as above, whatever else is renamed.
\* Three downloads onto one file break it: see "Disagreements found" in the README.
BackupAlwaysKeepsOriginal ==
    Start = Old /\ ~replaced /\ (\A j \in Jobs : policy[j] = "backup") =>
        base = Old \/ \E j \in Jobs : saved[j] = Old

\* local_download_root.go: undoing replaces and removes no file of others where the
\* file system has links.
\* The code does not keep it: see "Disagreements found" in the README.
RestoreReplacesNothing == Links => ~replaced
=============================================================================
