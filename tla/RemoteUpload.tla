----------------------------- MODULE RemoteUpload -----------------------------
(***************************************************************************)
(* Uploads that replace one remote file: the attempts of execute in        *)
(* internal/transfer/manager.go and, in each, Upload of                    *)
(* internal/remote/curl_ftp.go and sftp.go, revalidateRemoteCommit,        *)
(* commitRemoteTemp and the cleanup of what they leave on the server.      *)
(*                                                                         *)
(* Every command to the server may succeed, fail, or be carried out and    *)
(* have its answer lost.  Workers whose jobs name the same destination run *)
(* concurrently: the queue does not compare destinations.                  *)
(***************************************************************************)
EXTENDS Naturals, TLAPS

CONSTANTS Jobs,         \* the uploads; a job also stands for the content it sends
          Old,          \* what the destination holds before them
          Partial,      \* the beginning of a content
          None,         \* no file
          Start,        \* the destination at first: Old or None
          MaxAttempts,  \* 1 + AutoRetryCount
          Replaces,     \* the server's rename replaces an existing file
          Lists         \* the server's listing shows the destination

ASSUME UploadAssumption ==
    /\ Old \notin Jobs /\ Partial \notin Jobs /\ None \notin Jobs
    /\ Old # Partial /\ Old # None /\ Partial # None
    /\ Start \in {Old, None}
    /\ MaxAttempts \in Nat \ {0}
    /\ Replaces \in BOOLEAN /\ Lists \in BOOLEAN

Attempts == 1..MaxAttempts
Whole    == {Old} \cup Jobs
Contents == Whole \cup {Partial, None}
Policies == {"skip", "replace", "backup"}  \* of existing destinations

VARIABLES
    base,     \* the destination
    part,     \* .GhostFTP-part-* of each attempt
    kept,     \* .GhostFTP-rollback-* or .GhostFTP-backup-* of each attempt
    policy,   \* the settings a job read when it started
    pc,       \* where the attempt is
    attempt,  \* its number
    existed,  \* what the last listing said of the destination
    err,      \* the error the attempt is about to return
    result    \* what became of the job

files == <<base, part, kept>>
jobVars == <<pc, attempt, existed, err, result>>
vars == <<files, policy, jobVars>>

Init ==
    /\ base = Start
    /\ part = [j \in Jobs |-> [n \in Attempts |-> None]]
    /\ kept = [j \in Jobs |-> [n \in Attempts |-> None]]
    /\ policy \in [Jobs -> Policies]
    /\ pc = [j \in Jobs |-> "list"]
    /\ attempt = [j \in Jobs |-> 1]
    /\ existed = [j \in Jobs |-> FALSE]
    /\ err = [j \in Jobs |-> "none"]
    /\ result = [j \in Jobs |-> "none"]

-----------------------------------------------------------------------------
(* The server's files of the running attempt *)

Part(j) == part[j][attempt[j]]
Kept(j) == kept[j][attempt[j]]
SetPart(j, c) == part' = [part EXCEPT ![j][attempt[j]] = c]
SetKept(j, c) == kept' = [kept EXCEPT ![j][attempt[j]] = c]

\* Answers to a command: "lost" stands for one that was carried out although
\* the client is told that it failed.
Answers == {"ok", "error", "lost"}

\* A rename from a file with content c can be carried out over the destination.
MayReplaceBase(c) == c # None /\ (base = None \/ Replaces)

\* What a listing says of the destination.
Listed == base # None /\ Lists

-----------------------------------------------------------------------------
(* The end of an attempt and of a job *)

Errors == {"retryable", "fatal"}

Goto(j, l) == pc' = [pc EXCEPT ![j] = l]

Finish(j, r) ==
    /\ Goto(j, "done")
    /\ result' = [result EXCEPT ![j] = r]
    /\ err' = [err EXCEPT ![j] = "none"]
    /\ UNCHANGED <<attempt, existed>>

Retry(j) ==
    /\ Goto(j, "list")
    /\ attempt' = [attempt EXCEPT ![j] = @ + 1]
    /\ err' = [err EXCEPT ![j] = "none"]
    /\ UNCHANGED <<existed, result>>

\* execute looks at the error e of an attempt: IsRetryable.
AttemptEnds(j, e) ==
    \/ e = "skipped" /\ Finish(j, "skipped")
    \/ e = "retryable" /\ attempt[j] < MaxAttempts /\ Retry(j)
    \/ (e = "fatal" \/ attempt[j] = MaxAttempts) /\ e \in Errors /\ Finish(j, "failed")

\* Go on to l with error e to be returned.
GoWithError(j, l, e) ==
    /\ Goto(j, l)
    /\ err' = [err EXCEPT ![j] = e]
    /\ UNCHANGED <<attempt, existed, result>>

GoOn(j, l) == Goto(j, l) /\ UNCHANGED <<attempt, existed, err, result>>

-----------------------------------------------------------------------------
(* The steps of Upload *)

\* The destination is listed before the file is sent.
ListFirst(j) ==
    /\ pc[j] = "list"
    /\ \/ \E e \in Errors : AttemptEnds(j, e)
       \/ Listed /\ policy[j] = "skip" /\ AttemptEnds(j, "skipped")
       \/ ~(Listed /\ policy[j] = "skip") /\ GoOn(j, "put")
    /\ UNCHANGED <<files, policy>>

\* Mutant: an interrupted transfer goes on to the commit.
PutUnchecked(j) ==
    /\ pc[j] = "put"
    /\ \E c \in {Partial, j} : SetPart(j, c)
    /\ GoOn(j, "relist")
    /\ UNCHANGED <<base, kept, policy>>

\* The file is sent under a name of its own and the source verified after it.
Put(j) ==
    /\ pc[j] = "put"
    /\ \/ SetPart(j, j) /\ GoOn(j, "relist")
       \/ \E c \in {None, Partial, j}, e \in Errors : SetPart(j, c) /\ GoWithError(j, "clean", e)
    /\ UNCHANGED <<base, kept, policy>>

\* revalidateRemoteCommit lists the destination again.
Revalidate(j) ==
    /\ pc[j] = "relist"
    /\ \/ \E e \in Errors : GoWithError(j, "clean", e)
       \/ Listed /\ policy[j] = "skip" /\ GoWithError(j, "clean", "skipped")
       \/ /\ ~(Listed /\ policy[j] = "skip")
          /\ existed' = [existed EXCEPT ![j] = Listed]
          /\ Goto(j, IF Listed THEN "protect" ELSE "activate")
          /\ UNCHANGED <<attempt, err, result>>
    /\ UNCHANGED <<files, policy>>

\* commitRemoteTemp moves the destination out of the way.
Protect(j, a) ==
    /\ pc[j] = "protect"
    /\ IF a = "error" THEN UNCHANGED files
       ELSE base # None /\ SetKept(j, base) /\ base' = None /\ UNCHANGED part
    /\ IF a = "ok" THEN GoOn(j, "activate")
       ELSE \E e \in Errors : GoWithError(j, "clean", e)
    /\ UNCHANGED policy

\* Mutant: a failed activation removes the rollback copy as well.
ActivateDroppingKept(j, a) ==
    /\ pc[j] = "activate"
    /\ IF a = "error" THEN SetKept(j, None) /\ UNCHANGED <<base, part>>
       ELSE MayReplaceBase(Part(j)) /\ base' = Part(j) /\ SetPart(j, None) /\ UNCHANGED kept
    /\ IF a # "ok" THEN \E e \in Errors : GoWithError(j, "clean", e)
       ELSE Finish(j, "ok")
    /\ UNCHANGED policy

\* Mutant: the backup is removed like a rollback copy.
ActivateWithoutBackup(j, a) ==
    /\ pc[j] = "activate"
    /\ IF a = "error" THEN UNCHANGED files
       ELSE MayReplaceBase(Part(j)) /\ base' = Part(j) /\ SetPart(j, None) /\ UNCHANGED kept
    /\ IF a # "ok" THEN \E e \in Errors : GoWithError(j, IF existed[j] THEN "restore" ELSE "clean", e)
       ELSE IF existed[j] THEN GoOn(j, "unprotect")
       ELSE Finish(j, "ok")
    /\ UNCHANGED policy

\* The new file takes the name of the destination.
Activate(j, a) ==
    /\ pc[j] = "activate"
    /\ IF a = "error" THEN UNCHANGED files
       ELSE MayReplaceBase(Part(j)) /\ base' = Part(j) /\ SetPart(j, None) /\ UNCHANGED kept
    /\ IF a # "ok" THEN \E e \in Errors : GoWithError(j, IF existed[j] THEN "restore" ELSE "clean", e)
       ELSE IF existed[j] /\ policy[j] # "backup" THEN GoOn(j, "unprotect")
       ELSE Finish(j, "ok")
    /\ UNCHANGED policy

\* After a failed activation the original gets its name back.  If that fails
\* its error replaces the activation's.
Restore(j, a) ==
    /\ pc[j] = "restore"
    /\ IF a = "error" THEN UNCHANGED files
       ELSE MayReplaceBase(Kept(j)) /\ base' = Kept(j) /\ SetKept(j, None) /\ UNCHANGED part
    /\ IF a = "ok" THEN GoOn(j, "clean")
       ELSE \E e \in Errors : GoWithError(j, "clean", e)
    /\ UNCHANGED policy

\* Mutant: the error of the cleanup is dropped.
CleanUnchecked(j, a) ==
    /\ pc[j] = "clean"
    /\ IF a = "error" THEN UNCHANGED part ELSE Part(j) # None /\ SetPart(j, None)
    /\ AttemptEnds(j, err[j])
    /\ UNCHANGED <<base, kept, policy>>

\* cleanupFailure deletes the part.  Only a confirmed deletion lets the
\* attempt return its own error.
Clean(j, a) ==
    /\ pc[j] = "clean"
    /\ IF a = "error" THEN UNCHANGED part ELSE Part(j) # None /\ SetPart(j, None)
    /\ IF a = "ok" THEN AttemptEnds(j, err[j]) ELSE Finish(j, "uncertain")
    /\ UNCHANGED <<base, kept, policy>>

\* The tool may report that there is no such file: nothing is left to delete.
CleanFindsNothing(j) ==
    /\ pc[j] = "clean" /\ Part(j) = None
    /\ AttemptEnds(j, err[j])
    /\ UNCHANGED <<files, policy>>

\* committedCleanupFailure deletes what the new file replaced.
Unprotect(j, a) ==
    /\ pc[j] = "unprotect"
    /\ IF a = "error" THEN UNCHANGED kept ELSE Kept(j) # None /\ SetKept(j, None)
    /\ Finish(j, IF a = "ok" THEN "ok" ELSE "uncertain")
    /\ UNCHANGED <<base, part, policy>>

Step(j) ==
    \/ ListFirst(j) \/ Put(j) \/ Revalidate(j) \/ CleanFindsNothing(j)
    \/ \E a \in Answers : Protect(j, a) \/ Activate(j, a) \/ Restore(j, a) \/ Clean(j, a)
                            \/ Unprotect(j, a)

Next == \E j \in Jobs : Step(j)

Spec == Init /\ [][Next]_vars

-----------------------------------------------------------------------------
(* Properties *)

Locations == {"list", "put", "relist", "protect", "activate", "restore", "clean",
              "unprotect", "done"}

\* What each job has on the server and in hand; a finished job has a result,
\* and a job that undoes its work has an error to return.
TypeOK ==
    /\ base \in Contents
    /\ part \in [Jobs -> [Attempts -> Contents]]
    /\ kept \in [Jobs -> [Attempts -> Contents]]
    /\ policy \in [Jobs -> Policies]
    /\ pc \in [Jobs -> Locations]
    /\ attempt \in [Jobs -> Attempts]
    /\ existed \in [Jobs -> BOOLEAN]
    /\ err \in [Jobs -> Errors \cup {"none", "skipped"}]
    /\ result \in [Jobs -> {"none", "ok", "skipped", "failed", "uncertain"}]
    /\ \A j \in Jobs : /\ pc[j] = "done" <=> result[j] # "none"
                       /\ pc[j] \in {"restore", "clean"} => err[j] # "none"

\* The destination never holds a part of a file.
DestinationWhole == base # Partial

\* However uploads to one destination interleave and whatever fails, a whole
\* file stays on the server: at the destination or under a rollback name.
CopySurvives ==
    Start = Old =>
        \/ base \in Whole
        \/ \E j \in Jobs, n \in Attempts : kept[j][n] \in Whole

\* A part stays on the server only while its attempt runs, or when the job
\* ends with the warning that the server may not be clean.
PartsAccounted ==
    \A j \in Jobs, n \in Attempts :
        part[j][n] # None => n = attempt[j] /\ result[j] \in {"none", "uncertain"}

\* Uploads that skip existing files leave the destination as it is.
SkipKeepsOriginal ==
    Start = Old /\ (\A j \in Jobs : policy[j] = "skip") => base = Old

\* Uploads that keep a backup never lose the original.
BackupKeepsOriginal ==
    Start = Old /\ (\A j \in Jobs : policy[j] = "backup") =>
        base = Old \/ \E j \in Jobs, n \in Attempts : kept[j][n] = Old

\* An upload that reports success has just put its content at the
\* destination, or has done so before it removed what it replaced.
SuccessIsTrueStep ==
    \A j \in Jobs : result[j] = "none" /\ result'[j] = "ok" => base' = j
SuccessIsTrue == [][SuccessIsTrueStep]_vars

\* remote_cleanup_hardening.go: an attempt is repeated only when the one before
\* it has left neither a part nor a rollback copy on the server.
RetryOnlyWhenClean ==
    [][\A j \in Jobs : attempt'[j] # attempt[j] =>
          /\ part[j][attempt[j]]' = None
          /\ policy[j] = "replace" => kept'[j][attempt[j]] = None]_vars

(***************************************************************************)
(* Proofs, for any number of uploads and attempts, both kinds of servers   *)
(* and whatever their listings hide.                                       *)
(*                                                                         *)
(* A whole file survives because a rollback copy is removed only by a job  *)
(* at "unprotect", and every such job has put a whole file at the          *)
(* destination; what the other jobs do to that file leaves a copy that is  *)
(* not about to be removed (Lasting).                                      *)
(***************************************************************************)

\* A part exists only in the attempt that runs, whole while it is committed.
PartInv ==
    /\ \A j \in Jobs, n \in Attempts : part[j][n] # None => n = attempt[j]
    /\ \A j \in Jobs :
         /\ pc[j] \in {"list", "put", "unprotect"} => Part(j) = None
         /\ pc[j] \in {"relist", "protect", "activate"} => Part(j) = j
         /\ pc[j] = "done" => Part(j) = None \/ result[j] = "uncertain"

\* What the server keeps under the destination's name and as rollback copies.
KeptInv ==
    /\ base \in Whole \cup {None}
    /\ \A j \in Jobs, n \in Attempts : kept[j][n] \in Whole \cup {None}

\* A copy that is not about to be removed.
Lasting(j, n) == kept[j][n] \in Whole /\ ~(pc[j] = "unprotect" /\ n = attempt[j])

CopyInv == Start = Old => base \in Whole \/ \E j \in Jobs, n \in Attempts : Lasting(j, n)

IInv == TypeOK /\ PartInv /\ KeptInv /\ CopyInv

(***************************************************************************)
(* Updates                                                                 *)
(***************************************************************************)

LEMMA NestedUpdate ==
    ASSUME NEW f \in [Jobs -> [Attempts -> Contents]], NEW g,
           NEW j \in Jobs, NEW n \in Attempts, NEW c \in Contents,
           g = [f EXCEPT ![j][n] = c]
    PROVE  /\ g \in [Jobs -> [Attempts -> Contents]]
           /\ g[j][n] = c
           /\ \A i \in Jobs, m \in Attempts : i # j \/ m # n => g[i][m] = f[i][m]
<1>1. g = [f EXCEPT ![j] = [f[j] EXCEPT ![n] = c]]
  OBVIOUS
<1>2. [f[j] EXCEPT ![n] = c] \in [Attempts -> Contents]
  OBVIOUS
<1> QED
  BY <1>1, <1>2

\* Contents are files and parts of files.
LEMMA ContentFacts ==
    /\ None \notin Whole /\ Partial \notin Whole /\ Partial # None
    /\ Whole \subseteq Contents /\ None \in Contents /\ Partial \in Contents
    /\ \A j \in Jobs : j \in Whole /\ j # None
    /\ 1 \in Attempts /\ Attempts \subseteq Nat
  BY UploadAssumption DEF Whole, Contents, Attempts

\* How the bookkeeping of one job moves.
Moved(j) ==
    /\ pc' \in [Jobs -> Locations] /\ \A i \in Jobs : i # j => pc'[i] = pc[i]
    /\ \A i \in Jobs : i # j => result'[i] = result[i] /\ err'[i] = err[i]
    /\ attempt' \in [Jobs -> Attempts] /\ \A i \in Jobs : i # j => attempt'[i] = attempt[i]
    /\ existed' \in [Jobs -> BOOLEAN]
    /\ err' \in [Jobs -> Errors \cup {"none", "skipped"}]
    /\ result' \in [Jobs -> {"none", "ok", "skipped", "failed", "uncertain"}]
    /\ pc'[j] = "done" <=> result'[j] # "none"
    /\ pc'[j] \in {"restore", "clean"} => err'[j] # "none"

LEMMA GoOnMoves ==
    ASSUME TypeOK, NEW j \in Jobs, NEW l \in Locations \ {"done"}, pc[j] # "done",
           l \in {"restore", "clean"} => err[j] # "none", GoOn(j, l)
    PROVE  Moved(j) /\ pc'[j] = l /\ attempt'[j] = attempt[j]
  BY DEF TypeOK, GoOn, Goto, Moved

LEMMA GoWithErrorMoves ==
    ASSUME TypeOK, NEW j \in Jobs, NEW l \in Locations \ {"done"}, pc[j] # "done",
           NEW e \in Errors \cup {"skipped"}, GoWithError(j, l, e)
    PROVE  Moved(j) /\ pc'[j] = l /\ attempt'[j] = attempt[j]
  BY DEF TypeOK, GoWithError, Goto, Moved, Errors

LEMMA FinishMoves ==
    ASSUME TypeOK, NEW j \in Jobs, NEW r \in {"ok", "skipped", "failed", "uncertain"}, Finish(j, r)
    PROVE  Moved(j) /\ pc'[j] = "done" /\ attempt'[j] = attempt[j] /\ result'[j] = r
  BY DEF TypeOK, Finish, Goto, Moved, Locations, Errors

LEMMA AttemptEndsMoves ==
    ASSUME TypeOK, NEW j \in Jobs, NEW e, pc[j] # "done", AttemptEnds(j, e)
    PROVE  /\ Moved(j)
           /\ \/ pc'[j] = "done" /\ attempt'[j] = attempt[j]
              \/ pc'[j] = "list" /\ attempt'[j] = attempt[j] + 1
<1>1. CASE Finish(j, "skipped") \/ Finish(j, "failed")
  BY <1>1, FinishMoves
<1>2. CASE attempt[j] < MaxAttempts /\ Retry(j)
  <2>1. attempt[j] + 1 \in Attempts
    BY <1>2, UploadAssumption DEF TypeOK, Attempts
  <2>2. attempt' = [attempt EXCEPT ![j] = attempt[j] + 1]
    BY <1>2 DEF Retry
  <2>3. /\ pc' \in [Jobs -> Locations] /\ pc'[j] = "list"
        /\ \A i \in Jobs : i # j => pc'[i] = pc[i]
    BY <1>2 DEF Retry, Goto, TypeOK, Locations
  <2>4. /\ err' \in [Jobs -> Errors \cup {"none", "skipped"}]
        /\ \A i \in Jobs : i # j => err'[i] = err[i]
        /\ UNCHANGED <<existed, result>>
    BY <1>2 DEF Retry, TypeOK
  <2>5. result[j] = "none"
    BY DEF TypeOK
  <2> QED
    BY <2>1, <2>2, <2>3, <2>4, <2>5 DEF TypeOK, Moved
<1> QED
  BY <1>1, <1>2 DEF AttemptEnds

(***************************************************************************)
(* Every step touches one part and one copy                                *)
(***************************************************************************)

\* Only the part and the copy of j's attempt may differ.
Touches(j) ==
    /\ policy' = policy
    /\ part' \in [Jobs -> [Attempts -> Contents]]
    /\ kept' \in [Jobs -> [Attempts -> Contents]]
    /\ \A i \in Jobs, m \in Attempts : i # j \/ m # attempt[j] =>
           part'[i][m] = part[i][m] /\ kept'[i][m] = kept[i][m]

\* The part j has after a step that stays in its attempt.
PartAfter(j) ==
    /\ attempt'[j] = attempt[j]
    /\ pc'[j] \in {"list", "put", "unprotect"} => part'[j][attempt[j]] = None
    /\ pc'[j] \in {"relist", "protect", "activate"} => part'[j][attempt[j]] = j
    /\ pc'[j] = "done" => part'[j][attempt[j]] = None \/ result'[j] = "uncertain"

\* A step that begins the next attempt.
NextAttempt(j) ==
    /\ attempt'[j] = attempt[j] + 1 /\ pc'[j] = "list"
    /\ part'[j][attempt[j]] = None

LEMMA PartsPreserved ==
    ASSUME IInv, NEW j \in Jobs, Moved(j), Touches(j), PartAfter(j) \/ NextAttempt(j)
    PROVE  PartInv'
<1> USE DEF IInv, TypeOK, PartInv, Moved, Touches, Part
<1>1. ASSUME NEW i \in Jobs, i # j
      PROVE  /\ \A n \in Attempts : part'[i][n] # None => n = attempt'[i]
             /\ pc'[i] \in {"list", "put", "unprotect"} => part'[i][attempt'[i]] = None
             /\ pc'[i] \in {"relist", "protect", "activate"} => part'[i][attempt'[i]] = i
             /\ pc'[i] = "done" => part'[i][attempt'[i]] = None \/ result'[i] = "uncertain"
  BY <1>1
<1>2. CASE PartAfter(j)
  <2>1. \A n \in Attempts : part'[j][n] # None => n = attempt'[j]
    BY <1>2 DEF PartAfter
  <2> QED
    BY <1>1, <1>2, <2>1 DEF PartAfter
<1>3. CASE NextAttempt(j)
  <2>1. attempt'[j] \in Attempts /\ attempt[j] \in Attempts
    OBVIOUS
  <2>2. attempt'[j] # attempt[j]
    BY <1>3, <2>1 DEF NextAttempt, Attempts
  <2>3. ASSUME NEW n \in Attempts PROVE part'[j][n] = None
    <3>1. CASE n = attempt[j]
      BY <1>3, <3>1 DEF NextAttempt
    <3>2. CASE n # attempt[j]
      BY <3>2
    <3> QED
      BY <3>1, <3>2
  <2>4. part'[j][attempt'[j]] = None /\ pc'[j] = "list"
    BY <1>3, <2>1, <2>3 DEF NextAttempt
  <2>5. ASSUME NEW i \in Jobs, NEW n \in Attempts, part'[i][n] # None PROVE n = attempt'[i]
    BY <1>1, <2>3, <2>5
  <2>6. ASSUME NEW i \in Jobs
        PROVE  /\ pc'[i] \in {"list", "put", "unprotect"} => part'[i][attempt'[i]] = None
               /\ pc'[i] \in {"relist", "protect", "activate"} => part'[i][attempt'[i]] = i
               /\ pc'[i] = "done" => part'[i][attempt'[i]] = None \/ result'[i] = "uncertain"
    BY <1>1, <2>4
  <2> QED
    BY <2>5, <2>6
<1> QED
  BY <1>2, <1>3

\* What a step may do to the copies: put a whole file at the destination,
\* keep one, or leave every copy that is not about to be removed.
CopyAfter(j) ==
    \/ base' \in Whole
    \/ kept'[j][attempt[j]] \in Whole /\ pc'[j] # "unprotect"
    \/ /\ base' = base /\ pc'[j] # "unprotect"
       /\ kept'[j][attempt[j]] = kept[j][attempt[j]] \/ pc[j] = "unprotect"

LEMMA CopiesPreserved ==
    ASSUME IInv, NEW j \in Jobs, Moved(j), Touches(j), CopyAfter(j),
           base' \in Whole \cup {None}, kept'[j][attempt[j]] \in Whole \cup {None}
    PROVE  KeptInv' /\ CopyInv'
<1> USE DEF IInv, TypeOK, Moved, Touches
<1>1. KeptInv'
  <2>1. ASSUME NEW i \in Jobs, NEW n \in Attempts PROVE kept'[i][n] \in Whole \cup {None}
    <3>1. CASE i = j /\ n = attempt[j]
      BY <3>1
    <3>2. CASE i # j \/ n # attempt[j]
      BY <3>2 DEF KeptInv
    <3> QED
      BY <3>1, <3>2
  <2> QED
    BY <2>1 DEF KeptInv, Whole
<1>2. ASSUME Start = Old
      PROVE  base' \in Whole \/ \E i \in Jobs, n \in Attempts :
                 kept'[i][n] \in Whole /\ ~(pc'[i] = "unprotect" /\ n = attempt'[i])
  <2>1. CASE base' \in Whole
    BY <2>1
  <2>2. CASE kept'[j][attempt[j]] \in Whole /\ pc'[j] # "unprotect"
    BY <2>2
  <2>3. CASE /\ base' = base /\ pc'[j] # "unprotect"
             /\ kept'[j][attempt[j]] = kept[j][attempt[j]] \/ pc[j] = "unprotect"
    <3>1. CASE base \in Whole
      BY <2>3, <3>1
    <3>2. ASSUME NEW i \in Jobs, NEW n \in Attempts, Lasting(i, n)
          PROVE  kept'[i][n] \in Whole /\ ~(pc'[i] = "unprotect" /\ n = attempt'[i])
      <4>1. CASE i # j
        BY <3>2, <4>1 DEF Lasting
      <4>2. CASE i = j /\ n # attempt[j]
        BY <2>3, <3>2, <4>2 DEF Lasting
      <4>3. CASE i = j /\ n = attempt[j]
        BY <2>3, <3>2, <4>3 DEF Lasting
      <4> QED
        BY <4>1, <4>2, <4>3
    <3> QED
      BY <1>2, <3>1, <3>2 DEF CopyInv
  <2> QED
    BY <2>1, <2>2, <2>3 DEF CopyAfter
<1> QED
  BY <1>1, <1>2 DEF CopyInv, Lasting

LEMMA TypesPreserved ==
    ASSUME IInv, NEW j \in Jobs, Moved(j), Touches(j), base' \in Whole \cup {None}
    PROVE  TypeOK'
<1>1. base' \in Contents
  BY ContentFacts
<1>2. ASSUME NEW i \in Jobs
      PROVE  /\ pc'[i] = "done" <=> result'[i] # "none"
             /\ pc'[i] \in {"restore", "clean"} => err'[i] # "none"
  <2>1. CASE i = j
    BY <2>1 DEF Moved
  <2>2. CASE i # j
    <3>1. pc'[i] = pc[i] /\ result'[i] = result[i] /\ err'[i] = err[i]
      BY <2>2 DEF Moved
    <3> QED
      BY <3>1 DEF IInv, TypeOK
  <2> QED
    BY <2>1, <2>2
<1> QED
  BY <1>1, <1>2 DEF IInv, TypeOK, Moved, Touches

LEMMA Preserved ==
    ASSUME IInv, NEW j \in Jobs, Moved(j), Touches(j), CopyAfter(j),
           PartAfter(j) \/ NextAttempt(j),
           base' \in Whole \cup {None}, kept'[j][attempt[j]] \in Whole \cup {None}
    PROVE  IInv'
  BY PartsPreserved, CopiesPreserved, TypesPreserved DEF IInv

(***************************************************************************)
(* The steps                                                               *)
(***************************************************************************)

\* Facts about the files before a step of j.
LEMMA Here ==
    ASSUME IInv, NEW j \in Jobs
    PROVE  /\ attempt[j] \in Attempts /\ pc[j] \in Locations
           /\ part[j][attempt[j]] \in Contents /\ kept[j][attempt[j]] \in Whole \cup {None}
           /\ base \in Whole \cup {None}
           /\ part \in [Jobs -> [Attempts -> Contents]] /\ kept \in [Jobs -> [Attempts -> Contents]]
  BY DEF IInv, TypeOK, KeptInv

LEMMA TouchesNothing ==
    ASSUME IInv, NEW j \in Jobs, UNCHANGED <<part, kept, policy>>
    PROVE  /\ Touches(j)
           /\ part'[j][attempt[j]] = part[j][attempt[j]]
           /\ kept'[j][attempt[j]] = kept[j][attempt[j]]
  BY DEF Touches, IInv, TypeOK

LEMMA TouchesPart ==
    ASSUME IInv, NEW j \in Jobs, NEW c \in Contents, SetPart(j, c), UNCHANGED <<kept, policy>>
    PROVE  /\ Touches(j)
           /\ part'[j][attempt[j]] = c
           /\ kept'[j][attempt[j]] = kept[j][attempt[j]]
<1>1. attempt[j] \in Attempts
  BY DEF IInv, TypeOK
<1> QED
  BY <1>1, NestedUpdate DEF Touches, SetPart, IInv, TypeOK

LEMMA TouchesKept ==
    ASSUME IInv, NEW j \in Jobs, NEW c \in Contents, SetKept(j, c), UNCHANGED <<part, policy>>
    PROVE  /\ Touches(j)
           /\ kept'[j][attempt[j]] = c
           /\ part'[j][attempt[j]] = part[j][attempt[j]]
<1>1. attempt[j] \in Attempts
  BY DEF IInv, TypeOK
<1> QED
  BY <1>1, NestedUpdate DEF Touches, SetKept, IInv, TypeOK

LEMMA InitIInv == Init => IInv
<1> SUFFICES ASSUME Init PROVE IInv
  OBVIOUS
<1> USE UploadAssumption, ContentFacts DEF Init
<1>1. TypeOK
  BY DEF TypeOK, Locations, Whole, Contents
<1>2. PartInv
  BY DEF PartInv, Part
<1>3. KeptInv /\ CopyInv
  BY DEF KeptInv, CopyInv, Whole
<1> QED
  BY <1>1, <1>2, <1>3 DEF IInv

LEMMA ListFirstPreserves ==
    ASSUME IInv, NEW j \in Jobs, ListFirst(j) PROVE IInv'
<1>1. TypeOK /\ pc[j] = "list" /\ part[j][attempt[j]] = None
  BY DEF ListFirst, IInv, PartInv, Part
<1>2. Touches(j) /\ part'[j][attempt[j]] = None /\ kept'[j][attempt[j]] = kept[j][attempt[j]]
  BY <1>1, TouchesNothing DEF ListFirst, files
<1>3. base' = base
  BY DEF ListFirst, files
<1>4. CASE \E e : AttemptEnds(j, e)
  <2>1. Moved(j) /\ (\/ pc'[j] = "done" /\ attempt'[j] = attempt[j]
                     \/ pc'[j] = "list" /\ attempt'[j] = attempt[j] + 1)
    <3>1. PICK e : AttemptEnds(j, e)
      BY <1>4
    <3> QED
      BY <1>1, <3>1, AttemptEndsMoves
  <2>2. PartAfter(j) \/ NextAttempt(j)
    BY <1>2, <2>1 DEF PartAfter, NextAttempt
  <2>3. CopyAfter(j)
    BY <1>2, <1>3, <2>1 DEF CopyAfter
  <2> QED
    BY <1>2, <1>3, <2>1, <2>2, <2>3, Here, Preserved
<1>5. CASE GoOn(j, "put")
  <2>1. Moved(j) /\ pc'[j] = "put" /\ attempt'[j] = attempt[j]
    BY <1>1, <1>5, GoOnMoves DEF Locations
  <2> QED
    BY <1>2, <1>3, <2>1, Here, Preserved DEF PartAfter, CopyAfter
<1> QED
  BY <1>4, <1>5 DEF ListFirst

LEMMA PutPreserves ==
    ASSUME IInv, NEW j \in Jobs, Put(j) PROVE IInv'
<1>1. TypeOK /\ pc[j] = "put" /\ base' = base /\ UNCHANGED <<kept, policy>>
  BY DEF Put, IInv
<1>2. CASE SetPart(j, j) /\ GoOn(j, "relist")
  <2>1. Moved(j) /\ pc'[j] = "relist" /\ attempt'[j] = attempt[j]
    BY <1>1, <1>2, GoOnMoves DEF Locations
  <2>2. Touches(j) /\ part'[j][attempt[j]] = j /\ kept'[j][attempt[j]] = kept[j][attempt[j]]
    BY <1>1, <1>2, TouchesPart, ContentFacts
  <2> QED
    BY <1>1, <2>1, <2>2, Here, Preserved DEF PartAfter, CopyAfter
<1>3. ASSUME NEW c \in {None, Partial, j}, NEW e \in Errors, SetPart(j, c), GoWithError(j, "clean", e)
      PROVE  IInv'
  <2>1. Moved(j) /\ pc'[j] = "clean" /\ attempt'[j] = attempt[j]
    BY <1>1, <1>3, GoWithErrorMoves DEF Locations
  <2>2. c \in Contents
    BY ContentFacts
  <2>3. Touches(j) /\ kept'[j][attempt[j]] = kept[j][attempt[j]]
    BY <1>1, <1>3, <2>2, TouchesPart
  <2> QED
    BY <1>1, <2>1, <2>3, Here, Preserved DEF PartAfter, CopyAfter
<1> QED
  BY <1>2, <1>3 DEF Put

LEMMA RevalidatePreserves ==
    ASSUME IInv, NEW j \in Jobs, Revalidate(j) PROVE IInv'
<1>1. TypeOK /\ pc[j] = "relist" /\ base' = base /\ part[j][attempt[j]] = j
  BY DEF Revalidate, IInv, PartInv, Part, files
<1>2. /\ Touches(j) /\ part'[j][attempt[j]] = j
      /\ kept'[j][attempt[j]] = kept[j][attempt[j]]
  BY <1>1, TouchesNothing DEF Revalidate, files
<1>3. CASE \E e \in Errors \cup {"skipped"} : GoWithError(j, "clean", e)
  <2>1. Moved(j) /\ pc'[j] = "clean" /\ attempt'[j] = attempt[j]
    BY <1>1, <1>3, GoWithErrorMoves DEF Locations
  <2> QED
    BY <1>1, <1>2, <2>1, Here, Preserved DEF PartAfter, CopyAfter
<1>4. CASE /\ existed' = [existed EXCEPT ![j] = Listed]
           /\ Goto(j, IF Listed THEN "protect" ELSE "activate")
           /\ UNCHANGED <<attempt, err, result>>
  <2>1. Listed \in BOOLEAN
    BY UploadAssumption DEF Listed
  <2>2. pc'[j] \in {"protect", "activate"} /\ attempt'[j] = attempt[j]
    BY <1>1, <1>4 DEF Goto, TypeOK
  <2>3. Moved(j)
    BY <1>1, <1>4, <2>1 DEF Goto, TypeOK, Moved, Locations
  <2> QED
    BY <1>1, <1>2, <2>2, <2>3, Here, Preserved DEF PartAfter, CopyAfter
<1> QED
  BY <1>3, <1>4 DEF Revalidate

LEMMA ProtectPreserves ==
    ASSUME IInv, NEW j \in Jobs, NEW a, Protect(j, a) PROVE IInv'
<1>1. TypeOK /\ pc[j] = "protect" /\ part[j][attempt[j]] = j /\ policy' = policy
  BY DEF Protect, IInv, PartInv, Part
<1>2. Moved(j) /\ pc'[j] \in {"activate", "clean"} /\ attempt'[j] = attempt[j]
  <2>1. CASE GoOn(j, "activate")
    BY <1>1, <2>1, GoOnMoves DEF Locations
  <2>2. CASE \E e \in Errors : GoWithError(j, "clean", e)
    BY <1>1, <2>2, GoWithErrorMoves DEF Locations
  <2> QED
    BY <2>1, <2>2 DEF Protect
<1>3. CASE UNCHANGED files
  <2>1. /\ Touches(j) /\ part'[j][attempt[j]] = j /\ base' = base
        /\ kept'[j][attempt[j]] = kept[j][attempt[j]]
    BY <1>1, <1>3, TouchesNothing DEF files
  <2> QED
    BY <1>2, <2>1, Here, Preserved DEF PartAfter, CopyAfter
<1>4. CASE base # None /\ SetKept(j, base) /\ base' = None /\ UNCHANGED part
  <2>1. base \in Whole /\ base \in Contents
    BY <1>4, Here, ContentFacts
  <2>2. Touches(j) /\ part'[j][attempt[j]] = j /\ kept'[j][attempt[j]] = base
    BY <1>1, <1>4, <2>1, TouchesKept
  <2>3. PartAfter(j) /\ CopyAfter(j)
    BY <1>2, <2>1, <2>2 DEF PartAfter, CopyAfter
  <2> QED
    BY <1>2, <1>4, <2>1, <2>2, <2>3, Preserved
<1> QED
  BY <1>3, <1>4 DEF Protect

LEMMA ActivatePreserves ==
    ASSUME IInv, NEW j \in Jobs, NEW a, Activate(j, a) PROVE IInv'
<1>1. TypeOK /\ pc[j] = "activate" /\ part[j][attempt[j]] = j /\ policy' = policy
  BY DEF Activate, IInv, PartInv, Part
<1>2. CASE a = "error"
  <2>1. /\ Touches(j) /\ part'[j][attempt[j]] = j /\ base' = base
        /\ kept'[j][attempt[j]] = kept[j][attempt[j]]
    BY <1>1, <1>2, TouchesNothing DEF Activate, files
  <2>2. \E l \in {"restore", "clean"}, e \in Errors : GoWithError(j, l, e)
    BY <1>2 DEF Activate
  <2>3. Moved(j) /\ pc'[j] \in {"restore", "clean"} /\ attempt'[j] = attempt[j]
    BY <1>1, <2>2, GoWithErrorMoves DEF Locations
  <2> QED
    BY <2>1, <2>3, Here, Preserved DEF PartAfter, CopyAfter
<1>3. CASE a # "error"
  <2>1. base' = j /\ SetPart(j, None) /\ UNCHANGED kept
    BY <1>1, <1>3 DEF Activate, Part
  <2>2. /\ Touches(j) /\ part'[j][attempt[j]] = None
        /\ kept'[j][attempt[j]] = kept[j][attempt[j]]
    BY <1>1, <2>1, TouchesPart, ContentFacts
  <2>3. /\ Moved(j) /\ pc'[j] \in {"restore", "clean", "unprotect", "done"}
        /\ attempt'[j] = attempt[j]
    <3>1. CASE \E l \in {"restore", "clean"}, e \in Errors : GoWithError(j, l, e)
      BY <1>1, <3>1, GoWithErrorMoves DEF Locations
    <3>2. CASE GoOn(j, "unprotect")
      BY <1>1, <3>2, GoOnMoves DEF Locations
    <3>3. CASE Finish(j, "ok")
      BY <1>1, <3>3, FinishMoves
    <3> QED
      BY <1>3, <3>1, <3>2, <3>3 DEF Activate
  <2>4. base' \in Whole
    BY <2>1, ContentFacts
  <2>5. PartAfter(j) /\ CopyAfter(j)
    BY <2>2, <2>3, <2>4 DEF PartAfter, CopyAfter
  <2> QED
    BY <2>2, <2>3, <2>4, <2>5, Here, Preserved
<1> QED
  BY <1>2, <1>3

LEMMA RestorePreserves ==
    ASSUME IInv, NEW j \in Jobs, NEW a, Restore(j, a) PROVE IInv'
<1>1. TypeOK /\ pc[j] = "restore" /\ policy' = policy
  BY DEF Restore, IInv
<1>2. Moved(j) /\ pc'[j] = "clean" /\ attempt'[j] = attempt[j]
  <2>1. CASE GoOn(j, "clean")
    <3>1. err[j] # "none"
      BY <1>1 DEF TypeOK
    <3> QED
      BY <1>1, <2>1, <3>1, GoOnMoves DEF Locations
  <2>2. CASE \E e \in Errors : GoWithError(j, "clean", e)
    BY <1>1, <2>2, GoWithErrorMoves DEF Locations
  <2> QED
    BY <2>1, <2>2 DEF Restore
<1>3. CASE UNCHANGED files
  <2>1. /\ Touches(j) /\ base' = base
        /\ kept'[j][attempt[j]] = kept[j][attempt[j]]
    BY <1>1, <1>3, TouchesNothing DEF files
  <2> QED
    BY <1>2, <2>1, Here, Preserved DEF PartAfter, CopyAfter
<1>4. CASE MayReplaceBase(Kept(j)) /\ base' = Kept(j) /\ SetKept(j, None) /\ UNCHANGED part
  <2>1. base' \in Whole
    BY <1>4, Here DEF MayReplaceBase, Kept
  <2>2. Touches(j) /\ kept'[j][attempt[j]] = None
    BY <1>1, <1>4, TouchesKept, ContentFacts
  <2>3. PartAfter(j) /\ CopyAfter(j)
    BY <1>2, <2>1 DEF PartAfter, CopyAfter
  <2> QED
    BY <1>2, <2>1, <2>2, <2>3, Preserved
<1> QED
  BY <1>3, <1>4 DEF Restore

LEMMA CleanPreserves ==
    ASSUME IInv, NEW j \in Jobs, pc[j] = "clean", UNCHANGED <<base, kept, policy>>,
           UNCHANGED part \/ (SetPart(j, None) /\ part[j][attempt[j]] # None),
           \/ Finish(j, "uncertain")
           \/ (\E e : AttemptEnds(j, e)) /\ part'[j][attempt[j]] = None
    PROVE  IInv'
<1>1. Touches(j) /\ kept'[j][attempt[j]] = kept[j][attempt[j]]
  BY TouchesNothing, TouchesPart, ContentFacts
<1>2. TypeOK
  BY DEF IInv
<1>3. CASE Finish(j, "uncertain")
  <2>1. Moved(j) /\ pc'[j] = "done" /\ attempt'[j] = attempt[j] /\ result'[j] = "uncertain"
    BY <1>2, <1>3, FinishMoves
  <2> QED
    BY <1>1, <2>1, Here, Preserved DEF PartAfter, CopyAfter
<1>4. CASE (\E e : AttemptEnds(j, e)) /\ part'[j][attempt[j]] = None
  <2>1. Moved(j) /\ (\/ pc'[j] = "done" /\ attempt'[j] = attempt[j]
                     \/ pc'[j] = "list" /\ attempt'[j] = attempt[j] + 1)
    <3>1. PICK e : AttemptEnds(j, e)
      BY <1>4
    <3>2. pc[j] # "done"
      OBVIOUS
    <3> QED
      BY <1>2, <3>1, <3>2, AttemptEndsMoves
  <2>2. PartAfter(j) \/ NextAttempt(j)
    BY <1>4, <2>1 DEF PartAfter, NextAttempt
  <2>3. CopyAfter(j)
    BY <1>1, <2>1 DEF CopyAfter
  <2> QED
    BY <1>1, <2>1, <2>2, <2>3, Here, Preserved
<1> QED
  BY <1>3, <1>4

LEMMA UnprotectPreserves ==
    ASSUME IInv, NEW j \in Jobs, NEW a, Unprotect(j, a) PROVE IInv'
<1>1. /\ TypeOK /\ pc[j] = "unprotect" /\ part[j][attempt[j]] = None
      /\ policy' = policy /\ base' = base /\ part' = part
  BY DEF Unprotect, IInv, PartInv, Part
<1>2. Moved(j) /\ pc'[j] = "done" /\ attempt'[j] = attempt[j]
  <2>1. CASE Finish(j, "ok")
    BY <1>1, <2>1, FinishMoves
  <2>2. CASE Finish(j, "uncertain")
    BY <1>1, <2>2, FinishMoves
  <2> QED
    BY <2>1, <2>2 DEF Unprotect
<1>3. /\ Touches(j) /\ part'[j][attempt[j]] = None
      /\ kept'[j][attempt[j]] \in Whole \cup {None}
  <2>1. CASE UNCHANGED kept
    BY <1>1, <2>1, TouchesNothing, Here
  <2>2. CASE SetKept(j, None)
    BY <1>1, <2>2, TouchesKept, ContentFacts
  <2> QED
    BY <2>1, <2>2 DEF Unprotect
<1>4. PartAfter(j) /\ CopyAfter(j)
  BY <1>1, <1>2, <1>3 DEF PartAfter, CopyAfter
<1> QED
  BY <1>1, <1>2, <1>3, <1>4, Here, Preserved

LEMMA NextIInv == IInv /\ [Next]_vars => IInv'
<1> SUFFICES ASSUME IInv, [Next]_vars PROVE IInv'
  OBVIOUS
<1>1. CASE UNCHANGED vars
  BY <1>1 DEF vars, files, jobVars, IInv, TypeOK, PartInv, KeptInv, CopyInv, Part, Lasting
<1>2. ASSUME NEW j \in Jobs, Step(j) PROVE IInv'
  <2>1. CASE ListFirst(j) \/ Put(j) \/ Revalidate(j)
    BY <2>1, ListFirstPreserves, PutPreserves, RevalidatePreserves
  <2>2. CASE CleanFindsNothing(j)
    BY <2>2, CleanPreserves DEF CleanFindsNothing, files, Part
  <2>3. ASSUME NEW a \in Answers, Clean(j, a) PROVE IInv'
    <3>1. CASE a = "ok"
      <4>1. SetPart(j, None) /\ part[j][attempt[j]] # None /\ UNCHANGED <<base, kept, policy>>
        BY <2>3, <3>1 DEF Clean, Part
      <4>2. part'[j][attempt[j]] = None
        BY <4>1, TouchesPart, ContentFacts
      <4> QED
        BY <2>3, <3>1, <4>1, <4>2, CleanPreserves DEF Clean
    <3>2. CASE a # "ok"
      BY <2>3, <3>2, CleanPreserves DEF Clean, Part
    <3> QED
      BY <3>1, <3>2
  <2>4. ASSUME NEW a \in Answers, Protect(j, a) \/ Activate(j, a) \/ Restore(j, a) \/ Unprotect(j, a)
        PROVE  IInv'
    BY <2>4, ProtectPreserves, ActivatePreserves, RestorePreserves, UnprotectPreserves
  <2> QED
    BY <1>2, <2>1, <2>2, <2>3, <2>4 DEF Step
<1> QED
  BY <1>1, <1>2 DEF Next

(***************************************************************************)
(* A destination that no other upload replaces meanwhile                   *)
(***************************************************************************)

OneUpload == \E j \in Jobs : Jobs = {j}

\* Where the original is while the only upload j runs: a rollback copy is made once
\* per attempt, nothing is renamed over the destination but over an empty name or the
\* upload's own file, and an upload that skips gets no further than the listing.
AloneInv ==
    \A j \in Jobs :
        /\ \A n \in Attempts : n > attempt[j] => kept[j][n] = None
        /\ pc[j] \in {"list", "put", "relist", "protect"} => Kept(j) = None
        /\ pc[j] = "activate" => base = None
        /\ pc[j] = "restore" => base \in {None, j}
        /\ pc[j] = "unprotect" => base = j /\ policy[j] # "backup"
        /\ Start = Old /\ policy[j] = "backup" =>
              base = Old \/ \E n \in Attempts : kept[j][n] = Old

\* The part of AloneInv that a step of j has to establish.
Alone(j) ==
    /\ \A n \in Attempts : n > attempt[j] => kept[j][n] = None
    /\ pc[j] \in {"list", "put", "relist", "protect"} => kept[j][attempt[j]] = None
    /\ pc[j] = "activate" => base = None
    /\ pc[j] = "restore" => base \in {None, j}
    /\ pc[j] = "unprotect" => base = j /\ policy[j] # "backup"
    /\ Start = Old /\ policy[j] = "backup" =>
          base = Old \/ \E n \in Attempts : kept[j][n] = Old

LEMMA AloneEnds ==
    ASSUME IInv, NEW j \in Jobs, Alone(j), pc[j] # "unprotect", NEW e, AttemptEnds(j, e),
           UNCHANGED <<base, kept, policy>>, pc[j] # "done"
    PROVE  Alone(j)'
<1>1. \/ pc'[j] = "done" /\ attempt'[j] = attempt[j]
      \/ pc'[j] = "list" /\ attempt'[j] = attempt[j] + 1
  BY AttemptEndsMoves DEF IInv
<1>2. attempt[j] \in Nat /\ attempt'[j] \in Attempts /\ Attempts \subseteq Nat
  BY AttemptEndsMoves, ContentFacts DEF IInv, TypeOK, Moved
<1>3. \A n \in Attempts : n > attempt'[j] => kept'[j][n] = None
  <2> SUFFICES ASSUME NEW n \in Attempts, n > attempt'[j] PROVE kept[j][n] = None
    OBVIOUS
  <2>1. n \in Nat /\ attempt'[j] \in Nat
    BY <1>2
  <2>2. n > attempt[j]
    BY <1>1, <1>2, <2>1
  <2> QED
    BY <2>2 DEF Alone
<1>4. pc'[j] = "list" => kept'[j][attempt'[j]] = None
  <2> SUFFICES ASSUME pc'[j] = "list" PROVE kept[j][attempt'[j]] = None
    OBVIOUS
  <2>1. attempt'[j] \in Nat /\ attempt'[j] > attempt[j]
    BY <1>1, <1>2
  <2> QED
    BY <1>2, <2>1 DEF Alone
<1>5. pc'[j] \in {"done", "list"}
  BY <1>1
<1> QED
  BY <1>3, <1>4, <1>5 DEF Alone

LEMMA AloneSteps ==
    ASSUME Lists, IInv, NEW j \in Jobs, Alone(j), Step(j)
    PROVE  Alone(j)'
<1> USE Here, ContentFacts, UploadAssumption DEF Alone
<1>0. attempt[j] \in Nat /\ policy \in [Jobs -> Policies] /\ existed \in [Jobs -> BOOLEAN] /\ pc \in [Jobs -> Locations]
  BY DEF IInv, TypeOK
<1>1. CASE ListFirst(j)
  <2>1. CASE \E e \in Errors \cup {"skipped"} : AttemptEnds(j, e)
    BY <1>1, <2>1, AloneEnds DEF ListFirst, files
  <2>2. CASE GoOn(j, "put")
    BY <1>1, <2>2, <1>0 DEF ListFirst, GoOn, Goto, files
  <2> QED
    BY <1>1, <2>1, <2>2 DEF ListFirst
<1>2. CASE Put(j)
  BY <1>2, <1>0 DEF Put, GoOn, GoWithError, Goto
<1>3. CASE Revalidate(j)
  BY <1>3, <1>0 DEF Revalidate, GoWithError, Goto, files, Listed
<1>4. CASE CleanFindsNothing(j)
  BY <1>4, AloneEnds DEF CleanFindsNothing, files, IInv, TypeOK
<1>5. ASSUME NEW a \in Answers, Clean(j, a) PROVE Alone(j)'
  <2>1. CASE AttemptEnds(j, err[j])
    BY <1>5, <2>1, AloneEnds DEF Clean
  <2>2. CASE Finish(j, "uncertain")
    BY <1>5, <1>0, <2>2 DEF Clean, Finish, Goto
  <2> QED
    BY <1>5, <2>1, <2>2 DEF Clean
<1>6. ASSUME NEW a \in Answers, Protect(j, a) PROVE Alone(j)'
  <2>1. CASE UNCHANGED files
    BY <1>6, <1>0, <2>1 DEF Protect, files, GoOn, GoWithError, Goto
  <2>2. CASE base # None /\ SetKept(j, base) /\ base' = None
    <3>1. kept'[j][attempt[j]] = base /\ \A n \in Attempts : n # attempt[j] => kept'[j][n] = kept[j][n]
      BY <2>2, <1>6, NestedUpdate DEF SetKept, KeptInv, IInv, TypeOK
    <3>2. attempt'[j] = attempt[j] /\ pc'[j] \in {"activate", "clean"} /\ policy' = policy
      BY <1>6, <1>0 DEF Protect, GoOn, GoWithError, Goto
    <3>3. kept[j][attempt[j]] = None /\ attempt[j] \in Attempts
      BY <1>6 DEF Protect
    <3>4. \A n \in Attempts : n > attempt'[j] => kept'[j][n] = None
      BY <3>1, <3>2, <1>0
    <3>5. Start = Old /\ policy'[j] = "backup" => \E n \in Attempts : kept'[j][n] = Old
      BY <3>1, <3>2, <3>3
    <3> QED
      BY <2>2, <3>2, <3>4, <3>5
  <2> QED
    BY <1>6, <2>1, <2>2 DEF Protect
<1>7. ASSUME NEW a \in Answers, Activate(j, a) PROVE Alone(j)'
  <2>1. part[j][attempt[j]] = j /\ base = None
    BY <1>7 DEF IInv, PartInv, Part, Activate
  <2>2. kept' = kept /\ policy' = policy /\ attempt'[j] = attempt[j] /\ base' \in {None, j} /\ (a = "ok" => base' = j)
    BY <1>7, <2>1 DEF Activate, files, Part, GoOn, GoWithError, Finish
  <2>3. pc'[j] \in {"restore", "clean", "unprotect", "done"} /\ (pc'[j] = "unprotect" => a = "ok" /\ policy[j] # "backup")
    BY <1>7, <1>0 DEF Activate, GoOn, GoWithError, Finish, Goto
  <2> QED
    BY <2>1, <2>2, <2>3
<1>8. ASSUME NEW a \in Answers, Restore(j, a) PROVE Alone(j)'
  <2>1. pc'[j] = "clean" /\ attempt'[j] = attempt[j] /\ policy' = policy
    BY <1>8, <1>0 DEF Restore, GoOn, GoWithError, Goto
  <2>2. CASE UNCHANGED files
    BY <1>8, <2>1, <2>2 DEF files, Restore
  <2>3. CASE base' = Kept(j) /\ SetKept(j, None)
    <3>1. kept'[j][attempt[j]] = None /\ \A n \in Attempts : n # attempt[j] => kept'[j][n] = kept[j][n]
      BY <2>3, <1>8, NestedUpdate DEF SetKept, KeptInv, IInv, TypeOK
    <3> QED
      BY <1>8, <2>1, <2>3, <3>1 DEF Restore, Kept
  <2> QED
    BY <1>8, <2>2, <2>3 DEF Restore
<1>9. ASSUME NEW a \in Answers, Unprotect(j, a) PROVE Alone(j)'
  <2>1. pc'[j] = "done" /\ attempt'[j] = attempt[j] /\ policy' = policy /\ base' = base /\ policy[j] # "backup"
    BY <1>9, <1>0 DEF Unprotect, Finish, Goto
  <2>2. kept' = kept \/ SetKept(j, None)
    BY <1>9 DEF Unprotect
  <2>3. \A n \in Attempts : n # attempt[j] => kept'[j][n] = kept[j][n]
    BY <2>2, NestedUpdate DEF SetKept, IInv, TypeOK
  <2> QED
    BY <2>1, <2>3, <1>0
<1> QED
  BY <1>1, <1>2, <1>3, <1>4, <1>5, <1>6, <1>7, <1>8, <1>9 DEF Step

LEMMA InitAlone == Init => AloneInv
<1> SUFFICES ASSUME Init, NEW j \in Jobs PROVE Alone(j)
  BY DEF AloneInv, Alone, Kept
<1>1. kept[j] = [n \in Attempts |-> None] /\ attempt[j] = 1 /\ pc[j] = "list" /\ base = Start
  BY DEF Init
<1> QED
  BY <1>1, ContentFacts DEF Alone

LEMMA NextAlone == OneUpload /\ Lists /\ IInv /\ AloneInv /\ [Next]_vars => AloneInv'
<1> SUFFICES ASSUME NEW j \in Jobs, Jobs = {j}, Lists, IInv, AloneInv, [Next]_vars
             PROVE  AloneInv'
  BY DEF OneUpload
<1>1. Alone(j)
  BY DEF AloneInv, Alone, Kept
<1>2. CASE UNCHANGED vars
  BY <1>2 DEF vars, files, jobVars, AloneInv, Kept
<1>3. CASE Step(j)
  BY <1>1, <1>3, AloneSteps DEF AloneInv, Alone, Kept
<1> QED
  BY <1>2, <1>3 DEF Next

\* Uploads that skip get no further than the listing that shows the destination.
SkipInv ==
    Start = Old /\ (\A j \in Jobs : policy[j] = "skip") =>
        base = Old /\ \A j \in Jobs : pc[j] \in {"list", "done"}

LEMMA NextSkip == Lists /\ IInv /\ SkipInv /\ [Next]_vars => SkipInv'
<1> SUFFICES ASSUME Lists, IInv, SkipInv, [Next]_vars, Start = Old,
                    \A j \in Jobs : policy'[j] = "skip"
             PROVE  base' = Old /\ \A j \in Jobs : pc'[j] \in {"list", "done"}
  BY DEF SkipInv
<1> USE ContentFacts, UploadAssumption DEF SkipInv
<1>1. CASE UNCHANGED vars
  BY <1>1 DEF vars, files, jobVars
<1>2. ASSUME NEW j \in Jobs, Step(j)
      PROVE  base' = Old /\ \A i \in Jobs : pc'[i] \in {"list", "done"}
  <2>1. policy' = policy
    BY <1>2 DEF Step, ListFirst, Put, Revalidate, CleanFindsNothing, Protect, Activate,
       Restore, Clean, Unprotect
  <2>2. pc[j] \in {"list", "done"} /\ base = Old /\ pc \in [Jobs -> Locations]
    BY <2>1 DEF IInv, TypeOK
  <2>3. ListFirst(j)
    BY <1>2, <2>2 DEF Step, Put, Revalidate, CleanFindsNothing, Protect, Activate, Restore,
       Clean, Unprotect
  <2>4. PICK e : AttemptEnds(j, e)
    BY <2>1, <2>2, <2>3 DEF ListFirst, Listed
  <2>5. Moved(j) /\ pc'[j] \in {"list", "done"}
    BY <2>3, <2>4, AttemptEndsMoves DEF IInv, ListFirst
  <2> QED
    BY <2>1, <2>2, <2>3, <2>5 DEF ListFirst, files, Moved
<1> QED
  BY <1>1, <1>2 DEF Next

(***************************************************************************)
(* Theorems                                                                *)
(***************************************************************************)

\* Every reachable state satisfies the inductive invariant.
THEOREM UploadInvariant == Spec => []IInv
  BY InitIInv, NextIInv, PTL DEF Spec

\* The attempts of execute and the steps of Upload keep their bookkeeping: a
\* job has a result exactly when it is done, and an error when it undoes.
THEOREM UploadTypes == Spec => []TypeOK
<1>1. IInv => TypeOK
  BY DEF IInv
<1> QED
  BY <1>1, UploadInvariant, PTL

\* No command, failure or lost answer puts a part of a file under the
\* destination's name: only commitRemoteTemp renames to it, and only whole files.
THEOREM DestinationIsWhole == Spec => []DestinationWhole
<1>1. IInv => DestinationWhole
  BY ContentFacts DEF IInv, KeptInv, DestinationWhole
<1> QED
  BY <1>1, UploadInvariant, PTL

\* However many uploads replace one file, at every moment a whole file is at
\* the destination or under a rollback name of commitRemoteTemp.
THEOREM OneCopySurvives == Spec => []CopySurvives
<1>1. IInv => CopySurvives
  BY DEF IInv, CopyInv, Lasting, CopySurvives
<1> QED
  BY <1>1, UploadInvariant, PTL

\* A .GhostFTP-part-* that outlives its attempt is reported: cleanupFailure
\* lets only a confirmed deletion hide behind the attempt's own error.
THEOREM PartsAreAccountedFor == Spec => []PartsAccounted
<1>1. IInv => PartsAccounted
  <2> SUFFICES ASSUME IInv, NEW j \in Jobs, NEW n \in Attempts, part[j][n] # None
               PROVE  n = attempt[j] /\ result[j] \in {"none", "uncertain"}
    BY DEF PartsAccounted
  <2>1. n = attempt[j]
    BY DEF IInv, PartInv
  <2>2. pc[j] = "done" => result[j] = "uncertain"
    BY <2>1 DEF IInv, PartInv, Part
  <2>3. pc[j] = "done" <=> result[j] # "none"
    BY DEF IInv, TypeOK
  <2> QED
    BY <2>1, <2>2, <2>3
<1> QED
  BY <1>1, UploadInvariant, PTL

\* Uploads that skip existing files leave a file alone that the listings show, however
\* many of them are at work.
THEOREM SkipsKeepOriginal == Lists => (Spec => []SkipKeepsOriginal)
<1> SUFFICES ASSUME Lists PROVE Spec => []SkipKeepsOriginal
  OBVIOUS
<1>1. Init => SkipInv
  BY DEF Init, SkipInv
<1>2. SkipInv => SkipKeepsOriginal
  BY DEF SkipInv, SkipKeepsOriginal
<1> QED
  BY <1>1, <1>2, NextSkip, UploadInvariant, PTL DEF Spec

\* The backup that was asked for is on the server through every failure and retry of an
\* upload, whatever the server answers, while no other upload replaces the same file and
\* the listings show it.
THEOREM BackupsKeepOriginal == OneUpload /\ Lists => (Spec => []BackupKeepsOriginal)
<1> SUFFICES ASSUME OneUpload, Lists PROVE Spec => []BackupKeepsOriginal
  OBVIOUS
<1>1. AloneInv => BackupKeepsOriginal
  BY DEF AloneInv, BackupKeepsOriginal, OneUpload
<1> QED
  BY <1>1, InitAlone, NextAlone, UploadInvariant, PTL DEF Spec

\* The step that reports success leaves the upload's content at the destination.
LEMMA SuccessStep == OneUpload /\ IInv /\ AloneInv /\ [Next]_vars => SuccessIsTrueStep
<1> SUFFICES ASSUME NEW j \in Jobs, Jobs = {j}, IInv, AloneInv, [Next]_vars,
                    result[j] = "none", result'[j] = "ok"
             PROVE  base' = j
  BY DEF OneUpload, SuccessIsTrueStep
<1>1. result \in [Jobs -> {"none", "ok", "skipped", "failed", "uncertain"}]
  BY DEF IInv, TypeOK
<1>2. Step(j)
  BY DEF Next, vars, jobVars
<1>3. (\E a \in Answers : Activate(j, a) \/ Unprotect(j, a)) /\ Finish(j, "ok")
  BY <1>1, <1>2 DEF Step, ListFirst, Put, Revalidate, CleanFindsNothing, Protect, Activate,
     Restore, Clean, Unprotect, Finish, AttemptEnds, Retry, GoOn, GoWithError
<1>4. CASE \E a \in Answers : Activate(j, a)
  <2>1. PICK a \in Answers : Activate(j, a)
    BY <1>4
  <2>2. a = "ok" /\ Part(j) = j
    BY <1>1, <2>1 DEF Activate, GoWithError, IInv, PartInv
  <2> QED
    BY <2>1, <2>2 DEF Activate
<1>5. CASE \E a \in Answers : Unprotect(j, a)
  BY <1>5 DEF Unprotect, AloneInv
<1> QED
  BY <1>3, <1>4, <1>5

\* An upload that reports success has put its own content at the destination: the result
\* of Upload is "ok" only after the rename was answered, and nobody else renames over it.
THEOREM SuccessMeansUploaded == OneUpload /\ Lists => (Spec => SuccessIsTrue)
<1> SUFFICES ASSUME OneUpload, Lists PROVE Spec => SuccessIsTrue
  OBVIOUS
<1> QED
  BY InitAlone, NextAlone, SuccessStep, UploadInvariant, PTL DEF Spec, SuccessIsTrue
=============================================================================
