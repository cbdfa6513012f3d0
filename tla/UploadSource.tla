------------------------------ MODULE UploadSource ------------------------------
(***************************************************************************)
(* internal/remote/upload_source_snapshot.go: the private snapshot of a    *)
(* local file that an upload sends instead of the file itself.             *)
(*                                                                         *)
(* Another program may write the file at any time, one block at a time,    *)
(* with or without a change of its time stamp or size, and may change the  *)
(* snapshot.  A write puts a value into a block that it never held before. *)
(* Upload goes on as commit says; RemoteUpload has its details.            *)
(***************************************************************************)
EXTENDS Naturals

CONSTANTS Blocks,     \* 1..Blocks are the blocks of the file
          MaxWrites   \* writes by other programs (bound)

\* What every instance has to satisfy.
SourceAssumption == Blocks \in Nat \ {0} /\ MaxWrites \in Nat

Block == 1..Blocks
Values == 0..MaxWrites
None == MaxWrites + 1   \* a block that was not read

VARIABLES
    file,      \* the content of the local file
    stamp,     \* its size and modification time
    past,      \* history: the contents it has had
    writes,    \* how often something was written by others
    pc, block, \* the upload and the block it copies next
    copied,    \* the snapshot's content as it was copied, and its digest
    again,     \* what the second read of the file gave
    opened,    \* the stamp when the file was opened
    snapshot,  \* the content of the snapshot now
    exists,    \* the directory of the snapshot exists
    sent,      \* what the tool has sent
    committed, \* the remote file has been given its name
    result

fileVars == <<file, stamp, past, writes>>
snapVars == <<snapshot, exists>>
vars == <<fileVars, snapVars, pc, block, copied, again, opened, sent, committed, result>>

Empty == [b \in Block |-> None]

Init ==
    /\ file = [b \in Block |-> 0] /\ stamp = 0 /\ past = {file} /\ writes = 0
    /\ pc = "open" /\ block = 1 /\ copied = Empty /\ again = Empty /\ opened = 0
    /\ snapshot = Empty /\ exists = FALSE /\ sent = Empty
    /\ committed = FALSE /\ result = "none"

\* Another program writes a block of the file.
Write(b) ==
    /\ writes < MaxWrites /\ writes' = writes + 1
    /\ file' = [file EXCEPT ![b] = writes + 1] /\ past' = past \cup {file'}
    /\ stamp' \in {stamp, writes + 1}
    /\ UNCHANGED <<snapVars, pc, block, copied, again, opened, sent, committed, result>>

\* It changes the snapshot.
Tamper(b) ==
    /\ exists /\ writes < MaxWrites /\ writes' = writes + 1
    /\ snapshot' = [snapshot EXCEPT ![b] = writes + 1]
    /\ UNCHANGED <<file, stamp, past, exists, pc, block, copied, again, opened, sent, committed, result>>

\* The source is left unread and the snapshot removed, if that succeeds.
Abandon ==
    /\ pc' = "done" /\ result' = "failed" /\ exists' \in {FALSE, exists}
    /\ UNCHANGED <<fileVars, snapshot, block, copied, again, opened, sent, committed>>

\* prepareUploadSource: the file is opened and compared with what its name
\* said; the snapshot's directory is created.
Open ==
    /\ pc = "open"
    /\ \/ /\ opened' = stamp /\ exists' = TRUE /\ pc' = "copy"
          /\ UNCHANGED <<fileVars, snapshot, block, copied, again, sent, committed, result>>
       \/ Abandon

\* copyUploadSnapshot: the file is copied ...
Copy ==
    /\ pc = "copy"
    /\ \/ /\ copied' = [copied EXCEPT ![block] = file[block]]
          /\ snapshot' = [snapshot EXCEPT ![block] = file[block]]
          /\ IF block < Blocks THEN block' = block + 1 /\ UNCHANGED pc
             ELSE block' = 1 /\ pc' = "stat"
          /\ UNCHANGED <<fileVars, exists, again, opened, sent, committed, result>>
       \/ Abandon

\* sameUploadSourceInfo: the file is the one that was opened, by its stamp.
SameInfo == stamp = opened

\* Mutant: a file whose stamp has not changed is not read again.
CheckStampOnly ==
    /\ pc = "stat"
    /\ \/ SameInfo /\ pc' = "prepared"
          /\ UNCHANGED <<fileVars, snapVars, block, copied, again, opened, sent, committed, result>>
       \/ Abandon

\* ... must not have changed by its stamp ...
CheckStamp ==
    /\ pc = "stat"
    /\ \/ SameInfo /\ pc' = "again"
          /\ UNCHANGED <<fileVars, snapVars, block, copied, again, opened, sent, committed, result>>
       \/ Abandon

\* ... is read a second time ...
ReadAgain ==
    /\ pc = "again"
    /\ \/ /\ again' = [again EXCEPT ![block] = file[block]]
          /\ IF block < Blocks THEN block' = block + 1 /\ UNCHANGED pc
             ELSE block' = 1 /\ pc' = "compare"
          /\ UNCHANGED <<fileVars, snapVars, copied, opened, sent, committed, result>>
       \/ Abandon

\* ... and must be the same by its stamp and its digest.
Compare ==
    /\ pc = "compare"
    /\ \/ SameInfo /\ again = copied /\ pc' = "prepared"
          /\ UNCHANGED <<fileVars, snapVars, block, copied, again, opened, sent, committed, result>>
       \/ Abandon

\* The tool reads the snapshot by its name.
Send ==
    /\ pc = "prepared"
    /\ \/ /\ sent' = snapshot /\ pc' = "verify"
          /\ UNCHANGED <<fileVars, snapVars, block, copied, again, opened, committed, result>>
       \/ Abandon

\* Verify: the snapshot is what it was when it was made, and is gone.
Verify ==
    /\ pc = "verify"
    /\ \/ /\ snapshot = copied /\ pc' = "commit" /\ exists' = FALSE
          /\ UNCHANGED <<fileVars, snapshot, block, copied, again, opened, sent, committed, result>>
       \/ Abandon

\* The rest of Upload; its deferred Close has nothing left to remove.
Commit ==
    /\ pc = "commit" /\ pc' = "done"
    /\ \/ committed' = TRUE /\ result' = "ok"
       \/ UNCHANGED committed /\ result' = "failed"
    /\ UNCHANGED <<fileVars, snapVars, block, copied, again, opened, sent>>

Next ==
    \/ Open \/ Copy \/ CheckStamp \/ ReadAgain \/ Compare \/ Send \/ Verify \/ Commit
    \/ \E b \in Block : Write(b) \/ Tamper(b)

Spec == Init /\ [][Next]_vars

-----------------------------------------------------------------------------
(* Properties *)

Locations == {"open", "copy", "stat", "again", "compare", "prepared", "verify", "commit", "done"}

\* The upload's bookkeeping; nothing is sent but a finished copy.
TypeOK ==
    /\ file \in [Block -> Values] /\ stamp \in Values /\ past \subseteq [Block -> Values]
    /\ writes \in Values
    /\ pc \in Locations /\ block \in Block
    /\ copied \in [Block -> Values \cup {None}] /\ again \in [Block -> Values \cup {None}]
    /\ snapshot \in [Block -> Values \cup {None}] /\ sent \in [Block -> Values \cup {None}]
    /\ opened \in Values /\ exists \in BOOLEAN /\ committed \in BOOLEAN
    /\ result \in {"none", "ok", "failed"}
    /\ pc \in {"compare", "prepared", "verify", "commit"} =>
          \A b \in Block : copied[b] # None /\ again[b] # None

\* What is committed on the server is a content that the local file had at
\* one moment, although it is read block by block while others write it and
\* although a write need not change its stamp.
SentIsOneMoment == committed => sent \in past

\* A copy of the user's file stays in the temporary directory only when the
\* upload is reported as failed.
SnapshotIsRemoved == committed => ~exists
=============================================================================
