------------------------------ MODULE RemoteEdit ------------------------------
(***************************************************************************)
(* Editing a remote file in place: internal/api/remote_edit.go below the   *)
(* editors of internal/desktop/remote_edit_windows.go (with the window of  *)
(* platform/text_editor_windows.go) and remote_edit_linux.go.              *)
(*                                                                         *)
(* A content is a number; the file may be changed by others between any    *)
(* two requests of a call.  Replacing the file at the server is one step   *)
(* here (RemoteUpload has it in full).                                     *)
(***************************************************************************)
EXTENDS Naturals, FiniteSets

CONSTANTS Long,  \* the file is longer in the window than 4 << 20 units
          MaxOthers, MaxEdits, MaxCalls  \* bounds

\* What every instance has to satisfy.
EditAssumption ==
    Long \in BOOLEAN /\ {MaxOthers, MaxEdits, MaxCalls} \subseteq Nat

VARIABLES
    windows,         \* which of the two editors
    file, mode,      \* the content and permissions at the server
    call,            \* the engine call under way
    workspaces,      \* private directories on disk
    ui,              \* "idle", "waits", "edits", "asks": what the editor does
    asks,            \* what the question is about: "close", "reload"
    closeOk, reloadOk,  \* Linux: asked within the last 8 seconds
    doc, buffer, text,  \* the content opened, as loaded, as edited
    live,            \* the connection is the one of the editor
    fresh,           \* the next new content
    others, edits, made,  \* counts
    typed,           \* history: the user has changed the text of this document
    stuck            \* history: a private directory could not be removed

server == <<file, mode, others>>
editor == <<ui, asks, closeOk, reloadOk, doc, buffer, text, typed>>
counts == <<fresh, edits, made>>
disk == <<workspaces, stuck>>
vars == <<windows, server, call, disk, editor, live, counts>>

None == [op |-> "none", at |-> "end"]
Cut(c) == c + 100  \* what the window gives back of a long content

Init ==
    /\ windows \in BOOLEAN
    /\ file = 1 /\ mode = 1 /\ call = None /\ workspaces = 0 /\ stuck = FALSE
    /\ ui = "idle" /\ asks = "none" /\ closeOk = FALSE /\ reloadOk = FALSE
    /\ doc = 0 /\ buffer = 0 /\ text = 0 /\ live = TRUE
    /\ fresh = 2 /\ others = 0 /\ edits = 0 /\ made = 0 /\ typed = FALSE

-----------------------------------------------------------------------------
(* The engine: RemoteEditOpen and RemoteEditSave *)

Begin(op) == call' = [op |-> op, at |-> "list", rev |-> doc, put |-> text, mode |-> 0,
                      read |-> 0, raced |-> FALSE, ok |-> FALSE]

To(step) == [call EXCEPT !.at = step]

\* editableRemoteItem: the parent is listed, the permissions remembered.
List ==
    /\ call.at \in {"list", "relist"} /\ live
    /\ call' = [call EXCEPT !.at = IF @ = "list" THEN "get" ELSE "reget",
                            !.mode = IF call.at = "list" THEN mode ELSE @]
    /\ workspaces' = workspaces + 1
    /\ UNCHANGED <<server, editor, live, counts, stuck>>

\* cleanup: n private directories are removed; whether that succeeds is not looked at.
Cleanup(n) ==
    \E k \in 0..n : workspaces' = workspaces - k /\ stuck' = (stuck \/ k < n)

\* Mutant: the revision is not compared.
GetAnyRevision ==
    /\ call.at = "get" /\ live /\ Cleanup(1)
    /\ call' = IF call.op # "save" THEN [call EXCEPT !.at = "end", !.read = file, !.ok = TRUE]
               ELSE To("chmod")
    /\ UNCHANGED <<server, editor, live, counts>>

\* The file is read into a private directory, which is removed again.
Get ==
    /\ call.at = "get" /\ live /\ Cleanup(1)
    /\ call' = IF call.op # "save" THEN [call EXCEPT !.at = "end", !.read = file, !.ok = TRUE]
               ELSE IF file = call.rev THEN To("chmod") ELSE To("end")
    /\ UNCHANGED <<server, editor, live, counts>>

\* The server must accept the permissions before the content is touched.
ProveMode ==
    /\ call.at = "chmod" /\ live
    /\ mode' = call.mode /\ call' = To("put") /\ workspaces' = workspaces + 1
    /\ UNCHANGED <<file, others, editor, live, counts, stuck>>

\* The upload: the file is replaced, perhaps by one with other permissions.
Put ==
    /\ call.at = "put" /\ live
    /\ file' = call.put /\ mode' \in {mode, 2} /\ call' = To("rechmod")
    /\ UNCHANGED <<others, disk, editor, live, counts>>

RestoreMode ==
    /\ call.at = "rechmod" /\ live
    /\ mode' = call.mode /\ call' = To("relist")
    /\ UNCHANGED <<file, others, disk, editor, live, counts>>

\* Read back: the content must be the one sent.
Verify ==
    /\ call.at = "reget" /\ live /\ Cleanup(2)
    /\ call' = IF file = call.put THEN [call EXCEPT !.at = "end", !.read = file, !.ok = TRUE]
               ELSE To("end")
    /\ UNCHANGED <<server, editor, live, counts>>

\* Any request may fail; the private directories are removed on the way out.
Held == IF call.at \in {"put", "rechmod", "relist"} THEN 1
        ELSE IF call.at = "reget" THEN 2 ELSE IF call.at = "get" THEN 1 ELSE 0

RequestFails ==
    /\ call.at # "end" /\ call' = To("end") /\ Cleanup(Held)
    /\ UNCHANGED <<server, editor, live, counts>>

-----------------------------------------------------------------------------
(* The editors *)

Waits(op) == ui' = "waits" /\ Begin(op) /\ made < MaxCalls /\ made' = made + 1

\* remoteEditAction, openSelectedRemoteEditor.
Open ==
    /\ ui = "idle" /\ live /\ Waits("open")
    /\ UNCHANGED <<server, disk, asks, closeOk, reloadOk, doc, buffer, text, live, fresh, edits, typed>>

\* The document becomes what was read.
Load == /\ doc' = call.read /\ buffer' = call.read /\ text' = call.read
        /\ closeOk' = FALSE /\ typed' = FALSE

Ended == ui = "waits" /\ call.at = "end"

Idle == /\ ui' = "idle" /\ doc' = 0 /\ buffer' = 0 /\ text' = 0
        /\ closeOk' = FALSE /\ reloadOk' = FALSE /\ typed' = FALSE

\* The result of a call that succeeded, on the connection it was made on.
Loaded ==
    /\ Ended /\ call.ok /\ live
    /\ Load /\ ui' = "edits" /\ call' = None
    /\ reloadOk' = (reloadOk /\ call.op = "reload")
    /\ UNCHANGED <<server, disk, asks, live, counts>>

\* A save that failed gives the editor back as it was; a failed reload closes the
\* editor on Windows.
Failed ==
    /\ Ended /\ ~call.ok /\ live /\ call' = None
    /\ IF call.op = "open" \/ (call.op = "reload" /\ windows) THEN Idle
       ELSE ui' = "edits" /\ UNCHANGED <<closeOk, reloadOk, doc, buffer, text, typed>>
    /\ UNCHANGED <<server, disk, asks, live, counts>>

\* The connection changed: the Windows editor ends, the Linux one keeps the text.
ConnectionChanged ==
    /\ ~live /\ (Ended \/ (windows /\ ui \in {"edits", "asks"}))
    /\ call' = None
    /\ IF windows \/ call.op = "open" THEN Idle
       ELSE ui' = "edits" /\ UNCHANGED <<closeOk, reloadOk, doc, buffer, text, typed>>
    /\ live' = TRUE
    /\ UNCHANGED <<server, disk, asks, counts>>

\* remoteEditInsert resets the questions, erasing does not.
Type ==
    /\ ui = "edits" /\ edits < MaxEdits /\ edits' = edits + 1
    /\ text' = fresh /\ fresh' = fresh + 1 /\ typed' = TRUE
    /\ \/ closeOk' = FALSE /\ reloadOk' = FALSE
       \/ UNCHANGED <<closeOk, reloadOk>>
    /\ UNCHANGED <<server, call, disk, ui, asks, doc, buffer, live, made>>

\* What the editor gives back when a button is pressed.
Read == IF windows /\ Long /\ text < 100 THEN Cut(text) ELSE text

\* Saving: on Linux only what was changed.
Save ==
    /\ ui = "edits" /\ live /\ (~windows => text # buffer)
    /\ made < MaxCalls /\ made' = made + 1 /\ ui' = "waits" /\ text' = Read
    /\ call' = [op |-> "save", at |-> "list", rev |-> doc, put |-> Read, mode |-> 0,
                read |-> 0, raced |-> FALSE, ok |-> FALSE]
    /\ UNCHANGED <<server, disk, asks, closeOk, reloadOk, doc, buffer, live, fresh, edits, typed>>

\* Unsaved text is asked about: a question on Windows, a second press on Linux.
Dirty == Read # buffer
Asked(op) == IF op = "close" THEN closeOk ELSE reloadOk

AskFirst ==
    /\ ui = "edits" /\ Dirty /\ live
    /\ \E op \in {"close", "reload"} :
         IF windows THEN ui' = "asks" /\ asks' = op /\ text' = Read /\ UNCHANGED <<closeOk, reloadOk>>
         ELSE /\ ~Asked(op) /\ UNCHANGED <<ui, asks, text>>
              /\ closeOk' = (closeOk \/ op = "close") /\ reloadOk' = (reloadOk \/ op = "reload")
    /\ UNCHANGED <<server, call, disk, doc, buffer, live, counts, typed>>

KeepEditing ==
    /\ ui = "asks" /\ live /\ ui' = "edits" /\ asks' = "none"
    /\ UNCHANGED <<server, call, disk, closeOk, reloadOk, doc, buffer, text, live, counts, typed>>

\* The 8 seconds are over.
Expire ==
    /\ ~windows /\ (closeOk \/ reloadOk) /\ closeOk' = FALSE /\ reloadOk' = FALSE
    /\ UNCHANGED <<server, call, disk, ui, asks, doc, buffer, text, live, counts, typed>>

\* Mutant: a press that was answered for one is good for the other.
MayOfEither(op) ==
    \/ ui = "edits" /\ ~Dirty
    \/ ui = "edits" /\ ~windows /\ (closeOk \/ reloadOk)
    \/ ui = "asks"

\* The user may go on to close or reload.
May(op) ==
    \/ ui = "edits" /\ ~Dirty
    \/ ui = "edits" /\ ~windows /\ Asked(op)
    \/ ui = "asks" /\ asks = op

Reload ==
    /\ May("reload") /\ live /\ Waits("reload") /\ asks' = "none" /\ reloadOk' = FALSE
    /\ UNCHANGED <<server, disk, closeOk, doc, buffer, text, live, fresh, edits, typed>>

Close ==
    /\ May("close") /\ live /\ Idle /\ asks' = "none"
    /\ UNCHANGED <<server, call, disk, live, counts>>

-----------------------------------------------------------------------------
(* Everybody else *)

Others ==
    /\ others < MaxOthers /\ others' = others + 1
    /\ file' = fresh /\ fresh' = fresh + 1 /\ mode' \in {1, 3}
    /\ call' = IF call.op = "save" /\ call.at \notin {"list", "get"}
               THEN [call EXCEPT !.raced = TRUE] ELSE call
    /\ UNCHANGED <<disk, editor, live, edits, made>>

Lose ==
    /\ live /\ ui # "idle" /\ live' = FALSE
    /\ UNCHANGED <<server, call, disk, editor, counts>>

Engine ==
    /\ UNCHANGED windows
    /\ List \/ Get \/ ProveMode \/ Put \/ RestoreMode \/ Verify \/ RequestFails
Result == UNCHANGED windows /\ (Loaded \/ Failed \/ ConnectionChanged)

Next ==
    /\ UNCHANGED windows
    /\ \/ List
       \/ Get
       \/ ProveMode
       \/ Put
       \/ RestoreMode
       \/ Verify
       \/ RequestFails
       \/ Loaded
       \/ Failed
       \/ ConnectionChanged
       \/ Open
       \/ Type
       \/ Save
       \/ AskFirst
       \/ KeepEditing
       \/ Expire
       \/ Reload
       \/ Close
       \/ Others
       \/ Lose

\* Calls end by their contexts, and results are dispatched.
Spec == Init /\ [][Next]_vars /\ WF_vars(Engine) /\ WF_vars(Result)

-----------------------------------------------------------------------------
(* Properties *)

\* The types, and no call without an editor that waits for it.
TypeOK ==
    /\ ui \in {"idle", "waits", "edits", "asks"} /\ workspaces \in Nat
    /\ {closeOk, reloadOk, live, typed, stuck} \subseteq BOOLEAN
    /\ (call.op # "none") = (ui = "waits")

\* A save replaces a content that is not the one the user opened only when it was
\* put there after the save had looked.
NoBlindOverwriteStep ==
    file' # file /\ others' = others => file = call.rev \/ call.raced

\* A document shown as saved was read back: the server had it after the upload.
ReadIsTrueStep ==
    call'.op # "none" /\ call'.ok /\ ~call.ok => call'.read = file

\* When nobody else touched the file, a save leaves it with its permissions.
ModeKept == call.op = "save" /\ call.ok /\ ~call.raced /\ others = 0 => mode = call.mode

\* A save that failed keeps the text and still counts it as unsaved.
FailureKeepsTextStep ==
    Failed /\ call.op = "save" => text' = text /\ buffer' = buffer /\ doc' = doc

\* Text that is not saved is dropped only by a close or reload the user was asked
\* about, by a save of just that text, or when the connection changed.
DropsOnlyAskedStep ==
    /\ typed /\ ~typed' /\ text # buffer =>
          \/ ~live \/ closeOk \/ (ui = "asks" /\ asks = "close")
          \/ call.op = "reload" \/ (call.op = "save" /\ call.put = text)
    /\ call.op = "none" /\ call'.op = "reload" /\ text # buffer =>
          reloadOk \/ (ui = "asks" /\ asks = "reload")

\* No path forgets a private directory: when no call is out, one is left only after a
\* removal has failed.
NothingLeft == call.at = "end" => workspaces = 0 \/ stuck

\* cleanup: the text of a file does not stay on disk.
\* The code does not keep it: see "Disagreements found" in the README.
NeverLeft == call.at = "end" => workspaces = 0

\* Saving a text the user has not touched does not change the file: text files
\* of up to 4 MiB are edited in place (remote_edit_words.go).
\* The code does not keep it: see "Disagreements found" in the README.
UntouchedIsKept == call.op = "save" /\ ~typed => call.put = call.rev

\* The editor does not wait for ever.
Waiting == ui = "waits"
=============================================================================
