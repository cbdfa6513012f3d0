----------------------------- MODULE MCTransfers -----------------------------
(* The components that work with the server and with files, side by side: each behaviour is about
   one of them, on a small instance. *)
EXTENDS Naturals, FiniteSets, TLC

CONSTANTS Old, Foreign, Sentinel, Partial, Missing, Downloads, DownloadAttempts,
    MaxForeign, HardLinks, Uploads, UploadAttempts, Replaces, Lists, Blocks, MaxWrites,
    top, outside, Items, DeleteDepth, DeleteItems, TreeNodes, TreeRoot, TreeParent,
    TreeDepth, TreeItems, Capacity, TreeOthers, Long, EditOthers, MaxEdits, MaxCalls,
    Tries, k1, k2, k3, NoKey, HostKeys, KeyRank, Sweeps, QueueJobs, MaxJobs,
    MaxParallelism, MaxRetries, MaxGeneration, MaxUnwinding, Attached, Servers,
    NoSession, NoAccount, NoBlob, ProfileBlob, link, user, SftpSessions, FtpSessions,
    Helpers, Tokens, TTL, Limit, NoToken

VARIABLES
    part,  \* the component this behaviour is about
    replaceBase, replacePart, replaceSaved, replaceExpected, replacePolicy, replacePc,
    replaceAttempt, replaceResult, replaceReplaced, replaceOverrun, replaceAppeared,
    createBase, createPart, createSaved, createExpected, createPolicy, createPc,
    createAttempt, createResult, createReplaced, createOverrun, createAppeared,
    uploadBase, uploadPart, kept, uploadPolicy, uploadPc, uploadAttempt, existed,
    uploadErr, uploadResult,
    sourceFile, stamp, past, writes, sourcePc, block, copied, again, opened, snapshot,
    exists, sent, committed, sourceResult,
    kind, parent, hidden, alive, mlsd, stack, items, deleteResult, deleteOthers,
    direction, source, picked, treePc, at, dirs, files, treeKnown, held, queued, free,
    plain, gen, begun, dest, entries, handle, treeOthers,
    windows, editorFile, mode, editorCall, workspaces, ui, asks, closeOk, reloadOk, doc,
    buffer, text, editorLive, fresh, editorOthers, edits, made, typed, stuck,
    disk, sftpKnown, pinned, sftpPc, now, scanned, sftpLive, sftpClosing, used, stale,
    reached,
    status, slot, jobConn, born, paused, accepting, closed, generation, reserved,
    running, workers, cancels, parallelism, epoch, wpc, engineLeft, engineErr, stopped,
    unwinding, exiting, cpc, cgen, cepoch, cbatch, cconn, enginePc, engineCall, rBlob,
    rOwned, pending, pBlob, pOwned, pin, session, engineClosing, waitsFor, life, acct,
    key, sBlob, sOwned, ctxDone, closer, active, opSession, opStopped, stored, boundTo,
    epc, once,
    trusted, listening, brokerLeft, values, drawn, brokerPc, want, blob, since, helper

Nodes == {top, outside} \cup Items
\* The sessions and accounts of the engine are interchangeable, and so are the downloads.
Symmetry == Permutations(Attached) \cup Permutations(Servers) \cup Permutations(Downloads)

\* The values of TreeParent and KeyRank.
SmallParent == [n \in {"a", "b", "f"} |-> IF n = "f" THEN "a" ELSE "root"]
TwoRanks == k1 :> 3 @@ k2 :> 3 @@ k3 :> 2

Replace == INSTANCE LocalDownload WITH
    Jobs <- Downloads, MaxAttempts <- DownloadAttempts, Links <- HardLinks,
    None <- Missing, Start <- Old, base <- replaceBase, part <- replacePart,
    saved <- replaceSaved, expected <- replaceExpected, policy <- replacePolicy,
    pc <- replacePc, attempt <- replaceAttempt, result <- replaceResult,
    replaced <- replaceReplaced, overrun <- replaceOverrun, appeared <- replaceAppeared
Create == INSTANCE LocalDownload WITH
    Jobs <- Downloads, MaxAttempts <- DownloadAttempts, Links <- HardLinks,
    None <- Missing, Start <- Missing, base <- createBase, part <- createPart,
    saved <- createSaved, expected <- createExpected, policy <- createPolicy,
    pc <- createPc, attempt <- createAttempt, result <- createResult,
    replaced <- createReplaced, overrun <- createOverrun, appeared <- createAppeared
Upload == INSTANCE RemoteUpload WITH
    Jobs <- Uploads, None <- Missing, Start <- Old, MaxAttempts <- UploadAttempts,
    base <- uploadBase, part <- uploadPart, policy <- uploadPolicy, pc <- uploadPc,
    attempt <- uploadAttempt, err <- uploadErr, result <- uploadResult
Source == INSTANCE UploadSource WITH
    file <- sourceFile, pc <- sourcePc, result <- sourceResult
Delete == INSTANCE RemoteDelete WITH
    Nodes <- Nodes, Top <- top, Outside <- outside, MaxDepth <- DeleteDepth,
    MaxItems <- DeleteItems, MaxOthers <- TreeOthers, result <- deleteResult,
    others <- deleteOthers
Tree == INSTANCE TreeTransfer WITH
    Nodes <- TreeNodes, Root <- TreeRoot, Parent <- TreeParent, MaxDepth <- TreeDepth,
    MaxItems <- TreeItems, MaxOthers <- TreeOthers, pc <- treePc, known <- treeKnown,
    others <- treeOthers
Editor == INSTANCE RemoteEdit WITH
    MaxOthers <- EditOthers, file <- editorFile, call <- editorCall, live <- editorLive,
    others <- editorOthers
SSH == INSTANCE SftpSession WITH
    Sessions <- Tries, None <- Missing, Rank <- KeyRank, known <- sftpKnown,
    pc <- sftpPc, live <- sftpLive, closing <- sftpClosing
Engine == INSTANCE Engine WITH
    Jobs <- QueueJobs, Sessions <- Attached, Accounts <- Servers, Links <- {link},
    User <- user, left <- engineLeft, err <- engineErr, pc <- enginePc,
    call <- engineCall, closing <- engineClosing
Broker == INSTANCE SecretBroker WITH
    Sftp <- SftpSessions, Ftp <- FtpSessions, left <- brokerLeft, pc <- brokerPc

ASSUME TransfersAssumption ==
    /\ Replace!DownloadAssumption /\ Create!DownloadAssumption
    /\ Upload!UploadAssumption /\ Source!SourceAssumption /\ Delete!DeleteAssumption
    /\ Tree!TreeAssumption /\ Editor!EditAssumption /\ SSH!SftpAssumption
    /\ Engine!EngineAssumption /\ Broker!BrokerAssumption

(* A component that this behaviour is not about does nothing. *)
Unused == 0
NoReplace ==
    /\ replaceBase = Unused /\ replacePart = Unused /\ replaceSaved = Unused
    /\ replaceExpected = Unused /\ replacePolicy = Unused /\ replacePc = Unused
    /\ replaceAttempt = Unused /\ replaceResult = Unused /\ replaceReplaced = Unused
    /\ replaceOverrun = Unused /\ replaceAppeared = Unused
ReplaceVars == <<replaceBase, replacePart, replaceSaved, replaceExpected, replacePolicy,
    replacePc, replaceAttempt, replaceResult, replaceReplaced, replaceOverrun,
    replaceAppeared>>
NoCreate ==
    /\ createBase = Unused /\ createPart = Unused /\ createSaved = Unused
    /\ createExpected = Unused /\ createPolicy = Unused /\ createPc = Unused
    /\ createAttempt = Unused /\ createResult = Unused /\ createReplaced = Unused
    /\ createOverrun = Unused /\ createAppeared = Unused
CreateVars == <<createBase, createPart, createSaved, createExpected, createPolicy,
    createPc, createAttempt, createResult, createReplaced, createOverrun,
    createAppeared>>
NoUpload ==
    /\ uploadBase = Unused /\ uploadPart = Unused /\ kept = Unused
    /\ uploadPolicy = Unused /\ uploadPc = Unused /\ uploadAttempt = Unused
    /\ existed = Unused /\ uploadErr = Unused /\ uploadResult = Unused
UploadVars == <<uploadBase, uploadPart, kept, uploadPolicy, uploadPc, uploadAttempt,
    existed, uploadErr, uploadResult>>
NoSource ==
    /\ sourceFile = Unused /\ stamp = Unused /\ past = Unused /\ writes = Unused
    /\ sourcePc = Unused /\ block = Unused /\ copied = Unused /\ again = Unused
    /\ opened = Unused /\ snapshot = Unused /\ exists = Unused /\ sent = Unused
    /\ committed = Unused /\ sourceResult = Unused
SourceVars == <<sourceFile, stamp, past, writes, sourcePc, block, copied, again, opened,
    snapshot, exists, sent, committed, sourceResult>>
NoDelete ==
    /\ kind = Unused /\ parent = Unused /\ hidden = Unused /\ alive = Unused
    /\ mlsd = Unused /\ stack = Unused /\ items = Unused /\ deleteResult = Unused
    /\ deleteOthers = Unused
DeleteVars == <<kind, parent, hidden, alive, mlsd, stack, items, deleteResult,
    deleteOthers>>
NoTree ==
    /\ direction = Unused /\ source = Unused /\ picked = Unused /\ treePc = Unused
    /\ at = Unused /\ dirs = Unused /\ files = Unused /\ treeKnown = Unused
    /\ held = Unused /\ queued = Unused /\ free = Unused /\ plain = Unused
    /\ gen = Unused /\ begun = Unused /\ dest = Unused /\ entries = Unused
    /\ handle = Unused /\ treeOthers = Unused
TreeVars == <<direction, source, picked, treePc, at, dirs, files, treeKnown, held,
    queued, free, plain, gen, begun, dest, entries, handle, treeOthers>>
NoEditor ==
    /\ windows = Unused /\ editorFile = Unused /\ mode = Unused /\ editorCall = Unused
    /\ workspaces = Unused /\ ui = Unused /\ asks = Unused /\ closeOk = Unused
    /\ reloadOk = Unused /\ doc = Unused /\ buffer = Unused /\ text = Unused
    /\ editorLive = Unused /\ fresh = Unused /\ editorOthers = Unused /\ edits = Unused
    /\ made = Unused /\ typed = Unused /\ stuck = Unused
EditorVars == <<windows, editorFile, mode, editorCall, workspaces, ui, asks, closeOk,
    reloadOk, doc, buffer, text, editorLive, fresh, editorOthers, edits, made, typed,
    stuck>>
NoSSH ==
    /\ disk = Unused /\ sftpKnown = Unused /\ pinned = Unused /\ sftpPc = Unused
    /\ now = Unused /\ scanned = Unused /\ sftpLive = Unused /\ sftpClosing = Unused
    /\ used = Unused /\ stale = Unused /\ reached = Unused
SSHVars == <<disk, sftpKnown, pinned, sftpPc, now, scanned, sftpLive, sftpClosing, used,
    stale, reached>>
NoEngine ==
    /\ status = Unused /\ slot = Unused /\ jobConn = Unused /\ born = Unused
    /\ paused = Unused /\ accepting = Unused /\ closed = Unused /\ generation = Unused
    /\ reserved = Unused /\ running = Unused /\ workers = Unused /\ cancels = Unused
    /\ parallelism = Unused /\ epoch = Unused /\ wpc = Unused /\ engineLeft = Unused
    /\ engineErr = Unused /\ stopped = Unused /\ unwinding = Unused /\ exiting = Unused
    /\ cpc = Unused /\ cgen = Unused /\ cepoch = Unused /\ cbatch = Unused
    /\ cconn = Unused /\ enginePc = Unused /\ engineCall = Unused /\ rBlob = Unused
    /\ rOwned = Unused /\ pending = Unused /\ pBlob = Unused /\ pOwned = Unused
    /\ pin = Unused /\ session = Unused /\ engineClosing = Unused /\ waitsFor = Unused
    /\ life = Unused /\ acct = Unused /\ key = Unused /\ sBlob = Unused
    /\ sOwned = Unused /\ ctxDone = Unused /\ closer = Unused /\ active = Unused
    /\ opSession = Unused /\ opStopped = Unused /\ stored = Unused /\ boundTo = Unused
    /\ epc = Unused /\ once = Unused
EngineVars == <<status, slot, jobConn, born, paused, accepting, closed, generation,
    reserved, running, workers, cancels, parallelism, epoch, wpc, engineLeft, engineErr,
    stopped, unwinding, exiting, cpc, cgen, cepoch, cbatch, cconn, enginePc, engineCall,
    rBlob, rOwned, pending, pBlob, pOwned, pin, session, engineClosing, waitsFor, life,
    acct, key, sBlob, sOwned, ctxDone, closer, active, opSession, opStopped, stored,
    boundTo, epc, once>>
NoBroker ==
    /\ trusted = Unused /\ listening = Unused /\ brokerLeft = Unused /\ values = Unused
    /\ drawn = Unused /\ brokerPc = Unused /\ want = Unused /\ blob = Unused
    /\ since = Unused /\ helper = Unused
BrokerVars == <<trusted, listening, brokerLeft, values, drawn, brokerPc, want, blob,
    since, helper>>

Init ==
    \/ part = "replace" /\ Replace!Init
       /\ NoCreate /\ NoUpload /\ NoSource /\ NoDelete /\ NoTree /\ NoEditor /\ NoSSH /\
       NoEngine /\ NoBroker
    \/ part = "create" /\ Create!Init
       /\ NoReplace /\ NoUpload /\ NoSource /\ NoDelete /\ NoTree /\ NoEditor /\ NoSSH
       /\ NoEngine /\ NoBroker
    \/ part = "upload" /\ Upload!Init
       /\ NoReplace /\ NoCreate /\ NoSource /\ NoDelete /\ NoTree /\ NoEditor /\ NoSSH
       /\ NoEngine /\ NoBroker
    \/ part = "source" /\ Source!Init
       /\ NoReplace /\ NoCreate /\ NoUpload /\ NoDelete /\ NoTree /\ NoEditor /\ NoSSH
       /\ NoEngine /\ NoBroker
    \/ part = "delete" /\ Delete!Init
       /\ NoReplace /\ NoCreate /\ NoUpload /\ NoSource /\ NoTree /\ NoEditor /\ NoSSH
       /\ NoEngine /\ NoBroker
    \/ part = "tree" /\ Tree!Init
       /\ NoReplace /\ NoCreate /\ NoUpload /\ NoSource /\ NoDelete /\ NoEditor /\ NoSSH
       /\ NoEngine /\ NoBroker
    \/ part = "editor" /\ Editor!Init
       /\ NoReplace /\ NoCreate /\ NoUpload /\ NoSource /\ NoDelete /\ NoTree /\ NoSSH
       /\ NoEngine /\ NoBroker
    \/ part = "sftp" /\ SSH!Init
       /\ NoReplace /\ NoCreate /\ NoUpload /\ NoSource /\ NoDelete /\ NoTree /\
       NoEditor /\ NoEngine /\ NoBroker
    \/ part = "engine" /\ Engine!Init
       /\ NoReplace /\ NoCreate /\ NoUpload /\ NoSource /\ NoDelete /\ NoTree /\
       NoEditor /\ NoSSH /\ NoBroker
    \/ part = "broker" /\ Broker!Init
       /\ NoReplace /\ NoCreate /\ NoUpload /\ NoSource /\ NoDelete /\ NoTree /\
       NoEditor /\ NoSSH /\ NoEngine

OnlyReplace ==
    /\ part = "replace"
    /\ UNCHANGED <<part, CreateVars, UploadVars, SourceVars, DeleteVars, TreeVars,
         EditorVars, SSHVars, EngineVars, BrokerVars>>
OnlyCreate ==
    /\ part = "create"
    /\ UNCHANGED <<part, ReplaceVars, UploadVars, SourceVars, DeleteVars, TreeVars,
         EditorVars, SSHVars, EngineVars, BrokerVars>>
OnlyUpload ==
    /\ part = "upload"
    /\ UNCHANGED <<part, ReplaceVars, CreateVars, SourceVars, DeleteVars, TreeVars,
         EditorVars, SSHVars, EngineVars, BrokerVars>>
OnlySource ==
    /\ part = "source"
    /\ UNCHANGED <<part, ReplaceVars, CreateVars, UploadVars, DeleteVars, TreeVars,
         EditorVars, SSHVars, EngineVars, BrokerVars>>
OnlyDelete ==
    /\ part = "delete"
    /\ UNCHANGED <<part, ReplaceVars, CreateVars, UploadVars, SourceVars, TreeVars,
         EditorVars, SSHVars, EngineVars, BrokerVars>>
OnlyTree ==
    /\ part = "tree"
    /\ UNCHANGED <<part, ReplaceVars, CreateVars, UploadVars, SourceVars, DeleteVars,
         EditorVars, SSHVars, EngineVars, BrokerVars>>
OnlyEditor ==
    /\ part = "editor"
    /\ UNCHANGED <<part, ReplaceVars, CreateVars, UploadVars, SourceVars, DeleteVars,
         TreeVars, SSHVars, EngineVars, BrokerVars>>
OnlySSH ==
    /\ part = "sftp"
    /\ UNCHANGED <<part, ReplaceVars, CreateVars, UploadVars, SourceVars, DeleteVars,
         TreeVars, EditorVars, EngineVars, BrokerVars>>
OnlyEngine ==
    /\ part = "engine"
    /\ UNCHANGED <<part, ReplaceVars, CreateVars, UploadVars, SourceVars, DeleteVars,
         TreeVars, EditorVars, SSHVars, BrokerVars>>
OnlyBroker ==
    /\ part = "broker"
    /\ UNCHANGED <<part, ReplaceVars, CreateVars, UploadVars, SourceVars, DeleteVars,
         TreeVars, EditorVars, SSHVars, EngineVars>>

Next ==
    \/ OnlyReplace /\ Replace!Next
    \/ OnlyCreate /\ Create!Next
    \/ OnlyUpload /\ Upload!Next
    \/ OnlySource /\ Source!Next
    \/ OnlyDelete /\ Delete!Next
    \/ OnlyTree /\ Tree!Next
    \/ OnlyEditor /\ Editor!Next
    \/ OnlySSH /\ SSH!Next
    \/ OnlyEngine /\ Engine!Next
    \/ OnlyBroker /\ Broker!Next

vars ==
    <<part, ReplaceVars, CreateVars, UploadVars, SourceVars, DeleteVars, TreeVars,
      EditorVars, SSHVars, EngineVars, BrokerVars>>
Spec == Init /\ [][Next]_vars
-----------------------------------------------------------------------------
\* Uploads: one that skips leaves the file at the server, one that keeps a backup
\* never loses it, however often it is tried again (remote_commit.go).
\* Downloads: a whole file is at the target or set aside for it through every
\* failure, race and kill until undoing takes a file of others; a backup asked for is
\* kept until a rename does; and success is reported for a part that was renamed, with
\* no copy of the old file but the backup asked for (local_download_root.go).
CopySurvives ==
    /\ part = "upload" => Upload!SkipKeepsOriginal /\ Upload!BackupKeepsOriginal
    /\ part = "replace" =>
          Replace!CopySurvives /\ Replace!BackupKeepsOriginal /\ Replace!SuccessIsTrue

\* What reaches the server was in the local file at one moment, and its snapshot
\* is removed (upload_source_snapshot.go); a save keeps the file's mode and leaves a
\* private directory only when its removal fails (remote_edit.go).
SentIsOneMoment ==
    /\ part = "source" => Source!SentIsOneMoment /\ Source!SnapshotIsRemoved
    /\ part = "editor" => Editor!ModeKept /\ Editor!NothingLeft

\* Trees: a deletion stays inside what was picked (remote_delete.go); a folder is
\* queued as a whole or not at all, its files only into folders that were
\* verified, nothing where a link leads, and no place of the queue is lost
\* (tree_transfer.go).
TreeStaysInside ==
    /\ part = "delete" => Delete!NothingOutside
    /\ part = "tree" =>
          /\ Tree!PlacesKept /\ Tree!FoldersFirst
          /\ Tree!AllOrNothing /\ Tree!OutsideUntouched

\* Nothing of the user is replaced or dropped unasked: not by downloads that skip
\* what exists, not at the server by a save of what was opened before, not in the
\* editor by a close, a reload or a save that failed.
NothingDropped ==
    [][/\ part = "create" => Create!SkipReplacesNothingStep
       /\ part = "editor" => Editor!NoBlindOverwriteStep /\ Editor!DropsOnlyAskedStep
                             /\ Editor!FailureKeepsTextStep]_vars

\* What a call says has happened: an upload that succeeded has put its content at the
\* destination, a deletion that succeeded has left nothing, a
\* document counts as saved when it was read back, a folder as known while it is
\* a directory, and the jobs of a tree are queued on the connection of their walk.
SuccessIsTrue ==
    [][/\ part = "upload" => Upload!SuccessIsTrueStep
       /\ part = "delete" => Delete!SuccessMeansGoneStep
       /\ part = "editor" => Editor!ReadIsTrueStep
       /\ part = "tree" => Tree!KnownWhenDirectoryStep /\ Tree!SameConnectionStep]_vars
\* A session has its secrets and files as long as it is used, and no longer
\* (secret_broker_linux.go, dpapi_other.go); it runs its commands with a server that
\* shows the key that was accepted (openssh_session.go); and it is used by the transfers
\* that were asked for on its account and by no others, although workers take whatever
\* session is attached (engine.go, runAttempt).
SessionKeepsItsOwn ==
    /\ part = "broker" =>
          /\ Broker!NoLeak /\ Broker!UsedIsKept
          /\ Broker!WithinLimit /\ Broker!AnswersThePrompt
    /\ part = "engine" =>
          Engine!OwnSession /\ Engine!EnabledHasSession /\ Engine!DrainedLeavesNobody
    /\ part = "sftp" =>
          SSH!FilesAreOwned /\ SSH!LiveHasItsFiles /\ SSH!OnlyAcceptedServer
=============================================================================
