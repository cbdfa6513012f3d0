# Ghost FTP in TLA+

Specifications of this repository (a desktop FTP, FTPS and SFTP client in Go),
the TLC models that check them on small instances and TLAPS proofs for every
value of the constants.  Paths below are relative to the repository; `remote/`,
`desktop/` and so on stand for the packages under `internal/`.

* [The system](#the-system)
* [Modules](#modules) and how they correspond to the code
* [Runs, bounds and fairness](#runs-bounds-and-fairness)
* [Proofs](#proofs)
* [Disagreements found](#disagreements-found)
* [Not modelled](#not-modelled)
* [Plan](#plan)

## The system

| component | state | operations | correct when |
|---|---|---|---|
| transfer queue, `transfer` | jobs in order, their connections, reservations, counters, cancel functions, paused/accepting/closed, generation | reserve, commit, retry, cancel, clear, reorder, pause, resume, enable, disable, shut down; workers | no work of an ended connection runs, capacity and slots are exact, no wake-up is lost, draining means idle |
| queue events, same package | log of bounded length, sequence number; each window's copy | emit, poll, replay | a window that replays events has the queue's state |
| session manager, `remote/manager.go` | one session, one closing session, its context, the operations on it, a pending host-key prompt with secrets | Connect, Disconnect, CancelPendingTrust, Operation | Close waits for the operations, sessions never overlap, each secret has one owner and stays with its account, pins stay |
| transports, `remote/curl_ftp.go`, `sftp.go` | external processes, temporary files | list, upload, download, rename, delete | files have owners, only the accepted server is reached |
| uploads, `remote/util.go` and neighbours | part, rollback and backup files on the server, snapshot of the local file | snapshot, upload, revalidate, protect, activate, restore, clean up, recursive deletion | the destination is never partial, a whole copy survives, what is sent is one moment of the file |
| downloads, `remote/local_download_root.go` | part, placeholder, backup on disk | prepare, activate, restore | the same on the local side, across kills |
| state store, `config/store.go` | two generations of each file | Read, Write | an atomic, durable register |
| profiles, bookmarks, settings, `config` | lists over the store, key file, cache, older formats | load, save, remove, migrate | no acknowledged item is lost, secrets stay with their account |
| engine, `api` | the managers and the stores | everything the windows call: trees, remote edit, bundles, search, comparison | calls agree on the connection they began with |
| runtime secrets, `security`, `cmd/ghostftp` | handles in a broker, helper processes | protect, ask, forget, expire | a handle in use is kept, nothing leaks, prompts get what they ask for |
| Windows window, `desktop/*_windows.go` | panes, busy flags, generations, dialogs, goroutines | commands, results, polls | late results are not applied elsewhere, nobody is locked out, what is offered is accepted |
| Linux window, the rest of `desktop` | the same, with modal search and comparison, history, geometry | the same | the same, and a click reaches what is drawn |
| installer and removal, `cmd/installer`, `platform` | files, backups, registry values, shortcuts, helper | install, roll back, remove | a failed installation changes nothing, only what is the program's is removed |

They interact by calls and shared state.  A window calls the engine from
goroutines of its own and handles each result on its thread later.
`Engine.Connect` connects the session manager and then enables the queue;
`Engine.Disconnect` disables and drains the queue and then disconnects.  A worker
asks the session manager for the session (`Operation`) in every attempt and the
session's upload or download replaces one file.  Closing a session waits for the
operations on it; disconnecting cancels them by a context.  Profiles, bookmarks
and settings are read-modify-writes of one state file each.

What is hard: methods that look up the connection between two critical
sections; counters shared by goroutines that come and go; a disconnect that times
out and goes on; secrets that wait at a prompt or expire; commands whose answer is
lost; two jobs that replace one file; a crash between two renames; results that
arrive after the user has moved on; two tables that must agree on what a control
does.  `PROJECT.json` lists these hazards line by line, with the properties that
cover each, or with the reason why none does.

## Modules

A comment starting with `Mutant:` introduces a wrong version of the definition
after it, used to see that a property can fail.  History variables (`history:` or
`ghost:` where they are declared) are not in the code; they only state properties.

### The queue

**TransferQueue**, `transfer/manager.go`.  One action is one critical section of
`m.mu`.  `status`, `slot` and `jobConn` stand for `m.jobs`, its order and
`m.jobConnections`; `paused`, `accepting`, `closed`, `generation`, `reserved`,
`running`, `workers` and `cancels` are the fields of the same names.  `Callers`
enter the API: `ReserveBegin`, `LookupIdentity`, `Reserve` (or
`ReserveRefused`), `Commit` or `DropReservation` are `ReserveBatch` and the
reservation it returns, because `ReserveBatch` releases the lock to look up the
connection; `RetryBegin` to `Retry` are `RetryBatch`.  `CallerPump` and
`WorkerPump` are calls of `pump` outside the critical section before them, so a
pump that is due is a program counter.  A worker goes through `ExecuteBegin`,
`Acquire`, `TransferEnds`, `RetryDelay` and `FinishJob`, then pumps and leaves
(`WorkerExited`).  `DisableAndCancel` and `Shutdown` are followed by `WaitCheck`,
`WaitReturns` or `WaitTimesOut` of `waitWorkers`.  `born` and `epoch` are history:
how many disconnects had happened when the call that queued a job began, and how
many have happened.  They state what the generation numbers are for.

**QueueFeed** is the same manager seen by its clients: every method with exactly
the events it appends to the log (`emitLocked`; `Logged` appends them one by one),
the cut of a log that has grown past its capacity, `Events(since)` with its snapshot
for a client that is behind, what a client does with the events (`Replay`), and the
byte counters of an attempt (`progress.go`).  **WindowsQueue**
(`desktop/transfers_windows.go`) extends it with the Windows list, which replays
the events once a second and after each command, filters rows by tab, keeps the
selection by job and refreshes the panes once for each job that is done.
**LinuxQueue** extends it with the Linux list, which copies the jobs every time,
keeps one selected row and a paused flag of its own.

### Connections and secrets

**SessionManager**, `remote/manager.go`.  `opMu` is held during a whole Connect,
Disconnect or CancelPendingTrust, so one program counter is its holder's.  Connect
is `ConnectBegin`, `Resolve` (credentials become handles), for SFTP the scanned key
(`KeyRefused`, `AskForTrust` with `stashPendingTrust`, `KeyTrusted` with
`applyPendingTrust`), `OpenSession`, and `ProbeFails` or `Publish`;
`ConnectFails` is any failure in between.  Disconnect detaches the session
(`DisconnectBegin`), cancels its context, and waits; `CloserCloses`,
`CloserClears` and `CloserDone` are the goroutine `finishSessionClose`, which first
waits for the operations.  `rBlob`/`rOwned`, `pBlob`/`pOwned` and
`sBlob`/`sOwned` are the secret handles of the running Connect, the prompt and
each session, with the ones each must forget.  `stored` holds the handles that the
broker was given and not told to forget.

**SecretBroker** is that broker, `security/dpapi_other.go`: entries that expire,
its capacity, the AskPass helper of `cmd/ghostftp/main.go` as a process that
unlocks the handles it was started with and then answers the prompt, and FTP's
in-memory store (`runtime_secret_other.go`), which does not expire.  `Tick` divides
the time to live; a session asks at the latest when its helper is started.

**SftpSession** (`remote/sftp.go`) has the files a session keeps on disk, from
the scan of the host key to `Close`, with a construction that fails at any file,
removals that fail, a kill, commands that outlive their disconnect, and the sweep
of stale files on Windows; of several best keys in a scan it may choose any.  **ProfileBinding** (`profilebinding`,
`config/profiles.go`, `api/profile_bundle.go`, `remote/manager.go`) has what a saved
site keeps when it is edited, imported, connected or pinned: a stored secret *is* the
account and key it was typed for, so that a property can ask whose it is.

### Files on both sides

**RemoteUpload**, uploads that replace one remote file.  `base` is the
destination, `part[j][n]` and `kept[j][n]` the part and the rollback or backup copy
of attempt n of job j (names are random, so each attempt has its own).  `ListFirst`
and `Put` are the first half of `Upload`, `Revalidate` is
`revalidateRemoteCommit`, `Protect`, `Activate` and `Restore` are
`commitRemoteTemp`, `Clean` and `CleanFindsNothing` are `cleanupFailure`,
`Unprotect` is `committedCleanupFailure`, and `AttemptEnds` is the loop of
`execute`.  Every command succeeds, fails, or is carried out although its answer is
lost.  `Replaces` says whether the server's rename replaces a file, `Lists` whether
its listing shows the destination.

**UploadSource** (`remote/upload_source_snapshot.go`): the local file is copied
block by block, read again, compared, sent and verified, while others write the file
or the snapshot between any two blocks.  **LocalDownload**
(`remote/local_download_root.go`) has a part for each attempt, the sentinel, the
placeholder, the backup, the activating rename and `restoreRootBackup` with its hard
link, for several jobs, another program and a kill at any point; an undo looks at the
target in one step and removes it in another, and any removal may fail.  The history
`overrun` says that an activating rename has replaced something else than its own
placeholder, `replaced` that an undo has replaced or removed a file of others.  **RemoteDelete**
(`remote/util.go`, `curl_ftp.go`) is the recursive deletion as a stack of
directories with the guard's limits, links, hidden files and the fall from MLSD to
LIST.  **TreeTransfer** (`api/tree_transfer.go`) plans a folder, reserves places,
prepares its directories one by one and commits; locally a directory is an open
object with an identity, remotely a path; folders are found in any order in which
a parent precedes its children.  **RemoteEdit** (`api/remote_edit.go` with both
editors, `windows` says which) has open, save and reload as the requests they make,
with changes by others between any two, and private directories whose removal may
fail (`stuck`); **SharedAlgorithms** has what happens to line
ends and modes.

### Stores

**StateRegister** is what a state file promises: one value, replaced as a whole,
durable once acknowledged.  **StateStore** (`config/store.go`) has the two
generations: `visible` is what a read finds and `limbo` is what a crash may leave of
each entry, because a rename is durable only after the directory is synced.
`WriteBegin`, `RenamePrevious`, `SyncPrevious`, `RenameCurrent`, `SyncCurrent`
and `WriteReturns` are the steps of Write; `WriteFails` is a failure before any of
them; `Crash` is the machine stopping; `Damage` is what happens to the files from
outside.  `AtomicRegister` states the refinement: the register's value is what Read
answers, and what may be found after a crash is what Read would answer for some
outcome of both entries.

**ProfileStore** (`config/profiles.go`, `profile_crypto_other.go`) has the sealed
document in both generations with a read that falls back to the previous one, the key
file, the two older formats, the migration, and faults, kills and crashes between any
two of their steps.  The history `forgot` says that a read missed the newest file and
something was written after it, `weak` that a key is in use which a failed or killed
creation left behind unsynced.  **Bookmarks**
(`config/bookmarks.go`, `api/bookmarks.go`) has the collection with both
generations, a read that misses the current one, and opening a bookmark while the
connection changes; the history `missed` says that such a read has been written
back, which is when the previous generation is needed.  **SettingsRules** (`config/settings.go` and the three panels)
has normalisation, migration and validation as operators, and the editors' steps;
**SettingsWriters** has the cache, the file and the windows that write whole
records from copies of their own.

### Listings

**SharedAlgorithms** is `Compare` on two listings as a pure function, with times
that may be unknown or saturate, and the conversions of an edited file.  **FileSearch** is `Walk`: breadth first, with
limits on depth, entries, results and time, in batches; `to` is the window that takes
the batches, because only one of them refuses what comes after a cancel.  **PaneView**
is what a pane shows: the last listing, filtered and sorted (`itemlist`), in both
windows, and in the Linux window what closing or leaving a search brings back.

### The Windows window

**WindowsConnection** (`connection_profiles_windows.go`): each engine call is a
goroutine whose result is handled later in any order; `gen` is
`connectionGeneration`, `busy` `connectionBusy`, `dialog` the modal window open; the
health check, the trust question, Disconnects that are repeated or confirmed late, the
site manager's test and the closing of the window are included.  `owner` is the call
whose session is shown; the history `taken` has the sessions that a Disconnect of an
earlier generation or a test has ended, `overlapped` says that there was such a call.  **WindowsPanes** (`files_actions_windows.go`): navigations,
questions, changes, transfers that finish and disconnects on two panes; a directory's
content is a version number.  A change may be carried out with its answer lost, and
takes its directory before or after the question as the code does; `missed` says that
the pane was not listed again after a change.  **WindowsCompare**
(`directory_compare_windows.go`): the comparison beside listings and
disconnects.  **WindowsControls** (`action_state_windows.go`,
`master_workspace_windows.go`, `commands_windows.go`): the tables of what is shown
and enabled as the last update left them, the sidebar's buttons included, against what
the handlers accept now.

### The Linux window

**LinuxWindow** (`gui_linux.go`, `gui_linux_actions.go`,
`profile_start_linux.go`): one goroutine at a time, profiles, edited hosts, the
trust question, prompts, confirmations (with the setting that turns them off) and row
commands.  The text of a path field and the directory of a pane are one variable, as in
the code, so typing moves the directory under the rows; `typed` remembers that.  **LinuxModal**
(`recursive_search_linux.go`, `directory_compare_linux.go`): search and comparison
that own the panes, their goroutines, the result channel and the busy flag.
**LinuxHistory** (`linux_master_rail.go`): Back and Forward.
**LinuxBookmarks** (`bookmark_linux.go`): the bookmark manager as a viewport over a
copy.  **LinuxLayout**: every rectangle of the window as the code computes it,
once for drawing and once for hit testing.

### Installation

**InstallTransaction** (`cmd/installer`): pin the folder, back up, snapshot the
registry, stage, activate, record, register, commit, or roll back in reverse, with
failing steps, another program's writes and a kill.  **AppRemoval**
(`platform/integrated_uninstall_windows.go`, `shortcut_windows.go`): shortcuts with
recorded digests, registrations, and the helper process that removes the program
after its parent has left.

### Composition

**Engine** (`api/engine.go`) puts the queue and the session manager together.
Its steps are those of TransferQueue and SessionManager; a job of the queue is an
operation of the session manager.  `Connect` is followed by `Connected` and
`Enable` or by `ConnectFails`; `Disconnect` and `Close` by `Drain`, `Drained`,
`Leave` and `Left`; a worker's attempt takes the session that is attached at that
moment (`Attempt`) and gives it back when its transfer ends (`AttemptEnds`).

**MCTransfers**, **MCStores**, **MCWindows**, **MCLinux** and **MCEnds** put
components side by side for TLC.  `part` names the component a behaviour is about,
the others keep one value (`Unused`), so the behaviours of such a module are those
of its components one by one, each on its own small instance, and a property
is a conjunction of the components' properties, each under its `part`.  They do
not compose: what components do to each other is in Engine, in the modules that
have several actors, and in the abstract neighbours of the others (a session
that may go at any time, a file that others write).

## Runs, bounds and fairness

| run | question | bounds |
|---|---|---|
| `queue_parallel` | are slots, workers and reservations exact, and is every pump due? | 3 job ids, 1 caller, queue of 2, 2 slots, 1 retry, 2 generations |
| `queue_liveness` | do the methods with two critical sections race safely with disconnect and reconnect, is history kept, do stops and drains end? | 2 ids, 2 callers, queue of 1, 1 slot, 2 generations |
| `session_secrets` | who owns each secret, on every path through Connect? | 1 session id reused, 2 accounts, 2 keys, 4 handles |
| `session_lifecycle` | do close, disconnect and operations race safely, and end? | 3 sessions, 3 operations |
| `store_crashes` | are the two generations an atomic durable register? | 3 values, 2 damages, any number of writes and crashes |
| `upload_race` | what survives when two uploads replace one file? | 2 jobs, 2 attempts each, rename replaces |
| `upload_retry` | violation, see below | 1 job, 2 attempts |
| `transfers` | files on both sides, trees, remote editing, secrets and host keys, the engine | below |
| `stores` | profiles, bookmarks, settings, setup and removal | below |
| `windows`, `linux` | the two windows, the algorithms they share, the conversions of an edited file | below |
| `ends` | what must come to an end | below, smaller |

*Queue.*  A race needs one call between its two sections, one disconnect and one
reconnect: `MaxGeneration = 2` gives every order of one disconnect and one enable
around two callers.  More job ids than the queue holds make capacity bite, and an
id that no data refers to any more stands for a new random id, so jobs can be
added without end.  `MaxUnwinding` bounds the goroutines that have finished a job
and not left yet; one suffices for a pump or an exit to be late.  The bounds are
guards of the model, so the theorems hold for any value of them.

*Session.*  `session_secrets` has one handle more than Connect, prompt and
session can need for the two kinds.  `session_lifecycle` has three generations of
sessions so that a disconnect, a connect and another disconnect can overlap with
a late close.

*transfers.*  Four attempts of one upload (the largest `AutoRetryCount` and one);
two downloads with two attempts each, another program's file and a kill; three
blocks of a source and three writes of it; a deletion of three items; a tree of
four nodes with room for two jobs; one editor with two changes by others and three
calls; three attempts of an SFTP session against three host keys of two
strengths; three secrets in a broker for two; for the engine one goroutine of
the window, one job that is queued, retried and queued again, two accounts and
two sessions: account, session and job can each be the one before.

*stores.*  Two profiles, two generations of the key file and two faults, so that a
failed creation can meet a crash, or a missed read another; four saves of three
bookmarks with two faults, so that a missed read can meet damage or another; two
saves with four changes of the connection; one site with three spellings of two
hosts; every setting with the values on both sides of its limits, two or
three of them edited at a time; two writers with two failures; setup with three
failing steps, two changes by another program and two kills; removal with two
shortcuts, three setups, two failures and three changes by the user.

*windows* and *linux.*  Two directories and three to six clicks, each with a
result that may come at any time: the shortest known mistakes need a call, a
change of the connection and a late result.  Six are for the connection of the Windows
window, where a Disconnect has to outlast the next Connect, and for the main part of the
Linux window, where a path is typed between the question and its answer.  Windows' event log is cut to two
entries when it grows past three, Linux' always to the last one.  The bounds of
*windows* and *linux* are constants of MCWindows and MCLinux and named in their cfgs.
`Cap = 1` for the result channel makes it full at once.  The geometry is
checked for the smallest window, odd sizes around the breakpoints of the code,
and large ones.  The conversions get every text of up to `MaxText` characters and
every mode.  The comparison gets listings with sizes, links, duplicates and
unknown, close and distant times on either side, the search every combination of
small limits and limits beyond the hard ones.

*Deadlock* is not checked where the system may stop: a queue at the bound of its
generations, a finished upload, a component whose clicks are used up.  It is
checked for the session manager and the store.

*Fairness.*  Safety runs use `Spec` without fairness.  `queue_liveness` assumes
weak fairness of a goroutine's next step (the Go scheduler runs every ready
goroutine), and that a transfer ends once its context is cancelled (the
transports kill their processes on cancellation); a transfer that is not cancelled
may last for ever.  `session_lifecycle` assumes the same of the closing
goroutine and of `context.AfterFunc`.  `ends` assumes that the engine calls a
window has started are scheduled and answer (most are given a context with a deadline),
that the window's thread handles a result that is there, and that an update timer
fires: `Works` and `Answers` are the fair actions of each component.  Nothing is
assumed of the user: a question may stay open for ever, and then nothing is
claimed.

## Proofs

All theorems are of `Spec`, without fairness, for all values of the constants
that satisfy the modules' assumptions: finitely many jobs, more ids than the
queue holds, and special values that are different from each other.

*TransferQueueProofs.*  The invariants the runs check are not inductive.
`Ownership` (goroutines, cancel functions and cancelled contexts belong to the
running jobs, reservations hold what is minted) makes `SlotsAccounted` and
`WorkersAccounted` inductive: a counter is compared with the cardinality of a
set, and `PumpEffect` is shown to move both alike.  `CapacityRespected` needs that
open reservations are disjoint and hold exactly the minted jobs; together they
are `CountersAreExact`.  `NoLostWakeup` holds because each step that frees a
slot, adds a job, raises the parallelism or resumes leaves a pump due, and a pump
leaves no free slot beside a queued job.  `DisconnectEndsWork` needs
`GenerationBindsEpoch`: a caller between two sections whose generation is still
current has seen no disconnect.  `DrainedMeansIdle` needs `DrainStays`: while the
generation a waiting caller captured is current the queue does not accept work,
so workers only leave.  `SettledStaysSettled` is an action property: `Ownership`
says that the job which finishes is running and that what a reservation drops or
commits is minted, and `ShutIsQuiet` that a queue which was shut down holds
nothing that could start.

*SessionManagerProofs.*  `LifeInv` ties each session's life to `session`,
`closing` and the goroutine that closes it, and gives `SessionIsExclusive` and
`DisconnectIsHonest`; `Typed` counts the operations; `SecretInv` names the one
holder of each handle (`ResolvedSecrets`, `PromptSecrets`, `SessionSecrets`,
`OneHolder`) and gives `NoSecretLeaks` and `SecretsStayWithSession`.
`PinnedKeyStays` follows from what the running call has accepted.

*StateStore* (the end of the module).  The refinement `Spec => AtomicRegister` needs three facts:
Write keeps the document that Read would have found (`KeepsCurrent`), the new
value is in place before the last sync (`InPlace`), and nobody writes JSON of
another type into the files (`NoForeign`, from the assumption
`Foreign \notin Damages` of the theorem; the first disagreement below shows that
it is needed).  Keeping the current generation as previous is then invisible to
every outcome of a crash, and activating the new one is the register's
`TakeEffect`.

*RemoteUpload* (its proofs stand in the module itself).  `CopySurvives` is not inductive: a rollback copy that is
about to be removed may be the only whole file in a state that no run reaches.
`CopyInv` asks for a copy that is not about to be removed (`Lasting`) or a whole
destination; the job that removes a copy has just put a whole file at the
destination, and whoever moves that file away keeps it.  `PartInv` says that the
part is whole exactly while it is being committed, which gives
`DestinationWhole` and, with the result of the cleanup, `PartsAccounted`.
`AloneInv` follows an upload that nobody else disturbs (`OneUpload`) from attempt
to attempt: a rollback copy is made once per attempt, and nothing is renamed over
the destination but over an empty name or the upload's own file.  It gives
`BackupsKeepOriginal`, which needs `Lists` as well, because a destination that the
listing hides is overwritten unprotected.  `SkipInv` gives
`SkipsKeepOriginal` for any number of uploads that all skip.  Without these
hypotheses the code does lose the original (disagreement 9 and the last paragraph
of the next section), so they are part of what is true, not of the proof.

*TransfersProofs.*  The constants of MCTransfers are the sizes of its components, so
a theorem about it holds for components of any size, each alone.  `PartSteps`
splits a step of the suite into the component's own, and `TransfersInv` is the
conjunction of one inductive invariant per component:

* `ReplaceInv`, `CreateInv` (LocalDownload, with and without a file at the start):
  the part of the attempt a job is at is whole while it is activated, and a copy is set
  aside only from then on (`JobOwns`), so a whole file is at the target or set aside, and
  not about to be removed, until an undo replaces or removes a file of others
  (`CopyIsSomewhere`); parts of earlier attempts may stay, and nothing is said of them.
* `SourceInv` (UploadSource): every write puts a new value into a block, so blocks
  only grow.  What was read in one pass is no newer than the file, and during the
  second pass some past content lies between the two reads of every block
  (`Between`); when they agree, that content is what is sent (`SendsMoment`).
* `DeleteInv` (RemoteDelete): each directory on the stack is inside what was picked,
  with only its own entries still to go, whatever tree and links the server has.
* `TreeInv` (TreeTransfer): the plan has every folder that the walk found, every
  directory before the one being prepared is known, one place is held for each
  file and none after the commit, and no link leads to an object made here.
* `EditInv` (RemoteEdit): while a save is between its requests the file has the
  revision it compared with or the race has been recorded; what it sends is the
  text; a document that is open has its private directory, and one more is left only
  after a removal has failed.
* `SSHInv` (SftpSession): one connection is made at a time, files are those of
  sessions that were begun, and every `known_hosts` in use has the pinned key.
* `BrokerInv` (SecretBroker): each token was drawn for one secret of one session,
  what is stored is what sessions still own, and a secret lasts from when its
  session began or a prompt was answered (`LastsInv`), also for what a helper has
  still to ask for (`HelpersInv`).
* `EngineInv`: no session is replaced while the queue accepts jobs (`LinkInv`);
  while it does, every job that is queued or runs with a live context is of the
  attached session's account (`WorkInv`), because what a caller has looked up stays
  true as long as the generation is the same (`AskInv`); and workers are
  counted until they have gone (`CountInv`), so a drained queue uses no session.

`CopiesSurvive` and `SuccessSaysWhatHappened` take `OneUpload` and `Lists` for the
uploads, as above; `NothingIsDropped` takes `~Long` (disagreement 12).  Engine
has one goroutine of the window, as in the run (disagreement 1).

*StoresProofs.*  The constants of MCStores are sizes as well, and sets of profiles,
keys, sites, hosts, users, accounts and links of any size.  `StoresInv` is again one
inductive invariant per component:

* `ProfileInv` (ProfileStore): for every document, previous generation, older file and
  key that a crash may leave, what is found holds what was kept and nothing that is gone,
  until a missed read was written over or a key is used that was never synced
  (`Unforgotten`, disagreement 11); the quantifier over the four outcomes together is
  what makes it inductive.  `ListOk` says that the
  list of a running call holds it too, `DocumentOk` that a call which writes has read
  the document, or found none, and `KeyOk` that a key which may vanish in a crash
  seals nothing yet; one key seals both generations (`OneKey`).
* `BindingInv` (ProfileBinding): everything a stored site keeps was typed for the
  account and key it names *now* (`SiteOk`), also in the copy that a connection has
  read; whatever is entered, `WrittenIsOk`.  Together with what a connection attaches
  with this gives `SecretsBelong`, `OwnSecretsOnly` and `PinHolds`.
* `MarksInv` and `VisitsInv` (Bookmarks): a write that is under way holds what was
  acknowledged, or a read was missed for it and the file still does until it has been
  copied (`PendingKeeps`); the rows of a visit were listed through a connection whose
  number lies between those seen before and now.
* `RulesInv` and `PolicyInv` (SettingsRules, twice, for the options edited in either
  part): what is stored is canonical and an open editor differs from it in what was
  touched only (`EditorOk`).  Under it lie facts about the operators: normalisation
  makes any settings canonical (`NormalizeIsCanonical`), filling in and migrating change
  nothing valid (`SetResultFacts`), a step up a limit and back returns
  (`StepsReturnFacts`, from the order of the presets), and the share of one slot times
  the slots stays within the limit in bytes and in kilobits (`ShareFacts`).
* `WritersInv` (SettingsWriters, without the site manager, see disagreement 14): one
  write at a time, which carries the store's values in every field the user has not
  changed (`CallOk`).  That settings take effect only once they are on disk holds
  with the site manager too (`ManagerStoresFirst`).
* `InstallInv` (InstallTransaction, with the folder pinned, see disagreement 26): which
  file is at the path at each step as long as nobody else writes (`FileFollows`), how
  long a check holds (`CheckHolds`), and which registry values are written or restored
  so far (`RegistryFollows`).
* `RemovalInv` (AppRemoval): a shortcut of the program is about to be made, recorded or
  reported, and one the uninstaller has passed is gone or reported.

The action properties follow from the same invariants, step by step: a document is
replaced only by a call that has read it, one bookmark is the difference between what
a call read and what it writes, and the program is deleted only as it was verified.

*WindowsProofs.*  The constants of MCWindows are the numbers of clicks, calls and
jobs, the directories and the sizes of the log.  `WindowsInv` is one inductive invariant per
component:

* `LinkInv` (WindowsConnection): only one call of the current generation changes the
  connection, and saves stay apart from attempts, connections and the closing of the
  window.  `OwnInv`: the session shown, and that of an answered connect of this
  generation, is the engine's or was taken by a Disconnect of an earlier generation or
  a test (`Holds`), and neither is under way unless one has overlapped (`OwnFits`).
* `PanesInv` (WindowsPanes): a change begins on the connection it was asked on, one at
  a time in a pane (`PanesChanges`); and a pane shows what is in its directory, or a
  listing or a finished change that will show it is still on its way (`Shows`).
  `WhereInv`: a pane that was asked about with no other directory on its way stays
  where it is (`Stays`), so the change is made there.
* `QueueInv` (QueueFeed, WindowsQueue) in two halves.  `FeedInv`: every method of the
  queue says what it does (`FeedStep`, `Says`), that is, its job events replay to the new
  list, or its last event is one of the state, after which a client reads the list
  itself; and the log is the end of all that was ever said (`EndsIn`), however it has
  been cut.  `WinInv`: the window's list and the events it has still to read give the
  queue's list (`Caught`), and a log that was cut between them shows only jobs that are
  there (`CutShowsLess`).  The panes' refreshes are counted (`SeenInv`), and
  the window's connection goes with what the queue accepts (`JoinInv`).
* `CompareInv` (WindowsCompare): listings and comparisons have numbers that only
  grow, and closing takes the next one, so an answer with the current number is that
  of the pair of directories shown.
* `ControlsInv` (WindowsControls): the two tables are those of the flags, because every
  handler that changes a flag updates them.

*Induction.*  The library's induction theorems take an operator as a parameter, which
the provers cannot instantiate.  Where the data is a sequence of events, WindowsProofs
proves the principle itself for a set of numbers (`Induction`: a set with 0 and every
successor is Nat, from the least number outside of it) and uses it for the three
functions of QueueFeed: what `Replay`, `Logged` and `InOrder` do to a log of any length.

*LinuxProofs.*  The constants of MCLinux are the servers, the directories, the sizes
of the queue, of the history and of the result channel, and the numbers of clicks.
The four theorems are the invariant (`LinuxInvariant`), `ModalHoldsWindow`,
`ActsWhereSeen` and `StepsAsAsked`.  `LinuxState` is one inductive invariant per component:

* `FoundState` and `PairsState` (LinuxModal, twice, for the searches and for the
  comparisons): one predicate `State` of the window, its goroutines and its channel.  The code
  settles a window once per frame (`render` runs both reconcile passes), so what holds
  between frames (`Good`: a modal view makes the window busy, a comparison's rows are of
  its base) is more than what a handler leaves to the next frame (`Ready`).  The
  proofs go handler by handler to `Ready`, and one lemma about the frame
  (`Settles`) takes every one of them to `Good`.  That a
  busy window has a modal view, a goroutine or a result to wait for is part of it.
* `HistoryState` (LinuxHistory): no entry of the stacks is of the server unless the
  window is connected (`OnServer`), neither stack has one entry twice in a row, and a
  replay under way is the refresh that is running, or of text that the listing
  answers under another name (`Replaying`).
* `MainState` (LinuxWindow): the rows of the server are of the engine's session, and of
  the directory in the field unless one was typed; a running change began on the rows that
  are still there (`Sound`).  The local rows, and the base that a profile start falls back
  to, are of the directory in the field, unless one was typed (`LocalKept`).
* `MarksState` (LinuxBookmarks): the selection lies in the viewport (`Viewport`), the
  list shown is the sorted store unless its last reading failed (`MarksFresh`), and a
  confirmation is of the bookmark the question named (`MarksNamed`).  Sorting is defined by
  ranks, and `SortedAre` proves that it lists every bookmark once, for any finite set of them.
* `QueueState` (LinuxQueue): the list is what the queue's list was before new jobs joined it
  (`Grew`), and the selected row is the job that was selected, through every reordering.
* `SearchState` (FileSearch): a search has a list of what it has handed over; each step
  of a cancelled one leaves it, or, for the Linux window, appends what had been found.

Two things in MCLinux were changed for these proofs, neither of which checks less: its bounds
became constants, and its invariants were divided into what the user acts on
(`ActsWhereSeen`) and what is computed (`RowsAreTrue`).

Only model-checked: the liveness properties, `StopIsHonoured` among them (temporal
reasoning with fairness and ENABLED is outside the prover), `NothingHangs` of MCEnds, which
is one of them, and the invariant `RowsAreTrue` of MCLinux.  It contains the geometry of some
sixty controls, products and quotients of the
width of the window among them, in which the prover's arithmetic does not come to an
end; the search through a tree, stable sorting and the conversions
of texts, where a proof for every input is an induction over the data in each.

## Disagreements found

`upload_retry` is a run.  The others were found by TLC in the same way, with the
module and the property named; where that property is stated in the module and
kept by no run, its comment says so.  Each is a place where the code does
something else than a comment, a text or a document of the repository says, or than
a user of what is shown would take from it; the properties that the runs check and the
theorems prove hold up to these, and say so.

Queue, connections and accounts:

1. `Engine`: with two calls at a time, `OwnSession` fails.  `Disconnect` disables
   the queue and then waits for `opMu`, which a `Connect` holds
   (`api/engine.go:105`, `:94`).  That `Connect` attaches its session and enables
   the queue, jobs are queued, and the `Disconnect` then takes the session away from
   the enabled queue.  The next `Connect`, to another account, finds those jobs
   queued (`Enable` cancels nothing) and a worker sends them to its server.  No
   document promises otherwise and both windows keep the two calls apart while
   busy, so the run has one calling goroutine.
2. `WindowsConnection`, `NeverTrapped`: `disconnectNow` drops the result of an
   attempt that has passed its last use of the context; the session is attached, the
   window shows none, Disconnect is disabled and every later Connect is refused
   (`connection_profiles_windows.go:304`; `:98` says that users are never trapped).
3. `WindowsConnection`, `TestIsIsolated`: the connection test logs in through the
   engine's one session and ends whichever session there is afterwards
   (`site_manager_windows.go:901`; `:919` tells of "an isolated temporary login").
4. `ProfileBinding`, `PinBelongsToEndpoint`: between the scan of a host key and the
   saved pin the profile may be given another endpoint, which then carries the old
   one's key (`remote/manager.go:426`; `config/profiles.go:271`).
5. `LinuxQueue`, `PausedShown`: the Linux window keeps a paused flag of its own, which
   a reconnect or a failed disconnect leaves behind (`queue_actions_linux.go:15`;
   `api/transfer_snapshot.go:13`).
6. `WindowsConnection`, `ConnectedHasSession` without its second half: a Disconnect
   that is repeated while the first is under way, or confirmed after its question has
   stood open, does not look at the busy flag again
   (`connection_profiles_windows.go:303-337`).  `Engine.Disconnect` takes whichever
   session there is (`api/engine.go:105`), so of two that overlap the late one ends the
   session of the next Connect, and the window goes on showing it as connected until its
   health check fails.  The property says that nothing else does this: a session that is
   shown and not there was taken by a Disconnect of an earlier generation or by the end
   of a test (item 3), once one of these was begun.

Files:

7. `upload_retry`: `commitRemoteTemp` checks only the removal of the part.  A
   protecting rename that is carried out with its answer lost, or a failed
   restore, leaves the original under its rollback name and the attempt is
   retried (`remote/util.go:489`); `remote_cleanup_hardening.go:9` says that this
   must not happen.  The next attempt sees no destination, so the rollback copy
   stays on the server after a success, unreported.
8. `StateStore` with `Foreign` among the damages, `RecoveryPointKept`: `Write` keeps
   a current generation that is any valid JSON, also of a type that `Read` cannot
   decode, so the last generation that decodes is overwritten before the new one
   is durable (`config/store.go:326`; the comment at `:323` promises a recovery
   point).
9. `RemoteUpload` with `Lists = FALSE`, `SkipKeepsOriginal`: where the listing hides
   the destination (dot files under a plain LIST) an upload that skips existing
   files overwrites it (`remote_commit_revalidation.go:41`; `settings.go:106`).
10. `LocalDownload`, `RestoreReplacesNothing`: `restoreRootBackup` falls through to
    Rename whenever Link fails, also when the target exists again, and replaces what
    another download has put there (`local_download_root.go:230`; `:220`).
    `BackupAlwaysKeepsOriginal` of the same module fails with three downloads of one
    file: j sets the original aside, k has checked its placeholder, i moves that
    placeholder away, j's restore links the original back, and k's activating rename
    overwrites it (`README.md:70`, "backup before overwrite").  So
    `BackupKeepsOriginal` is checked and proved up to such an `overrun`.
    Undoing an activation compares the target with the placeholder and then removes it by
    name (`:319-320`): a file of another program that comes between the two is removed.
    `CopySurvives` is checked and proved until an undo has `replaced` or removed
    something of others.  `NothingLeftBeside`: every attempt draws a new name for its part,
    and the removal of a part is not looked at (`:158-163`), so a download that succeeds on
    a second attempt may leave the part of the first beside the file.  `SuccessIsTrue`
    says what success promises all the same: the part of that attempt was renamed, and what
    it had moved away is removed unless it is the backup.
11. `ProfileStore`, `AcknowledgedIsFound`: `Store.Read` answers the previous generation
    when the current one fails to be read for a moment (`config/store.go:146-155`), and
    the next write, a removal or only the migration that a listing makes of an unsealed
    previous generation, replaces profiles that were acknowledged; a legacy file that a
    read misses counts as empty and is removed after it (`config/profiles.go:81`).  A key
    file whose creation failed after it was written, and whose removal failed too, or one
    whose process was killed before the sync, is taken as a good key by the next save
    (`profile_crypto_other.go:173-203`); a loss of power then leaves a sealed document
    without its key.  Bookmarks lose an acknowledged one by two missed reads in the same
    way.  `NothingLost` and its neighbours hold until such a read was written over
    (`forgot`) or such a key is used (`weak`), `SavedIsKept` until the second read missed.
12. `RemoteEdit` with `Long = TRUE`, `UntouchedIsKept`: the Windows editor turns each
    line end into two units and gives back at most 4 MiB of them, so a file just below
    the limit is saved without its tail (`text_editor_windows.go:65`;
    `remote_edit_words.go:43`).
13. `RemoteEdit`, `NeverLeft`: a private directory whose removal fails stays with the text
    of the remote file in it, and nothing is said of it or tried again
    (`api/remote_edit.go:69-83`).  `NothingLeft` is kept up to such a failure.

Settings:

14. `SettingsWriters` with the site manager or the first load beside a change of the
    language, `NoStaleWriteStep`: the last writer restores the other's old values
    (`site_manager_windows.go:1205`, `settings_windows.go:24`;
    `localization_windows.go:253` says the entry points are locked).
15. `SettingsWriters`, `SyncOptionsObeyed`: the sync options set two flags that
    `SettingsStore.Set` derives again from the conflict policy, so the mark changes
    nothing (`site_manager_windows.go:1250`; `RELEASE_NOTES.md:35`).

Windows window:

16. `WindowsControls`, `EditOffered`, `SearchOffered`, `ArrowsWork`: the remote editor,
    CHMOD and the recursive search are hidden in every layout and started by no key,
    and nothing records a navigation, so Back is never enabled
    (`master_workspace_windows.go:323`, `recursive_search_windows.go:275`,
    `master_workspace_windows.go:57`; `README.md:90`, `:91`,
    `master_workspace_windows.go:429`).  The other way round, some controls are offered
    and do nothing (`OfferedInVain`): the red Cancel that stands in the place of Connect
    while busy, and without a connection ready for use the sidebar's Sync
    (`sidebar_windows.go:87-93`, `:454`; `directory_compare_windows.go:337`) and the Up of
    the remote pane (`files_actions_windows.go:121-123`, `:173`).  `OfferedActs` is of all
    other controls.
17. `WindowsPanes`, `ChangesWhereSeen` without its exception: a new folder, a deletion and
    a local rename take their directory after the question
    (`files_actions_windows.go:228`, `:257`, `:300`, `:361`, `:419`), under which a listing
    that was already on its way is handled.  The deletion then takes the names that were
    picked in one directory out of another.  A remote rename and a permission change take it
    before.  `ChangesWhereSeen` says that nothing else than such a listing leads a change
    elsewhere.  A remote change that was carried out although its answer was lost, or whose
    answer finds that something else had been opened, does not list the pane again
    (`:496-507`), so the rows stay as they were: `RemoteFresh` is kept up to such a change
    (`missed`).

Linux window:

18. `LinuxModal`, `RowsAreListed`: a result that is navigated to ends the search before
    its directory is listed; when that fails, found rows stay in the pane and row
    commands act on them (`recursive_search_linux.go:419`; `:200`).
19. `LinuxModal`, `WakeOnlyWakes`: the empty result of a closed comparison ends the busy
    state of an action started since (`gui_linux.go:1055`;
    `file_filter_linux.go:161`).
20. `LinuxWindow`, `VerifiedIsListed`: selecting a profile again makes a path that could
    not be listed the verified local base (`profile_start_linux.go:117`; `:150`).
21. `LinuxWindow`, `ProfileStartsOwn`: a host that is edited during a connect is opened
    later in the directory the old server was navigated to
    (`profile_start_linux.go:136`; `:87`).
22. `LinuxWindow`, `ChangedWhereSeenTyped`, `DeletedOnAskedServerStep`: the path fields are
    the directory of the pane (`gui_linux.go:385-388`), so after typing a path, and before
    it is listed, row commands act on the names shown in the directory typed
    (`gui_linux_actions.go:202-223`, `:286-291`), and a typed local path becomes the
    verified base as in item 20.  The confirmation of a deletion has the directory and the
    name but not the server (`:257`, `:284`): asked on one server and pressed again after a
    reconnect, it deletes on the other.  `ChangedWhereSeen` is kept for paths that were not
    typed, and for the server always; `DeletedWasAskedStep` for the side and the directory.
23. `PaneView`, `AlwaysInOrder`, `RowsAlwaysTheListing`: closing a search filters the listing
    again and does not sort it (`recursive_search_linux.go:344-356`), so the pane shows
    another order than the one chosen until the next listing or filter; the rows of a result
    that was navigated to stay until its directory is listed (item 18).
    `RowsAreTheListing` is of panes that were not left so, `OrderIsFixed` and `KnownFirst`
    of panes no search was closed in since.
24. `FileSearch`, `CancelShowsNothingStep`: a cancelled walk hands over the batch it has
    begun (`filesearch/walk.go:63-67`, `:85-89`).  The Windows window refuses it, the Linux
    window looks at its own state and not at the context, and shows it after "Cancelled"
    (`recursive_search_linux.go:130-145`, `:328-342`).  `CancelIsQuietStep` says that this
    is all: the rows found so far, once, at the end.

Setup and removal:

25. `InstallTransaction`, `BackupSurvives`: the backup is removed also after a rollback
    whose replacement failed (`cmd/installer/main.go:430`; `transaction.go:498`).
26. `InstallTransaction` with `Pinned = FALSE`, `RollbackRestores`: the activation is
    not recorded when the folder cannot be verified just after it, and the rollback
    leaves the new program (`transaction.go:333`; `:337`).
27. `InstallTransaction`, `RegistryRestores`: the App Paths key is untracked and removed
    by a rollback that found no program (`main.go:421`;
    `registry_snapshot.go:112`).
28. `AppRemoval`, `ProgramRemoved`: the helper may give up after the registrations are
    gone, and the program stays (`integrated_uninstall_windows.go:273`; `:348`).

Seen while modelling, against no promise: with the skip policy two racing uploads
may both find no destination, and with the backup policy and renames that replace,
one job's restore can cover another's new file, which is why `SkipKeepsOriginal`
and `BackupKeepsOriginal` are checked for one job.  A client of the queue whose
first poll comes after the log was cut gets the tail without its jobs; `Shutdown`
emits no events.  A read-back that fails after an upload makes the editor's next
save conflict with its own write.  A comparison whose result comes after a
navigation stays loading until it is closed.  A Linux bookmark takes the path
field's text, which still names the last server's directory just after a connect.
A crash or a kill leaves `.bak` and `.tmp` files.

## Not modelled

* External processes: finding, verifying and killing curl and OpenSSH, their
  configuration and batch language, and the parsers of what they answer.  A command
  succeeds, fails, or is carried out with its answer lost.
* What a probe, a progress report or an error message contains; rates and remaining
  times.
* Symlink, reparse-point and path checks: they make an operation fail, which
  every model allows at that point; where a check and its use are apart
  (TreeTransfer, AppRemoval, LocalDownload) the gap is modelled.
* DPAPI and the Windows profile protection: nothing is shared.
* The panic handler of `Connect` after the session is built.
* Drawing, fonts, translation and wording, pickers, notification areas; of the
  X11 protocol only the geometry.
* Update check, bootstrap, smoke test, build and audit scripts: I/O without state.

## Plan

Done: queue, session manager, store, uploads with their proofs; then the engine's
composition, files on both sides, stores, both windows, setup and removal; then
proofs of every property of the runs `transfers`, `stores` and `windows`, and of `linux`
except `RowsAreTrue`.

Next, in this order:

1. An abstract replacement of one file that RemoteUpload and LocalDownload implement
   where no other job interferes, and the engine's weaker promise when several
   goroutines call it.
