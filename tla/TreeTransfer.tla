----------------------------- MODULE TreeTransfer -----------------------------
(***************************************************************************)
(* A selection of files and one folder is queued: internal/api/            *)
(* tree_transfer.go, with uploadSelected, downloadSelected and             *)
(* queueSelection of internal/desktop/files_actions_windows.go.            *)
(*                                                                         *)
(* The folder is planned from a walk of the source, its files are reserved *)
(* in the queue (TransferQueue), its directories are prepared one by one   *)
(* at the destination, and the reservation is committed.  Meanwhile others *)
(* change the destination and the connection may be lost.  The remote side *)
(* is named by paths; the local one by open directories: an object is a    *)
(* directory whatever name it has now, and 0 is the folder downloaded to.  *)
(***************************************************************************)
EXTENDS Naturals, Sequences, FiniteSets

CONSTANTS Nodes,     \* the names of the tree, Root among them
          Root,
          Parent,    \* the directory of each name but Root's
          MaxDepth, MaxItems,  \* maxTreeDepth, maxTreeItems
          Capacity,  \* free places of the queue
          MaxOthers  \* what others change (bound)

\* What every instance has to satisfy.
TreeAssumption ==
    /\ IsFiniteSet(Nodes) /\ Root \in Nodes /\ Parent \in [Nodes \ {Root} -> Nodes]
    /\ {MaxDepth, MaxItems, Capacity, MaxOthers} \subseteq Nat

VARIABLES
    direction, source,   \* what the walk finds at each name
    picked,              \* plain files selected beside the folder
    pc, at,              \* the step, and the directory being prepared
    dirs, files,         \* the plan
    known,               \* directories verified (knownDirs) or open (opened)
    held, queued, free,  \* reserved places, jobs of the tree, free places
    plain,               \* jobs of the plain files
    gen, begun,          \* the connection now, and of the reservation
    dest,                \* remote: what each name is
    entries, handle,     \* local: what an object holds, the object opened for a name
    others               \* count

plan == <<direction, source, picked, dirs, files>>
queue == <<held, queued, free, plain>>
target == <<dest, entries, handle>>
vars == <<plan, pc, at, known, queue, gen, begun, target, others>>

Kinds == {"none", "dir", "file", "link"}
Objects == 0..(Cardinality(Nodes) + MaxOthers)
Outside == Cardinality(Nodes) + MaxOthers + 1  \* what a link leads to
Entry == [kind : Kinds, object : 0..Outside]
Nothing == [kind |-> "none", object |-> 0]

\* How far below Root.
Depth[n \in Nodes] == IF n = Root THEN 0 ELSE 1 + Depth[Parent[n]]

\* Where the walk comes: to Root, and below every directory, but not below a link.
Within(src) ==
    LET Closed(S) == Root \in S /\ \A m \in Nodes \ {Root} :
                        Parent[m] \in S /\ src[Parent[m]] = "dir" => m \in S
    IN {n \in Nodes : \A S \in SUBSET Nodes : Closed(S) => n \in S}

Found == {n \in Within(source) : source[n] # "none"}

Init ==
    /\ direction \in {"upload", "download"} /\ picked \in 0..1
    /\ source \in {s \in [Nodes -> Kinds \cup {"bad"}] :
          /\ s[Root] = "dir"
          /\ \A n \in Nodes \ {Root} : s[n] # "none" => s[Parent[n]] \in {"dir", "link"}
          /\ direction = "upload" => \A n \in Nodes : s[n] # "bad"}
    /\ pc = "files" /\ at = 1 /\ dirs = <<>> /\ files = {} /\ known = {}
    /\ held = 0 /\ queued = {} /\ free = Capacity /\ plain = 0
    /\ gen = 1 /\ begun = 0 /\ dest = [n \in Nodes |-> "none"]
    /\ entries = [o \in Objects \cup {Outside} |-> [n \in Nodes |-> Nothing]]
    /\ handle = [n \in Nodes |-> 0]
    /\ others = 0

Connected == gen = 1

-----------------------------------------------------------------------------
(* Ends *)

\* Every way out gives back what is still reserved (defer reservation.Cancel).
Leave ==
    /\ pc' = "done" /\ free' = free + held /\ held' = 0

Fail == Leave /\ UNCHANGED <<plan, at, known, queued, plain, gen, begun, target, others>>

-----------------------------------------------------------------------------
(* The plan *)

\* queueSelection: the plain files are added at once, and the folder follows
\* whether they were or not.
AddFiles ==
    /\ pc = "files" /\ pc' = "plan"
    /\ IF picked <= free /\ Connected
       THEN free' = free - picked /\ plain' = picked
       ELSE UNCHANGED <<free, plain>>
    /\ UNCHANGED <<plan, at, known, held, queued, gen, begun, target, others>>

\* Links are left out with what is below them.  A name that is not allowed
\* here ends a download.
DirsFound == {n \in Found : source[n] = "dir"}
FilesFound == {n \in Found : source[n] = "file"}

\* An upload counts the depth of every entry, a download that of directories.
UploadTooDeep == \E n \in Found : Depth[n] > MaxDepth
DownloadTooDeep == \E n \in DirsFound : Depth[n] > MaxDepth
TooMany == Cardinality(DirsFound) + Cardinality(FilesFound) > MaxItems

Refused == TooMany \/ IF direction = "upload" THEN UploadTooDeep
                      ELSE DownloadTooDeep \/ \E n \in Found : source[n] = "bad"

\* The orders a walk can find them in: a directory before those in it.  How a listing orders
\* its entries is left open.
Walks == {w \in [1..Cardinality(DirsFound) -> DirsFound] :
             /\ \A n \in DirsFound : \E i \in DOMAIN w : w[i] = n
             /\ \A i \in DOMAIN w : w[i] # Root => \E j \in 1..(i - 1) : w[j] = Parent[w[i]]}

Plan ==
    /\ pc = "plan" /\ Connected /\ ~Refused
    /\ dirs' \in Walks /\ files' = FilesFound
    /\ pc' = "reserve"
    /\ UNCHANGED <<direction, source, picked, at, known, queue, gen, begun, target, others>>

\* A listing fails, the operation is cancelled, the tree is refused.
PlanFails == pc = "plan" /\ Fail

\* ReserveBatch takes places and remembers the connection; a tree without files
\* needs neither.
Reserve ==
    /\ pc = "reserve" /\ (files # {} => Cardinality(files) <= free /\ Connected)
    /\ held' = Cardinality(files) /\ free' = free - Cardinality(files) /\ begun' = gen
    /\ pc' = "check" /\ at' = 1
    /\ UNCHANGED <<plan, known, queued, plain, gen, target, others>>

ReserveFails == pc = "reserve" /\ files # {} /\ (Cardinality(files) > free \/ ~Connected) /\ Fail

-----------------------------------------------------------------------------
(* Remote directories: ensureRemoteDirectoryCached *)

Dir == dirs[at]
Working(step) == pc = step /\ at <= Len(dirs)
Remote(step) == Working(step) /\ direction = "upload" /\ Connected
Local(step) == Working(step) /\ direction = "download"

\* remoteDirectoryEntry: the parent is listed anew.
Listable == Dir # Root => dest[Parent[Dir]] = "dir"

Advance == at' = at + 1 /\ pc' = "check" /\ known' = known \cup {Dir}

\* There, and a real directory: before, or after the Mkdir.
RemoteFound ==
    /\ \E step \in {"check", "verify"} : Remote(step)
    /\ Listable /\ dest[Dir] = "dir" /\ Advance
    /\ UNCHANGED <<plan, queue, gen, begun, target, others>>

RemoteAbsent ==
    /\ Remote("check") /\ Listable /\ dest[Dir] = "none" /\ pc' = "mkdir"
    /\ UNCHANGED <<plan, at, known, queue, gen, begun, target, others>>

\* A Mkdir that fails is verified as well: somebody may have made it.
RemoteMkdir ==
    /\ Remote("mkdir") /\ pc' = "verify"
    /\ dest' \in {dest} \cup (IF Listable /\ dest[Dir] = "none"
                              THEN {[dest EXCEPT ![Dir] = "dir"]} ELSE {})
    /\ UNCHANGED <<plan, at, known, queue, gen, begun, entries, handle, others>>

\* A file or a link is in the way, or the server refuses.
RemoteFails ==
    /\ direction = "upload" /\ pc \in {"check", "mkdir", "verify"} /\ at <= Len(dirs) /\ Fail

-----------------------------------------------------------------------------
(* Local directories: prepareLocalDirectories *)

\* The open directory above the one prepared.
Above == IF Dir = Root THEN 0 ELSE handle[Parent[Dir]]
Named == entries[Above][Dir]
\* Objects nobody has named or holds open; there are enough of them for every directory
\* made here or by others.
Unused == {o \in Objects \ {0} : \A n \in Nodes :
              handle[n] # o /\ \A p \in Objects : entries[p][n].object # o}
Fresh == CHOOSE o \in Unused : TRUE
MadeAt(o) == [entries EXCEPT ![o][Dir] = [kind |-> "dir", object |-> Fresh]]

\* Mutant: made by its path, through whatever the parent's name is now.
LocalMkdirByPath ==
    /\ Local("check") /\ Named.kind = "none" /\ Unused # {} /\ pc' = "open"
    /\ entries' = MadeAt(IF Dir = Root THEN 0
          ELSE LET up == entries[IF Parent[Dir] = Root THEN 0 ELSE handle[Parent[Parent[Dir]]]][Parent[Dir]]
               IN IF up.kind = "link" THEN Outside ELSE Above)
    /\ UNCHANGED <<plan, at, known, queue, gen, begun, dest, handle, others>>

\* Made inside the directory opened before, whatever its name leads to now.
LocalMkdir ==
    /\ Local("check") /\ Named.kind = "none" /\ Unused # {}
    /\ entries' = MadeAt(Above) /\ pc' = "open"
    /\ UNCHANGED <<plan, at, known, queue, gen, begun, dest, handle, others>>

LocalStat ==
    /\ Local("check") /\ Named.kind = "dir" /\ pc' = "open"
    /\ UNCHANGED <<plan, at, known, queue, gen, begun, target, others>>

\* openStablePreparedDirectory: the object looked at is the one opened.
LocalOpen ==
    /\ Local("open") /\ Named.kind = "dir"
    /\ handle' = [handle EXCEPT ![Dir] = Named.object] /\ Advance
    /\ UNCHANGED <<plan, queue, gen, begun, dest, entries, others>>

LocalFails == direction = "download" /\ pc \in {"check", "open"} /\ at <= Len(dirs) /\ Fail

-----------------------------------------------------------------------------
(* The end, and everybody else *)

\* Mutant: any connection will do.
CommitsAnyway == TRUE

\* Commit is refused when the connection is not the one of the reservation.
Commits == files # {} => begun = gen

Commit ==
    /\ pc = "check" /\ at > Len(dirs) /\ Commits
    /\ queued' = files /\ held' = 0 /\ pc' = "done"
    /\ UNCHANGED <<plan, at, known, free, plain, gen, begun, target, others>>

CommitFails == pc = "check" /\ at > Len(dirs) /\ ~Commits /\ Fail

Somebody == others < MaxOthers /\ others' = others + 1 /\ pc # "done"

\* Another client makes, removes or replaces a name at the server.
OthersRemote ==
    /\ Somebody /\ direction = "upload"
    /\ \E n \in Nodes, k \in Kinds :
         /\ n # Root => dest[Parent[n]] = "dir"
         /\ dest' = [m \in Nodes |-> IF m = n THEN k
                       ELSE IF m # Root /\ Parent[m] = n /\ k # dest[n] THEN "none" ELSE dest[m]]
    /\ UNCHANGED <<plan, pc, at, known, queue, gen, begun, entries, handle>>

\* What a name holds when another program puts something of kind k there.
New(k) == [kind |-> k, object |-> IF k = "dir" THEN Fresh ELSE IF k = "link" THEN Outside ELSE 0]

\* Another program replaces a name of the folder; what was there lives on elsewhere.
OthersLocal ==
    /\ Somebody /\ direction = "download" /\ Unused # {}
    /\ \E o \in Objects, n \in Nodes, k \in Kinds :
         /\ (o = 0) = (n = Root) /\ (o = 0 \/ \E p \in Objects, m \in Nodes : entries[p][m].object = o)
         /\ entries' = [entries EXCEPT ![o][n] = New(k)]
    /\ UNCHANGED <<plan, pc, at, known, queue, gen, begun, dest, handle>>

\* The connection is lost, or another one is there.
Lose ==
    /\ Connected /\ pc # "done" /\ gen' = 2
    /\ UNCHANGED <<plan, pc, at, known, queue, begun, target, others>>

Step ==
    \/ AddFiles
    \/ Plan
    \/ PlanFails
    \/ Reserve
    \/ ReserveFails
    \/ RemoteFound
    \/ RemoteAbsent
    \/ RemoteMkdir
    \/ RemoteFails
    \/ LocalMkdir
    \/ LocalStat
    \/ LocalOpen
    \/ LocalFails
    \/ Commit
    \/ CommitFails

Next == Step \/ OthersRemote \/ OthersLocal \/ Lose

Spec == Init /\ [][Next]_vars /\ WF_vars(Step)

-----------------------------------------------------------------------------
(* Properties *)

\* The types of the plan and of the queue's places.
TypeOK ==
    /\ dirs \in Seq(Nodes) /\ files \subseteq Nodes /\ known \subseteq Nodes
    /\ queued \subseteq files /\ held \in 0..Capacity /\ free \in 0..Capacity
    /\ dest \in [Nodes -> Kinds] /\ handle \in [Nodes -> Objects]

\* No place of the queue is lost: when the call is over none is reserved.
PlacesKept ==
    /\ free + held + plain + Cardinality(queued) = Capacity
    /\ pc = "done" => held = 0

\* A file of the tree is queued only when its folder was found to be a real
\* directory after the plan was made.
FoldersFirst == \A n \in queued : n # Root /\ Parent[n] \in known

\* A remote name becomes known only while it is a real directory.
KnownWhenDirectoryStep ==
    direction = "upload" => \A n \in known' \ known : dest[n] = "dir"

\* The tree is queued as a whole or not at all, without links.
AllOrNothing ==
    queued # {} => queued = {n \in Within(source) : source[n] = "file"}

\* Nothing is made in the place a link leads to.
OutsideUntouched == \A n \in Nodes : entries[Outside][n] = Nothing

\* Jobs of one connection are not queued on another.
SameConnectionStep ==
    queued' # queued => gen = begun

\* The call ends.
Goes == pc # "done"
Ends == <>~Goes
=============================================================================
