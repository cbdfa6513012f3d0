------------------------------ MODULE RemoteDelete ------------------------------
(***************************************************************************)
(* recursiveDelete in internal/remote/util.go, as Delete of curl_ftp.go    *)
(* and sftp.go calls it, and List of curl_ftp.go with its fallback from    *)
(* MLSD to LIST, which may not show hidden files.                          *)
(*                                                                         *)
(* The recursion is a stack of directories whose listing is being worked   *)
(* off.  Any command may fail, and another client may create and remove    *)
(* files of the tree meanwhile.                                            *)
(***************************************************************************)
EXTENDS Naturals, Sequences

CONSTANTS Nodes,     \* files, directories and links of the server
          Top,       \* what the user deletes
          Outside,   \* where a link may lead
          MaxDepth,  \* maxRemoteDeleteDepth
          MaxItems,  \* maxRemoteDeleteItems
          MaxOthers  \* changes by another client (bound)

\* What every instance has to satisfy.
DeleteAssumption ==
    /\ Top \in Nodes /\ Outside \in Nodes \ {Top}
    /\ MaxDepth \in Nat /\ MaxItems \in Nat /\ MaxOthers \in Nat

VARIABLES
    kind,    \* "file", "dir", "link" (to Outside) of each node
    parent,  \* the directory each node is in
    hidden,  \* nodes that a plain LIST does not show
    alive,   \* nodes that exist
    mlsd,    \* mlsdState of the session: "unknown", "works", "off"
    stack,   \* directories being deleted: [node, todo]
    items,   \* deleteGuard.items
    result,
    others

tree == <<kind, parent, hidden>>
vars == <<tree, alive, mlsd, stack, items, result, others>>

Children(n, S) == {c \in S : c \notin {Top, Outside} /\ parent[c] = n}

Init ==
    /\ kind \in [Nodes -> {"file", "dir", "link"}] /\ kind[Outside] = "dir"
    /\ parent \in [Nodes -> {n \in Nodes : kind[n] = "dir"} \cup {Top}]
    /\ parent[Top] = Top /\ parent[Outside] = Outside
    /\ \A n \in Nodes \ {Top, Outside} :
          /\ parent[n] # n /\ kind[parent[n]] = "dir"
          /\ parent[parent[parent[n]]] \in {Top, Outside}
    /\ hidden \in SUBSET (Nodes \ {Top, Outside})
    /\ alive = Nodes /\ mlsd \in {"unknown", "off"}
    /\ stack = <<>> /\ items = 0 /\ result = "none" /\ others = 0

Depth == Len(stack)
Last == stack[Depth]

\* Mutant: a link to a directory is entered like one.
EntersLinks(n) == kind[n] # "file"

\* A link is never entered: childIsDir.
Enters(n) == kind[n] = "dir"

\* guard.step.
Allowed == Depth <= MaxDepth /\ items < MaxItems

\* What a listing with MLSD or LIST shows of n, or of where it leads.
Shown(n, how) ==
    {c \in Children(IF kind[n] = "link" THEN Outside ELSE n, alive) :
        how = "list" => c \notin hidden}

\* List: MLSD unless the session has given it up; a LIST that succeeds after
\* it makes the session stay with LIST.
List(how) ==
    /\ how = "mlsd" => mlsd # "off"
    /\ mlsd' = IF how = "mlsd" THEN "works" ELSE "off"

Fail == result' = "failed" /\ UNCHANGED <<alive, mlsd, stack, items>>

\* recursiveDelete of n, called with the directories of st still to do: a
\* directory is listed first, a file or a link removed at once.
Delete(n, st) ==
    \/ /\ Allowed /\ Enters(n) /\ n \in alive
       /\ \E how \in {"mlsd", "list"} :
             List(how) /\ stack' = Append(st, [node |-> n, todo |-> Shown(n, how)])
       /\ items' = items + 1 /\ UNCHANGED <<alive, result>>
    \/ /\ Allowed /\ ~Enters(n) /\ n \in alive
       /\ alive' = alive \ {n} /\ items' = items + 1 /\ stack' = st
       /\ result' = (IF st = <<>> THEN "ok" ELSE "none") /\ UNCHANGED mlsd
    \/ Fail

Begin ==
    /\ result = "none" /\ stack = <<>>
    /\ Delete(Top, <<>>) /\ UNCHANGED <<tree, others>>

\* The next entry of the listing, in any order; the first failure ends it all.
NextChild(c) ==
    /\ result = "none" /\ stack # <<>> /\ c \in Last.todo
    /\ Delete(c, [stack EXCEPT ![Depth].todo = @ \ {c}])
    /\ UNCHANGED <<tree, others>>

\* The directory is done; the caller goes on or is done as well.
Return ==
    /\ stack' = SubSeq(stack, 1, Depth - 1)
    /\ result' = IF Depth = 1 THEN "ok" ELSE "none"
    /\ UNCHANGED <<mlsd, items>>

\* Mutant: that the directory could not be removed goes unnoticed.
RemoveDirectoryUnchecked ==
    /\ result = "none" /\ stack # <<>> /\ Last.todo = {}
    /\ alive' = IF Children(Last.node, alive) = {} THEN alive \ {Last.node} ELSE alive
    /\ Return
    /\ UNCHANGED <<tree, others>>

\* The directory itself, which the server removes only when it is empty.
RemoveDirectory ==
    /\ result = "none" /\ stack # <<>> /\ Last.todo = {}
    /\ \/ /\ Last.node \in alive /\ Children(Last.node, alive) = {}
          /\ alive' = alive \ {Last.node} /\ Return
       \/ Fail
    /\ UNCHANGED <<tree, others>>

\* Another client removes a file, or creates it (again).
Other(n) ==
    /\ others < MaxOthers /\ others' = others + 1
    /\ n \notin {Top, Outside} /\ kind[n] = "file" /\ parent[n] # Outside
    /\ \/ n \in alive /\ alive' = alive \ {n}
       \/ n \notin alive /\ parent[n] \in alive /\ alive' = alive \cup {n}
    /\ UNCHANGED <<tree, mlsd, stack, items, result>>

Next == Begin \/ RemoveDirectory \/ \E n \in Nodes : NextChild(n) \/ Other(n)

Spec == Init /\ [][Next]_vars

-----------------------------------------------------------------------------
(* Properties *)

\* The stack is a path from Top, no deeper and no longer in the making than
\* the guard allows.
TypeOK ==
    /\ alive \subseteq Nodes /\ mlsd \in {"unknown", "works", "off"}
    /\ result \in {"none", "ok", "failed"} /\ others \in 0..MaxOthers
    /\ items \in 0..MaxItems /\ Depth <= MaxDepth + 1
    /\ \A i \in 1..Depth :
          /\ stack[i].node \in Nodes /\ stack[i].todo \subseteq Nodes
          /\ i > 1 => parent[stack[i].node] = stack[i - 1].node

\* Deleting a tree with links in it deletes nothing where they lead.
NothingOutside == \A n \in Nodes : n = Outside \/ parent[n] = Outside => n \in alive

\* Success means that all of it is gone, although the listing may hide files,
\* others create some meanwhile, and the limits end long deletions.
SuccessMeansGoneStep ==
    result = "none" /\ result' = "ok" =>
       \A n \in Nodes : Top \in {n, parent[n], parent[parent[n]]} => n \notin alive'
=============================================================================
