------------------------------ MODULE FileSearch ------------------------------
(***************************************************************************)
(* The recursive search by name: the breadth-first walk of                 *)
(* internal/filesearch/walk.go with its limits (types.go), over the local  *)
(* directories of local.go or the server's (internal/api/                  *)
(* recursive_search.go), and the window that takes its batches             *)
(* (recursive_search_windows.go, recursive_search_linux.go).  A name is    *)
(* only whether it matches.                                                *)
(***************************************************************************)
EXTENDS Naturals, Sequences, Functions

CONSTANTS Default, Hard, \* the limits for "depth", "visited", "results", "batch"
          Asked          \* the options a caller may ask for

Limits == {"depth", "visited", "results", "batch"}

\* What every instance has to satisfy.
SearchAssumption ==
    /\ Default \in [Limits -> Nat] /\ Hard \in [Limits -> Nat]
    /\ Asked \subseteq [Limits -> Nat]

VARIABLES tree, \* what b is, a directory or not, and the names that match
          opt,  \* the options in force
          ctx,  \* "live", "deadline" or "cancelled"
          w,    \* the walk
          to    \* the window that asked: "windows" or "linux"

vars == <<tree, opt, ctx, w, to>>

\* What the directories hold: root has a, f and b; a has c and g.
Dirs == {"root", "a", "b", "c"}
Holds == [root |-> <<"a", "f", "b">>, a |-> <<"c", "g">>, b |-> <<"h">>, c |-> <<"k">>]
Names == {"a", "f", "b", "c", "g", "h", "k"}
DepthOf == [root |-> 0, a |-> 1, f |-> 1, b |-> 1, c |-> 2, g |-> 2, h |-> 2, k |-> 3]

\* b is a directory, a link to one, or has a name that may not be used.
BKinds == {"dir", "link", "bad"}

\* A link is never entered.
IsDirectory(n) == n \in Dirs /\ (n = "b" => tree.b = "dir")

Start == [queue |-> <<"root">>, rest |-> <<>>, at |-> "root", visited |-> 0, results |-> 0,
          batch |-> <<>>, out |-> <<>>, limited |-> FALSE, state |-> "runs", reason |-> "none"]

Normalized(o) == [l \in Limits |-> IF o[l] = 0 THEN Default[l] ELSE o[l]]

Accepted(o) == \A l \in Limits : Normalized(o)[l] \in 1..Hard[l]

Init ==
    /\ tree \in [b : BKinds, hits : SUBSET Names] /\ ctx = "live"
    /\ to \in {"windows", "linux"}
    /\ \E o \in Asked : opt = Normalized(o) /\ w = IF Accepted(o) THEN Start
                                                  ELSE [Start EXCEPT !.state = "failed"]

-----------------------------------------------------------------------------
\* Mutant: a cancelled search is not told apart.
RefusesNever == FALSE

\* emit of the Windows window asks the context first.  The one of the Linux
\* window refuses what is closed, and a running search cannot be closed there.
Refuses == to = "windows" /\ ctx = "cancelled"

\* The batch is handed to the window.
Flushed(v) ==
    IF v.batch = <<>> THEN v
    ELSE IF Refuses THEN [v EXCEPT !.batch = <<>>, !.state = "failed"]
    ELSE [v EXCEPT !.batch = <<>>, !.out = Append(@, v.batch)]

Ends(v, why) ==
    LET f == Flushed(v) IN
    IF f.state = "failed" THEN f ELSE [f EXCEPT !.state = "done", !.reason = why]

\* stopForContext.
StoppedByContext(v) ==
    IF ctx = "deadline" THEN Ends(v, "time_limit") ELSE [Flushed(v) EXCEPT !.state = "failed"]

-----------------------------------------------------------------------------
\* A matching name joins the batch.
MatchedItem(v, n) ==
    LET b == [v EXCEPT !.batch = Append(@, n), !.results = @ + 1]
        f == IF Len(b.batch) >= opt["batch"] THEN Flushed(b) ELSE b
    IN IF f.state = "runs" /\ f.results >= opt["results"] THEN Ends(f, "result_limit") ELSE f

Queued(v, n) ==
    IF v.state # "runs" \/ ~IsDirectory(n) THEN v
    ELSE IF DepthOf[v.at] < opt["depth"] THEN [v EXCEPT !.queue = Append(@, n)]
    ELSE [v EXCEPT !.limited = TRUE]

\* One item of the directory; a name that may not be used ends the search.
Visited(v, n) ==
    IF v.visited >= opt["visited"] THEN Ends(v, "item_limit")
    ELSE IF n = "b" /\ tree.b = "bad" THEN [v EXCEPT !.state = "failed"]
    ELSE LET s == [v EXCEPT !.visited = @ + 1, !.rest = Tail(@)]
         IN Queued(IF n \in tree.hits THEN MatchedItem(s, n) ELSE s, n)

Item ==
    /\ w.state = "runs" /\ w.rest # <<>>
    /\ w' = IF ctx # "live" THEN StoppedByContext(w) ELSE Visited(w, Head(w.rest))
    /\ UNCHANGED <<tree, opt, ctx, to>>

\* The next directory is listed; one that cannot be read ends the search.
Directory ==
    /\ w.state = "runs" /\ w.rest = <<>> /\ w.queue # <<>>
    /\ \/ ctx # "live" /\ w' = StoppedByContext(w)
       \/ /\ ctx = "live"
          /\ w' = [w EXCEPT !.at = Head(w.queue), !.queue = Tail(@), !.rest = Holds[Head(w.queue)]]
       \/ ctx = "live" /\ w' = [w EXCEPT !.state = "failed"]
    /\ UNCHANGED <<tree, opt, ctx, to>>

Finish ==
    /\ w.state = "runs" /\ w.rest = <<>> /\ w.queue = <<>>
    /\ w' = Ends(w, IF w.limited THEN "depth_limit" ELSE "none")
    /\ UNCHANGED <<tree, opt, ctx, to>>

\* The timeout passes; the user cancels, or the connection ends.
Deadline == w.state = "runs" /\ ctx = "live" /\ ctx' = "deadline" /\ UNCHANGED <<tree, opt, w, to>>
Cancel == w.state = "runs" /\ ctx # "cancelled" /\ ctx' = "cancelled" /\ UNCHANGED <<tree, opt, w, to>>

Walk == Item \/ Directory \/ Finish

Next == Walk \/ Deadline \/ Cancel

\* The walk itself never waits.
Spec == Init /\ [][Next]_vars /\ WF_vars(Walk)

-----------------------------------------------------------------------------
\* What the batches handed over so far hold, one after another.
Emitted ==
    LET of[k \in 0..Len(w.out)] == IF k = 0 THEN <<>> ELSE of[k - 1] \o w.out[k]
    IN  of[Len(w.out)]

\* What a search without limits finds: nothing behind a link.
Inside == {n \in Names : CASE n = "h" -> tree.b = "dir" [] OTHER -> TRUE}
Expected == tree.hits \cap Inside

\* A search that ends without a reason and without an error has shown every
\* match; whatever it left out, it says why.
CompleteUnlessSaid ==
    w.state = "done" /\ w.reason = "none" => Range(Emitted) = Expected

\* Nothing behind a link or a refused name is shown, each match once, the
\* shallow ones first.
OnceInOrder ==
    /\ Range(Emitted) \subseteq Expected
    /\ \A i, j \in DOMAIN Emitted : i < j =>
         Emitted[i] # Emitted[j] /\ DepthOf[Emitted[i]] <= DepthOf[Emitted[j]]

\* The limits in force are at most the hard ones, and the walk keeps them.
Bounded ==
    w.state # "failed" \/ w.visited > 0 =>
        /\ \A l \in Limits : opt[l] <= Hard[l]
        /\ w.visited <= opt["visited"] /\ w.results <= opt["results"]
        /\ \A b \in Range(w.out) : Len(b) <= opt["batch"]
        /\ \A n \in Range(Emitted) : DepthOf[n] <= opt["depth"] + 1

\* The number a finished search reports is the number of rows it has shown.
CountIsShown == w.state = "done" => w.results = Len(Emitted)

\* After a cancel the walk hands nothing more to the Windows window.  The
\* Linux window is still given what had been found, once, at the end.
CancelIsQuietStep ==
    ctx = "cancelled" =>
        \/ w'.out = w.out
        \/ to = "linux" /\ w'.out = Append(w.out, w.batch) /\ w'.state # "runs"

\* The same for both windows.
\* The code does not keep it: see "Disagreements found" in the README.
CancelShowsNothingStep == ctx = "cancelled" => w'.out = w.out

\* Every search ends.
Runs == w.state = "runs"
SearchEnds == <>~Runs
=============================================================================
