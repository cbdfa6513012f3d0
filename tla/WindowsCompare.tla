---------------------------- MODULE WindowsCompare ----------------------------
(***************************************************************************)
(* The comparison of the two panes in the Windows window                   *)
(* (internal/desktop/directory_compare_windows.go) beside the listings of  *)
(* the panes and the changes of the connection.  A directory is its depth: *)
(* the one both sides share below d is d + 1.  Every action is a handler   *)
(* on the window's thread, except Lists, a worker's.                       *)
(***************************************************************************)
EXTENDS Naturals

CONSTANTS Deepest, MaxStarts, MaxGenerations, MaxMoves

\* What every instance has to satisfy.
WindowsCompareAssumption == {Deepest, MaxStarts, MaxGenerations, MaxMoves} \subseteq Nat

VARIABLES link, gen, \* the connection: "up", "ending" or "down", and its generation
          cur, pane, \* for each side the directory of the address, and of the rows
          moving,    \* for each side the directory being listed, None without one
          cmp, jobs, \* the comparison, and what its workers have under way
          moves      \* how many listings the panes have begun

vars == <<link, gen, cur, pane, moving, cmp, jobs, moves>>

Sides == {"local", "remote"}
None == Deepest + 1
Off == [active |-> FALSE, loading |-> FALSE, base |-> [s \in Sides |-> 0],
        rows |-> [s \in Sides |-> None], of |-> 0, opens |-> FALSE, seq |-> 0, gen |-> 0]

Init ==
    /\ link = "up" /\ gen = 1 /\ cur = [s \in Sides |-> 0] /\ pane = cur
    /\ moving = [s \in Sides |-> None] /\ cmp = Off /\ jobs = {} /\ moves = 0

-----------------------------------------------------------------------------
Closed == [Off EXCEPT !.seq = cmp.seq + 1, !.base = cmp.base, !.gen = cmp.gen]

\* invalidateStaleDirectoryComparison, which every update of the controls begins with.
Current(g) == IF cmp.active /\ cmp.gen # g THEN Closed ELSE cmp

Job(base, opens) ==
    [seq |-> cmp'.seq, gen |-> gen, base |-> base, opens |-> opens, state |-> "new", of |-> 0]

\* A new comparison of the two addresses; an earlier one's worker is cancelled.
Start ==
    /\ link = "up" /\ ~cmp.active /\ cmp.seq < MaxStarts
    /\ cmp' = [Off EXCEPT !.active = TRUE, !.loading = TRUE, !.base = cur, !.seq = cmp.seq + 1, !.gen = gen]
    /\ jobs' = jobs \cup {Job(cur, FALSE)}
    /\ UNCHANGED <<link, gen, cur, pane, moving, moves>>

Close ==
    /\ cmp.active /\ cmp' = Closed
    /\ UNCHANGED <<link, gen, cur, pane, moving, jobs, moves>>

\* The selected row is one directory on both sides, and is listed and compared.
OpenBoth ==
    /\ link = "up" /\ cmp.active /\ ~cmp.loading /\ cmp.gen = gen /\ cmp.opens
    /\ cmp.seq < MaxStarts /\ \A s \in Sides : cmp.base[s] < Deepest
    /\ cmp' = [cmp EXCEPT !.seq = @ + 1, !.loading = TRUE]
    /\ jobs' = jobs \cup {Job([s \in Sides |-> cmp.base[s] + 1], TRUE)}
    /\ UNCHANGED <<link, gen, cur, pane, moving, moves>>

\* Both sides are listed, the server's over the connection there is now.
Lists(j) ==
    /\ j.state = "new"
    /\ \E r \in {"done", "failed"} :
         /\ r = "done" => link # "down"
         /\ jobs' = (jobs \ {j}) \cup {[j EXCEPT !.state = r, !.of = gen]}
    /\ UNCHANGED <<link, gen, cur, pane, moving, cmp, moves>>

\* The result is still of the comparison on screen.
Taken(j) ==
    /\ cmp.active /\ cmp.seq = j.seq /\ j.gen = gen
    /\ IF j.opens THEN \A s \in Sides : cmp.base[s] + 1 = j.base[s] ELSE cur = j.base

\* Mutant: only the rows of the comparison are replaced.
ShownAlone(j) == pane' = pane /\ cur' = cur

\* The panes behind take the listings, and after OpenBoth the addresses too.
ShownBehind(j) == pane' = j.base /\ cur' = IF j.opens THEN j.base ELSE cur

Result(j) ==
    /\ j.state # "new" /\ jobs' = jobs \ {j}
    /\ IF ~Taken(j) THEN UNCHANGED <<cmp, cur, pane>>
       ELSE IF j.state = "failed" THEN cmp' = [cmp EXCEPT !.loading = FALSE] /\ UNCHANGED <<cur, pane>>
       ELSE /\ ShownBehind(j)
            /\ \E o \in BOOLEAN : cmp' = [cmp EXCEPT !.loading = FALSE,
                   !.base = IF j.opens THEN j.base ELSE [@ EXCEPT !["local"] = j.base["local"]],
                   !.rows = j.base, !.of = j.of, !.opens = o]
    /\ UNCHANGED <<link, gen, moving, moves>>

-----------------------------------------------------------------------------
\* The user goes to another directory; a later way there replaces an earlier one.
Move(s, d) ==
    /\ s = "remote" => link = "up"
    /\ moves < MaxMoves /\ moves' = moves + 1 /\ moving' = [moving EXCEPT ![s] = d]
    /\ UNCHANGED <<link, gen, cur, pane, cmp, jobs>>

Moved(s) ==
    /\ moving[s] # None /\ moving' = [moving EXCEPT ![s] = None]
    /\ \/ cur' = [cur EXCEPT ![s] = moving[s]] /\ pane' = [pane EXCEPT ![s] = moving[s]]
       \/ UNCHANGED <<cur, pane>>
    /\ UNCHANGED <<link, gen, cmp, jobs, moves>>

Disconnect ==
    /\ link = "up" /\ gen < MaxGenerations /\ link' = "ending" /\ gen' = gen + 1
    /\ cmp' = Current(gen') /\ moving' = [moving EXCEPT !["remote"] = None]
    /\ UNCHANGED <<cur, pane, jobs, moves>>

Disconnected ==
    /\ link = "ending" /\ link' = "down" /\ pane' = [pane EXCEPT !["remote"] = None]
    /\ UNCHANGED <<gen, cur, moving, cmp, jobs, moves>>

\* Another connection, whose first directory is listed.
Connect ==
    /\ link = "down" /\ gen < MaxGenerations /\ link' = "up" /\ gen' = gen + 1
    /\ cmp' = Current(gen') /\ cur' = [cur EXCEPT !["remote"] = 0]
    /\ moving' = [moving EXCEPT !["remote"] = 0] /\ moves' = moves + 1
    /\ UNCHANGED <<pane, jobs>>

User ==
    \/ Start \/ Close \/ OpenBoth \/ Disconnect \/ Connect
    \/ \E s \in Sides, d \in 0..Deepest : Move(s, d)

\* The workers and the answers they send to the window.
Work ==
    \/ \E j \in jobs : Lists(j) \/ Result(j)
    \/ \E s \in Sides : Moved(s)
    \/ Disconnected

Next == User \/ Work

\* Listings have a timeout, and their answers are dispatched.
Spec == Init /\ [][Next]_vars /\ WF_vars(Work)

-----------------------------------------------------------------------------
\* The rows of a pane are of the directory its address names: commands on a
\* row, after the comparison is closed, act in that directory.
PaneShowsAddress == \A s \in Sides : pane[s] # None => pane[s] = cur[s]

\* The rows of the comparison are of the two directories OpenBoth starts from,
\* listed over the connection there is.
RowsAreOfBases ==
    cmp.active /\ cmp.rows["local"] # None => cmp.rows = cmp.base /\ cmp.of = gen /\ link # "down"

\* After a comparison is opened one level deeper the panes behind it show the
\* two directories that are compared.
OpenedTogetherStep ==
    cmp'.rows # cmp.rows /\ cmp'.active => pane' = cmp'.rows /\ cur' = cmp'.rows

\* A comparison stops loading, through failures and the end of the connection,
\* unless a pane goes elsewhere meanwhile: then only closing it helps.
Loads == cmp.loading /\ moves = 0
=============================================================================
