------------------------------ MODULE LinuxModal ------------------------------
(***************************************************************************)
(* The Linux window while a recursive search or a directory comparison     *)
(* owns its panes: internal/desktop/recursive_search_linux.go,             *)
(* directory_compare_linux.go, file_filter_linux.go and the loop, the      *)
(* results and the busy flag of gui_linux.go.                              *)
(*                                                                         *)
(* Goroutines change the search and the comparison under their mutex and   *)
(* wake the loop with an empty result on the channel of all results.       *)
(* Every step of the loop ends with renderAll, which reconciles the panes. *)
(* The text of a path field is not edited here (LinuxWindow).              *)
(***************************************************************************)
EXTENDS Naturals, Sequences, FiniteSets

CONSTANTS Cap,        \* capacity of resultCh
          MaxSearch,  \* searches started and closed (bound)
          MaxCompare, \* comparisons started, opened and closed (bound)
          MaxTasks    \* ordinary actions started (bound)

\* What every instance has to satisfy.
ModalAssumption == Cap \in Nat \ {0} /\ {MaxSearch, MaxCompare, MaxTasks} \subseteq Nat

VARIABLES
    win,     \* the linuxDesktop with its search, comparison and filter states
    work,    \* the goroutines
    queue,   \* resultCh
    tasks,   \* ordinary actions started
    acted    \* the kind of rows the last row command acted on

vars == <<win, work, queue, tasks, acted>>

Panes == {"local", "remote"}
Dir == [local |-> {"l", "ld"}, remote |-> {"r", "rd"}]
Top == [local |-> "l", remote |-> "r"]
Child == [local |-> "ld", remote |-> "rd"]
NoNav == [pane |-> "none"]

\* What a directory, or a filter on it, shows: a query hides one of two items.
Listing(d, query) ==
    [from |-> "list", dir |-> d,
     names |-> IF d = "none" THEN {} ELSE IF query THEN {"a"} ELSE {"a", "b"}]

Restored(rows, name) == IF name \in rows.names THEN name ELSE "none"

NewWindow ==
    [busy |-> FALSE, connected |-> FALSE,
     cur |-> Top, all |-> [p \in Panes |-> IF p = "local" THEN "l" ELSE "none"],
     query |-> [p \in Panes |-> FALSE],
     rows |-> [p \in Panes |-> Listing(IF p = "local" THEN "l" ELSE "none", FALSE)],
     sel |-> [p \in Panes |-> "none"],
     search |-> [active |-> FALSE, running |-> FALSE, pane |-> "local", seq |-> 0,
                 found |-> {}, sel |-> FALSE, restore |-> "none", nav |-> NoNav],
     compare |-> [active |-> FALSE, running |-> FALSE, restore |-> FALSE, seq |-> 0,
                  base |-> Top, snap |-> Top, entries |-> "none", sel |-> FALSE,
                  nav |-> FALSE]]

Init == win = NewWindow /\ work = {} /\ queue = <<>> /\ tasks = 0 /\ acted = "list"

-----------------------------------------------------------------------------
(* What every frame does *)

\* acceptLinuxFileFilterSnapshot
Accept(w, p, d) == [w EXCEPT !.all[p] = d, !.rows[p] = Listing(d, w.query[p])]

\* A search keeps the window busy and shows what it found; after a navigation
\* the found item is selected once, if its directory is the one listed.
ReconcileSearch(w) ==
    LET s == w.search  p == s.pane IN
    IF s.active
    THEN [w EXCEPT !.busy = TRUE,
                   !.rows[p] = [from |-> "search", dir |-> w.cur[p], names |-> s.found],
                   !.sel[p] = IF s.sel THEN "b" ELSE "none"]
    ELSE IF s.nav = NoNav \/ w.busy THEN w
    ELSE [w EXCEPT !.search.nav = NoNav,
                   !.sel[s.nav.pane] = IF w.cur[s.nav.pane] = s.nav.dir
                                       THEN Restored(w.rows[s.nav.pane], "b") ELSE @]

\* The directories opened together replace the compared ones.
Arrived(c) ==
    IF c.nav THEN [c EXCEPT !.nav = FALSE, !.base = Child, !.snap = Child,
                            !.entries = "child", !.sel = FALSE]
    ELSE c

Restore(w, c) ==
    Accept(Accept([w EXCEPT !.busy = FALSE, !.cur = c.base,
                            !.sel = [p \in Panes |-> "none"]], "local", c.snap["local"]),
           "remote", c.snap["remote"])

\* Both panes show the entries, with the compared directories as their paths.
ShowComparison(w, c, arrived) ==
    [w EXCEPT !.busy = TRUE, !.cur = c.base,
              !.query = IF arrived THEN [p \in Panes |-> FALSE] ELSE @,
              !.rows = [p \in Panes |-> [from |-> "compare", dir |-> c.base[p],
                                         names |-> {c.entries}]],
              !.sel = [p \in Panes |-> IF c.sel THEN c.entries ELSE "none"]]

\* Mutant: a comparison leaves the window as free as the result made it.
ReconcileCompareFree(w) ==
    LET c == Arrived(w.compare)
        w1 == [w EXCEPT !.compare = [c EXCEPT !.restore = FALSE]]
        w2 == IF c.restore THEN Restore(w1, c) ELSE w1
    IN IF c.active THEN [ShowComparison(w2, c, w.compare.nav) EXCEPT !.busy = w.busy] ELSE w2

\* What goroutines left for the window: directories opened in both panes, or
\* the panes to restore after a failure; a comparison keeps the window busy.
ReconcileCompare(w) ==
    LET c == Arrived(w.compare)
        w1 == [w EXCEPT !.compare = [c EXCEPT !.restore = FALSE]]
        w2 == IF c.restore THEN Restore(w1, c) ELSE w1
    IN IF c.active THEN ShowComparison(w2, c, w.compare.nav) ELSE w2

\* renderFileFilterControls, in every frame.
Render(w) == ReconcileCompare(ReconcileSearch(w))

-----------------------------------------------------------------------------
(* Ordinary actions: a listing, connecting, disconnecting *)

Task(kind, p, d) == [kind |-> kind, pane |-> p, dir |-> d, seq |-> 0, pc |-> "run"]

\* startAction
StartAction(w, t) ==
    /\ ~w.busy /\ tasks < MaxTasks /\ t \notin work
    /\ win' = Render([w EXCEPT !.busy = TRUE])
    /\ work' = work \cup {t} /\ tasks' = tasks + 1

Refresh(p, d) ==
    /\ p = "remote" => win.connected
    /\ StartAction(win, Task("list", p, d))
    /\ UNCHANGED <<queue, acted>>

Connect == ~win.connected /\ StartAction(win, Task("connect", "remote", "r")) /\ UNCHANGED <<queue, acted>>
Disconnect == win.connected /\ StartAction(win, Task("leave", "remote", "r")) /\ UNCHANGED <<queue, acted>>

Answers(t) == /\ t.kind \in {"list", "connect", "leave"} /\ Len(queue) < Cap
              /\ \E ok \in BOOLEAN :
                   queue' = Append(queue, [kind |-> IF ok THEN t.kind ELSE "failed",
                                           pane |-> t.pane, dir |-> t.dir])
              /\ work' = work \ {t} /\ UNCHANGED <<win, tasks, acted>>

Accepted(w, r) ==
    CASE r.kind = "list"    -> Accept([w EXCEPT !.cur[r.pane] = r.dir, !.sel[r.pane] = "none"],
                                      r.pane, r.dir)
      [] r.kind = "connect" -> [w EXCEPT !.connected = TRUE]
      [] r.kind = "leave"   -> [w EXCEPT !.connected = FALSE, !.all["remote"] = "none",
                                         !.rows["remote"] = Listing("none", FALSE),
                                         !.sel["remote"] = "none"]
      [] OTHER              -> w

\* Any result frees the window, the empty one that only wakes it too.
HandleResult ==
    /\ queue # <<>>
    /\ win' = Render(Accepted([win EXCEPT !.busy = FALSE], Head(queue)))
    /\ queue' = Tail(queue) /\ UNCHANGED <<work, tasks, acted>>

\* A command on the selected row: rename, delete, transfer, edit.
RowCommand(p) ==
    /\ ~win.busy /\ win.sel[p] \in win.rows[p].names /\ (p = "remote" => win.connected)
    /\ acted' = win.rows[p].from
    /\ UNCHANGED <<win, work, queue, tasks>>

Step(w) == win' = Render(w) /\ UNCHANGED <<queue, tasks, acted>>

SelectRow(p) ==
    /\ ~win.search.active /\ ~win.compare.active
    /\ \E n \in win.rows[p].names \cup {"none"} : Step([win EXCEPT !.sel[p] = n])
    /\ UNCHANGED work

\* The prompt of the filter is applied when the window is free.
ApplyFilter(p) ==
    /\ ~win.busy /\ ~win.compare.active /\ (p = "remote" => win.connected)
    /\ LET rows == Listing(win.all[p], ~win.query[p]) IN
         Step([win EXCEPT !.query[p] = ~@, !.rows[p] = rows,
                          !.sel[p] = Restored(rows, win.sel[p])])
    /\ UNCHANGED work

-----------------------------------------------------------------------------
(* Recursive search *)

StartSearch(p) ==
    /\ ~win.busy /\ (p = "remote" => win.connected) /\ win.search.seq < MaxSearch
    /\ Step([win EXCEPT
         !.busy = TRUE, !.sel[p] = "none",
         !.search = [active |-> TRUE, running |-> TRUE, pane |-> p, seq |-> @.seq + 1,
                     found |-> {}, sel |-> FALSE, restore |-> win.sel[p], nav |-> NoNav]])
    /\ work' = work \cup {[Task("search", p, win.cur[p]) EXCEPT !.seq = win.search.seq + 1]}

\* A batch of another search ends the scan.
Emit(t) ==
    /\ t.kind = "search" /\ t.pc = "run"
    /\ IF win.search.seq = t.seq /\ win.search.active
       THEN /\ win' = [win EXCEPT !.search.found = {"b"}, !.search.sel = TRUE]
            /\ work' = (work \ {t}) \cup {[t EXCEPT !.pc = "batch"]}
       ELSE /\ win' = win
            /\ work' = (work \ {t}) \cup {[t EXCEPT !.pc = "stop"]}
    /\ UNCHANGED <<queue, tasks, acted>>

\* Complete, limited, cancelled or failed.
SearchEnds(t) ==
    /\ t.kind = "search" /\ t.pc \in {"run", "stop"}
    /\ win' = IF win.search.seq = t.seq THEN [win EXCEPT !.search.running = FALSE] ELSE win
    /\ work' = (work \ {t}) \cup {[t EXCEPT !.pc = "wake"]}
    /\ UNCHANGED <<queue, tasks, acted>>

Wake == [kind |-> "wake", pane |-> "none", dir |-> "none"]

\* The goroutine waits while the channel is full; one batch stands for all.
Wakes(t) ==
    /\ t.pc \in {"batch", "wake"} /\ Len(queue) < Cap /\ queue' = Append(queue, Wake)
    /\ work' = IF t.pc = "wake" THEN work \ {t}
               ELSE (work \ {t}) \cup {[t EXCEPT !.pc = "stop"]}
    /\ UNCHANGED <<win, tasks, acted>>

SearchClosed(s, nav) ==
    [s EXCEPT !.active = FALSE, !.running = FALSE, !.seq = @ + 1, !.found = {}, !.sel = FALSE,
              !.nav = nav]

CloseSearch ==
    /\ win.search.active /\ ~win.search.running
    /\ LET p == win.search.pane  rows == Listing(win.all[p], win.query[p]) IN
         Step([win EXCEPT !.busy = FALSE, !.search = SearchClosed(@, @.nav), !.rows[p] = rows,
                          !.sel[p] = Restored(rows, win.search.restore)])
    /\ UNCHANGED work

\* The found item's directory is listed; the window is free until then.
NavigateSearch ==
    LET p == win.search.pane
        w == [win EXCEPT !.busy = FALSE, !.query[p] = FALSE,
                         !.search = SearchClosed(@, [pane |-> p, dir |-> Child[p]])]
    IN /\ win.search.active /\ ~win.search.running /\ win.search.sel /\ win.search.found # {}
       /\ IF p = "remote" /\ ~win.connected THEN Step(w) /\ UNCHANGED work
          ELSE StartAction(w, Task("list", p, Child[p])) /\ UNCHANGED <<queue, acted>>

SelectFound ==
    /\ win.search.active /\ UNCHANGED work
    /\ \E b \in BOOLEAN : Step([win EXCEPT !.search.sel = b /\ win.search.found # {}])

\* handleRecursiveSearchMouse; the cancel of a running scan changes nothing
\* here, the scan may end at any moment.
SearchClicks == CloseSearch \/ NavigateSearch \/ SelectFound \/ \E p \in Panes : StartSearch(p)

-----------------------------------------------------------------------------
(* Directory comparison *)

CanCompare(w) == ~w.busy /\ w.connected /\ ~w.search.active /\ w.compare.seq < MaxCompare

Compared(w) ==
    [w EXCEPT !.busy = TRUE,
              !.compare = [active |-> TRUE, running |-> TRUE, restore |-> FALSE, seq |-> @.seq + 1,
                           base |-> w.cur, snap |-> w.all, entries |-> "none", sel |-> FALSE,
                           nav |-> FALSE]]

CompareTask(kind) == [Task(kind, "none", "none") EXCEPT !.seq = win.compare.seq + 1]

StartCompare ==
    /\ CanCompare(win) /\ Step(Compared(win)) /\ work' = work \cup {CompareTask("compare")}

Closed(w) ==
    Restore([w EXCEPT !.compare.active = FALSE, !.compare.running = FALSE, !.compare.seq = @ + 1,
                      !.compare.restore = FALSE, !.compare.sel = FALSE,
                      !.compare.entries = "none"], w.compare)

CloseCompare == win.compare.active /\ Step(Closed(win)) /\ UNCHANGED work

\* Compare again closes and starts in one click.
CompareAgain ==
    /\ win.compare.active /\ ~win.compare.running /\ CanCompare(Closed(win))
    /\ Step(Compared(Closed(win)))
    /\ work' = work \cup {[CompareTask("compare") EXCEPT !.seq = @ + 1]}

\* Only a directory of the same name on both sides is opened in both.
OpenBoth ==
    /\ win.compare.active /\ ~win.compare.running /\ win.compare.sel
    /\ win.compare.base = Top /\ win.compare.seq < MaxCompare
    /\ Step([win EXCEPT !.compare.running = TRUE, !.compare.seq = @ + 1])
    /\ work' = work \cup {CompareTask("open")}

SelectCompared ==
    /\ win.compare.active /\ UNCHANGED work
    /\ \E b \in BOOLEAN :
         Step([win EXCEPT !.compare.sel = IF win.compare.running THEN @
                                          ELSE b /\ win.compare.entries # "none"])

\* The listings and the comparison are done, or one failed.
CompareEnds(t) ==
    /\ t.kind = "compare" /\ t.pc = "run"
    /\ \E ok \in BOOLEAN :
         win' = IF win.compare.seq # t.seq \/ ~win.compare.active THEN win
                ELSE IF ok THEN [win EXCEPT !.compare.running = FALSE, !.compare.snap = win.compare.base,
                                            !.compare.entries = "top", !.compare.sel = TRUE]
                ELSE [win EXCEPT !.compare.running = FALSE, !.compare.active = FALSE,
                                 !.compare.restore = TRUE]
    /\ work' = (work \ {t}) \cup {[t EXCEPT !.pc = "wake"]}
    /\ UNCHANGED <<queue, tasks, acted>>

OpenEnds(t) ==
    /\ t.kind = "open" /\ t.pc = "run"
    /\ \E ok \in BOOLEAN :
         win' = IF win.compare.seq # t.seq \/ ~win.compare.active THEN win
                ELSE [win EXCEPT !.compare.running = FALSE, !.compare.nav = ok]
    /\ work' = (work \ {t}) \cup {[t EXCEPT !.pc = "wake"]}
    /\ UNCHANGED <<queue, tasks, acted>>

\* handleDirectoryComparisonMouseLinux
CompareClicks == StartCompare \/ CloseCompare \/ CompareAgain \/ OpenBoth \/ SelectCompared

-----------------------------------------------------------------------------
Clicks ==
    \/ \E p \in Panes : \/ \E d \in Dir[p] : Refresh(p, d)
                        \/ SelectRow(p)
                        \/ RowCommand(p)
                        \/ ApplyFilter(p)
    \/ Connect \/ Disconnect

Goroutines == \E t \in work : Answers(t) \/ Emit(t) \/ SearchEnds(t) \/ Wakes(t)
                              \/ CompareEnds(t) \/ OpenEnds(t)

Next == Clicks \/ SearchClicks \/ CompareClicks \/ Goroutines \/ HandleResult

Spec == Init /\ [][Next]_vars
FairSpec == Spec /\ WF_vars(Goroutines) /\ WF_vars(HandleResult)

-----------------------------------------------------------------------------
Modal == win.search.active \/ win.compare.active

TypeOK ==
    /\ win.busy \in BOOLEAN /\ win.connected \in BOOLEAN
    /\ \A p \in Panes : /\ win.cur[p] \in Dir[p] /\ win.all[p] \in Dir[p] \cup {"none"}
                        /\ win.rows[p].from \in {"list", "search", "compare"}
                        /\ win.query[p] \in BOOLEAN
    /\ Len(queue) <= Cap /\ tasks <= MaxTasks

\* While a search or a comparison owns the panes, no frame leaves the window
\* free: no command reaches rows that are not a directory, although every
\* wake-up clears the flag.
ModalHoldsWindow == Modal => win.busy /\ ~(win.search.active /\ win.compare.active)

\* A busy window has an owner that will free it: an action, a goroutine or a
\* result under way, or a modal view with a close button.
BusyHasOwner == win.busy => Modal \/ work # {} \/ queue # <<>>

\* Both panes of a comparison belong to the pair it compared, also when two
\* directories were opened together or the comparison was started again.
PairTogether ==
    win.compare.active => \A p \in Panes : /\ win.rows[p].from = "compare"
                                          /\ win.cur[p] = win.compare.base[p]
                                          /\ win.rows[p].dir = win.cur[p]

\* A pane that shows a listing shows that of its current directory, whatever
\* was compared, restored or opened in both panes before.
ListingOfCurrent ==
    \A p \in Panes : win.rows[p].from = "list" /\ win.rows[p].dir # "none"
                     => win.rows[p].dir = win.cur[p] /\ win.rows[p].dir = win.all[p]

\* Closing a search returns its pane to the listing, closing a comparison both,
\* and the window is free again.
CloseReturnsStep ==
    Modal /\ ~Modal' /\ work' = work
    /\ (win.search.active => win.search.pane = "local" \/ win.connected)
    => /\ ~win'.busy
       /\ \A p \in Panes : win.compare.active \/ p = win.search.pane
                          => win'.rows[p].from = "list"

\* An action, a scan or a result under way is over one day: a window that no
\* modal view holds becomes free.
Held == win.busy /\ ~Modal
BusyEnds == Held ~> ~Held

\* recursive_search_linux.go: rows of a search are not there for row commands.
\* The code does not keep it: see "Disagreements found" in the README.
RowsAreListed == [][acted' = "list"]_vars

\* file_filter_linux.go: an empty result only wakes the loop; an ordinary
\* action under way keeps the window busy.
\* The code does not keep it: see "Disagreements found" in the README.
WakeOnlyWakes ==
    [][queue # <<>> /\ Head(queue) = Wake /\ queue' = Tail(queue)
       => \A t \in work : t.kind \in {"list", "connect", "leave"} => win'.busy]_vars
=============================================================================
