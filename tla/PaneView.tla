------------------------------- MODULE PaneView -------------------------------
(***************************************************************************)
(* The rows of the server pane: the last listing, filtered by the names    *)
(* asked for and sorted (internal/itemlist), in the Windows window         *)
(* (file_filter_windows.go, file_sort_windows.go) and in the Linux one     *)
(* (file_filter_linux.go, file_sort_linux.go), where a recursive search    *)
(* takes the pane and gives it back (recursive_search_linux.go).  A filter *)
(* is a set of words; an item has the words its name contains, whatever    *)
(* their case.                                                             *)
(***************************************************************************)
EXTENDS Naturals, Sequences, Functions, TLC

CONSTANTS Window,   \* "windows" or "linux"
          Listings, \* the sequences of items the server may list
          Queries,  \* the sets of words
          Fields,   \* the columns the pane can be sorted by, in their order
          MaxConnections

\* What every instance has to satisfy.
PaneAssumption == Window \in {"windows", "linux"} /\ MaxConnections \in Nat

VARIABLES all,       \* the last listing
          ofNow,     \* it is of the current generation of the connection
          query, sort, \* the filter, and the column and direction
          rows, selected, \* what is shown; the name of the selected row, or ""
          link,      \* "up", "closing" or "down"
          made,      \* how many connections there were
          search     \* how a search ended of which the rows are: "none", "closed" or "left"

vars == <<all, ofNow, query, sort, rows, selected, link, made, search>>

Init ==
    /\ all = <<>> /\ ofNow = FALSE /\ query = {} /\ sort = [field |-> Fields[1], desc |-> FALSE]
    /\ rows = <<>> /\ selected = "" /\ link = "up" /\ made = 1
    /\ search = "none"

-----------------------------------------------------------------------------
Filter(items, words) == SelectSeq(items, LAMBDA i : words \subseteq i.words)

\* A time or permissions the listing does not give are 0.
Gap(i, f) == f \in {"time", "perm"} /\ i[f] = 0

\* The order of SortBy.
Less(i, j, s) ==
    IF i.dir # j.dir THEN i.dir
    ELSE IF Gap(i, s.field) # Gap(j, s.field) THEN Gap(j, s.field)
    ELSE IF i[s.field] # j[s.field] THEN IF s.desc THEN i[s.field] > j[s.field] ELSE i[s.field] < j[s.field]
    ELSE s.field # "key" /\ i.key < j.key

\* SortBy is stable.
SortBy(items, s) ==
    LET order == SortSeq([k \in DOMAIN items |-> k],
                         LAMBDA a, b : \/ Less(items[a], items[b], s)
                                       \/ ~Less(items[b], items[a], s) /\ a < b)
    IN [k \in DOMAIN items |-> items[order[k]]]

Shown(items) == {items[k].name : k \in DOMAIN items}

\* The selection follows its name.
Restored(items) == IF selected \in Shown(items) THEN selected ELSE ""

\* What a filter works on.
Source == IF Window = "windows" /\ ~ofNow THEN <<>> ELSE all

\* Mutant: what comes back with a weaker filter is not sorted in.
RowsUnsorted(words, s) == rows' = IF s = sort THEN Filter(Source, words) ELSE SortBy(Filter(Source, words), s)

RowsAre(words, s) == rows' = SortBy(Filter(Source, words), s)

-----------------------------------------------------------------------------
\* A listing of the connection arrives; Windows keeps the selection of the same directory.
Listed(items) ==
    /\ link = "up" /\ all' = items /\ ofNow' = TRUE
    /\ rows' = SortBy(Filter(items, query), sort)
    /\ \/ selected' = ""
       \/ Window = "windows" /\ selected' = Restored(rows')
    /\ search' = "none"
    /\ UNCHANGED <<query, sort, link, made>>

\* The answer of the filter prompt, which may have been open for any time.
ApplyFilter(words) ==
    /\ Window = "linux" => link = "up"
    /\ query' = words /\ RowsAre(words, sort) /\ selected' = Restored(rows')
    /\ search' = "none"
    /\ UNCHANGED <<all, ofNow, sort, link, made>>

\* Linux: the next of the orders; Windows: a click on a column.
NextSort ==
    LET k == CHOOSE k \in DOMAIN Fields : Fields[k] = sort.field IN
    IF ~sort.desc THEN [sort EXCEPT !.desc = TRUE]
    ELSE [field |-> Fields[(k % Len(Fields)) + 1], desc |-> FALSE]

ClickedSort(f) == IF f = sort.field THEN [sort EXCEPT !.desc = ~@] ELSE [field |-> f, desc |-> FALSE]

CycleSort ==
    /\ Window = "linux" /\ link = "up" /\ sort' = NextSort
    /\ RowsAre(query, sort') /\ selected' = Restored(rows') /\ search' = "none"
    /\ UNCHANGED <<all, ofNow, query, link, made>>

\* The rows themselves are sorted, from the order they are in.
ClickColumn(f) ==
    /\ Window = "windows" /\ sort' = ClickedSort(f)
    /\ rows' = SortBy(rows, sort') /\ selected' = Restored(rows')
    /\ UNCHANGED <<all, ofNow, query, link, made, search>>

Select(n) == selected' = n /\ UNCHANGED <<all, ofNow, query, sort, rows, link, made, search>>

\* A recursive search, in which nothing else can be done, is closed: the pane
\* is filtered again, and not sorted.
CloseSearch ==
    /\ Window = "linux" /\ link = "up"
    /\ rows' = Filter(all, query) /\ selected' = Restored(rows') /\ search' = "closed"
    /\ UNCHANGED <<all, ofNow, query, sort, link, made>>

\* It is left for the directory of a result: what it found stays until that is
\* listed, which may fail.
LeaveSearch(found) ==
    /\ Window = "linux" /\ link = "up"
    /\ query' = {} /\ rows' = found /\ selected' \in Shown(found) /\ search' = "left"
    /\ UNCHANGED <<all, ofNow, sort, link, made>>

\* The connection begins to end, has ended, and another one begins.
Disconnecting ==
    /\ link = "up" /\ link' = "closing" /\ ofNow' = FALSE
    /\ UNCHANGED <<all, query, sort, rows, selected, made, search>>

\* Mutant: the rows are left.
DisconnectedKept ==
    /\ link = "closing" /\ link' = "down"
    /\ UNCHANGED <<all, ofNow, query, sort, rows, selected, made, search>>

Disconnected ==
    /\ link = "closing" /\ link' = "down" /\ rows' = <<>> /\ selected' = ""
    /\ search' = "none"
    /\ all' = IF Window = "linux" THEN <<>> ELSE all
    /\ UNCHANGED <<ofNow, query, sort, made>>

Connected ==
    /\ link = "down" /\ made < MaxConnections /\ link' = "up" /\ made' = made + 1
    /\ UNCHANGED <<all, ofNow, query, sort, rows, selected, search>>

Next ==
    \/ \E items \in Listings : Listed(items)
    \/ \E words \in Queries : ApplyFilter(words)
    \/ CycleSort \/ \E f \in Range(Fields) : ClickColumn(f)
    \/ \E n \in Shown(rows) : Select(n)
    \/ CloseSearch \/ \E found \in Listings : LeaveSearch(found)
    \/ Disconnecting \/ Disconnected \/ Connected

Spec == Init /\ [][Next]_vars

-----------------------------------------------------------------------------
\* While the connection is up the rows are its last listing without what the
\* filter hides, each once: a filter taken away shows everything again, and
\* nothing of an earlier connection comes back.
\* The code does not keep it: see "Disagreements found" in the README.
RowsAlwaysTheListing ==
    link = "up" =>
        LET now == IF ofNow THEN all ELSE <<>> IN
        /\ Len(rows) = Len(Filter(now, query)) /\ Shown(rows) = Shown(Filter(now, query))

\* The same, but for the rows of a search that was left for one of its results.
RowsAreTheListing == search # "left" => RowsAlwaysTheListing

\* Without a connection there is no row.
NoRowsWhenDown == link = "down" => rows = <<>>

\* Directories are above the files, and what is not known is below what is,
\* in both directions, unless a search was closed or left since the last sorting.
KnownFirst ==
    search = "none" =>
        \A a, b \in DOMAIN rows : a < b =>
            /\ rows[b].dir => rows[a].dir
            /\ rows[a].dir = rows[b].dir /\ Gap(rows[a], sort.field) => Gap(rows[b], sort.field)

\* The order depends on the items alone, but for names that differ in case only.
\* The code does not keep it: see "Disagreements found" in the README.
AlwaysInOrder ==
    \A a, b \in DOMAIN rows : a < b /\ rows[a].key # rows[b].key => Less(rows[a], rows[b], sort)

\* The same, unless a search was closed or left since the last sorting.
OrderIsFixed == search = "none" => AlwaysInOrder

\* A filter or a new order never moves the selection to another item; leaving a
\* search, which takes the filter away, goes to what it found.
SelectionStaysStep ==
    \A n \in {selected} :
        (query' # query /\ search' # "left") \/ sort' # sort => selected' \in {n, ""}
=============================================================================
