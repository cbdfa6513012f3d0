--------------------------- MODULE LinuxBookmarks ---------------------------
(***************************************************************************)
(* The bookmark manager of the Linux window                                *)
(* (src/internal/desktop/bookmark_linux.go).                               *)
(*                                                                         *)
(* The manager shows a copy of the collection, read when it is opened and  *)
(* again after each change.  Its list is a viewport: every render first    *)
(* brings the selection and the first row back into range, and the scroll  *)
(* buttons move the viewport and drag the selection along.  A delete takes *)
(* two presses within eight seconds, which may fall into two visits of the *)
(* manager.  The rows of the viewport follow the height of the window.     *)
(*                                                                         *)
(* Every event is followed by a render; `busy' is not modelled, no action  *)
(* of the manager runs while it is set.  Indices count from 1, as in the   *)
(* sequence; 0 is no selection.                                            *)
(***************************************************************************)
EXTENDS Integers, Sequences, FiniteSets

CONSTANTS Names,    \* names, as ranks of their order
          MaxSaves, \* bound: bookmarks saved
          Heights   \* rows that fit the list at the window's heights

\* What every instance has to satisfy.
BookmarkAssumption == Names \subseteq Nat /\ MaxSaves \in Nat /\ Heights \subseteq Nat \ {0}

VARIABLES stored,    \* the collection on disk
          issued,    \* ids given out
          mode,      \* "closed", "manager", or the name prompt of a side
          items, selected, first, rows, \* state.items ... visibleRows
          confirm,   \* u.confirmKind within its eight seconds
          asks,      \* Settings.ConfirmDelete
          question,  \* ghost: the bookmark the confirmation named
          stale      \* ghost: the last read failed

vars == <<stored, issued, mode, items, selected, first, rows, confirm, asks,
          question, stale>>
view == <<items, selected, first, rows>>
None == 0
Least(a, b) == IF a < b THEN a ELSE b
Most(a, b) == IF a > b THEN a ELSE b

(***************************************************************************)
(* The list.                                                               *)
(***************************************************************************)
\* By name, then kind, then id; two bookmarks may have one name.
Before(a, b) ==
  \/ a.name < b.name
  \/ a.name = b.name /\ a.kind = "local" /\ b.kind = "remote"
  \/ a.name = b.name /\ a.kind = b.kind /\ a.id < b.id

\* Each bookmark stands behind as many as come before it.
sortBookmarks(S) ==
  [i \in 1..Cardinality(S) |->
     CHOOSE b \in S : Cardinality({a \in S : Before(a, b)}) = i - 1]

MaxFirst(len, visible) == Most(len - visible, 0)

\* The selection in range, the viewport within the list, and around the
\* selection.
ensureSelectionVisible(len, sel, top, visible) ==
  IF len = 0 THEN <<None, 0>>
  ELSE LET s == Least(Most(sel, 1), len)
           t == Least(Most(top, 0), MaxFirst(len, visible))
           u == IF s <= t THEN s - 1 ELSE t
           v == IF s > u + visible THEN s - visible ELSE u
       IN  <<s, Least(v, MaxFirst(len, visible))>>

\* The state after the event, as the render leaves it.
Rendered(list, sel, top, visible) ==
  LET r == ensureSelectionVisible(Len(list), sel, top, visible)
  IN  /\ items' = list /\ rows' = visible
      /\ selected' = r[1] /\ first' = r[2]

(***************************************************************************)
(* Reading the collection again.                                           *)
(***************************************************************************)

IndexOf(list, id) ==
  LET found == {i \in 1..Len(list) : list[i].id = id}
  IN  IF found = {} THEN (IF list = <<>> THEN None ELSE 1)
      ELSE CHOOSE i \in found : TRUE

\* openLinuxBookmarks: the bookmark asked for is selected, else the first.  If
\* the collection cannot be read, the window stays as the caller left it.
Reopen(coll, id, otherwise) ==
  \/ LET list == sortBookmarks(coll)
     IN  /\ Rendered(list, IndexOf(list, id), 0, rows)
         /\ mode' = "manager" /\ stale' = FALSE
  \/ /\ mode' = otherwise
     /\ IF otherwise = "manager" THEN Rendered(items, selected, first, rows)
        ELSE UNCHANGED view
     /\ stale' = TRUE

openLinuxBookmarks ==
  /\ mode = "closed"
  /\ Reopen(stored, None, "closed")
  /\ UNCHANGED <<stored, issued, confirm, asks, question>>

closePrompt ==
  /\ mode = "manager" /\ mode' = "closed"
  /\ UNCHANGED <<stored, issued, view, confirm, asks, question, stale>>

(***************************************************************************)
(* Keys and clicks.                                                        *)
(***************************************************************************)
Stay == UNCHANGED <<stored, issued, mode, confirm, asks, question, stale>>

\* The viewport moves and the selection is dragged to its edge.
scrollViewport ==
  /\ mode = "manager" /\ Len(items) > rows
  /\ \E delta \in {-1, 1} :
       LET top == Least(Most(first + delta, 0), MaxFirst(Len(items), rows))
           last == Least(top + rows, Len(items))
       IN  Rendered(items, Least(Most(selected, top + 1), last), top, rows)
  /\ Stay

\* A click on a drawn row.
bookmarkRowAt ==
  /\ mode = "manager"
  /\ \E i \in first + 1..Least(first + rows, Len(items)) : Rendered(items, i, first, rows)
  /\ Stay

\* Up and Down; the other keys of the manager are the actions below.
handleBookmarkManagerKey ==
  /\ mode = "manager"
  /\ \E i \in {selected - 1, selected + 1} \cap 1..Len(items) :
       Rendered(items, i, first, rows)
  /\ Stay

Resize ==
  /\ \E visible \in Heights :
       IF mode = "manager" THEN Rendered(items, selected, first, visible)
       ELSE rows' = visible /\ UNCHANGED <<items, selected, first>>
  /\ Stay

\* Add a local or a remote bookmark: a prompt for its name replaces the list.
AddBookmark ==
  /\ mode = "manager" /\ mode' \in {"local", "remote"}
  /\ UNCHANGED <<stored, issued, view, confirm, asks, question, stale>>

cancelPrompt ==
  /\ mode \in {"local", "remote"}
  /\ Reopen(stored, None, "closed")
  /\ UNCHANGED <<stored, issued, confirm, asks, question>>

\* A refused save leaves the window without the manager.
saveLinuxBookmark ==
  /\ mode \in {"local", "remote"} /\ issued < MaxSaves
  /\ \/ \E name \in Names :
          LET new == [id |-> issued + 1, name |-> name, kind |-> mode]
          IN  /\ stored' = stored \cup {new} /\ issued' = issued + 1
              /\ Reopen(stored', new.id, "closed")
     \/ mode' = "closed" /\ UNCHANGED <<stored, issued, view, stale>>
  /\ UNCHANGED <<confirm, asks, question>>

\* Mutant: the confirmation is for the row, not for the bookmark.
ConfirmKeyRow == selected

ConfirmKey == items[selected].id

\* destructiveConfirmed, and then the removal.  A bookmark that is gone
\* already is an error.
deleteSelectedLinuxBookmark ==
  /\ mode = "manager" /\ selected # None
  /\ IF asks /\ confirm # ConfirmKey
     THEN /\ confirm' = ConfirmKey /\ question' = items[selected]
          /\ Rendered(items, selected, first, rows)
          /\ UNCHANGED <<stored, mode, stale>>
     ELSE /\ confirm' = None /\ UNCHANGED question
          /\ LET id == items[selected].id
                 rest == {b \in stored : b.id # id}
             IN  \/ /\ rest # stored /\ stored' = rest
                    /\ Reopen(rest, None, "manager")
                 \/ /\ Rendered(items, selected, first, rows)
                    /\ UNCHANGED <<stored, mode, stale>>
  /\ UNCHANGED <<issued, asks>>

\* The manager closes; the engine opens the bookmark (Bookmarks).
openSelectedLinuxBookmark ==
  /\ mode = "manager" /\ selected # None
  /\ mode' = "closed"
  /\ UNCHANGED <<stored, issued, view, confirm, asks, question, stale>>

Expire ==
  /\ confirm # None /\ confirm' = None
  /\ UNCHANGED <<stored, issued, mode, view, asks, question, stale>>

SetConfirmDelete ==
  /\ mode = "closed" /\ asks' = ~asks
  /\ UNCHANGED <<stored, issued, mode, view, confirm, question, stale>>

Init ==
  /\ stored = {} /\ issued = 0 /\ mode = "closed"
  /\ items = <<>> /\ selected = None /\ first = 0 /\ rows \in Heights
  /\ confirm = None /\ asks = TRUE /\ question = [id |-> None]
  /\ stale = FALSE

Next ==
  \/ openLinuxBookmarks \/ closePrompt \/ scrollViewport \/ Resize
  \/ bookmarkRowAt \/ handleBookmarkManagerKey
  \/ AddBookmark \/ cancelPrompt \/ saveLinuxBookmark
  \/ deleteSelectedLinuxBookmark \/ openSelectedLinuxBookmark
  \/ Expire \/ SetConfirmDelete

Spec == Init /\ [][Next]_vars

-----------------------------------------------------------------------------
\* What the keys act on is on the screen, and the viewport shows as many
\* bookmarks as it can: no render leaves the selection outside it or blank
\* rows below the last one.
SelectionShown ==
  mode = "manager" =>
    IF items = <<>> THEN selected = None
    ELSE /\ first < selected /\ selected <= first + rows
         /\ 0 <= first /\ first <= MaxFirst(Len(items), rows)

\* The manager shows the collection as it is on disk, unless its last read
\* failed.
RowsAreStored ==
  mode = "manager" /\ ~stale => items = sortBookmarks(stored)

\* The bookmark that is removed is the one whose name the confirmation showed,
\* however the list was reordered, closed and opened between the two presses.
RemovesTheNamedStep ==
    \A b \in stored \ stored' : asks => question = b

\* After a save the manager comes back with the new bookmark selected.
SavedIsSelectedStep ==
    stored' # stored /\ issued' # issued /\ mode' = "manager" =>
      items'[selected'].id = issued'
=============================================================================
